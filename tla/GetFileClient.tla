----------------------------- MODULE GetFileClient -----------------------------
(***************************************************************************)
(* The GETFILE client of project1: the rounds of downloads that main of    *)
(* gfclient_mt/gfclient_download.c starts and joins, and gfc_perform of    *)
(* gfclient/gfclient.c, which each of its threads runs.                    *)
(*                                                                         *)
(* What a server sends is a sequence of units: HeadLen of them are a       *)
(* header, the last one holding its end, the others the bytes of a file.   *)
(* The client writes the header it found anew to learn its length; this    *)
(* text is Extra units shorter than the one it received: 0 for a server    *)
(* that sends "GETFILE OK n" and the end mark, 1 for one that sends        *)
(* another space between them, as gfserver.c does.                         *)
(*                                                                         *)
(* Request k is the k-th path of the workload; localPath numbers the files *)
(* in the same order, so k also names the file it is stored in.            *)
(***************************************************************************)
EXTENDS Integers, Sequences, FiniteSets, SequencesExt

CONSTANTS
    NThreads,   \* the values of -t that are tried
    NRequests,  \* -n: the number of rounds
    Want,       \* Want[k]: the path of request k
    Reply,      \* Reply[p]: the header the server has for path p
    Size,       \* Size[p]: the length of the file of p, when Reply[p] = "OK"
    HeadLen,    \* the length of a header
    Extra,      \* see above
    Buffer,     \* buffer_size of gfc_perform
    Flaky       \* the requests whose connection may fail

Requests == DOMAIN Want
Paths == {Want[k] : k \in Requests}

ASSUME ClientAssumption ==
    /\ NThreads \subseteq Nat \ {0} /\ NRequests \in Nat
    /\ Want \in Seq(Paths)
    /\ \A n \in NThreads : n * NRequests <= Len(Want)
    /\ Reply \in [Paths -> {"OK", "FILE_NOT_FOUND", "ERROR", "endless"}]
    /\ Size \in [Paths -> Nat]
    /\ Extra \in {0, 1} /\ HeadLen \in Nat /\ Buffer \in Nat
    /\ Extra + 1 < HeadLen /\ HeadLen < Buffer
    /\ Flaky \subseteq Requests

VARIABLES
    nthreads,   \* -t
    main,       \* what main does: "create", "join" or "exited"
    round,      \* its i
    slot,       \* its j
    localPath,  \* its local_path: the file opened last
    disk,       \* the files in the directory
    joined,     \* the requests main has waited for
    pc,         \* pc[k]: where gfc_perform is for request k
    link,       \* link[k]: the state of its connection
    taken,      \* taken[k]: the units it has read
    status,     \* status[k], as gfr->status; "unset" before it is assigned
    file,       \* file[k]: what was written; its length is bytesreceived
    result      \* result[k]: what gfc_perform returned

mainVars == <<nthreads, main, round, slot, localPath, disk, joined>>
threadVars == <<pc, link, taken, status, file, result>>
vars == <<mainVars, threadVars>>

Init ==
    /\ nthreads \in NThreads
    /\ main = "create" /\ round = 0 /\ slot = 0 /\ localPath = 0
    /\ disk = {} /\ joined = {}
    /\ pc = [k \in Requests |-> "none"]
    /\ link = [k \in Requests |-> "up"]
    /\ taken = [k \in Requests |-> 0]
    /\ status = [k \in Requests |-> "unset"]
    /\ file = [k \in Requests |-> << >>]
    /\ result = [k \in Requests |-> 0]

-------------------------------------------------------------------------------
(* The server's side: what it sends for request k, and connections that fail. *)

Body(k) == [i \in 1 .. Size[Want[k]] |-> <<Want[k], i>>]
Header == [i \in 1 .. HeadLen |-> <<"header", i>>]

Stream(k) ==
    CASE Reply[Want[k]] = "OK" -> Header \o Body(k)
      [] Reply[Want[k]] = "endless" -> [i \in 1 .. Buffer |-> <<"header", 0>>]
      [] OTHER -> Header

LinkFails(k) ==
    /\ k \in Flaky
    /\ pc[k] \in {"start", "read_header", "read_body"}
    /\ link[k] = "up"
    /\ \E how \in {"closed", "reset"} : link' = [link EXCEPT ![k] = how]
    /\ UNCHANGED <<mainVars, pc, taken, status, file, result>>

-------------------------------------------------------------------------------
(* gfc_perform. *)

Goto(k, label) == pc' = [pc EXCEPT ![k] = label]

Finish(k, s, r) ==
    /\ pc' = [pc EXCEPT ![k] = "done"]
    /\ status' = [status EXCEPT ![k] = s]
    /\ result' = [result EXCEPT ![k] = r]

(* socket, gethostbyname or connect fails, and nothing else is assigned. *)
ConnectFails(k) ==
    /\ pc[k] = "start"
    /\ link[k] # "up"
    /\ Finish(k, status[k], -1)
    /\ UNCHANGED <<mainVars, link, taken, file>>

SendFails(k) ==
    /\ pc[k] = "start"
    /\ link[k] = "reset"
    /\ Finish(k, "INVALID", -1)
    /\ UNCHANGED <<mainVars, link, taken, file>>

(* connect, and send of the request. *)
Ask(k) ==
    /\ pc[k] = "start"
    /\ link[k] # "reset"
    /\ Goto(k, "read_header")
    /\ UNCHANGED <<mainVars, link, taken, status, file, result>>

ReadFailsRetries(k) ==          \* faulty variant: tries again after an error
    /\ pc[k] \in {"read_header", "read_body"}
    /\ link[k] = "reset"
    /\ UNCHANGED vars

(* read returns -1: the status stays as it was. *)
ReadFails(k) ==
    /\ pc[k] \in {"read_header", "read_body"}
    /\ link[k] = "reset"
    /\ Finish(k, status[k], -1)
    /\ UNCHANGED <<mainVars, link, taken, file>>

ReadEndAsSuccess(k) ==          \* faulty variant: an early end is no error
    /\ pc[k] \in {"read_header", "read_body"}
    /\ \/ link[k] = "closed"
       \/ link[k] = "up" /\ taken[k] = Len(Stream(k))
    /\ Finish(k, IF pc[k] = "read_body" THEN "OK" ELSE "INVALID", 0)
    /\ UNCHANGED <<mainVars, link, taken, file>>

(* read returns 0: OK once the header was found, yet the call has failed. *)
ReadEnd(k) ==
    /\ pc[k] \in {"read_header", "read_body"}
    /\ \/ link[k] = "closed"
       \/ link[k] = "up" /\ taken[k] = Len(Stream(k))
    /\ Finish(k, IF pc[k] = "read_body" THEN "OK" ELSE "INVALID", -1)
    /\ UNCHANGED <<mainVars, link, taken, file>>

(* read returns n units. *)
CanTake(k, n) ==
    /\ link[k] # "reset"
    /\ taken[k] + n <= Len(Stream(k))
    /\ taken' = [taken EXCEPT ![k] = @ + n]

(* The header is not complete, or the buffer is full of something else. *)
ReadPartOfHeader(k) ==
    /\ pc[k] = "read_header"
    /\ \E n \in 1 .. Buffer - taken[k] :
          /\ CanTake(k, n)
          /\ taken[k] + n < HeadLen \/ Reply[Want[k]] = "endless"
          /\ IF taken[k] + n >= Buffer
             THEN Finish(k, "INVALID", -1)
             ELSE UNCHANGED <<pc, status, result>>
    /\ UNCHANGED <<mainVars, link, file>>

ReadHeaderNoExtra(k) ==         \* faulty variant: the bytes after the header are lost
    /\ pc[k] = "read_header"
    /\ Reply[Want[k]] = "OK" /\ Size[Want[k]] > 0
    /\ \E n \in HeadLen - taken[k] .. Buffer - taken[k] :
          /\ CanTake(k, n)
          /\ Goto(k, "read_body")
          /\ status' = [status EXCEPT ![k] = "OK"]
    /\ UNCHANGED <<mainVars, link, file, result>>

(***************************************************************************)
(* The header is complete and gives a length: what came after it, counted  *)
(* with the client's own header, is the first part of the file.            *)
(***************************************************************************)
ReadHeader(k) ==
    /\ pc[k] = "read_header"
    /\ Reply[Want[k]] = "OK" /\ Size[Want[k]] > 0
    /\ \E n \in HeadLen - taken[k] .. Buffer - taken[k] :
          LET own == HeadLen - Extra
              extra == taken[k] + n - own
              filelen == Size[Want[k]]
          IN  /\ CanTake(k, n)
              /\ IF extra >= filelen
                 THEN /\ file' = [file EXCEPT ![k] = SubSeq(Stream(k), own + 1, own + filelen)]
                      /\ Finish(k, "OK", 0)
                 ELSE /\ file' = [file EXCEPT ![k] = SubSeq(Stream(k), own + 1, own + extra)]
                      /\ Goto(k, "read_body")
                      /\ status' = [status EXCEPT ![k] = "OK"]
                      /\ UNCHANGED result
    /\ UNCHANGED <<mainVars, link>>

(* The other headers; the comparisons are with the client's own text. *)
ReadRefusal(k) ==
    /\ pc[k] = "read_header"
    /\ \/ Reply[Want[k]] \in {"FILE_NOT_FOUND", "ERROR"}
       \/ Reply[Want[k]] = "OK" /\ Size[Want[k]] = 0
    /\ \E n \in HeadLen - taken[k] .. Buffer - taken[k] : CanTake(k, n)
    /\ IF Reply[Want[k]] # "OK" /\ Extra = 0
       THEN Finish(k, Reply[Want[k]], 0)
       ELSE Finish(k, "INVALID", -1)
    /\ UNCHANGED <<mainVars, link, file>>

(* More of the file, and no more than the header announced. *)
ReadBody(k) ==
    /\ pc[k] = "read_body"
    /\ \E n \in 1 .. Buffer :
          LET missing == Size[Want[k]] - Len(file[k])
              kept == IF n < missing THEN n ELSE missing
          IN  /\ CanTake(k, n)
              /\ file' = [file EXCEPT ![k] = @ \o SubSeq(Stream(k), taken[k] + 1, taken[k] + kept)]
              /\ IF n >= missing THEN Finish(k, status[k], 0)
                                 ELSE UNCHANGED <<pc, status, result>>
    /\ UNCHANGED <<mainVars, link>>

-------------------------------------------------------------------------------
(* main of gfclient_download.c. *)

Current == round * nthreads + slot + 1

(* The file is opened before the request is made, in local_path. *)
Create ==
    /\ main = "create" /\ round < NRequests
    /\ localPath' = Current
    /\ disk' = disk \cup {Current}
    /\ Goto(Current, "start")
    /\ IF slot + 1 < nthreads
       THEN slot' = slot + 1 /\ UNCHANGED main
       ELSE slot' = 0 /\ main' = "join"
    /\ UNCHANGED <<nthreads, round, joined, link, taken, status, file, result>>

NextSlotAllButLast ==           \* faulty variant: the last thread is not joined
    IF slot + 2 < nthreads
    THEN slot' = slot + 1 /\ UNCHANGED <<main, round>>
    ELSE slot' = 0 /\ main' = "create" /\ round' = round + 1

NextSlot ==
    IF slot + 1 < nthreads
    THEN slot' = slot + 1 /\ UNCHANGED <<main, round>>
    ELSE slot' = 0 /\ main' = "create" /\ round' = round + 1

JoinIgnoringResult ==           \* faulty variant: only the status is looked at
    /\ main = "join"
    /\ pc[Current] = "done"
    /\ joined' = joined \cup {Current}
    /\ disk' = IF status[Current] # "OK" THEN disk \ {localPath} ELSE disk
    /\ NextSlot
    /\ UNCHANGED <<nthreads, localPath, threadVars>>

(* The file of a failed request is removed: the one local_path names now. *)
Join ==
    /\ main = "join"
    /\ pc[Current] = "done"
    /\ joined' = joined \cup {Current}
    /\ disk' = IF result[Current] < 0 \/ status[Current] # "OK" THEN disk \ {localPath} ELSE disk
    /\ NextSlot
    /\ UNCHANGED <<nthreads, localPath, threadVars>>

Exit ==
    /\ main = "create" /\ round = NRequests
    /\ main' = "exited"
    /\ UNCHANGED <<nthreads, round, slot, localPath, disk, joined, threadVars>>

Quiescent == main = "exited" /\ UNCHANGED vars

ThreadStep(k) ==
    \/ ConnectFails(k) \/ SendFails(k) \/ Ask(k) \/ ReadFails(k) \/ ReadEnd(k)
    \/ ReadPartOfHeader(k) \/ ReadHeader(k) \/ ReadRefusal(k) \/ ReadBody(k)

MainStep == Create \/ Join \/ Exit

Next ==
    \/ MainStep
    \/ \E k \in Requests : ThreadStep(k) \/ LinkFails(k)
    \/ Quiescent

(***************************************************************************)
(* main and the threads run when they can; a server that is not cut off    *)
(* sends the whole of its answer and then closes.                          *)
(***************************************************************************)
Fairness == WF_vars(MainStep) /\ \A k \in Requests : WF_vars(ThreadStep(k))

Spec == Init /\ [][Next]_vars
FairSpec == Spec /\ Fairness

-------------------------------------------------------------------------------
(* Properties. *)

TypeOK ==
    /\ nthreads \in NThreads
    /\ main \in {"create", "join", "exited"}
    /\ round \in 0 .. NRequests /\ slot \in 0 .. nthreads - 1
    /\ localPath \in Requests \cup {0}
    /\ disk \subseteq Requests /\ joined \subseteq Requests
    /\ pc \in [Requests -> {"none", "start", "read_header", "read_body", "done"}]
    /\ link \in [Requests -> {"up", "closed", "reset"}]
    /\ taken \in [Requests -> Nat]
    /\ status \in [Requests -> {"unset", "OK", "FILE_NOT_FOUND", "ERROR", "INVALID"}]
    /\ file \in [Requests -> Seq((Paths \cup {"header"}) \X Nat)]
    /\ result \in [Requests -> {-1, 0}]
    /\ joined = 1 .. round * nthreads + (IF main = "join" THEN slot ELSE 0)

(***************************************************************************)
(* However the answer is divided among reads and whenever the connection   *)
(* fails, what is written to a file is a beginning of the file that was    *)
(* asked for (gfc_perform, the pointers and lengths given to writefunc).   *)
(***************************************************************************)
NothingForeignWritten == \A k \in Requests : IsPrefix(file[k], Body(k))

(***************************************************************************)
(* A call that returned 0 with a status has the server's status, and with  *)
(* OK the whole file.                                                      *)
(***************************************************************************)
Succeeded(k) == pc[k] = "done" /\ result[k] = 0 /\ status[k] = "OK"
SuccessIsTrue == \A k \in Requests :
    pc[k] = "done" /\ result[k] = 0 =>
        /\ status[k] = Reply[Want[k]]
        /\ status[k] = "OK" => file[k] = Body(k)

(***************************************************************************)
(* In a round of one thread, and in a round without failures, exactly the  *)
(* files that were received are left (the unlink calls of main).           *)
(***************************************************************************)
Round(k) == {j \in Requests : (j - 1) \div nthreads = (k - 1) \div nthreads}
Settled(k) == k \in joined /\ (nthreads = 1 \/ \A j \in Round(k) : Succeeded(j))
ReceivedFilesKept == \A k \in Requests :
    Settled(k) => (k \in disk <=> Reply[Want[k]] = "OK" /\ file[k] = Body(k) /\ Succeeded(k))

(* The same in every round: main removes the file of the request that failed. *)
FailedFileRemoved == \A k \in Requests :
    Round(k) \subseteq joined => (k \in disk <=> Succeeded(k))

(* All rounds end, whatever happens to the connections. *)
EveryRoundEnds == <>(main = "exited")
===============================================================================
