---------------------------- MODULE GetFileServer ----------------------------
(***************************************************************************)
(* The GETFILE server of project1: the accept loop of gfserver_serve       *)
(* (gfserver.c), one connection at a time, and the handler it calls for    *)
(* each request.  A detached handler is handler_get of handler.c, which    *)
(* leaves the work to a thread and returns at once; the other kind does    *)
(* the same work before it returns.                                        *)
(*                                                                         *)
(* Only the loop opens descriptors, and it closes one before it accepts    *)
(* the next, so accept always returns the same number (the lowest free):   *)
(* sock is the connection that number denotes at the moment.  A request    *)
(* comes in pieces[c] segments; a read returns one or several of them.     *)
(***************************************************************************)
EXTENDS Integers, Sequences, FiniteSets

CONSTANTS
    Clients,    \* the connections; each client sends one request
    Known,      \* the paths content_get knows
    Path,       \* Path[c]: the path client c asks for
    Size,       \* Size[k]: the length of the file of k, for k in Known
    Chunk,      \* BUFFER_SIZE of handler.c
    MaxThreads, \* -t of gfserver_main
    MaxPending, \* the listen queue
    Settings    \* the kinds of handler, requests and clients considered

NoConn == "no connection"
NotFound == "FILE_NOT_FOUND"

ASSUME ServerAssumption ==
    /\ IsFiniteSet(Clients) /\ NoConn \notin Clients
    /\ Known \cap {NotFound, "empty", "raw"} = {}
    /\ Known \subseteq {Path[c] : c \in Clients}
    /\ Size \in [Known -> Nat]
    /\ {Chunk, MaxThreads, MaxPending} \subseteq Nat \ {0}
    /\ Settings \subseteq [detached : BOOLEAN, pieces : [Clients -> Nat \ {0}],
                           aborts : SUBSET Clients]

Paths == {Path[c] : c \in Clients}

VARIABLES
    setting,    \* chosen once: whether the handler returns before its work is
                \* done, the segments a request arrives in, and the clients
                \* that may close their connection early
    boss,       \* where gfserver_serve is; "exited" when the process is gone
    sock,       \* the connection the descriptor denotes, or NoConn
    pending,    \* the listen queue
    text,       \* what is in header[] where a request has its path
    conn,       \* conn[c]: "none", "pending", "open" or "closed" (by the server)
    sent,       \* sent[c]: pieces of its request c has sent
    taken,      \* taken[c]: pieces the server has read
    gone,       \* gone[c]: what c did to its end of the connection
    got,        \* got[c]: what c received: <<k, 0>> is a header, <<k, i>> a byte
    task,       \* task[c]: where the handler for c's request is
    file,       \* file[c]: the file it opened
    pos,        \* pos[c]: its bytes_transferred
    workThreads \* threads past the gate

bossVars == <<boss, sock, text>>
netVars == <<pending, conn, sent, taken, gone, got>>
taskVars == <<task, file, pos, workThreads>>
vars == <<setting, bossVars, netVars, taskVars>>

Init ==
    /\ setting \in Settings
    /\ boss = "accept" /\ sock = NoConn /\ text = "empty"
    /\ pending = << >>
    /\ conn = [c \in Clients |-> "none"]
    /\ sent = [c \in Clients |-> 0]
    /\ taken = [c \in Clients |-> 0]
    /\ gone = [c \in Clients |-> "here"]
    /\ got = [c \in Clients |-> << >>]
    /\ task = [c \in Clients |-> "none"]
    /\ file = [c \in Clients |-> NotFound]
    /\ pos = [c \in Clients |-> 0]
    /\ workThreads = 0

Running == boss # "exited"

(***************************************************************************)
(* write on the descriptor.  It fails when the number denotes nothing, or  *)
(* once after the peer reset the connection; a write after that raises     *)
(* SIGPIPE, which nothing in the program catches or ignores, and so does   *)
(* the second write after the peer closed.                                 *)
(***************************************************************************)
WriteResult ==
    IF sock = NoConn THEN "error"
    ELSE CASE gone[sock] = "broken" -> "killed"
           [] gone[sock] = "reset" -> "error"
           [] OTHER -> "ok"

Write(items, next) ==
    /\ got' = IF WriteResult = "ok" THEN [got EXCEPT ![sock] = @ \o items] ELSE got
    /\ gone' = IF sock # NoConn /\ gone[sock] # "here"
               THEN [gone EXCEPT ![sock] = "broken"] ELSE gone
    /\ boss' = IF WriteResult = "killed" THEN "exited" ELSE next

-------------------------------------------------------------------------------
(* The loop of gfserver_serve. *)

(* accept, and header[] is cleared. *)
Accept ==
    /\ boss = "accept"
    /\ pending # << >>
    /\ sock' = Head(pending)
    /\ pending' = Tail(pending)
    /\ conn' = [conn EXCEPT ![Head(pending)] = "open"]
    /\ text' = "empty"
    /\ boss' = "read"
    /\ UNCHANGED <<setting, sent, taken, gone, got, taskVars>>

(***************************************************************************)
(* read gives some of the pieces that came; they are copied to the start   *)
(* of header[] (headRd stays 0, which also makes the test for a full       *)
(* buffer, line 162, vain).  A request read at once is parsed.  Of a       *)
(* request read in parts the end may be found, with a wrong text before    *)
(* it, or be missed when it was itself divided: the loop reads on.         *)
(***************************************************************************)
Read ==
    /\ boss = "read"
    /\ gone[sock] \notin {"reset", "broken"}
    /\ \E n \in taken[sock] + 1 .. sent[sock] :
          /\ taken' = [taken EXCEPT ![sock] = n]
          /\ boss' \in IF n < setting.pieces[sock] THEN {"read"}
                       ELSE IF taken[sock] = 0 THEN {"parse"} ELSE {"read", "parse_torn"}
    /\ text' = "raw"
    /\ UNCHANGED <<setting, sock, pending, conn, sent, gone, got, taskVars>>

(* The client closed before its request was complete: read returns 0. *)
ReadEnd ==
    /\ boss = "read"
    /\ gone[sock] = "closed"
    /\ taken[sock] = sent[sock]
    /\ Write(<< <<"ERROR", 0>> >>, "close")
    /\ UNCHANGED <<setting, sock, text, pending, conn, sent, taken, taskVars>>

(* read fails: exit(1). *)
ReadError ==
    /\ boss = "read"
    /\ gone[sock] \in {"reset", "broken"}
    /\ boss' = "exited"
    /\ UNCHANGED <<setting, sock, text, netVars, taskVars>>

CallDetached ==                 \* faulty variant: never waits for the handler
    /\ boss = "parse"
    /\ text' = Path[sock]
    /\ task' = [task EXCEPT ![sock] = "gate"]
    /\ boss' = "close"
    /\ UNCHANGED <<setting, sock, netVars, file, pos, workThreads>>

(* The request is split into words in place, and the handler is called. *)
Call ==
    /\ boss = "parse"
    /\ text' = Path[sock]
    /\ task' = [task EXCEPT ![sock] = "gate"]
    /\ boss' = IF setting.detached THEN "close" ELSE "handler"
    /\ UNCHANGED <<setting, sock, netVars, file, pos, workThreads>>

(* The words are not those of a request. *)
Refuse ==
    /\ boss = "parse_torn"
    /\ Write(<< <<NotFound, 0>> >>, "close")
    /\ UNCHANGED <<setting, sock, text, pending, conn, sent, taken, taskVars>>

ReturnUnclosed ==               \* faulty variant: the loop goes on without close
    /\ boss = "handler"
    /\ task[sock] = "done"
    /\ boss' = "accept"
    /\ UNCHANGED <<setting, sock, text, netVars, taskVars>>

(* A handler that works before it returns has returned. *)
Return ==
    /\ boss = "handler"
    /\ task[sock] = "done"
    /\ boss' = "close"
    /\ UNCHANGED <<setting, sock, text, netVars, taskVars>>

(* close(new_socket), whatever the handler left running. *)
Close ==
    /\ boss = "close"
    /\ conn' = [conn EXCEPT ![sock] = "closed"]
    /\ sock' = NoConn
    /\ boss' = "accept"
    /\ UNCHANGED <<setting, text, pending, sent, taken, gone, got, taskVars>>

-------------------------------------------------------------------------------
(* The handler: thread_function of handler.c. *)

TaskGoto(c, label) == task' = [task EXCEPT ![c] = label]

SignalForgotten(f, c, label) ==    \* faulty variant: no signal
    {[f EXCEPT ![c] = label]}

(* c goes on after pthread_cond_signal: one of the sleepers is awake. *)
TaskSignal(f, c, label) ==
    LET sleepers == {d \in Clients \ {c} : f[d] = "gate_wait"}
    IN  IF sleepers = {} THEN {[f EXCEPT ![c] = label]}
        ELSE {[f EXCEPT ![c] = label, ![d] = "gate"] : d \in sleepers}

PassGate(c) ==
    /\ Running
    /\ task[c] = "gate"
    /\ workThreads < MaxThreads
    /\ workThreads' = workThreads + 1
    /\ TaskGoto(c, "lookup")
    /\ UNCHANGED <<setting, bossVars, netVars, file, pos>>

WaitGate(c) ==
    /\ Running
    /\ task[c] = "gate"
    /\ workThreads >= MaxThreads
    /\ TaskGoto(c, "gate_wait")
    /\ UNCHANGED <<setting, bossVars, netVars, file, pos, workThreads>>

(* content_get reads the path where the caller left it: in header[]. *)
Lookup(c) ==
    /\ Running
    /\ task[c] = "lookup"
    /\ IF text \in Known
       THEN /\ file' = [file EXCEPT ![c] = text]
            /\ TaskGoto(c, "header")
       ELSE /\ TaskGoto(c, "miss_release")
            /\ UNCHANGED file
    /\ UNCHANGED <<setting, bossVars, netVars, pos, workThreads>>

MissRelease(c) ==
    /\ Running
    /\ task[c] = "miss_release"
    /\ workThreads' = workThreads - 1
    /\ task' \in TaskSignal(task, c, "miss_header")
    /\ UNCHANGED <<setting, bossVars, netVars, file, pos>>

MissHeader(c) ==
    /\ Running
    /\ task[c] = "miss_header"
    /\ Write(<< <<NotFound, 0>> >>, boss)
    /\ TaskGoto(c, "done")
    /\ UNCHANGED <<setting, sock, text, pending, conn, sent, taken, file, pos, workThreads>>

(* What gfs_sendheader returns is not looked at. *)
SendHeader(c) ==
    /\ Running
    /\ task[c] = "header"
    /\ Write(<< <<file[c], 0>> >>, boss)
    /\ TaskGoto(c, "loop")
    /\ UNCHANGED <<setting, sock, text, pending, conn, sent, taken, file, pos, workThreads>>

SendChunkReturns(c) ==          \* faulty variant: returns at once on a failed write
    /\ Running
    /\ task[c] = "loop"
    /\ pos[c] < Size[file[c]]
    /\ LET n == IF Size[file[c]] - pos[c] < Chunk THEN Size[file[c]] - pos[c] ELSE Chunk
       IN  /\ Write([i \in 1 .. n |-> <<file[c], pos[c] + i>>], boss)
           /\ IF WriteResult = "ok"
              THEN /\ pos' = [pos EXCEPT ![c] = @ + n]
                   /\ UNCHANGED task
              ELSE /\ pos' = [pos EXCEPT ![c] = -1]
                   /\ TaskGoto(c, "done")
    /\ UNCHANGED <<setting, sock, text, pending, conn, sent, taken, file, workThreads>>

(* pread at bytes_transferred and gfs_send; a failed write ends the loop. *)
SendChunk(c) ==
    /\ Running
    /\ task[c] = "loop"
    /\ pos[c] < Size[file[c]]
    /\ LET n == IF Size[file[c]] - pos[c] < Chunk THEN Size[file[c]] - pos[c] ELSE Chunk
       IN  /\ Write([i \in 1 .. n |-> <<file[c], pos[c] + i>>], boss)
           /\ IF WriteResult = "ok"
              THEN /\ pos' = [pos EXCEPT ![c] = @ + n]
                   /\ UNCHANGED task
              ELSE /\ pos' = [pos EXCEPT ![c] = -1]
                   /\ TaskGoto(c, "release")
    /\ UNCHANGED <<setting, sock, text, pending, conn, sent, taken, file, workThreads>>

EndLoopEarly(c) ==              \* faulty variant: the last chunk is not sent
    /\ Running
    /\ task[c] = "loop"
    /\ pos[c] + Chunk > Size[file[c]]
    /\ TaskGoto(c, "release")
    /\ UNCHANGED <<setting, bossVars, netVars, file, pos, workThreads>>

EndLoop(c) ==
    /\ Running
    /\ task[c] = "loop"
    /\ pos[c] >= Size[file[c]]
    /\ TaskGoto(c, "release")
    /\ UNCHANGED <<setting, bossVars, netVars, file, pos, workThreads>>

Release(c) ==
    /\ Running
    /\ task[c] = "release"
    /\ workThreads' = workThreads - 1
    /\ task' \in TaskSignal(task, c, "done")
    /\ UNCHANGED <<setting, bossVars, netVars, file, pos>>

SpuriousWakeup(c) ==
    /\ Running
    /\ task[c] = "gate_wait"
    /\ TaskGoto(c, "gate")
    /\ UNCHANGED <<setting, bossVars, netVars, file, pos, workThreads>>

-------------------------------------------------------------------------------
(* The clients. *)

Connect(c) ==
    /\ conn[c] = "none"
    /\ Len(pending) < MaxPending
    /\ pending' = Append(pending, c)
    /\ conn' = [conn EXCEPT ![c] = "pending"]
    /\ UNCHANGED <<setting, bossVars, sent, taken, gone, got, taskVars>>

SendPiece(c) ==
    /\ conn[c] \in {"pending", "open"}
    /\ gone[c] = "here"
    /\ sent[c] < setting.pieces[c]
    /\ sent' = [sent EXCEPT ![c] = @ + 1]
    /\ UNCHANGED <<setting, bossVars, pending, conn, taken, gone, got, taskVars>>

(* An early close: a reset when data it was sent is still unread. *)
Leave(c) ==
    /\ c \in setting.aborts
    /\ conn[c] \in {"pending", "open"}
    /\ gone[c] = "here"
    /\ \E how \in {"closed", "reset"} : gone' = [gone EXCEPT ![c] = how]
    /\ UNCHANGED <<setting, bossVars, pending, conn, sent, taken, got, taskVars>>

(* All clients were served; or the process is gone; or the loop still looks *)
(* for the end of a request it has read, while the client waits.            *)
Quiescent ==
    /\ \/ boss = "exited"
       \/ /\ boss = "accept" /\ pending = << >>
          /\ \A c \in Clients : task[c] \in {"none", "done"}
       \/ /\ boss = "read" /\ taken[sock] = setting.pieces[sock]
          /\ \A c \in Clients : task[c] \in {"none", "done"}
    /\ UNCHANGED vars

BossStep == Accept \/ Read \/ ReadEnd \/ ReadError \/ Call \/ Refuse \/ Return \/ Close

TaskStep(c) ==
    \/ PassGate(c) \/ WaitGate(c) \/ Lookup(c) \/ MissRelease(c) \/ MissHeader(c)
    \/ SendHeader(c) \/ SendChunk(c) \/ EndLoop(c) \/ Release(c)

Next ==
    \/ BossStep
    \/ \E c \in Clients : \/ TaskStep(c) \/ SpuriousWakeup(c)
                          \/ Connect(c) \/ SendPiece(c) \/ Leave(c)
    \/ Quiescent

(***************************************************************************)
(* The loop and every thread run when they can, and a client that stays    *)
(* connected sends its request.                                            *)
(***************************************************************************)
Fairness ==
    /\ WF_vars(BossStep)
    /\ \A c \in Clients : WF_vars(TaskStep(c)) /\ WF_vars(SendPiece(c))

Spec == Init /\ [][Next]_vars
FairSpec == Spec /\ Fairness

-------------------------------------------------------------------------------
(* Properties. *)

TypeOK ==
    /\ setting \in Settings
    /\ boss \in {"accept", "read", "parse", "parse_torn", "handler", "close", "exited"}
    /\ sock \in Clients \cup {NoConn}
    /\ boss # "exited" => (sock = NoConn <=> boss = "accept")
    /\ text \in Paths \cup {"empty", "raw"}
    /\ pending \in Seq(Clients)
    /\ conn \in [Clients -> {"none", "pending", "open", "closed"}]
    /\ sent \in [Clients -> Nat] /\ taken \in [Clients -> Nat]
    /\ gone \in [Clients -> {"here", "closed", "reset", "broken"}]
    /\ got \in [Clients -> Seq((Known \cup {NotFound, "ERROR"}) \X Nat)]
    /\ task \in [Clients -> {"none", "gate", "gate_wait", "lookup", "miss_release",
                             "miss_header", "header", "loop", "release", "done"}]
    /\ file \in [Clients -> Known \cup {NotFound}]
    /\ pos \in [Clients -> Int]
    /\ workThreads \in Int

(***************************************************************************)
(* What a client receives is the answer to its own request, in order.      *)
(***************************************************************************)
Answer(c) ==
    IF Path[c] \in Known
    THEN [i \in 1 .. Size[Path[c]] + 1 |-> <<Path[c], i - 1>>]
    ELSE << <<NotFound, 0>> >>
OwnAnswer == \A c \in Clients :
    \E n \in 0 .. Len(Answer(c)) : got[c] = SubSeq(Answer(c), 1, n)

(***************************************************************************)
(* With a handler that works before it returns it is, whatever the clients *)
(* do; only a request that arrives in parts or not at all is turned away   *)
(* instead, with a header and nothing behind it.                           *)
(***************************************************************************)
Plain == /\ ~setting.detached
         /\ setting.aborts = {}
         /\ \A c \in Clients : setting.pieces[c] = 1
TurnedAway(c) ==
    /\ setting.pieces[c] > 1 \/ gone[c] # "here"
    /\ got[c] \in { << <<NotFound, 0>> >>, << <<"ERROR", 0>> >> }
InlineOwnAnswer == ~setting.detached =>
    \A c \in Clients : \/ TurnedAway(c)
                       \/ \E n \in 0 .. Len(Answer(c)) : got[c] = SubSeq(Answer(c), 1, n)

(* With clients that stay and send at once the server is a file service. *)
Service == INSTANCE FileService WITH
    Reqs <- Clients, Cached <- Known, Want <- Path,
    asked <- {c \in Clients : conn[c] # "none"},
    header <- [c \in Clients |->
                  IF got[c] = << >> THEN "none"
                  ELSE IF got[c][1][1] = NotFound THEN "FILE_NOT_FOUND" ELSE "OK"],
    body <- [c \in Clients |-> IF got[c] = << >> THEN << >> ELSE Tail(got[c])],
    over <- {c \in Clients : \/ got[c] = << <<NotFound, 0>> >>
                             \/ conn[c] = "closed" /\ gone[c] = "here"}
ImplementsFileService ==
    (Plain => Service!Init) /\ [][Plain => [Service!Next]_(Service!vars)]_vars

(* And every client that asks is answered in full, whoever else asks. *)
EveryClientAnswered ==
    \A c \in Clients : Plain /\ conn[c] = "pending" ~> got[c] = Answer(c)

(***************************************************************************)
(* The threads of handler_get respect the gate on all their paths: a miss, *)
(* a whole transfer, a transfer cut short by a failed write.               *)
(***************************************************************************)
TaskPhase(l) ==
    CASE l = "none" -> "out"
      [] l = "gate" -> "entering"
      [] l = "gate_wait" -> "waiting"
      [] l \in {"miss_header", "done"} -> "left"
      [] OTHER -> "working"
Gate == INSTANCE WorkerGate WITH
    Threads <- Clients, Limit <- MaxThreads,
    count <- workThreads, gate <- [c \in Clients |-> TaskPhase(task[c])]
HandlerGateSpec == Gate!Spec

(***************************************************************************)
(* Whatever its clients do, a thread ends: it is never stuck on a dead     *)
(* connection, and its place is taken by the next.                         *)
(***************************************************************************)
ThreadsEnd ==
    \A c \in Clients : task[c] = "gate" ~> task[c] = "done" \/ boss = "exited"
===============================================================================
