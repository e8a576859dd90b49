------------------------------ MODULE CurlProxy ------------------------------
(***************************************************************************)
(* The GETFILE server of project3/proxy_server: the threads of the gfserver*)
(* library run handle_with_curl for one request after the other.  It       *)
(* fetches the whole file into memory with libcurl, announces its length   *)
(* and sends it.  A file is known by its length.                           *)
(***************************************************************************)
EXTENDS Integers, FiniteSets

CONSTANTS
    Requests,   \* the requests
    Origin,     \* Origin[r]: the length of the origin's file, -1 when it has none
    Framed,     \* the requests whose answer says how long it is
    Chunk,      \* the most libcurl hands to write_data at a time
    Threads     \* nworkerthreads

Pending == -2       \* no header was sent yet
Missing == -1       \* FILE_NOT_FOUND
Failure == -1       \* SERVER_FAILURE, and what a failed call returns
HeaderLen == 27     \* the bytes of the FILE_NOT_FOUND header

VARIABLES
    main,       \* "start", "serving" or "exited"
    handler,    \* handler[r]: where the handler for r is
    size,       \* size[r]: body.size
    lost,       \* the requests whose realloc failed: body.memory is NULL
    code,       \* code[r]: the response code, 0 before one came
    res,        \* res[r]: what curl_easy_perform returned
    held,       \* the requests whose curl handle is not cleaned up
    announced,  \* announced[r]: the length in the header, or Missing, Pending
    result      \* result[r]: what the handler returned

fetchVars == <<size, lost, code, res>>
vars == <<main, handler, fetchVars, held, announced, result>>

Init ==
    /\ main = "start"
    /\ handler = [r \in Requests |-> "idle"]
    /\ size = [r \in Requests |-> 0]
    /\ lost = {} /\ held = {}
    /\ code = [r \in Requests |-> 0]
    /\ res = [r \in Requests |-> "none"]
    /\ announced = [r \in Requests |-> Pending]
    /\ result = [r \in Requests |-> 0]

(* Options out of range, and the signal handler, end the program. *)
Serve ==
    /\ main = "start"
    /\ main' \in {"serving", "exited"}
    /\ UNCHANGED <<handler, fetchVars, held, announced, result>>

Stop ==
    /\ main = "serving"
    /\ main' = "exited"
    /\ UNCHANGED <<handler, fetchVars, held, announced, result>>

At(r, label) == main = "serving" /\ handler[r] = label
Goto(r, label) == handler' = [handler EXCEPT ![r] = label]

(* A free thread of the library calls the handler: curl_easy_init. *)
Handle(r) ==
    /\ At(r, "idle")
    /\ Cardinality({q \in Requests : handler[q] \notin {"idle", "done"}}) < Threads
    /\ held' = held \cup {r}
    /\ Goto(r, "perform")
    /\ UNCHANGED <<main, fetchVars, announced, result>>

(***************************************************************************)
(* The status line comes: 404 without a file, 200 with it, or any other    *)
(* code (a redirection, which is not followed, a refusal, an error of the  *)
(* server) with or without it: 500 stands for them.  The page that comes   *)
(* with these is received and thrown away, and is not followed here.       *)
(***************************************************************************)
Respond(r) ==
    /\ At(r, "perform") /\ code[r] = 0
    /\ \E n \in {IF Origin[r] = -1 THEN 404 ELSE 200, 500} : code' = [code EXCEPT ![r] = n]
    /\ UNCHANGED <<main, handler, size, lost, res, held, announced, result>>

GrownOver(r, n) == size[r] + Chunk  \* faulty variant: every piece counts as a full one

Grown(r, n) == size[r] + n

(* write_data: the piece is appended, or realloc fails and the transfer ends. *)
WriteData(r) ==
    /\ At(r, "perform") /\ code[r] = 200
    /\ \E n \in 1 .. Origin[r] - size[r] :
          /\ n <= Chunk
          /\ \/ /\ size' = [size EXCEPT ![r] = Grown(r, n)]
                /\ UNCHANGED <<handler, lost, res>>
             \/ /\ lost' = lost \cup {r}
                /\ res' = [res EXCEPT ![r] = "WRITE_ERROR"]
                /\ Goto(r, "answer")
                /\ UNCHANGED size
    /\ UNCHANGED <<main, code, held, announced, result>>

(***************************************************************************)
(* curl_easy_perform returns.  A part of the file is an error when libcurl *)
(* was told the length, else the end of the connection ends it well; and   *)
(* what has come in whole may still end in an error.                       *)
(***************************************************************************)
Performed(r) ==
    /\ At(r, "perform")
    /\ \E e \in {"OK", "FAILED"} :
          /\ e = "OK" /\ code[r] = 200 /\ r \in Framed => size[r] = Origin[r]
          /\ res' = [res EXCEPT ![r] = e]
    /\ Goto(r, "answer")
    /\ UNCHANGED <<main, size, lost, code, held, announced, result>>

ErrorSeen(r) == res[r] = "ABORTED_BY_CALLBACK"

AnswerMissUncleaned(r) ==       \* faulty variant: no curl_easy_cleanup
    /\ At(r, "answer") /\ (code[r] # 200 \/ ErrorSeen(r))
    /\ announced' = [announced EXCEPT ![r] = Missing]
    /\ Goto(r, "done")
    /\ UNCHANGED <<main, fetchVars, held, result>>

(* FILE_NOT_FOUND; what gfs_sendheader returns, the bytes it sent or an *)
(* error, is what the handler returns.                                  *)
AnswerMiss(r) ==
    /\ At(r, "answer") /\ (code[r] # 200 \/ ErrorSeen(r))
    /\ held' = held \ {r}
    /\ announced' = [announced EXCEPT ![r] = Missing]
    /\ \E n \in {Failure, 0, HeaderLen} : result' = [result EXCEPT ![r] = n]
    /\ Goto(r, "done")
    /\ UNCHANGED <<main, fetchVars>>

(* OK with the length of what was received; the header's result is ignored. *)
AnswerHeader(r) ==
    /\ At(r, "answer") /\ code[r] = 200 /\ ~ErrorSeen(r)
    /\ announced' = [announced EXCEPT ![r] = size[r]]
    /\ Goto(r, "send")
    /\ UNCHANGED <<main, fetchVars, held, result>>

(***************************************************************************)
(* gfs_send of the whole body, which may send less or fail, and fails      *)
(* without memory: then the handler returns SERVER_FAILURE at once,        *)
(* without the two lines that clean up.                                    *)
(***************************************************************************)
Send(r) ==
    /\ At(r, "send")
    /\ \E n \in Failure .. size[r] :
          /\ r \in lost => n = IF size[r] = 0 THEN 0 ELSE Failure
          /\ IF n = size[r]
             THEN held' = held \ {r} /\ result' = [result EXCEPT ![r] = n]
             ELSE UNCHANGED held /\ result' = [result EXCEPT ![r] = Failure]
    /\ Goto(r, "done")
    /\ UNCHANGED <<main, fetchVars, announced>>

HandlerStep(r) ==
    \/ Handle(r) \/ Respond(r) \/ WriteData(r) \/ Performed(r)
    \/ AnswerMiss(r) \/ AnswerHeader(r) \/ Send(r)

Next == Serve \/ Stop \/ \E r \in Requests : HandlerStep(r)

Spec == Init /\ [][Next]_vars

-------------------------------------------------------------------------------
(* Properties. *)

TypeOK ==
    /\ main \in {"start", "serving", "exited"}
    /\ handler \in [Requests -> {"idle", "perform", "answer", "send", "done"}]
    /\ size \in [Requests -> Nat] /\ lost \subseteq Requests /\ held \subseteq Requests
    /\ code \in [Requests -> {0, 200, 404, 500}]
    /\ res \in [Requests -> {"none", "OK", "FAILED", "WRITE_ERROR"}]
    /\ announced \in [Requests -> Int] /\ result \in [Requests -> Int]

(***************************************************************************)
(* What an answer that is not a failure is worth.  FILE_NOT_FOUND says     *)
(* that the origin did not answer with 200, file or no file.  OK says that *)
(* the bytes sent, as many as announced, are the beginning of the origin's *)
(* file; and all of it, unless libcurl ended the transfer with an error    *)
(* (line 62 asks for one that cannot occur here) or did not know how long  *)
(* the file is.                                                            *)
(***************************************************************************)
CurlAnswerTrue ==
    \A r \in Requests : handler[r] = "done" /\ result[r] # Failure =>
        \/ announced[r] = Missing /\ code[r] # 200
        \/ /\ announced[r] \in 0 .. Origin[r] /\ result[r] = announced[r]
           /\ announced[r] = Origin[r] \/ res[r] # "OK" \/ r \notin Framed

(* A request that is over has given its curl handle back, however it ended, *)
(* but for the return in the middle (line 67).                              *)
CurlHandlesReturned ==
    \A r \in held : handler[r] = "done" => announced[r] # Missing /\ result[r] = Failure
===============================================================================
