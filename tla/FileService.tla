------------------------------ MODULE FileService ------------------------------
(***************************************************************************)
(* What the caching proxy promises its clients, with no threads, segments  *)
(* or semaphores: a request is answered once, FILE_NOT_FOUND exactly when  *)
(* the cache has no such file, and otherwise OK followed by the bytes of   *)
(* that file in order, the request being over when all of them were sent.  *)
(***************************************************************************)
EXTENDS Integers, Sequences

CONSTANTS
    Reqs,       \* the requests
    Cached,     \* the keys the cache knows
    Want,       \* Want[r]: the key request r asks for
    Size        \* Size[k]: the length of the file of key k, for k in Cached

VARIABLES
    asked,      \* the requests that reached the proxy
    header,     \* header[r]: the status sent to the client of r
    body,       \* body[r]: the bytes sent to it after the header
    over        \* the requests whose handler has returned

vars == <<asked, header, body, over>>

(* The bytes of a file: each knows its file and its position. *)
File(k) == [i \in 1 .. Size[k] |-> <<k, i>>]

Init ==
    /\ asked = {}
    /\ header = [r \in Reqs |-> "none"]
    /\ body = [r \in Reqs |-> << >>]
    /\ over = {}

Ask(r) ==
    /\ r \notin asked
    /\ asked' = asked \cup {r}
    /\ UNCHANGED <<header, body, over>>

Refuse(r) ==
    /\ r \in asked
    /\ header[r] = "none"
    /\ Want[r] \notin Cached
    /\ header' = [header EXCEPT ![r] = "FILE_NOT_FOUND"]
    /\ over' = over \cup {r}
    /\ UNCHANGED <<asked, body>>

Accept(r) ==
    /\ r \in asked
    /\ header[r] = "none"
    /\ Want[r] \in Cached
    /\ header' = [header EXCEPT ![r] = "OK"]
    /\ UNCHANGED <<asked, body, over>>

(* At least one more byte, in one piece, and never a byte of another file. *)
Deliver(r) ==
    /\ header[r] = "OK"
    /\ \E n \in Len(body[r]) + 1 .. Size[Want[r]] :
          body' = [body EXCEPT ![r] = SubSeq(File(Want[r]), 1, n)]
    /\ UNCHANGED <<asked, header, over>>

Finish(r) ==
    /\ header[r] = "OK"
    /\ r \notin over
    /\ body[r] = File(Want[r])
    /\ over' = over \cup {r}
    /\ UNCHANGED <<asked, header, body>>

Next == \E r \in Reqs :
    Ask(r) \/ Refuse(r) \/ Accept(r) \/ Deliver(r) \/ Finish(r)

Spec == Init /\ [][Next]_vars
===============================================================================
