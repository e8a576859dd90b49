--------------------------------- MODULE Echo ---------------------------------
(***************************************************************************)
(* The echo pair of project1: echoserver.c takes one connection after the  *)
(* other, receives once, sends its buffer back and goes on, without        *)
(* closing the socket; echoclient.c sends one message and receives once.   *)
(* A byte is the client it came from, or Zero.                             *)
(***************************************************************************)
EXTENDS Integers, Sequences

CONSTANTS
    Clients,     \* the clients, one message each
    Length,      \* Length[c]: the length of c's message
    Width,       \* the size of both buffers (16)
    MaxPending,  \* the listen queue
    Descriptors  \* the sockets the server's process may hold

Zero == 0         \* a cleared byte; not in Clients
NoClient == 0     \* not in Clients

VARIABLES
    server,     \* "start", "accept", "recv", "write" or "exited"
    sock,       \* the connection being served
    held,       \* accepted sockets, none of which is closed
    buffer,     \* the server's buffer
    pending,    \* the listen queue
    client,     \* client[c]: what it does next, or how it ended
    line,       \* line[c]: what its connection holds for the server: bytes
                \* sent and not received, or "reset"
    reply,      \* reply[c]: what it holds for c
    printed,    \* printed[c]: the bytes c received and prints
    overrun     \* the clients that print on, from memory never written

serverVars == <<server, sock, held, buffer>>
clientVars == <<client, printed, overrun>>
vars == <<serverVars, pending, clientVars, line, reply>>

Init ==
    /\ server = "start" /\ sock = NoClient /\ held = 0
    /\ buffer = [i \in 1 .. Width |-> Zero]
    /\ pending = << >>
    /\ client = [c \in Clients |-> "start"]
    /\ line = [c \in Clients |-> 0]
    /\ reply = [c \in Clients |-> << >>]
    /\ printed = [c \in Clients |-> << >>]
    /\ overrun = {}

(* Options, socket, setsockopt, bind: any of them may end the program. *)
Listen ==
    /\ server = "start"
    /\ server' \in {"accept", "exited"}
    /\ UNCHANGED <<sock, held, buffer, pending, clientVars, line, reply>>

(***************************************************************************)
(* Without a free descriptor accept returns -1, which does not end the     *)
(* loop (line 132): recv on -1 fails and the program exits.                *)
(***************************************************************************)
Accept ==
    /\ server = "accept" /\ pending # << >>
    /\ IF held < Descriptors
       THEN /\ sock' = Head(pending)
            /\ pending' = Tail(pending)
            /\ held' = held + 1
            /\ server' = "recv"
       ELSE /\ server' = "exited"
            /\ UNCHANGED <<sock, held, pending>>
    /\ UNCHANGED <<buffer, clientVars, line, reply>>

Uncleared(n) == [i \in 1 .. Width |-> IF i <= n THEN sock ELSE buffer[i]]  \* faulty: no memset

(* The buffer after memset and a recv of n bytes. *)
Filled(n) == [i \in 1 .. Width |-> IF i <= n THEN sock ELSE Zero]

MayReceiveSome(n) == n \in 1 .. line[sock]     \* faulty variant: waits for a byte

(* recv returns some of what was sent, or 0 when the client closed. *)
MayReceive(n) ==
    \/ n \in 1 .. line[sock]
    \/ n = 0 /\ line[sock] = 0 /\ client[sock] = "gone"

(* memset and recv, whose error ends the program. *)
Recv ==
    /\ server = "recv"
    /\ \/ /\ line[sock] = -1
          /\ server' = "exited"
          /\ UNCHANGED <<buffer, line>>
       \/ \E n \in 0 .. Width :
             /\ MayReceive(n)
             /\ buffer' = Filled(n)
             /\ line' = [line EXCEPT ![sock] = @ - n]
             /\ server' = "write"
    /\ UNCHANGED <<sock, held, pending, clientVars, reply>>

(* The whole buffer, whatever was received; the result is not looked at. *)
Write ==
    /\ server = "write"
    /\ reply' = [reply EXCEPT ![sock] = IF line[sock] = -1 THEN @ ELSE buffer]
    /\ server' = "accept"
    /\ UNCHANGED <<sock, held, buffer, pending, clientVars, line>>

(* socket and connect; refused when nobody listens. *)
Connect(c) ==
    /\ client[c] = "start"
    /\ \/ /\ server \notin {"start", "exited"} /\ Len(pending) < MaxPending
          /\ pending' = Append(pending, c)
          /\ client' = [client EXCEPT ![c] = "send"]
       \/ /\ server \in {"start", "exited"}
          /\ client' = [client EXCEPT ![c] = "failed"]
          /\ UNCHANGED pending
    /\ UNCHANGED <<serverVars, line, reply, printed, overrun>>

(* send; it may fail once the server is gone. *)
Send(c) ==
    /\ client[c] = "send"
    /\ \/ /\ line' = [line EXCEPT ![c] = Length[c]]
          /\ client' = [client EXCEPT ![c] = "recv"]
       \/ /\ server = "exited"
          /\ client' = [client EXCEPT ![c] = "failed"]
          /\ UNCHANGED line
    /\ UNCHANGED <<serverVars, pending, reply, printed, overrun>>

(***************************************************************************)
(* recv gives some of the reply, or nothing or an error once the server is *)
(* gone.  The client's buffer was not cleared, and it is printed up to the *)
(* first zero byte: without one among those received, what memory holds    *)
(* behind them is printed as well, if it is not zero by chance.            *)
(***************************************************************************)
Receive(c) ==
    /\ client[c] = "recv"
    /\ \/ \E n \in 1 .. Len(reply[c]) :
             printed' = [printed EXCEPT ![c] = SubSeq(reply[c], 1, n)]
       \/ server = "exited" /\ UNCHANGED printed
    /\ \/ UNCHANGED overrun
       \/ /\ \A i \in DOMAIN printed'[c] : printed'[c][i] # Zero
          /\ overrun' = overrun \cup {c}
    /\ client' = [client EXCEPT ![c] = "done"]
    /\ UNCHANGED <<serverVars, pending, line, reply>>

(* The client is ended: its connection is closed, or reset. *)
Leave(c) ==
    /\ client[c] \in {"send", "recv"}
    /\ client' = [client EXCEPT ![c] = "gone"]
    /\ \/ UNCHANGED line
       \/ line' = [line EXCEPT ![c] = -1]
    /\ UNCHANGED <<serverVars, pending, reply, printed, overrun>>

ServerStep == Listen \/ Accept \/ Recv \/ Write
ClientStep(c) == Connect(c) \/ Send(c) \/ Receive(c)

Next == ServerStep \/ \E c \in Clients : ClientStep(c) \/ Leave(c)

Spec == Init /\ [][Next]_vars

-------------------------------------------------------------------------------
(* Properties. *)

TypeOK ==
    /\ server \in {"start", "accept", "recv", "write", "exited"}
    /\ sock \in Clients \cup {NoClient} /\ held \in 0 .. Descriptors
    /\ buffer \in [1 .. Width -> Clients \cup {Zero}]
    /\ pending \in Seq(Clients)
    /\ client \in [Clients -> {"start", "send", "recv", "done", "failed", "gone"}]
    /\ line \in [Clients -> Int]
    /\ \A c \in Clients : {reply[c], printed[c]} \subseteq Seq(Clients \cup {Zero})
    /\ overrun \subseteq Clients

(***************************************************************************)
(* What a client receives is the beginning of its own message, padded with *)
(* zeros: the one buffer that serves all of them carries nothing over from *)
(* the message before, however short this one was or was received.  And so *)
(* a client that received more than its message prints nothing else.       *)
(***************************************************************************)
EchoOfOwnMessage ==
    \A c \in Clients :
        /\ \E n \in 0 .. Length[c] :
              \A i \in DOMAIN printed[c] : printed[c][i] = IF i <= n THEN c ELSE Zero
        /\ c \in overrun => Len(printed[c]) <= Length[c]

(***************************************************************************)
(* A client that waits for its echo does not wait for ever: not for        *)
(* another client that left, nor for a server that ran out of sockets.     *)
(* There is one thing that stops the server for good, and with it all who  *)
(* wait: a client with an empty message, which sends nothing and waits for *)
(* the echo of it, while the server waits to receive.                      *)
(***************************************************************************)
StoppedByEmptyMessage ==
    server = "recv" /\ Length[sock] = 0 /\ client[sock] = "recv"

EchoClientsEnd ==
    \/ <>[]StoppedByEmptyMessage
    \/ \A c \in Clients : client[c] = "recv" ~> client[c] # "recv"
===============================================================================
