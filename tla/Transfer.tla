------------------------------- MODULE Transfer -------------------------------
(***************************************************************************)
(* The file transfer pair of project1: transferserver.c sends its one file *)
(* to each connection and closes it; transferclient.c appends what it      *)
(* reads to a file of its own.  The bytes are the numbers 1 .. Size.       *)
(***************************************************************************)
EXTENDS Integers, Sequences

CONSTANTS
    Clients,    \* the clients, each with an output file of its own
    Size,       \* the length of the server's file
    BufSize,    \* BUFSIZE of both programs
    MaxPending  \* the listen queue

NoClient == 0     \* not in Clients
Junk == 0       \* not a byte of the file

VARIABLES
    server,     \* "start", "accept", "loop", "close" or "exited"
    sock,       \* the connection being served
    pos,        \* the position in its file
    pending,    \* the listen queue
    stream,     \* stream[c]: bytes sent to c and not read yet
    link,       \* link[c]: c's end of the connection
    far,        \* far[c]: what a write of the server meets there
    misread,    \* the clients served when fread failed: "Error reading"
    client,     \* client[c]: what it does next, or how it ended
    output      \* output[c]: what this run of c appended to its file

serverVars == <<server, sock, pos>>
vars == <<serverVars, pending, stream, link, far, misread, client, output>>

Init ==
    /\ server = "start" /\ sock = NoClient /\ pos = 0
    /\ pending = << >>
    /\ stream = [c \in Clients |-> << >>]
    /\ link = [c \in Clients |-> "none"]
    /\ far = [c \in Clients |-> "here"]
    /\ misread = {}
    /\ client = [c \in Clients |-> "start"]
    /\ output = [c \in Clients |-> << >>]

(* Options, socket, setsockopt, bind: any of them may end the program. *)
Listen ==
    /\ server = "start"
    /\ server' \in {"accept", "exited"}
    /\ UNCHANGED <<sock, pos, pending, stream, link, far, misread, client, output>>

(* accept and fopen; a file that is not there ends the program. *)
Accept ==
    /\ server = "accept" /\ pending # << >>
    /\ sock' = Head(pending)
    /\ pending' = Tail(pending)
    /\ pos' = 0
    /\ server' \in {"loop", "exited"}
    /\ UNCHANGED <<stream, link, far, misread, client, output>>

Piece(n) == [i \in 1 .. n |-> pos + i]

(***************************************************************************)
(* write, its result not looked at: the first one to a client that closed  *)
(* is lost, the next one raises SIGPIPE, which ends the program.           *)
(***************************************************************************)
Write(bytes, next) ==
    /\ stream' = IF far[sock] = "here" THEN [stream EXCEPT ![sock] = @ \o bytes] ELSE stream
    /\ far' = IF far[sock] = "here" THEN far ELSE [far EXCEPT ![sock] = "broken"]
    /\ server' = IF far[sock] = "broken" THEN "exited" ELSE next

LastReadAtMost(n) == n <= BufSize       \* faulty variant: ends with a full buffer

LastRead(n) == n < BufSize

(***************************************************************************)
(* fread, and write when it gave something; a short read ends the loop.    *)
(* It is short at the end of the file, or anywhere when fread fails, which *)
(* is printed (line 159) and nothing else.                                 *)
(***************************************************************************)
SendPiece ==
    LET most == IF Size - pos < BufSize THEN Size - pos ELSE BufSize
    IN  /\ server = "loop"
        /\ \E n \in 0 .. most :
              /\ \/ n = most /\ UNCHANGED misread
                 \/ n < BufSize /\ misread' = misread \cup {sock}
              /\ LET next == IF LastRead(n) THEN "close" ELSE "loop"
                 IN  IF n > 0 THEN Write(Piece(n), next)
                     ELSE server' = next /\ UNCHANGED <<stream, far>>
              /\ pos' = pos + n
        /\ UNCHANGED <<sock, pending, link, client, output>>

CloseForgotten == link          \* faulty variant: only the file is closed

(* What the clients see of close(new_socket). *)
Closed == [link EXCEPT ![sock] = IF @ = "open" THEN "ended" ELSE @]

Close ==
    /\ server = "close"
    /\ link' = Closed
    /\ server' = "accept"
    /\ UNCHANGED <<sock, pos, pending, stream, far, misread, client, output>>

(* socket, connect and fopen; any of them may end the client. *)
Connect(c) ==
    /\ client[c] = "start"
    /\ \/ /\ server \notin {"start", "exited"} /\ Len(pending) < MaxPending
          /\ pending' = Append(pending, c)
          /\ link' = [link EXCEPT ![c] = "open"]
          /\ client' = [client EXCEPT ![c] = "read"]
       \/ /\ client' = [client EXCEPT ![c] = "failed"]
          /\ UNCHANGED <<pending, link>>
    /\ UNCHANGED <<serverVars, stream, far, misread, output>>

(* read gives some bytes, and fwrite appends them. *)
Read(c) ==
    /\ client[c] = "read"
    /\ \E n \in 1 .. Len(stream[c]) :
          /\ n <= BufSize
          /\ output' = [output EXCEPT ![c] = @ \o SubSeq(stream[c], 1, n)]
          /\ stream' = [stream EXCEPT ![c] = SubSeq(@, n + 1, Len(@))]
    /\ UNCHANGED <<serverVars, pending, link, far, misread, client>>

(* Connections the server never accepted fail when it exits. *)
Unaccepted(c) == \E i \in DOMAIN pending : pending[i] = c

(* read gives 0: the loop is over and the client returns 0. *)
ReadEnd(c) ==
    /\ client[c] = "read" /\ stream[c] = << >>
    /\ \/ link[c] \in {"ended", "over"}
       \/ link[c] = "open" /\ server = "exited" /\ ~Unaccepted(c)
    /\ client' = [client EXCEPT ![c] = "done"]
    /\ UNCHANGED <<serverVars, pending, stream, link, far, misread, output>>

(***************************************************************************)
(* read gives -1, which keeps the loop going (line 119, so that the test   *)
(* behind it is never true): fwrite is asked for (size_t)-1 bytes, far     *)
(* beyond the buffer.  The client crashes, or appends what it finds there  *)
(* and reads on, to get 0.                                                 *)
(***************************************************************************)
ReadError(c) ==
    /\ client[c] = "read"
    /\ \/ link[c] = "reset"
       \/ link[c] = "open" /\ server = "exited" /\ Unaccepted(c)
    /\ \/ client' = [client EXCEPT ![c] = "crashed"] /\ UNCHANGED output
       \/ output' = [output EXCEPT ![c] = Append(@, Junk)] /\ UNCHANGED client
    /\ link' = [link EXCEPT ![c] = "over"]
    /\ stream' = [stream EXCEPT ![c] = << >>]
    /\ UNCHANGED <<serverVars, pending, far, misread>>

(* The connection is given up, or the client is ended. *)
Reset(c) ==
    /\ client[c] = "read" /\ link[c] \in {"open", "ended"} /\ far[c] = "here"
    /\ link' = [link EXCEPT ![c] = "reset"]
    /\ far' = [far EXCEPT ![c] = "closed"]
    /\ UNCHANGED <<serverVars, pending, stream, misread, client, output>>

Leave(c) ==
    /\ client[c] = "read" /\ link[c] \in {"open", "ended"}
    /\ client' = [client EXCEPT ![c] = "gone"]
    /\ link' = [link EXCEPT ![c] = "over"]
    /\ far' = [far EXCEPT ![c] = "closed"]
    /\ UNCHANGED <<serverVars, pending, stream, misread, output>>

ServerStep == Listen \/ Accept \/ SendPiece \/ Close
ClientStep(c) == Connect(c) \/ Read(c) \/ ReadEnd(c) \/ ReadError(c)

Next ==
    \/ ServerStep
    \/ \E c \in Clients : ClientStep(c) \/ Reset(c) \/ Leave(c)

Spec == Init /\ [][Next]_vars

-------------------------------------------------------------------------------
(* Properties. *)

TypeOK ==
    /\ server \in {"start", "accept", "loop", "close", "exited"}
    /\ sock \in Clients \cup {NoClient} /\ pos \in 0 .. Size
    /\ pending \in Seq(Clients)
    /\ \A c \in Clients : stream[c] \in Seq(1 .. Size) /\ output[c] \in Seq(0 .. Size)
    /\ link \in [Clients -> {"none", "open", "ended", "reset", "over"}]
    /\ far \in [Clients -> {"here", "closed", "broken"}]
    /\ misread \subseteq Clients
    /\ client \in [Clients -> {"start", "read", "done", "failed", "crashed", "gone"}]

(***************************************************************************)
(* A client that ends well over a connection that did not break, beside a  *)
(* server that runs, has appended the beginning of the file, in order,     *)
(* whatever the other clients do; and all of it, also when its length is a *)
(* multiple of the buffer's, unless the server failed to read the file and *)
(* closed as if it were over.                                              *)
(***************************************************************************)
WholeFileTransferred ==
    \A c \in Clients : client[c] = "done" /\ far[c] = "here" /\ server # "exited" =>
        /\ output[c] = [i \in 1 .. Len(output[c]) |-> i]
        /\ Len(output[c]) = Size \/ c \in misread

(* A client that reads ends: with the file, or because the server or the *)
(* connection ended; never because another client stays or left.         *)
TransferClientsEnd == \A c \in Clients : client[c] = "read" ~> client[c] # "read"
===============================================================================
