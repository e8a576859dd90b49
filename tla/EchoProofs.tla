------------------------------ MODULE EchoProofs ------------------------------
(***************************************************************************)
(* Machine-checked proof that the echo server's one buffer mixes no        *)
(* messages, for all clients, lengths of messages and widths of buffers.   *)
(***************************************************************************)
EXTENDS Echo, TLAPS

(* Messages and buffers have lengths. *)
Sizes == Length \in [Clients -> Nat] /\ Width \in Nat

Bytes == Clients \cup {Zero}

(* The beginning of c's message, padded with zeros. *)
OwnBytes(s, c) ==
    \E n \in 0 .. Length[c] : \A i \in DOMAIN s : s[i] = IF i <= n THEN c ELSE Zero

Typed ==
    /\ buffer \in [1 .. Width -> Bytes]
    /\ reply \in [Clients -> Seq(Bytes)] /\ printed \in [Clients -> Seq(Bytes)]
    /\ line \in [Clients -> Int] /\ pending \in Seq(Clients)
    /\ client \in [Clients -> {"start", "send", "recv", "done", "failed", "gone"}]
    /\ \A c \in Clients : line[c] <= Length[c]
    /\ server \in {"recv", "write"} => sock \in Clients

OwnBuffer == server = "write" => OwnBytes(buffer, sock)
OwnReplies == \A c \in Clients : OwnBytes(reply[c], c)
OwnPrints == \A c \in Clients : OwnBytes(printed[c], c)

(* Only a client that met no zero prints on. *)
OverrunsShort ==
    \A c \in Clients : c \in overrun => client[c] = "done" /\ Len(printed[c]) <= Length[c]

(* What the server read is filled with the bytes of its caller only. *)
IInv == Typed /\ OwnBuffer /\ OwnReplies /\ OwnPrints /\ OverrunsShort

LEMMA InitIInv == Sizes /\ Init => IInv
BY DEF Sizes, Init, IInv, Typed, OwnBuffer, OwnReplies, OwnPrints, OwnBytes, OverrunsShort, Bytes

(* What stays as it is stays a client's own. *)
LEMMA OwnStays ==
    ASSUME IInv
    PROVE  /\ reply' = reply => OwnReplies'
           /\ printed' = printed => OwnPrints'
           /\ /\ UNCHANGED <<printed, overrun>>
              /\ \A c \in Clients : client[c] = "done" => client'[c] = "done"
              => OverrunsShort'
           /\ server' # "write" \/ UNCHANGED <<server, buffer, sock>> => OwnBuffer'
<1>1. reply' = reply => OwnReplies'
  BY DEF IInv, OwnReplies, OwnBytes
<1>2. printed' = printed => OwnPrints'
  BY DEF IInv, OwnPrints, OwnBytes
<1>5. /\ UNCHANGED <<printed, overrun>>
      /\ \A c \in Clients : client[c] = "done" => client'[c] = "done"
      => OverrunsShort'
  BY DEF IInv, OverrunsShort
<1>3. server' # "write" => OwnBuffer'
  BY DEF OwnBuffer
<1>4. UNCHANGED <<server, buffer, sock>> => OwnBuffer'
  BY DEF IInv, OwnBuffer, OwnBytes
<1> QED
  BY <1>1, <1>2, <1>3, <1>4, <1>5

LEMMA RecvIInv ==
    ASSUME Sizes, IInv, Recv
    PROVE  IInv'
<1>1. sock \in Clients /\ server = "recv"
  BY DEF IInv, Typed, Recv
<1>2. OwnReplies' /\ OwnPrints' /\ OverrunsShort'
  BY OwnStays DEF Recv, clientVars
<1>3. CASE server' = "exited" /\ UNCHANGED <<buffer, line>>
  BY <1>2, <1>3, OwnStays DEF IInv, Typed, Recv, clientVars
<1>4. ASSUME NEW n \in 0 .. Width, MayReceive(n), buffer' = Filled(n),
             line' = [line EXCEPT ![sock] = @ - n], server' = "write"
      PROVE  IInv'
  <2>1. n \in 0 .. Length[sock] /\ line[sock] \in Int
    BY <1>1, <1>4 DEF Sizes, IInv, Typed, MayReceive
  <2>2. sock' = sock
    BY DEF Recv
  <2>3. buffer' \in [1 .. Width -> Bytes]
    BY <1>1, <1>4 DEF Filled, Bytes
  <2>4. OwnBytes(buffer', sock')
    BY <1>1, <1>4, <2>1, <2>2 DEF Filled, OwnBytes
  <2>5. OwnBuffer'
    BY <2>4 DEF OwnBuffer, OwnBytes
  <2>6. line' \in [Clients -> Int] /\ \A c \in Clients : line'[c] <= Length[c]
    BY <1>1, <1>4, <2>1 DEF Sizes, IInv, Typed
  <2> QED
    BY <1>1, <1>2, <2>3, <2>5, <2>6 DEF IInv, Typed, Recv, clientVars
<1> QED
  BY <1>3, <1>4 DEF Recv

LEMMA WriteIInv ==
    ASSUME Sizes, IInv, Write
    PROVE  IInv'
<1>1. sock \in Clients /\ OwnBytes(buffer, sock) /\ buffer \in Seq(Bytes)
  BY DEF Sizes, IInv, Typed, OwnBuffer, Write
<1>2. reply' \in [Clients -> Seq(Bytes)]
  BY <1>1 DEF IInv, Typed, Write
<1>3. ASSUME NEW c \in Clients
      PROVE  OwnBytes(reply'[c], c)
  <2>1. reply'[c] = reply[c] \/ (c = sock /\ reply'[c] = buffer)
    BY <1>1 DEF IInv, Typed, Write
  <2> QED
    BY <1>1, <2>1 DEF IInv, OwnReplies
<1>4. OwnReplies'
  BY <1>3 DEF OwnReplies, OwnBytes
<1> QED
  BY <1>2, <1>4, OwnStays DEF IInv, Typed, Write, clientVars

LEMMA ReceiveIInv ==
    ASSUME Sizes, IInv, NEW c \in Clients, Receive(c)
    PROVE  IInv'
<1>1. OwnReplies' /\ OwnBuffer'
  BY OwnStays DEF Receive, serverVars
<1>2. PICK part : /\ part \in Seq(Bytes) /\ OwnBytes(part, c)
                  /\ printed' = [printed EXCEPT ![c] = part]
  <2>1. CASE UNCHANGED printed
    <3>1. printed[c] \in Seq(Bytes) /\ OwnBytes(printed[c], c)
      BY DEF IInv, Typed, OwnPrints
    <3>2. printed' = [printed EXCEPT ![c] = printed[c]]
      BY <2>1 DEF IInv, Typed
    <3> QED
      BY <3>1, <3>2
  <2>2. ASSUME NEW n \in 1 .. Len(reply[c]),
               printed' = [printed EXCEPT ![c] = SubSeq(reply[c], 1, n)]
        PROVE  \E part : /\ part \in Seq(Bytes) /\ OwnBytes(part, c)
                         /\ printed' = [printed EXCEPT ![c] = part]
    <3> DEFINE part == SubSeq(reply[c], 1, n)
    <3>1. reply[c] \in Seq(Bytes) /\ OwnBytes(reply[c], c)
      BY DEF IInv, Typed, OwnReplies
    <3>2. /\ part \in Seq(Bytes)
          /\ \A i \in DOMAIN part : i \in DOMAIN reply[c] /\ part[i] = reply[c][i]
      BY <2>2, <3>1
    <3>3. OwnBytes(part, c)
      BY <3>1, <3>2 DEF OwnBytes
    <3> QED
      BY <2>2, <3>2, <3>3
  <2> QED
    BY <2>1, <2>2 DEF Receive
<1>3. printed' \in [Clients -> Seq(Bytes)] /\ printed'[c] = part
  BY <1>2 DEF IInv, Typed
<1>4. OwnPrints'
  <2>1. \A d \in Clients : OwnBytes(printed'[d], d)
    BY <1>2 DEF IInv, Typed, OwnPrints
  <2> QED
    BY <2>1 DEF OwnPrints, OwnBytes
<1>5. (\A i \in DOMAIN part : part[i] # Zero) => Len(part) <= Length[c]
  <2> SUFFICES ASSUME \A i \in DOMAIN part : part[i] # Zero
               PROVE  Len(part) <= Length[c]
    OBVIOUS
  <2>1. PICK n \in 0 .. Length[c] : \A i \in DOMAIN part : part[i] = IF i <= n THEN c ELSE Zero
    BY <1>2 DEF OwnBytes
  <2>2. \A i \in 1 .. Len(part) : i <= n
    BY <1>2, <2>1
  <2>3. Len(part) \in Nat
    BY <1>2
  <2> QED
    BY <2>2, <2>3 DEF Sizes
<1>6. OverrunsShort'
  <2>1. ASSUME NEW d \in Clients, d \in overrun'
        PROVE  client'[d] = "done" /\ Len(printed'[d]) <= Length[d]
    <3>1. CASE d # c
      <4>1. d \in overrun /\ printed'[d] = printed[d] /\ client'[d] = client[d]
        BY <1>2, <2>1, <3>1 DEF IInv, Typed, Receive
      <4> QED
        BY <4>1 DEF IInv, OverrunsShort
    <3>2. CASE d = c
      <4>1. c \notin overrun /\ client'[c] = "done"
        BY DEF IInv, Typed, OverrunsShort, Receive
      <4> QED
        BY <1>3, <1>5, <2>1, <3>2, <4>1 DEF Receive
    <3> QED
      BY <3>1, <3>2
  <2> QED
    BY <2>1 DEF OverrunsShort
<1> QED
  BY <1>1, <1>3, <1>4, <1>6 DEF IInv, Typed, Receive, serverVars

LEMMA OtherIInv ==
    ASSUME Sizes, IInv,
           \/ Listen \/ Accept
           \/ \E c \in Clients : Connect(c) \/ Send(c) \/ Leave(c)
    PROVE  IInv'
<1>1. OwnReplies' /\ OwnPrints' /\ OwnBuffer'
  BY OwnStays DEF Listen, Accept, Connect, Send, Leave, clientVars, serverVars
<1>6. OverrunsShort'
  <2>1. \A c \in Clients : client[c] = "done" => client'[c] = "done"
    BY DEF IInv, Typed, Listen, Accept, Connect, Send, Leave, clientVars, serverVars
  <2>2. UNCHANGED <<printed, overrun>>
    BY DEF Listen, Accept, Connect, Send, Leave, clientVars, serverVars
  <2> QED
    BY <2>1, <2>2, OwnStays
<1>2. CASE Listen
  BY <1>1, <1>6, <1>2 DEF IInv, Typed, Listen, clientVars
<1>3. CASE Accept
  <2>1. Head(pending) \in Clients /\ Tail(pending) \in Seq(Clients)
    BY <1>3 DEF IInv, Typed, Accept
  <2> QED
    BY <1>1, <1>6, <1>3, <2>1 DEF IInv, Typed, Accept, clientVars
<1>4. ASSUME NEW c \in Clients, Connect(c)
      PROVE  IInv'
  <2>1. pending \in Seq(Clients) /\ Append(pending, c) \in Seq(Clients)
    BY DEF IInv, Typed
  <2>2. pending' = Append(pending, c) \/ pending' = pending
    BY <1>4 DEF Connect
  <2>3. pending' \in Seq(Clients)
    BY <2>1, <2>2
  <2> QED
    BY <1>1, <1>6, <1>4, <2>3 DEF IInv, Typed, Connect, serverVars
<1>5. ASSUME NEW c \in Clients, Send(c) \/ Leave(c)
      PROVE  IInv'
  <2>1. PICK n \in {Length[c], -1} : line' \in {line, [line EXCEPT ![c] = n]}
    BY <1>5 DEF Send, Leave
  <2>2. n \in Int /\ n <= Length[c]
    BY <2>1 DEF Sizes
  <2>3. line \in [Clients -> Int] /\ \A d \in Clients : line[d] <= Length[d]
    BY DEF IInv, Typed
  <2>4. line' \in [Clients -> Int] /\ \A d \in Clients : line'[d] <= Length[d]
    BY <2>1, <2>2, <2>3
  <2> QED
    BY <1>1, <1>6, <1>5, <2>4 DEF IInv, Typed, Send, Leave, serverVars
<1> QED
  BY <1>2, <1>3, <1>4, <1>5

LEMMA StepIInv ==
    ASSUME Sizes, IInv, [Next]_vars
    PROVE  IInv'
<1>1. CASE UNCHANGED vars
  BY <1>1, OwnStays DEF IInv, Typed, vars, serverVars, clientVars
<1> QED
  BY <1>1, RecvIInv, WriteIInv, ReceiveIInv, OtherIInv DEF Next, ServerStep, ClientStep

(***************************************************************************)
(* What a client receives is the beginning of its own message and zeros    *)
(* (echoserver.c:130-145: the memset before each recv), however the        *)
(* connections follow on each other and in whatever pieces bytes arrive.   *)
(***************************************************************************)
THEOREM EchoOwnMessage ==
    ASSUME Sizes
    PROVE  Spec => []EchoOfOwnMessage
<1>1. Init => IInv
  BY InitIInv
<1>2. IInv /\ [Next]_vars => IInv'
  BY StepIInv
<1>3. IInv => EchoOfOwnMessage
  BY DEF IInv, OwnPrints, OwnBytes, OverrunsShort, EchoOfOwnMessage
<1> QED
  BY <1>1, <1>2, <1>3, PTL DEF Spec


-------------------------------------------------------------------------------
(* The rest of the types: the server's own variables. *)
SideTypes ==
    /\ server \in {"start", "accept", "recv", "write", "exited"}
    /\ sock \in Clients \cup {NoClient} /\ held \in 0 .. Descriptors
    /\ overrun \subseteq Clients

LEMMA StepSideTypes ==
    ASSUME Sizes, Descriptors \in Nat, IInv, SideTypes, [Next]_vars
    PROVE  SideTypes'
<1>1. CASE Listen
  BY <1>1 DEF SideTypes, Listen, clientVars
<1>2. CASE Accept
  <2>1. CASE held < Descriptors
    <3>1. Head(pending) \in Clients
      BY <1>2 DEF IInv, Typed, Accept
    <3>2. sock' = Head(pending) /\ server' = "recv" /\ overrun' = overrun
      BY <1>2, <2>1 DEF Accept, clientVars
    <3>3. held' \in 0 .. Descriptors
      BY <1>2, <2>1 DEF SideTypes, Accept
    <3> QED
      BY <3>1, <3>2, <3>3 DEF SideTypes
  <2>2. CASE ~(held < Descriptors)
    BY <1>2, <2>2 DEF SideTypes, Accept, clientVars
  <2> QED
    BY <2>1, <2>2
<1>3. CASE Recv \/ Write
  BY <1>3 DEF SideTypes, Recv, Write, clientVars
<1>4. ASSUME NEW c \in Clients, Connect(c) \/ Send(c) \/ Receive(c) \/ Leave(c)
      PROVE  SideTypes'
  BY <1>4 DEF SideTypes, Connect, Send, Receive, Leave, serverVars
<1>5. CASE UNCHANGED vars
  BY <1>5 DEF SideTypes, vars, serverVars, clientVars
<1> QED
  BY <1>1, <1>2, <1>3, <1>4, <1>5 DEF Next, ServerStep, ClientStep

(***************************************************************************)
(* Type correctness of both programs: the server never holds more sockets  *)
(* than its process may (echoserver.c:130-151, where none is closed).      *)
(***************************************************************************)
THEOREM EchoTypes ==
    ASSUME Sizes, Descriptors \in Nat
    PROVE  Spec => []TypeOK
<1>1. Init => IInv /\ SideTypes
  BY InitIInv DEF Init, SideTypes
<1>2. IInv /\ SideTypes /\ [Next]_vars => IInv' /\ SideTypes'
  BY StepIInv, StepSideTypes
<1>3. IInv /\ SideTypes => TypeOK
  BY DEF IInv, Typed, SideTypes, TypeOK, Bytes
<1> QED
  BY <1>1, <1>2, <1>3, PTL DEF Spec

===============================================================================
