---------------------------- MODULE ProgramsProofs ----------------------------
(***************************************************************************)
(* Machine-checked proofs about Programs, for all clients, files, lengths, *)
(* buffers, limits and times: the file transfer and the curl proxy are     *)
(* proved here, the other programs by the theorems of their own modules.   *)
(***************************************************************************)
EXTENDS Programs, ProxyIpcProofs, SequenceTheorems, TLAPS

-------------------------------------------------------------------------------
(***************************************************************************)
(* The file transfer.  The first n bytes of the file:                      *)
(***************************************************************************)
File(n) == [i \in 1 .. n |-> i]

Queued(c) == \E i \in DOMAIN filePending : filePending[i] = c
Serving(c) == fileServer \in {"loop", "close"} /\ fileSock = c
Intact(c) == fileServer # "exited" /\ far[c] = "here"

(* What c has read and what is under way to it. *)
Sent(c, n) == output[c] \o stream[c] = File(n)

(* The same when the server is done: all of the file, or what fread gave. *)
SentOut(c) == \E n \in 0 .. FileSize : Sent(c, n) /\ (n = FileSize \/ c \in misread)

TransferTypes ==
    /\ fileServer \in {"start", "accept", "loop", "close", "exited"}
    /\ fileSock \in FileClients \cup {0}
    /\ fileServer \in {"loop", "close"} => fileSock \in FileClients
    /\ pos \in 0 .. FileSize /\ filePending \in Seq(FileClients) /\ misread \subseteq FileClients
    /\ stream \in [FileClients -> Seq(1 .. FileSize)]
    /\ output \in [FileClients -> Seq(0 .. FileSize)]
    /\ link \in [FileClients -> {"none", "open", "ended", "reset", "over"}]
    /\ far \in [FileClients -> {"here", "closed", "broken"}]
    /\ fileClient \in [FileClients -> {"start", "read", "done", "failed", "crashed", "gone"}]

QueuedOnce ==
    /\ \A i, j \in DOMAIN filePending : filePending[i] = filePending[j] => i = j
    /\ \A c \in FileClients : fileClient[c] = "start" => ~Queued(c) /\ ~Serving(c)

(* Where an unbroken connection is: one that comes is served once. *)
Fresh(c) ==
    /\ link[c] = "none" /\ fileClient[c] \in {"start", "failed"}
    /\ output[c] = << >> /\ stream[c] = << >> /\ ~Queued(c) /\ ~Serving(c)
Waiting(c) ==
    link[c] = "open" /\ fileClient[c] = "read" /\ Queued(c) /\ ~Serving(c) /\ Sent(c, 0)
Receiving(c) ==
    link[c] = "open" /\ fileClient[c] = "read" /\ ~Queued(c) /\ Serving(c) /\ Sent(c, pos)
Ended(c) ==
    /\ link[c] = "ended" /\ ~Queued(c) /\ ~Serving(c) /\ SentOut(c)
    /\ fileClient[c] = "read" \/ (fileClient[c] = "done" /\ stream[c] = << >>)

Delivery(c) == Intact(c) => Fresh(c) \/ Waiting(c) \/ Receiving(c) \/ Ended(c)

TransferInv ==
    /\ TransferTypes /\ QueuedOnce
    /\ fileServer = "close" => pos = FileSize \/ fileSock \in misread
    /\ \A c \in FileClients : Delivery(c)

(* Pieces of a sequence that follow each other. *)
LEMMA ReadOn ==
    ASSUME NEW S, NEW o \in Seq(S), NEW s \in Seq(S), NEW n \in 1 .. Len(s)
    PROVE  (o \o SubSeq(s, 1, n)) \o SubSeq(s, n + 1, Len(s)) = o \o s
<1> DEFINE a == SubSeq(s, 1, n)
           b == SubSeq(s, n + 1, Len(s))
<1>1. Len(s) \in Nat /\ n \in Nat /\ n <= Len(s)
  BY LenProperties
<1>2. a \in Seq(S)
  <2>1. \A i \in 1 .. n : s[i] \in S
    BY <1>1, ElementOfSeq
  <2> QED
    BY <1>1, <2>1, SubSeqProperties
<1>3. b \in Seq(S)
  <2>1. \A i \in n + 1 .. Len(s) : s[i] \in S
    BY <1>1, ElementOfSeq
  <2> QED
    BY <1>1, <2>1, SubSeqProperties
<1>4. a \o b = s
  <2>1. 1 \in 1 .. Len(s) + 1 /\ n \in 1 - 1 .. Len(s) /\ Len(s) \in n .. Len(s)
    BY <1>1
  <2>2. a \o b = SubSeq(s, 1, Len(s))
    BY <2>1, ConcatAdjacentSubSeq
  <2> QED
    BY <2>2, SubSeqFull
<1> HIDE DEF a, b
<1>5. (o \o a) \o b = o \o (a \o b)
  BY <1>2, <1>3, ConcatAssociative, SMTT(30)
<1>6. (o \o a) \o b = o \o s
  BY <1>4, <1>5, Zenon
<1> QED
  BY <1>6, Zenon DEF a, b

LEMMA FileGrowsBy ==
    ASSUME NEW p \in Nat, NEW n \in Nat
    PROVE  File(p) \o [i \in 1 .. n |-> p + i] = File(p + n)
<1> DEFINE f == File(p)
           g == [i \in 1 .. n |-> p + i]
           h == File(p + n)
<1>1. f \in Seq(Int) /\ Len(f) = p /\ \A i \in 1 .. p : f[i] = i
  BY DEF File
<1>2. g \in Seq(Int) /\ Len(g) = n /\ \A i \in 1 .. n : g[i] = p + i
  OBVIOUS
<1>3. h \in Seq(Int) /\ Len(h) = p + n /\ \A i \in 1 .. p + n : h[i] = i
  BY DEF File
<1> HIDE DEF f, g, h
<1>4. /\ f \o g \in Seq(Int) /\ Len(f \o g) = p + n
      /\ \A i \in 1 .. p + n : (f \o g)[i] = IF i <= p THEN f[i] ELSE g[i - p]
  BY <1>1, <1>2, ConcatProperties
<1>5. ASSUME NEW i \in 1 .. p + n
      PROVE  (f \o g)[i] = h[i]
  <2>1. h[i] = i
    BY <1>3
  <2>2. CASE i <= p
    BY <1>1, <1>4, <2>1, <2>2
  <2>3. CASE ~(i <= p)
    <3>1. i - p \in 1 .. n /\ p + (i - p) = i
      BY <2>3
    <3> QED
      BY <1>2, <1>4, <2>1, <2>3, <3>1
  <2> QED
    BY <2>2, <2>3
<1>6. f \o g = h
  BY <1>3, <1>4, <1>5, SeqEqual
<1> QED
  BY <1>6 DEF f, g, h

(* A queue without its head, and with one more behind. *)
LEMMA QueueTail ==
    ASSUME NEW S, NEW q \in Seq(S), q # << >>,
           \A i, j \in DOMAIN q : q[i] = q[j] => i = j
    PROVE  /\ Head(q) \in S /\ Tail(q) \in Seq(S)
           /\ \A i, j \in DOMAIN Tail(q) : Tail(q)[i] = Tail(q)[j] => i = j
           /\ \E i \in DOMAIN q : q[i] = Head(q)
           /\ ~ \E i \in DOMAIN Tail(q) : Tail(q)[i] = Head(q)
           /\ \A c : c # Head(q) =>
                 ((\E i \in DOMAIN q : q[i] = c) <=> (\E i \in DOMAIN Tail(q) : Tail(q)[i] = c))
<1>1. Len(q) \in Nat /\ Len(q) # 0 /\ DOMAIN q = 1 .. Len(q)
  BY LenProperties, EmptySeq
<1>2. /\ Head(q) \in S /\ Tail(q) \in Seq(S) /\ Len(Tail(q)) = Len(q) - 1
      /\ \A i \in 1 .. Len(Tail(q)) : Tail(q)[i] = q[i + 1]
  BY HeadTailProperties
<1>3. Head(q) = q[1]
  OBVIOUS
<1>4. DOMAIN Tail(q) = 1 .. Len(q) - 1
  BY <1>2, LenProperties
<1>5. \A i \in DOMAIN Tail(q) : i + 1 \in DOMAIN q /\ Tail(q)[i] = q[i + 1]
  BY <1>1, <1>2, <1>4
<1>6. \A i, j \in DOMAIN Tail(q) : Tail(q)[i] = Tail(q)[j] => i = j
  <2>1. ASSUME NEW i \in DOMAIN Tail(q), NEW j \in DOMAIN Tail(q), Tail(q)[i] = Tail(q)[j]
        PROVE  i = j
    <3>1. i + 1 = j + 1
      BY <1>5, <2>1
    <3> QED
      BY <1>1, <1>4, <3>1
  <2> QED
    BY <2>1
<1>7. 1 \in DOMAIN q
  BY <1>1
<1>8. ~ \E i \in DOMAIN Tail(q) : Tail(q)[i] = Head(q)
  <2>1. ASSUME NEW i \in DOMAIN Tail(q), Tail(q)[i] = Head(q) PROVE FALSE
    <3>1. i + 1 = 1
      BY <1>3, <1>5, <1>7, <2>1
    <3> QED
      BY <1>1, <1>4, <3>1
  <2> QED
    BY <2>1
<1>9. ASSUME NEW c, c # Head(q)
      PROVE  (\E i \in DOMAIN q : q[i] = c) <=> (\E i \in DOMAIN Tail(q) : Tail(q)[i] = c)
  <2>1. ASSUME NEW i \in DOMAIN q, q[i] = c
        PROVE  \E j \in DOMAIN Tail(q) : Tail(q)[j] = c
    <3>1. i # 1
      BY <1>3, <1>9, <2>1
    <3>2. i - 1 \in DOMAIN Tail(q) /\ (i - 1) + 1 = i
      BY <1>1, <1>4, <3>1
    <3> QED
      BY <1>5, <2>1, <3>2
  <2> QED
    BY <1>5, <2>1
<1> QED
  BY <1>2, <1>3, <1>6, <1>7, <1>8, <1>9

LEMMA QueueAppend ==
    ASSUME NEW S, NEW q \in Seq(S), NEW c \in S,
           \A i, j \in DOMAIN q : q[i] = q[j] => i = j,
           ~ \E i \in DOMAIN q : q[i] = c
    PROVE  /\ Append(q, c) \in Seq(S)
           /\ \A i, j \in DOMAIN Append(q, c) : Append(q, c)[i] = Append(q, c)[j] => i = j
           /\ \E i \in DOMAIN Append(q, c) : Append(q, c)[i] = c
           /\ \A d : d # c => ((\E i \in DOMAIN q : q[i] = d)
                                 <=> (\E i \in DOMAIN Append(q, c) : Append(q, c)[i] = d))
<1> DEFINE a == Append(q, c)
           n == Len(q)
<1>1. n \in Nat /\ DOMAIN q = 1 .. n
  BY LenProperties
<1>2. /\ a \in Seq(S) /\ Len(a) = n + 1 /\ a[n + 1] = c
      /\ \A i \in 1 .. n : a[i] = q[i]
  BY AppendProperties
<1>3. DOMAIN a = 1 .. n + 1
  BY <1>2, LenProperties
<1> HIDE DEF a, n
<1>4. \A i \in DOMAIN a : (i = n + 1 /\ a[i] = c) \/ (i \in DOMAIN q /\ a[i] = q[i])
  BY <1>1, <1>2, <1>3
<1>5. n + 1 \in DOMAIN a /\ \A i \in DOMAIN q : i \in DOMAIN a
  BY <1>1, <1>3
<1>6. \A i, j \in DOMAIN a : a[i] = a[j] => i = j
  BY <1>4
<1>7. \A d : d # c => ((\E i \in DOMAIN q : q[i] = d) <=> (\E i \in DOMAIN a : a[i] = d))
  BY <1>1, <1>2, <1>4, <1>5
<1> QED
  BY <1>2, <1>5, <1>6, <1>7 DEF a


FileBytes == 0 .. FileSize

LEMMA FileSizes == FileSize \in Nat /\ FileBufSize \in Nat \ {0}
BY ProgramsAssumption

LEMMA StreamBytes ==
    ASSUME TransferTypes, NEW c \in FileClients
    PROVE  stream[c] \in Seq(FileBytes) /\ output[c] \in Seq(FileBytes)
<1>1. 1 .. FileSize \subseteq FileBytes
  BY FileSizes DEF FileBytes
<1>2. stream[c] \in Seq(1 .. FileSize) /\ output[c] \in Seq(FileBytes)
  BY DEF TransferTypes, FileBytes
<1> QED
  BY <1>1, <1>2, SeqMonotonic

(* What stays as it is. *)
LEMMA QueueStays ==
    ASSUME filePending' = filePending, NEW c
    PROVE  Queued(c)' <=> Queued(c)
BY DEF Queued

LEMMA DeliveryStays ==
    ASSUME NEW c \in FileClients, Delivery(c),
           link'[c] = link[c], far'[c] = far[c], stream'[c] = stream[c],
           output'[c] = output[c], fileClient'[c] = fileClient[c],
           c \in misread => c \in misread',
           fileServer = "exited" => fileServer' = "exited",
           Queued(c)' <=> Queued(c), Serving(c)' <=> Serving(c), Serving(c) => pos' = pos
    PROVE  Delivery(c)'
<1>1. Intact(c)' => Intact(c)
  BY DEF Intact
<1>2. Fresh(c) => Fresh(c)'
  BY DEF Fresh
<1>3. Waiting(c) => Waiting(c)'
  BY DEF Waiting, Sent
<1>4. Receiving(c) => Receiving(c)'
  BY DEF Receiving, Sent
<1>5. Ended(c) => Ended(c)'
  BY DEF Ended, Sent, SentOut
<1> QED
  BY <1>1, <1>2, <1>3, <1>4, <1>5 DEF Delivery

LEMMA ListenInv ==
    ASSUME TransferInv, Transfer!Listen \/ UNCHANGED Transfer!vars
    PROVE  TransferInv'
<1>1. /\ fileServer' = fileServer \/ (fileServer = "start" /\ fileServer' \in {"accept", "exited"})
      /\ UNCHANGED <<fileSock, pos, filePending, stream, link, far, misread, fileClient, output>>
  BY DEF Transfer!Listen, Transfer!vars, Transfer!serverVars
<1>2. \A c : (Queued(c)' <=> Queued(c)) /\ (Serving(c)' <=> Serving(c))
  BY <1>1 DEF Queued, Serving
<1>3. \A c \in FileClients : Delivery(c)'
  BY <1>1, <1>2, DeliveryStays DEF TransferInv
<1>4. TransferTypes' /\ (fileServer' = "close" => pos' = FileSize \/ fileSock' \in misread')
  BY <1>1 DEF TransferInv, TransferTypes
<1>5. QueuedOnce'
  BY <1>1, <1>2 DEF TransferInv, QueuedOnce
<1> QED
  BY <1>3, <1>4, <1>5 DEF TransferInv

(* The head of the queue is served from the first byte on. *)
LEMMA AcceptInv ==
    ASSUME TransferInv, Transfer!Accept
    PROVE  TransferInv'
<1>0. PICK h : h = Head(filePending)
  OBVIOUS
<1>1. /\ fileServer = "accept" /\ filePending # << >>
      /\ fileSock' = h /\ filePending' = Tail(filePending) /\ pos' = 0
      /\ fileServer' \in {"loop", "exited"}
      /\ UNCHANGED <<stream, link, far, misread, fileClient, output>>
  BY <1>0 DEF Transfer!Accept
<1>2. /\ filePending \in Seq(FileClients)
      /\ \A i, j \in DOMAIN filePending : filePending[i] = filePending[j] => i = j
  BY DEF TransferInv, TransferTypes, QueuedOnce
<1>3. /\ h \in FileClients /\ Tail(filePending) \in Seq(FileClients)
      /\ \A i, j \in DOMAIN Tail(filePending) :
            Tail(filePending)[i] = Tail(filePending)[j] => i = j
      /\ Queued(h) /\ ~Queued(h)'
      /\ \A c : c # h => (Queued(c) <=> Queued(c)')
  <2>1. /\ h \in FileClients /\ Tail(filePending) \in Seq(FileClients)
        /\ \A i, j \in DOMAIN Tail(filePending) :
              Tail(filePending)[i] = Tail(filePending)[j] => i = j
    BY <1>0, <1>1, <1>2, QueueTail
  <2>2. /\ \E i \in DOMAIN filePending : filePending[i] = h
        /\ ~ \E i \in DOMAIN Tail(filePending) : Tail(filePending)[i] = h
    BY <1>0, <1>1, <1>2, QueueTail
  <2>3. \A c : c # h =>
           ((\E i \in DOMAIN filePending : filePending[i] = c)
              <=> (\E i \in DOMAIN Tail(filePending) : Tail(filePending)[i] = c))
    BY <1>0, <1>1, <1>2, QueueTail
  <2> QED
    BY <1>1, <2>1, <2>2, <2>3 DEF Queued
<1>4. \A c : ~Serving(c)
  BY <1>1 DEF Serving
<1>5. \A c : Serving(c)' => c = h
  BY <1>1 DEF Serving
<1>6. TransferTypes'
  BY <1>1, <1>3, FileSizes DEF TransferInv, TransferTypes
<1>7. QueuedOnce'
  BY <1>1, <1>3, <1>5 DEF TransferInv, QueuedOnce
<1>8. ASSUME NEW c \in FileClients, c # h
      PROVE  Delivery(c)'
  BY <1>1, <1>3, <1>4, <1>5, <1>8, DeliveryStays DEF TransferInv
<1>9. Delivery(h)'
  <2> SUFFICES ASSUME Intact(h)' PROVE Receiving(h)'
    BY DEF Delivery
  <2>1. Intact(h) /\ fileServer' = "loop"
    BY <1>1 DEF Intact
  <2>2. Waiting(h)
    BY <1>3, <1>4, <2>1 DEF TransferInv, Delivery, Fresh, Receiving, Ended
  <2>3. Serving(h)'
    BY <1>1, <2>1 DEF Serving
  <2> QED
    BY <1>1, <1>3, <2>2, <2>3 DEF Waiting, Receiving, Sent
<1> QED
  BY <1>1, <1>6, <1>7, <1>8, <1>9 DEF TransferInv

(* A piece follows on what was sent, and a piece that is not full is the last. *)
LEMMA SendPieceInv ==
    ASSUME TransferInv, Transfer!SendPiece
    PROVE  TransferInv'
<1>s. PICK s : s = fileSock
  OBVIOUS
<1>m. PICK most : most = IF FileSize - pos < FileBufSize THEN FileSize - pos ELSE FileBufSize
  OBVIOUS
<1>n. PICK n \in 0 .. most :
         /\ \/ n = most /\ misread' = misread
            \/ n < FileBufSize /\ misread' = misread \cup {s}
         /\ IF n > 0
            THEN Transfer!Write(Transfer!Piece(n), IF Transfer!LastRead(n) THEN "close" ELSE "loop")
            ELSE /\ fileServer' = IF Transfer!LastRead(n) THEN "close" ELSE "loop"
                 /\ UNCHANGED <<stream, far>>
         /\ pos' = pos + n
  BY <1>s, <1>m DEF Transfer!SendPiece
<1>p. PICK piece : piece = [i \in 1 .. n |-> pos + i]
  OBVIOUS
<1>1. /\ fileServer = "loop" /\ pos' = pos + n /\ fileSock = s
      /\ UNCHANGED <<fileSock, filePending, link, fileClient, output>>
  BY <1>s, <1>n DEF Transfer!SendPiece
<1>2. /\ s \in FileClients /\ pos \in Nat /\ n \in Nat /\ pos + n \in 0 .. FileSize
      /\ n < FileBufSize => pos + n = FileSize \/ s \in misread'
      /\ misread \subseteq misread' /\ misread' \subseteq FileClients
  <2>1. s \in FileClients /\ pos \in 0 .. FileSize /\ misread \subseteq FileClients
    BY <1>1 DEF TransferInv, TransferTypes
  <2>2. n \in Nat /\ n <= most /\ most <= FileSize - pos
    BY <1>m, <1>n, <2>1, FileSizes
  <2>3. n < FileBufSize => pos + n = FileSize \/ s \in misread'
    BY <1>m, <1>n, <2>1, FileSizes
  <2>4. misread \subseteq misread' /\ misread' \subseteq FileClients
    <3>1. misread' = misread \/ misread' = misread \cup {s}
      BY <1>n
    <3> QED
      BY <2>1, <3>1
  <2>5. pos \in Nat /\ pos + n \in 0 .. FileSize
    <3>1. pos \in Nat /\ pos <= FileSize /\ n \in Nat /\ n <= FileSize - pos
      BY <1>m, <2>1, <2>2, FileSizes
    <3> QED
      BY <3>1, FileSizes
  <2> QED
    BY <2>1, <2>2, <2>3, <2>4, <2>5
<1>3. piece \in Seq(1 .. FileSize)
  <2>1. \A i \in 1 .. n : pos + i \in 1 .. FileSize
    BY <1>2, FileSizes
  <2> QED
    BY <1>p, <1>2, <2>1
<1>4. /\ fileServer' \in {"loop", "close", "exited"}
      /\ fileServer' = "close" => n < FileBufSize
      /\ \/ far[s] = "here" /\ far' = far /\ n > 0 /\ stream' = [stream EXCEPT ![s] = @ \o piece]
         \/ far[s] = "here" /\ far' = far /\ n = 0 /\ stream' = stream
         \/ /\ far[s] # "here" /\ stream' = stream
            /\ far' = far \/ far' = [far EXCEPT ![s] = "broken"]
  <2> DEFINE next == IF n < FileBufSize THEN "close" ELSE "loop"
  <2>0. /\ n > 0 =>
              /\ stream' = IF far[s] = "here" THEN [stream EXCEPT ![s] = @ \o piece]
                                             ELSE stream
              /\ far' = IF far[s] = "here" THEN far ELSE [far EXCEPT ![s] = "broken"]
              /\ fileServer' = IF far[s] = "broken" THEN "exited" ELSE next
        /\ ~(n > 0) => fileServer' = next /\ stream' = stream /\ far' = far
    BY <1>s, <1>n, <1>p
    DEF Transfer!Write, Transfer!LastRead, Transfer!Piece
  <2>1. CASE n > 0
    BY <2>0, <2>1
  <2>2. CASE ~(n > 0)
    <3>1. n = 0
      BY <1>2, <2>2
    <3> QED
      BY <2>0, <2>2, <3>1
  <2> QED
    BY <2>1, <2>2
<1>5. /\ stream \in [FileClients -> Seq(1 .. FileSize)]
      /\ far \in [FileClients -> {"here", "closed", "broken"}]
  BY DEF TransferInv, TransferTypes
<1>6. stream[s] \o piece \in Seq(1 .. FileSize)
  BY <1>2, <1>3, <1>5, ConcatProperties
<1>7. TransferTypes'
  <2>1. stream' \in [FileClients -> Seq(1 .. FileSize)]
    BY <1>4, <1>5, <1>6
  <2>2. far' \in [FileClients -> {"here", "closed", "broken"}]
    BY <1>4, <1>5
  <2> QED
    BY <1>1, <1>2, <1>4, <2>1, <2>2 DEF TransferInv, TransferTypes
<1>8. \A c : (Queued(c)' <=> Queued(c)) /\ (c # s => ~Serving(c) /\ ~Serving(c)') /\ Serving(s)
  BY <1>1 DEF Queued, Serving
<1>9. QueuedOnce'
  BY <1>1, <1>8 DEF TransferInv, QueuedOnce
<1>10. ASSUME NEW c \in FileClients, c # s
       PROVE  Delivery(c)'
  <2>1. stream'[c] = stream[c] /\ far'[c] = far[c]
    BY <1>4, <1>5, <1>10
  <2>2. c \in misread => c \in misread'
    BY <1>2
  <2>3. Serving(c)' <=> Serving(c)
    BY <1>8, <1>10
  <2> QED
    BY <1>1, <1>8, <1>10, <2>1, <2>2, <2>3, DeliveryStays DEF TransferInv
<1>11. Delivery(s)'
  <2> SUFFICES ASSUME Intact(s)' PROVE Receiving(s)'
    BY <1>1 DEF Delivery
  <2>1. far[s] = "here" /\ fileServer' # "exited"
    BY <1>1, <1>2, <1>4, <1>5 DEF Intact
  <2>2. Receiving(s)
    BY <1>1, <1>2, <1>8, <2>1 DEF TransferInv, Delivery, Intact, Fresh, Waiting, Ended
  <2>3. output[s] \o stream'[s] = File(pos + n)
    <3>1. CASE n > 0
      <4>1. piece \in Seq(FileBytes) /\ stream[s] \in Seq(FileBytes) /\ output[s] \in Seq(FileBytes)
        <5>1. 1 .. FileSize \subseteq FileBytes
          BY FileSizes DEF FileBytes
        <5> QED
          BY <1>2, <1>3, <5>1, StreamBytes, SeqMonotonic DEF TransferInv
      <4>2. stream'[s] = stream[s] \o piece
        BY <1>2, <1>4, <1>5, <2>1, <3>1
      <4>3. (output[s] \o stream[s]) \o piece = output[s] \o (stream[s] \o piece)
        <5>1. PICK B : B = FileBytes
          OBVIOUS
        <5>2. PICK x \in Seq(B) : x = output[s]
          BY <4>1, <5>1
        <5>3. PICK y \in Seq(B) : y = stream[s]
          BY <4>1, <5>1
        <5>4. PICK z \in Seq(B) : z = piece
          BY <4>1, <5>1
        <5>5. (x \o y) \o z = x \o (y \o z)
          BY ConcatAssociative
        <5> QED
          BY <5>2, <5>3, <5>4, <5>5
      <4>4. File(pos) \o piece = File(pos + n)
        BY <1>p, <1>2, FileGrowsBy
      <4> QED
        BY <2>2, <4>2, <4>3, <4>4 DEF Receiving, Sent
    <3>2. CASE ~(n > 0)
      <4>1. stream' = stream /\ pos + n = pos
        BY <1>2, <1>4, <2>1, <3>2
      <4> QED
        BY <2>2, <4>1 DEF Receiving, Sent
    <3> QED
      BY <3>1, <3>2
  <2>4. Serving(s)'
    BY <1>1, <1>4, <2>1 DEF Serving
  <2> QED
    BY <1>1, <1>8, <2>2, <2>3, <2>4 DEF Receiving, Sent
<1> QED
  BY <1>1, <1>2, <1>4, <1>7, <1>9, <1>10, <1>11 DEF TransferInv

LEMMA CloseInv ==
    ASSUME TransferInv, Transfer!Close
    PROVE  TransferInv'
<1>s. PICK s : s = fileSock
  OBVIOUS
<1>1. /\ fileServer = "close" /\ fileSock = s /\ fileServer' = "accept"
      /\ pos = FileSize \/ s \in misread
      /\ link' = [link EXCEPT ![s] = IF link[s] = "open" THEN "ended" ELSE link[s]]
      /\ UNCHANGED <<fileSock, pos, filePending, stream, far, misread, fileClient, output>>
  BY <1>s DEF TransferInv, Transfer!Close, Transfer!Closed
<1>2. /\ s \in FileClients
      /\ link \in [FileClients -> {"none", "open", "ended", "reset", "over"}]
  BY <1>1 DEF TransferInv, TransferTypes
<1>3. \A c : (Queued(c)' <=> Queued(c)) /\ (c # s => ~Serving(c)) /\ Serving(s) /\ ~Serving(c)'
  BY <1>1 DEF Queued, Serving
<1>4. TransferTypes'
  BY <1>1, <1>2 DEF TransferInv, TransferTypes
<1>5. QueuedOnce'
  BY <1>1, <1>3 DEF TransferInv, QueuedOnce
<1>6. ASSUME NEW c \in FileClients, c # s
      PROVE  Delivery(c)'
  <2>1. link'[c] = link[c]
    BY <1>1, <1>2, <1>6
  <2> QED
    BY <1>1, <1>3, <1>6, <2>1, DeliveryStays DEF TransferInv
<1>7. Delivery(s)'
  <2> SUFFICES ASSUME Intact(s)' PROVE Ended(s)'
    BY <1>1 DEF Delivery
  <2>1. Receiving(s)
    BY <1>1, <1>2, <1>3 DEF TransferInv, Delivery, Intact, Fresh, Waiting, Ended
  <2>2. link'[s] = "ended"
    BY <1>1, <1>2, <2>1 DEF Receiving
  <2>3. SentOut(s)'
    <3>1. pos \in 0 .. FileSize
      BY DEF TransferInv, TransferTypes
    <3> QED
      BY <1>1, <2>1, <3>1 DEF Receiving, SentOut, Sent
  <2> QED
    BY <1>1, <1>3, <2>1, <2>2, <2>3 DEF Receiving, Ended
<1> QED
  BY <1>1, <1>4, <1>5, <1>6, <1>7 DEF TransferInv

(* A step of one client leaves the others as they are. *)
LEMMA ClientFrame ==
    ASSUME TransferInv, NEW c \in FileClients,
           UNCHANGED <<fileServer, fileSock, pos, misread>>,
           \/ Transfer!Connect(c) \/ Transfer!Read(c) \/ Transfer!ReadEnd(c)
           \/ Transfer!ReadError(c) \/ Transfer!Reset(c) \/ Transfer!Leave(c),
           \A d : d # c => (Queued(d)' <=> Queued(d)),
           NEW d \in FileClients, d # c
    PROVE  Delivery(d)'
<1>1. /\ stream'[d] = stream[d] /\ output'[d] = output[d] /\ link'[d] = link[d]
      /\ far'[d] = far[d] /\ fileClient'[d] = fileClient[d]
  BY DEF TransferInv, TransferTypes, Transfer!Connect, Transfer!Read, Transfer!ReadEnd,
         Transfer!ReadError, Transfer!Reset, Transfer!Leave
<1>2. Serving(d)' <=> Serving(d)
  BY DEF Serving
<1> QED
  BY <1>1, <1>2, DeliveryStays DEF TransferInv

LEMMA ConnectInv ==
    ASSUME TransferInv, NEW c \in FileClients, Transfer!Connect(c)
    PROVE  TransferInv'
<1>1. /\ fileClient[c] = "start" /\ UNCHANGED <<fileServer, fileSock, pos, stream, far, misread, output>>
      /\ \/ /\ filePending' = Append(filePending, c)
            /\ link' = [link EXCEPT ![c] = "open"]
            /\ fileClient' = [fileClient EXCEPT ![c] = "read"]
         \/ /\ fileClient' = [fileClient EXCEPT ![c] = "failed"]
            /\ UNCHANGED <<filePending, link>>
  BY DEF Transfer!Connect, Transfer!serverVars
<1>2. /\ filePending \in Seq(FileClients) /\ ~Queued(c) /\ ~Serving(c)
      /\ \A i, j \in DOMAIN filePending : filePending[i] = filePending[j] => i = j
      /\ link \in [FileClients -> {"none", "open", "ended", "reset", "over"}]
      /\ fileClient \in [FileClients -> {"start", "read", "done", "failed", "crashed", "gone"}]
  BY <1>1 DEF TransferInv, TransferTypes, QueuedOnce
<1>3. /\ filePending' \in Seq(FileClients)
      /\ \A i, j \in DOMAIN filePending' : filePending'[i] = filePending'[j] => i = j
      /\ \A d : d # c => (Queued(d)' <=> Queued(d))
      /\ filePending' = filePending \/ Queued(c)'
  <2>1. CASE filePending' = filePending
    BY <1>2, <2>1, QueueStays
  <2>2. CASE filePending' = Append(filePending, c)
    BY <1>2, <2>2, QueueAppend DEF Queued
  <2> QED
    BY <1>1, <2>1, <2>2
<1>4. \A d : Serving(d)' <=> Serving(d)
  BY <1>1 DEF Serving
<1>5. TransferTypes'
  BY <1>1, <1>2, <1>3 DEF TransferInv, TransferTypes
<1>6. QueuedOnce'
  <2>1. ASSUME NEW d \in FileClients, fileClient'[d] = "start"
        PROVE  ~Queued(d)' /\ ~Serving(d)'
    <3>1. d # c /\ fileClient[d] = "start"
      BY <1>1, <1>2, <2>1
    <3> QED
      BY <1>3, <1>4, <3>1 DEF TransferInv, QueuedOnce
  <2> QED
    BY <1>3, <2>1 DEF QueuedOnce
<1>7. Delivery(c)'
  <2> SUFFICES ASSUME Intact(c)' PROVE Fresh(c)' \/ Waiting(c)'
    BY DEF Delivery
  <2>1. Fresh(c)
    BY <1>1, <1>2 DEF TransferInv, Delivery, Intact, Waiting, Receiving, Ended
  <2>2. CASE filePending' = Append(filePending, c) /\ link' = [link EXCEPT ![c] = "open"]
             /\ fileClient' = [fileClient EXCEPT ![c] = "read"]
    <3>1. Queued(c)'
      BY <1>2, <2>2, QueueAppend DEF Queued
    <3>2. link'[c] = "open" /\ fileClient'[c] = "read"
      BY <1>2, <2>2
    <3>3. << >> \o << >> = File(0)
      BY DEF File
    <3> QED
      BY <1>1, <1>2, <1>4, <2>1, <3>1, <3>2, <3>3 DEF Fresh, Waiting, Sent
  <2>3. CASE /\ fileClient' = [fileClient EXCEPT ![c] = "failed"]
             /\ UNCHANGED <<filePending, link>>
    <3>1. fileClient'[c] = "failed" /\ ~Queued(c)'
      BY <1>2, <2>3, QueueStays
    <3> QED
      BY <1>1, <1>2, <1>4, <2>1, <2>3, <3>1 DEF Fresh
  <2> QED
    BY <1>1, <2>2, <2>3
<1>8. ASSUME NEW d \in FileClients, d # c
      PROVE  Delivery(d)'
  BY <1>1, <1>3, <1>8, ClientFrame
<1> QED
  BY <1>1, <1>5, <1>6, <1>7, <1>8 DEF TransferInv

LEMMA ReadInv ==
    ASSUME TransferInv, NEW c \in FileClients, Transfer!Read(c)
    PROVE  TransferInv'
<1>1. PICK n \in 1 .. Len(stream[c]) :
         /\ output' = [output EXCEPT ![c] = @ \o SubSeq(stream[c], 1, n)]
         /\ stream' = [stream EXCEPT ![c] = SubSeq(@, n + 1, Len(@))]
  BY DEF Transfer!Read
<1>2. /\ fileClient[c] = "read"
      /\ UNCHANGED <<fileServer, fileSock, pos, filePending, link, far, misread, fileClient>>
  BY DEF Transfer!Read, Transfer!serverVars
<1>3. /\ stream \in [FileClients -> Seq(1 .. FileSize)]
      /\ output \in [FileClients -> Seq(0 .. FileSize)]
  BY DEF TransferInv, TransferTypes
<1>4. /\ output'[c] = output[c] \o SubSeq(stream[c], 1, n)
      /\ stream'[c] = SubSeq(stream[c], n + 1, Len(stream[c]))
  BY <1>1, <1>3
<1>5. /\ SubSeq(stream[c], 1, n) \in Seq(1 .. FileSize)
      /\ SubSeq(stream[c], n + 1, Len(stream[c])) \in Seq(1 .. FileSize)
  <2>1. /\ Len(stream[c]) \in Nat /\ n \in Int /\ n <= Len(stream[c])
        /\ stream[c] \in Seq(1 .. FileSize)
    BY <1>3, LenProperties
  <2>4. \A i \in 1 .. Len(stream[c]) : stream[c][i] \in 1 .. FileSize
    BY <2>1, ElementOfSeq
  <2>2. \A i \in 1 .. n : stream[c][i] \in 1 .. FileSize
    BY <2>1, <2>4
  <2>3. \A i \in n + 1 .. Len(stream[c]) : stream[c][i] \in 1 .. FileSize
    BY <2>1, <2>4
  <2> QED
    BY <2>1, <2>2, <2>3, SubSeqProperties
<1>6. output'[c] \in Seq(0 .. FileSize)
  <2>1. 1 .. FileSize \subseteq 0 .. FileSize
    BY FileSizes
  <2>2. SubSeq(stream[c], 1, n) \in Seq(0 .. FileSize)
    BY <1>5, <2>1, SeqMonotonic
  <2>3. output[c] \in Seq(0 .. FileSize)
    BY <1>3
  <2> QED
    BY <1>4, <2>2, <2>3, ConcatProperties
<1>7. TransferTypes'
  <2>1. stream' \in [FileClients -> Seq(1 .. FileSize)]
    BY <1>1, <1>3, <1>4, <1>5
  <2>2. output' \in [FileClients -> Seq(0 .. FileSize)]
    BY <1>1, <1>3, <1>4, <1>6
  <2> QED
    BY <1>2, <2>1, <2>2 DEF TransferInv, TransferTypes
<1>8. \A d : (Queued(d)' <=> Queued(d)) /\ (Serving(d)' <=> Serving(d))
  BY <1>2 DEF Queued, Serving
<1>9. QueuedOnce'
  BY <1>2, <1>8 DEF TransferInv, QueuedOnce
<1>10. output'[c] \o stream'[c] = output[c] \o stream[c]
  BY <1>4, StreamBytes, ReadOn DEF TransferInv
<1>11. stream[c] # << >>
  BY <1>1
<1>12. Delivery(c)'
  <2> SUFFICES ASSUME Intact(c)' PROVE Waiting(c)' \/ Receiving(c)' \/ Ended(c)'
    BY DEF Delivery
  <2>1. Waiting(c) \/ Receiving(c) \/ Ended(c)
    BY <1>2 DEF TransferInv, Delivery, Intact, Fresh
  <2>2. Waiting(c) => Waiting(c)'
    BY <1>2, <1>8, <1>10 DEF Waiting, Sent
  <2>3. Receiving(c) => Receiving(c)'
    BY <1>2, <1>8, <1>10 DEF Receiving, Sent
  <2>4. Ended(c) => Ended(c)'
    BY <1>2, <1>8, <1>10, <1>11 DEF Ended, Sent, SentOut
  <2> QED
    BY <2>1, <2>2, <2>3, <2>4
<1>13. ASSUME NEW d \in FileClients, d # c
       PROVE  Delivery(d)'
  BY <1>2, <1>8, <1>13, ClientFrame
<1> QED
  BY <1>2, <1>7, <1>9, <1>12, <1>13 DEF TransferInv

(* An unbroken connection ends behind the last byte, and only broken ones *)
(* give errors and junk.                                                  *)
LEMMA EndInv ==
    ASSUME TransferInv, NEW c \in FileClients,
           Transfer!ReadEnd(c) \/ Transfer!ReadError(c) \/ Transfer!Reset(c) \/ Transfer!Leave(c)
    PROVE  TransferInv'
<1>u. fileClient[c] = "read" /\ UNCHANGED <<fileServer, fileSock, pos, filePending, misread>>
  BY DEF Transfer!ReadEnd, Transfer!ReadError, Transfer!Reset, Transfer!Leave,
         Transfer!serverVars
<1>p. PICK p \in {"read", "done", "crashed", "gone"} : fileClient' = [fileClient EXCEPT ![c] = p]
  BY DEF TransferInv, TransferTypes, Transfer!ReadEnd, Transfer!ReadError, Transfer!Reset,
         Transfer!Leave, Transfer!serverVars
<1>l. \E l \in {link[c], "over", "reset"} : link' = [link EXCEPT ![c] = l]
  BY DEF TransferInv, TransferTypes, Transfer!ReadEnd, Transfer!ReadError, Transfer!Reset,
         Transfer!Leave, Transfer!serverVars
<1>f. far' \in {far, [far EXCEPT ![c] = "closed"]}
  BY DEF TransferInv, TransferTypes, Transfer!ReadEnd, Transfer!ReadError, Transfer!Reset,
         Transfer!Leave, Transfer!serverVars
<1>1. /\ stream' \in {stream, [stream EXCEPT ![c] = << >>]}
      /\ output' \in {output, [output EXCEPT ![c] = Append(@, 0)]}
  BY DEF TransferInv, TransferTypes, Transfer!ReadEnd, Transfer!ReadError, Transfer!Reset,
         Transfer!Leave, Transfer!serverVars, Transfer!Junk
<1>2. /\ stream \in [FileClients -> Seq(1 .. FileSize)]
      /\ output \in [FileClients -> Seq(0 .. FileSize)]
      /\ link \in [FileClients -> {"none", "open", "ended", "reset", "over"}]
      /\ far \in [FileClients -> {"here", "closed", "broken"}]
      /\ fileClient \in [FileClients -> {"start", "read", "done", "failed", "crashed", "gone"}]
  BY DEF TransferInv, TransferTypes
<1>3. TransferTypes'
  <2>1. stream' \in [FileClients -> Seq(1 .. FileSize)]
    <3>1. << >> \in Seq(1 .. FileSize)
      BY EmptySeq
    <3> QED
      BY <1>1, <1>2, <3>1
  <2>2. output' \in [FileClients -> Seq(0 .. FileSize)]
    <3>1. output[c] \in Seq(0 .. FileSize) /\ 0 \in 0 .. FileSize
      BY <1>2, FileSizes
    <3>2. Append(output[c], 0) \in Seq(0 .. FileSize)
      BY <3>1, AppendProperties
    <3> QED
      BY <1>1, <1>2, <3>2
  <2>3. link' \in [FileClients -> {"none", "open", "ended", "reset", "over"}]
    BY <1>l, <1>2
  <2>4. far' \in [FileClients -> {"here", "closed", "broken"}]
    BY <1>f, <1>2
  <2>5. fileClient' \in [FileClients -> {"start", "read", "done", "failed", "crashed", "gone"}]
    BY <1>p, <1>2
  <2> QED
    BY <1>u, <2>1, <2>2, <2>3, <2>4, <2>5 DEF TransferInv, TransferTypes
<1>4. \A d : (Queued(d)' <=> Queued(d)) /\ (Serving(d)' <=> Serving(d))
  BY <1>u DEF Queued, Serving
<1>5. QueuedOnce'
  <2>1. \A d \in FileClients : fileClient'[d] = "start" => fileClient[d] = "start"
    BY <1>u, <1>p, <1>2
  <2> QED
    BY <1>u, <1>4, <2>1 DEF TransferInv, QueuedOnce
<1>6. Delivery(c)'
  <2> SUFFICES ASSUME Intact(c)' PROVE Ended(c)'
    BY DEF Delivery
  <2>1. Intact(c)
    BY <1>u, <1>f, <1>2 DEF Intact
  <2>2. link[c] \in {"open", "ended"} /\ fileServer # "exited"
    BY <1>u, <2>1 DEF TransferInv, Delivery, Intact, Fresh, Waiting, Receiving, Ended
  <2>3. ~Transfer!ReadError(c)
    BY <2>2 DEF Transfer!ReadError
  <2>4. ~Transfer!Reset(c) /\ ~Transfer!Leave(c)
    BY <1>2 DEF Intact, Transfer!Reset, Transfer!Leave
  <2>5. /\ Transfer!ReadEnd(c) /\ link[c] = "ended" /\ stream[c] = << >>
        /\ fileClient' = [fileClient EXCEPT ![c] = "done"] /\ UNCHANGED <<link, stream, output>>
    BY <2>2, <2>3, <2>4 DEF Transfer!ReadEnd
  <2>6. Ended(c)
    BY <2>1, <2>5 DEF TransferInv, Delivery, Fresh, Waiting, Receiving
  <2>7. fileClient'[c] = "done"
    BY <1>2, <2>5
  <2> QED
    BY <1>u, <1>4, <2>5, <2>6, <2>7 DEF Ended, Sent, SentOut
<1>7. ASSUME NEW d \in FileClients, d # c
      PROVE  Delivery(d)'
  BY <1>u, <1>4, <1>7, ClientFrame
<1> QED
  BY <1>u, <1>3, <1>5, <1>6, <1>7 DEF TransferInv

LEMMA TransferStep ==
    ASSUME TransferInv, [Transfer!Next]_(Transfer!vars)
    PROVE  TransferInv'
BY ListenInv, AcceptInv, SendPieceInv, CloseInv, ConnectInv, ReadInv, EndInv
   DEF Transfer!Next, Transfer!ServerStep, Transfer!ClientStep

LEMMA TransferStart == Transfer!Init => TransferInv
<1> SUFFICES ASSUME Transfer!Init PROVE TransferInv
  OBVIOUS
<1>1. /\ fileServer = "start" /\ fileSock = 0 /\ pos = 0 /\ filePending = << >>
      /\ stream = [c \in FileClients |-> << >>] /\ output = [c \in FileClients |-> << >>]
      /\ link = [c \in FileClients |-> "none"] /\ far = [c \in FileClients |-> "here"]
      /\ misread = {} /\ fileClient = [c \in FileClients |-> "start"]
  BY DEF Transfer!Init, Transfer!NoClient
<1>2. TransferTypes
  BY <1>1, FileSizes DEF TransferTypes
<1>3. \A c : ~Queued(c) /\ ~Serving(c)
  BY <1>1 DEF Queued, Serving
<1>4. QueuedOnce
  BY <1>1, <1>3 DEF QueuedOnce
<1>5. \A c \in FileClients : Delivery(c)
  BY <1>1, <1>3 DEF Delivery, Fresh
<1> QED
  BY <1>1, <1>2, <1>4, <1>5 DEF TransferInv

LEMMA TransferHolds == TransferInv => Transfer!TypeOK /\ WholeFileTransferred
<1> SUFFICES ASSUME TransferInv PROVE Transfer!TypeOK /\ WholeFileTransferred
  OBVIOUS
<1>1. Transfer!TypeOK
  BY DEF TransferInv, TransferTypes, Transfer!TypeOK, Transfer!NoClient
<1>2. ASSUME NEW c \in FileClients, fileClient[c] = "done", Intact(c)
      PROVE  /\ output[c] = [i \in 1 .. Len(output[c]) |-> i]
             /\ Len(output[c]) = FileSize \/ c \in misread
  <2>1. Ended(c) /\ stream[c] = << >>
    BY <1>2 DEF TransferInv, Delivery, Fresh, Waiting, Receiving, Ended
  <2>2. output[c] \o << >> = output[c]
    BY StreamBytes, ConcatEmptySeq DEF TransferInv
  <2>3. PICK n \in 0 .. FileSize : output[c] = File(n) /\ (n = FileSize \/ c \in misread)
    BY <2>1, <2>2 DEF Ended, SentOut, Sent
  <2>4. Len(File(n)) = n
    BY FileSizes DEF File
  <2> QED
    BY <2>3, <2>4 DEF File
<1>3. WholeFileTransferred
  BY <1>2 DEF WholeFileTransferred, Transfer!WholeFileTransferred, Intact
<1> QED
  BY <1>1, <1>3


-------------------------------------------------------------------------------
(* The curl proxy. *)
LEMMA CurlLengths == Origin \in [Fetches -> Nat \cup {-1}]
BY ProgramsAssumption

(***************************************************************************)
(* What is known of request r at each place of its handler: how the code,  *)
(* the result of libcurl and the bytes received belong together.           *)
(***************************************************************************)
FetchReceived(r) ==
    /\ code[r] = 0 => size[r] = 0
    /\ code[r] = 200 => Origin[r] \in Nat /\ size[r] <= Origin[r]
    /\ handler[r] = "perform" => res[r] = "none"
    /\ handler[r] \in {"answer", "send", "done"} =>
          /\ res[r] \in {"OK", "FAILED", "WRITE_ERROR"}
          /\ res[r] = "OK" /\ code[r] = 200 /\ r \in Framed => size[r] = Origin[r]
    /\ handler[r] = "send" => code[r] = 200 /\ announced[r] = size[r]

AnswerTrue(r) ==
    handler[r] = "done" /\ result[r] # CurlProxy!Failure =>
        \/ announced[r] = CurlProxy!Missing /\ code[r] # 200
        \/ /\ announced[r] \in 0 .. Origin[r] /\ result[r] = announced[r]
           /\ announced[r] = Origin[r] \/ res[r] # "OK" \/ r \notin Framed

HandleReturned(r) ==
    r \in handles /\ handler[r] = "done" =>
        announced[r] # CurlProxy!Missing /\ result[r] = CurlProxy!Failure

CurlTypes ==
    /\ main \in {"start", "serving", "exited"} /\ lost \subseteq Fetches
    /\ handler \in [Fetches -> {"idle", "perform", "answer", "send", "done"}]
    /\ size \in [Fetches -> Nat] /\ handles \subseteq Fetches
    /\ code \in [Fetches -> {0, 200, 404, 500}]
    /\ res \in [Fetches -> {"none", "OK", "FAILED", "WRITE_ERROR"}]
    /\ announced \in [Fetches -> Int] /\ result \in [Fetches -> Int]

FetchKnown(r) ==
    /\ handler[r] = "idle" => code[r] = 0 /\ res[r] = "none"
    /\ FetchReceived(r) /\ AnswerTrue(r) /\ HandleReturned(r)

CurlInv == CurlTypes /\ \A r \in Fetches : FetchKnown(r)

(* A handler touches nothing of another request. *)
LEMMA OthersFetchKnown ==
    ASSUME CurlInv, NEW r \in Fetches, CurlProxy!HandlerStep(r), CurlTypes',
           NEW q \in Fetches \ {r}
    PROVE  FetchKnown(q)'
<1>1. /\ handler'[q] = handler[q] /\ size'[q] = size[q] /\ code'[q] = code[q]
      /\ res'[q] = res[q] /\ announced'[q] = announced[q] /\ result'[q] = result[q]
      /\ q \in handles' <=> q \in handles
  BY DEF CurlInv, CurlTypes, CurlProxy!HandlerStep, CurlProxy!Handle, CurlProxy!Respond,
         CurlProxy!WriteData, CurlProxy!Performed, CurlProxy!AnswerMiss,
         CurlProxy!AnswerHeader, CurlProxy!Send, CurlProxy!Goto, CurlProxy!fetchVars
<1> QED
  BY <1>1 DEF CurlInv, FetchKnown, FetchReceived, AnswerTrue, HandleReturned

LEMMA CurlStepTypes ==
    ASSUME CurlInv, NEW r \in Fetches, CurlProxy!HandlerStep(r)
    PROVE  CurlTypes'
<1>1. CASE CurlProxy!Handle(r)
  BY <1>1 DEF CurlInv, CurlTypes, CurlProxy!Handle, CurlProxy!Goto, CurlProxy!fetchVars
<1>2. CASE CurlProxy!Respond(r)
  BY <1>2 DEF CurlInv, CurlTypes, CurlProxy!Respond
<1>3. CASE CurlProxy!WriteData(r)
  <2>1. Origin[r] \in Int /\ size[r] \in Nat
    BY CurlLengths DEF CurlInv, CurlTypes
  <2>2. \A n \in 1 .. Origin[r] - size[r] : CurlProxy!Grown(r, n) \in Nat
    BY <2>1 DEF CurlProxy!Grown
  <2> QED
    BY <1>3, <2>2 DEF CurlInv, CurlTypes, CurlProxy!WriteData, CurlProxy!Goto
<1>4. CASE CurlProxy!Performed(r)
  BY <1>4 DEF CurlInv, CurlTypes, CurlProxy!Performed, CurlProxy!Goto
<1>5. CASE CurlProxy!AnswerMiss(r)
  BY <1>5 DEF CurlInv, CurlTypes, CurlProxy!AnswerMiss, CurlProxy!Goto, CurlProxy!Failure,
         CurlProxy!HeaderLen, CurlProxy!Missing, CurlProxy!fetchVars
<1>6. CASE CurlProxy!AnswerHeader(r)
  BY <1>6 DEF CurlInv, CurlTypes, CurlProxy!AnswerHeader, CurlProxy!Goto,
         CurlProxy!fetchVars
<1>7. CASE CurlProxy!Send(r)
  <2>1. \A n \in CurlProxy!Failure .. size[r] : n \in Int
    BY DEF CurlInv, CurlTypes, CurlProxy!Failure
  <2> QED
    BY <1>7, <2>1 DEF CurlInv, CurlTypes, CurlProxy!Send, CurlProxy!Goto,
           CurlProxy!Failure, CurlProxy!fetchVars
<1> QED
  BY <1>1, <1>2, <1>3, <1>4, <1>5, <1>6, <1>7 DEF CurlProxy!HandlerStep

LEMMA OwnFetchKnown ==
    ASSUME CurlInv, NEW r \in Fetches, CurlProxy!HandlerStep(r)
    PROVE  FetchKnown(r)'
<1>0. CurlTypes /\ CurlTypes' /\ FetchKnown(r) /\ Origin[r] \in Nat \cup {-1}
  BY CurlStepTypes, CurlLengths DEF CurlInv
<1>1. CASE CurlProxy!Handle(r)
  BY <1>0, <1>1 DEF CurlTypes, FetchKnown, FetchReceived, AnswerTrue, HandleReturned,
         CurlProxy!Handle, CurlProxy!At, CurlProxy!Goto, CurlProxy!fetchVars
<1>2. CASE CurlProxy!Respond(r)
  BY <1>0, <1>2 DEF CurlTypes, FetchKnown, FetchReceived, AnswerTrue, HandleReturned,
         CurlProxy!Respond, CurlProxy!At
<1>3. CASE CurlProxy!WriteData(r)
  BY <1>0, <1>3 DEF CurlTypes, FetchKnown, FetchReceived, AnswerTrue, HandleReturned,
         CurlProxy!WriteData, CurlProxy!Grown, CurlProxy!At, CurlProxy!Goto
<1>4. CASE CurlProxy!Performed(r)
  BY <1>0, <1>4 DEF CurlTypes, FetchKnown, FetchReceived, AnswerTrue, HandleReturned,
         CurlProxy!Performed, CurlProxy!At, CurlProxy!Goto
<1>5. CASE CurlProxy!AnswerMiss(r)
  BY <1>0, <1>5 DEF CurlTypes, FetchKnown, FetchReceived, AnswerTrue, HandleReturned,
         CurlProxy!AnswerMiss, CurlProxy!At, CurlProxy!Goto, CurlProxy!ErrorSeen,
         CurlProxy!Missing, CurlProxy!Failure, CurlProxy!fetchVars
<1>6. CASE CurlProxy!AnswerHeader(r)
  BY <1>0, <1>6 DEF CurlTypes, FetchKnown, FetchReceived, AnswerTrue, HandleReturned,
         CurlProxy!AnswerHeader, CurlProxy!At, CurlProxy!Goto, CurlProxy!fetchVars
<1>7. CASE CurlProxy!Send(r)
  BY <1>0, <1>7 DEF CurlTypes, FetchKnown, FetchReceived, AnswerTrue, HandleReturned,
         CurlProxy!Send, CurlProxy!At, CurlProxy!Goto, CurlProxy!Missing,
         CurlProxy!Failure, CurlProxy!fetchVars
<1> QED
  BY <1>1, <1>2, <1>3, <1>4, <1>5, <1>6, <1>7 DEF CurlProxy!HandlerStep

LEMMA CurlStep ==
    ASSUME CurlInv, [CurlProxy!Next]_(CurlProxy!vars)
    PROVE  CurlInv'
<1>1. CASE CurlProxy!Serve \/ CurlProxy!Stop \/ UNCHANGED CurlProxy!vars
  BY <1>1 DEF CurlProxy!Serve, CurlProxy!Stop, CurlProxy!vars, CurlProxy!fetchVars,
         CurlInv, CurlTypes, FetchKnown, FetchReceived, AnswerTrue, HandleReturned
<1>2. ASSUME NEW r \in Fetches, CurlProxy!HandlerStep(r)
      PROVE  CurlInv'
  BY <1>2, CurlStepTypes, OwnFetchKnown, OthersFetchKnown DEF CurlInv
<1> QED
  BY <1>1, <1>2 DEF CurlProxy!Next

LEMMA CurlStart == CurlProxy!Init => CurlInv
BY CurlLengths DEF CurlProxy!Init, CurlInv, CurlTypes, FetchKnown, FetchReceived,
       AnswerTrue, HandleReturned, CurlProxy!Pending

LEMMA CurlHolds == CurlInv => CurlProxy!TypeOK /\ CurlAnswerTrue /\ CurlHandlesReturned
<1>1. CurlInv => CurlProxy!TypeOK
  BY DEF CurlInv, CurlTypes, CurlProxy!TypeOK
<1>2. CurlInv => CurlAnswerTrue
  BY DEF CurlInv, CurlTypes, FetchKnown, AnswerTrue, CurlAnswerTrue, CurlProxy!CurlAnswerTrue
<1>3. CurlInv => CurlHandlesReturned
  BY DEF CurlInv, CurlTypes, FetchKnown, HandleReturned, CurlHandlesReturned,
         CurlProxy!CurlHandlesReturned
<1> QED
  BY <1>1, <1>2, <1>3


-------------------------------------------------------------------------------
(***************************************************************************)
(* The echo pair and the image service have their proofs in modules of     *)
(* their own, which hold for the instances used here.                      *)
(***************************************************************************)
EchoPair == INSTANCE EchoProofs WITH
    Clients <- EchoClients, Length <- EchoLength, Width <- EchoWidth,
    MaxPending <- EchoPending, Descriptors <- EchoDescriptors
ImageService == INSTANCE MinifyRpcProofs WITH
    Clients <- Callers, server <- rpcServer, client <- rpcClient

(* Each program's variables change by steps of that program only. *)
LEMMA IpcRuns == [ProgramsNext]_allVars => [Next]_vars
BY DEF ProgramsNext, RunEcho, RunTransfer, allVars

LEMMA TransferRuns == [ProgramsNext]_allVars => [Transfer!Next]_(Transfer!vars)
BY DEF ProgramsNext, RunEcho, RunTransfer, allVars, transferVars, Transfer!vars, Transfer!serverVars

LEMMA CurlRuns == [ProgramsNext]_allVars => [CurlProxy!Next]_(CurlProxy!vars)
BY DEF ProgramsNext, RunEcho, RunTransfer, allVars, curlVars, CurlProxy!vars, CurlProxy!fetchVars

LEMMA EchoRuns == [ProgramsNext]_allVars => [EchoPair!Next]_(EchoPair!vars)
<1>1. [ProgramsNext]_allVars => [Echo!Next]_(Echo!vars)
  BY DEF ProgramsNext, RunEcho, RunTransfer, allVars, echoVars, Echo!vars, Echo!serverVars,
         Echo!clientVars
<1>2. UNCHANGED Echo!vars => UNCHANGED EchoPair!vars
  BY DEF Echo!vars, Echo!serverVars, Echo!clientVars, EchoPair!vars, EchoPair!serverVars,
         EchoPair!clientVars
<1>3. Echo!ServerStep => EchoPair!ServerStep
  BY DEF Echo!ServerStep, Echo!Listen, Echo!Accept, Echo!Recv, Echo!Write, Echo!MayReceive,
         Echo!Filled, Echo!Zero, Echo!serverVars, Echo!clientVars,
         EchoPair!ServerStep, EchoPair!Listen, EchoPair!Accept, EchoPair!Recv, EchoPair!Write,
         EchoPair!MayReceive, EchoPair!Filled, EchoPair!Zero, EchoPair!serverVars,
         EchoPair!clientVars
<1>4. ASSUME NEW c \in EchoClients, Echo!ClientStep(c) \/ Echo!Leave(c)
      PROVE  EchoPair!ClientStep(c) \/ EchoPair!Leave(c)
  BY <1>4 DEF Echo!ClientStep, Echo!Connect, Echo!Send, Echo!Receive, Echo!Leave, Echo!Zero,
         Echo!serverVars, Echo!clientVars,
         EchoPair!ClientStep, EchoPair!Connect, EchoPair!Send, EchoPair!Receive,
         EchoPair!Leave, EchoPair!Zero, EchoPair!serverVars, EchoPair!clientVars
<1> QED
  BY <1>1, <1>2, <1>3, <1>4 DEF Echo!Next, EchoPair!Next

LEMMA MinifyRuns == [ProgramsNext]_allVars => [ImageService!Next]_(ImageService!vars)
<1>1. [ProgramsNext]_allVars => [MinifyRpc!Next]_(MinifyRpc!vars)
  BY DEF ProgramsNext, RunEcho, RunTransfer, allVars, minifyVars, MinifyRpc!vars,
         MinifyRpc!serverVars
<1>2. UNCHANGED MinifyRpc!vars => UNCHANGED ImageService!vars
  BY DEF MinifyRpc!vars, MinifyRpc!serverVars, ImageService!vars, ImageService!serverVars
<1>3. /\ MinifyRpc!Register => ImageService!Register
      /\ MinifyRpc!ReadArgument => ImageService!ReadArgument
      /\ MinifyRpc!RefuseArgument => ImageService!RefuseArgument
      /\ MinifyRpc!Resize => ImageService!Resize
      /\ MinifyRpc!Reply => ImageService!Reply
      /\ MinifyRpc!Tick => ImageService!Tick
  BY DEF MinifyRpc!Register, MinifyRpc!ReadArgument, MinifyRpc!RefuseArgument,
         MinifyRpc!Resize, MinifyRpc!Reply, MinifyRpc!Tick, MinifyRpc!Due, MinifyRpc!Limit,
         MinifyRpc!Answer, MinifyRpc!Waits,
         ImageService!Register, ImageService!ReadArgument, ImageService!RefuseArgument,
         ImageService!Resize, ImageService!Reply, ImageService!Tick, ImageService!Due,
         ImageService!Limit, ImageService!Answer, ImageService!Waits
<1>4. ASSUME NEW c \in Callers
      PROVE  /\ MinifyRpc!Dispatch(c) => ImageService!Dispatch(c)
             /\ MinifyRpc!Call(c) => ImageService!Call(c)
             /\ MinifyRpc!Break(c) => ImageService!Break(c)
             /\ MinifyRpc!GiveUp(c) => ImageService!GiveUp(c)
  BY DEF MinifyRpc!Dispatch, MinifyRpc!Call, MinifyRpc!Break, MinifyRpc!GiveUp,
         MinifyRpc!Waits, MinifyRpc!serverVars,
         ImageService!Dispatch, ImageService!Call, ImageService!Break, ImageService!GiveUp,
         ImageService!Waits, ImageService!serverVars
<1> QED
  BY <1>1, <1>2, <1>3, <1>4 DEF MinifyRpc!Next, ImageService!Next

(***************************************************************************)
(* What holds of one program holds of Programs.                            *)
(***************************************************************************)
LEMMA TransferAlways == ProgramsSpec => []TransferInv
<1>1. ProgramsInit => TransferInv
  BY TransferStart DEF ProgramsInit
<1>2. TransferInv /\ [ProgramsNext]_allVars => TransferInv'
  BY TransferStep, TransferRuns
<1> QED
  BY <1>1, <1>2, PTL DEF ProgramsSpec

LEMMA CurlAlways == ProgramsSpec => []CurlInv
<1>1. ProgramsInit => CurlInv
  BY CurlStart DEF ProgramsInit
<1>2. CurlInv /\ [ProgramsNext]_allVars => CurlInv'
  BY CurlStep, CurlRuns
<1> QED
  BY <1>1, <1>2, PTL DEF ProgramsSpec

LEMMA EchoAlways == ProgramsSpec => EchoPair!Spec
<1>1. ProgramsInit => EchoPair!Init
  BY DEF ProgramsInit, Echo!Init, Echo!Zero, Echo!NoClient, EchoPair!Init, EchoPair!Zero,
         EchoPair!NoClient
<1> QED
  BY <1>1, EchoRuns, PTL DEF ProgramsSpec, EchoPair!Spec

LEMMA MinifyAlways == ProgramsSpec => ImageService!Spec
<1>1. ProgramsInit => ImageService!Init
  BY DEF ProgramsInit, MinifyRpc!Init, MinifyRpc!Nobody, ImageService!Init, ImageService!Nobody
<1> QED
  BY <1>1, MinifyRuns, PTL DEF ProgramsSpec, ImageService!Spec

LEMMA IpcAlways == ProgramsSpec => Spec
<1>1. ProgramsInit => Init
  BY DEF ProgramsInit
<1> QED
  BY <1>1, IpcRuns, PTL DEF ProgramsSpec, Spec

LEMMA EchoSizes == EchoPair!Sizes /\ EchoDescriptors \in Nat
BY ProgramsAssumption DEF EchoPair!Sizes

LEMMA ImageDurations == ImageService!Durations
BY ProgramsAssumption DEF ImageService!Durations, ImageService!IsFiniteSet, IsFiniteSet

-------------------------------------------------------------------------------
(***************************************************************************)
(* Type correctness of all programs, among it the limits of the code: the  *)
(* position in the file never passes its end (transferserver.c:145-163),   *)
(* the sockets never pass the descriptors of the process                   *)
(* (echoserver.c:130-151), no image is worked on for longer than it needs  *)
(* and nobody waits beyond the time-out (minifyjpeg_clnt.c:10).            *)
(***************************************************************************)
THEOREM ProgramsTypeCorrect == ProgramsSpec => []ProgramTypes
<1>1. Spec => []TypeOK
  BY IpcTypes
<1>2. EchoPair!Spec => []EchoPair!TypeOK
  BY EchoSizes, EchoPair!EchoTypes
<1>3. ImageService!Spec => []ImageService!TypeOK
  BY ImageDurations, ImageService!MinifyTypes
<1>4. EchoPair!TypeOK => Echo!TypeOK
  BY DEF EchoPair!TypeOK, EchoPair!Zero, EchoPair!NoClient, Echo!TypeOK, Echo!Zero, Echo!NoClient
<1>5. ImageService!TypeOK => MinifyRpc!TypeOK
  BY DEF ImageService!TypeOK, ImageService!Nobody, ImageService!Limit, ImageService!Statuses,
         MinifyRpc!TypeOK, MinifyRpc!Nobody, MinifyRpc!Limit, MinifyRpc!Statuses
<1>6. TransferInv => Transfer!TypeOK
  BY TransferHolds
<1>7. CurlInv => CurlProxy!TypeOK
  BY CurlHolds
<1> QED
  BY <1>1, <1>2, <1>3, <1>4, <1>5, <1>6, <1>7, IpcAlways, EchoAlways, MinifyAlways,
     TransferAlways, CurlAlways, PTL DEF ProgramTypes

(***************************************************************************)
(* An echo is the beginning of the client's own message and zeros          *)
(* (echoserver.c:130-145), however the connections follow on each other,   *)
(* in whatever pieces bytes arrive and whoever leaves.                     *)
(***************************************************************************)
THEOREM ProgramsEcho == ProgramsSpec => []EchoOfOwnMessage
<1>1. EchoPair!Spec => []EchoPair!EchoOfOwnMessage
  BY EchoSizes, EchoPair!EchoOwnMessage
<1>2. EchoPair!EchoOfOwnMessage => EchoOfOwnMessage
  BY DEF EchoPair!EchoOfOwnMessage, EchoPair!Zero, EchoOfOwnMessage, Echo!EchoOfOwnMessage,
         Echo!Zero
<1> QED
  BY <1>1, <1>2, EchoAlways, PTL

(***************************************************************************)
(* A client of the file transfer that ends well over a connection that     *)
(* did not break, beside a server that runs, has the beginning of the      *)
(* file, in order (transferserver.c:145-167, transferclient.c:119-134),    *)
(* for every length of the file and of the buffers, whatever the other     *)
(* clients do; and all of it, unless the server could not read the file    *)
(* (transferserver.c:158-161, which closes the connection all the same).   *)
(***************************************************************************)
THEOREM ProgramsTransfer == ProgramsSpec => []WholeFileTransferred
<1>1. TransferInv => WholeFileTransferred
  BY TransferHolds
<1> QED
  BY <1>1, TransferAlways, PTL

(***************************************************************************)
(* A handler of the curl proxy that does not fail answers FILE_NOT_FOUND   *)
(* only when no code 200 came (handle_with_curl.c:62-75), and OK only      *)
(* with the beginning of the origin's file, as long as the header says:    *)
(* the whole file, when libcurl was told its length and reports no error.  *)
(***************************************************************************)
THEOREM ProgramsCurlAnswers == ProgramsSpec => []CurlAnswerTrue
<1>1. CurlInv => CurlAnswerTrue
  BY CurlHolds
<1> QED
  BY <1>1, CurlAlways, PTL

(***************************************************************************)
(* A request that is over keeps a curl handle only after the return in the *)
(* middle of the handler (handle_with_curl.c:66-68).                       *)
(***************************************************************************)
THEOREM ProgramsCurlHandles == ProgramsSpec => []CurlHandlesReturned
<1>1. CurlInv => CurlHandlesReturned
  BY CurlHolds
<1> QED
  BY <1>1, CurlAlways, PTL

(***************************************************************************)
(* A caller that returns has its own image (minifyjpeg.c:6-22,             *)
(* minifyjpeg_svc.c:25-64), however many callers gave up before.           *)
(***************************************************************************)
THEOREM ProgramsOwnImage == ProgramsSpec => []OwnImage
<1>1. ImageService!OwnImage => OwnImage
  BY DEF ImageService!OwnImage, OwnImage, MinifyRpc!OwnImage
<1> QED
  BY <1>1, ImageService!MinifyOwnImage, MinifyAlways, PTL

(***************************************************************************)
(* A caller whose connection works times out (minifyjpeg_clnt.c:10,18)     *)
(* only when the calls made so far take the server, with one thread to     *)
(* read, resize and answer them, the whole of the caller's time.           *)
(***************************************************************************)
THEOREM ProgramsTimesOut == ProgramsSpec => []TimesOutUnderLoad
<1>1. ImageService!Spec => []ImageService!TimesOutUnderLoad
  BY ImageDurations, ImageService!MinifyTimesOut
<1>2. ImageService!TimesOutUnderLoad => TimesOutUnderLoad
  BY DEF ImageService!TimesOutUnderLoad, TimesOutUnderLoad, MinifyRpc!TimesOutUnderLoad,
         ImageService!Cardinality, MinifyRpc!Cardinality
<1> QED
  BY <1>1, <1>2, MinifyAlways, PTL

===============================================================================
