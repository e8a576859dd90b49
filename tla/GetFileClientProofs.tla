-------------------------- MODULE GetFileClientProofs --------------------------
(***************************************************************************)
(* Proofs about GetFileClient, for every workload, number of threads and   *)
(* rounds, division of the answers among reads and failing connection.     *)
(***************************************************************************)
EXTENDS GetFileClient, SequenceTheorems, TLAPS

(***************************************************************************)
(* Where the bytes of an answer are: the stream of a file is its header    *)
(* followed by the file, and a piece of the stream after the header is a   *)
(* piece of the file.                                                      *)
(***************************************************************************)
Units == (Paths \cup {"header"}) \X Nat

LEMMA PieceOfSeq ==
    ASSUME NEW S, NEW s \in Seq(S), NEW a \in Int, NEW b \in Int, a >= 1, b <= Len(s)
    PROVE  SubSeq(s, a, b) \in Seq(S)
<1>1. \A i \in a .. b : i \in 1 .. Len(s)
  BY LenProperties
<1>2. \A i \in a .. b : s[i] \in S
  BY <1>1, ElementOfSeq
<1> QED
  BY <1>2, SubSeqProperties

LEMMA BodySeq ==
    ASSUME NEW k \in Requests
    PROVE  /\ Want[k] \in Paths /\ Size[Want[k]] \in Nat
           /\ Body(k) \in Seq(Units) /\ Len(Body(k)) = Size[Want[k]]
<1>1. Want[k] \in Paths /\ Size[Want[k]] \in Nat
  BY ClientAssumption DEF Paths, Requests
<1> QED
  BY <1>1 DEF Body, Units

LEMMA HeaderSeq == Header \in Seq(Units) /\ Len(Header) = HeadLen
BY ClientAssumption DEF Header, Units

LEMMA StreamSeq ==
    ASSUME NEW k \in Requests
    PROVE  Stream(k) \in Seq(Units)
<1>1. Header \o Body(k) \in Seq(Units)
  BY BodySeq, HeaderSeq, ConcatProperties
<1>2. [i \in 1 .. Buffer |-> <<"header", 0>>] \in Seq(Units)
  BY ClientAssumption DEF Units
<1> QED
  BY <1>1, <1>2, HeaderSeq DEF Stream

(* The first a bytes of a file, and the bytes a + 1 .. b that follow them. *)
LEMMA BodyPart ==
    ASSUME NEW k \in Requests, NEW a \in Nat, NEW b \in Nat, a <= b, b <= Size[Want[k]]
    PROVE  /\ SubSeq(Body(k), 1, a) \o SubSeq(Body(k), a + 1, b) = SubSeq(Body(k), 1, b)
           /\ Len(SubSeq(Body(k), 1, a)) = a
           /\ SubSeq(Body(k), 1, Size[Want[k]]) = Body(k)
           /\ SubSeq(Body(k), 1, a) \in Seq(Units)
<1> DEFINE f == Body(k)
           n == Size[Want[k]]
<1>1. f \in Seq(Units) /\ Len(f) = n /\ n \in Nat
  BY BodySeq
<1> HIDE DEF f, n
<1>2. a <= b /\ b <= n
  BY DEF n
<1>3. SubSeq(f, 1, a) \o SubSeq(f, a + 1, b) = SubSeq(f, 1, b)
  <2>1. 1 \in 1 .. Len(f) + 1 /\ a \in 1 - 1 .. Len(f) /\ b \in a .. Len(f)
    BY <1>1, <1>2
  <2> QED
    BY <1>1, <2>1, ConcatAdjacentSubSeq
<1>4. Len(SubSeq(f, 1, a)) = a /\ SubSeq(f, 1, a) \in Seq(Units)
  <2>1. \A i \in 1 .. a : f[i] \in Units
    BY <1>1, <1>2, ElementOfSeq
  <2> QED
    BY <2>1, SubSeqProperties
<1>5. SubSeq(f, 1, n) = f
  BY <1>1, SubSeqFull
<1> QED
  BY <1>3, <1>4, <1>5 DEF f, n

LEMMA StreamPart ==
    ASSUME NEW k \in Requests, Reply[Want[k]] = "OK",
           NEW a \in Nat, NEW b \in Nat, a <= b, b <= Size[Want[k]]
    PROVE  /\ Len(Stream(k)) = HeadLen + Size[Want[k]]
           /\ SubSeq(Stream(k), HeadLen + a + 1, HeadLen + b) = SubSeq(Body(k), a + 1, b)
<1> DEFINE f == Body(k)
           h == Header
           n == Size[Want[k]]
<1>1. f \in Seq(Units) /\ Len(f) = n /\ n \in Nat /\ h \in Seq(Units) /\ Len(h) = HeadLen
  BY BodySeq, HeaderSeq
<1>2. Stream(k) = h \o f
  BY DEF Stream
<1> HIDE DEF f, h, n
<1>3. a <= b /\ b <= n /\ HeadLen \in Nat
  BY ClientAssumption DEF n
<1>4. Len(h \o f) = HeadLen + n
  BY <1>1, ConcatProperties
<1>5. SubSeq(h \o f, HeadLen + a + 1, HeadLen + b) = SubSeq(f, a + 1, b)
  <2>1. CASE a = b
    <3>1. HeadLen + a + 1 \in Int /\ HeadLen + b \in Int /\ HeadLen + b < HeadLen + a + 1
      BY <1>3, <2>1
    <3>2. a + 1 \in Int /\ b \in Int /\ b < a + 1
      BY <2>1
    <3>3. SubSeq(h \o f, HeadLen + a + 1, HeadLen + b) = << >>
      BY <3>1, SubSeqEmpty
    <3>4. SubSeq(f, a + 1, b) = << >>
      BY <3>2, SubSeqEmpty
    <3> QED
      BY <3>3, <3>4
  <2>2. CASE a < b
    <3> DEFINE first == HeadLen + a + 1
               last == HeadLen + b
    <3>1. /\ first \in Len(h) + 1 .. Len(h) + Len(f) /\ last \in Len(h) + 1 .. Len(h) + Len(f)
          /\ first - Len(h) = a + 1 /\ last - Len(h) = b
      BY <1>1, <1>3, <2>2
    <3>2. h \in Seq(Units) /\ f \in Seq(Units)
      BY <1>1
    <3> HIDE DEF first, last
    <3>3. SubSeq(h \o f, first, last) = SubSeq(f, first - Len(h), last - Len(h))
      BY <3>1, <3>2, SubSeqOfConcat2
    <3>4. SubSeq(h \o f, first, last) = SubSeq(f, a + 1, b)
      BY <3>1, <3>3
    <3> QED
      BY <3>4 DEF first, last
  <2>3. a = b \/ a < b
    BY <1>3
  <2> QED
    BY <2>1, <2>2, <2>3
<1> QED
  BY <1>2, <1>4, <1>5 DEF f, n

(***************************************************************************)
(* The arithmetic of rounds and slots.                                     *)
(***************************************************************************)
LEMMA RoundArithmetic ==
    ASSUME NEW n \in Nat \ {0}, NEW i \in Nat
    PROVE  /\ i * n \in Nat /\ (i + 1) * n = i * n + n
           /\ \A m \in Nat : i < m => i * n + n <= n * m
           /\ \A s \in 0 .. n - 1 : (i * n + s) \div n = i
<1>1. i * n \in Nat /\ (i + 1) * n = i * n + n
  OBVIOUS
<1>2. ASSUME NEW m \in Nat, i < m PROVE i * n + n <= n * m
  BY <1>2
<1>3. ASSUME NEW s \in 0 .. n - 1 PROVE (i * n + s) \div n = i
  OBVIOUS
<1> QED
  BY <1>1, <1>2, <1>3

(***************************************************************************)
(* The invariant of main: the threads created so far are the requests up   *)
(* to Created, the ones it has joined are done, local_path is the last     *)
(* file of the round being joined, and a file that was created is only     *)
(* missing when a request of its round has failed.                         *)
(***************************************************************************)
Created ==
    round * nthreads + (IF main = "create" THEN slot ELSE IF main = "join" THEN nthreads ELSE 0)

MainInv ==
    /\ main = "join" => round < NRequests /\ localPath = round * nthreads + nthreads
    /\ round = NRequests => slot = 0 /\ main # "join"
    /\ main = "exited" => slot = 0
    /\ \A k \in Requests : pc[k] = "none" <=> k > Created
    /\ \A k \in joined : pc[k] = "done"

Missing(k) == \E j \in joined : j \in Round(k) /\ ~Succeeded(j)

DiskInv ==
    /\ \A k \in Requests : k <= Created => k \in disk \/ Missing(k)
    /\ nthreads = 1 => \A k \in joined : ~Succeeded(k) => k \notin disk

(***************************************************************************)
(* The invariant of one call of gfc_perform.                               *)
(***************************************************************************)
CallInv(k) ==
    /\ pc[k] \in {"none", "start", "read_header"} => file[k] = << >>
    /\ pc[k] = "read_body" =>
          /\ Reply[Want[k]] = "OK" /\ status[k] = "OK"
          /\ taken[k] = HeadLen + Len(file[k]) /\ Len(file[k]) < Size[Want[k]]
    /\ Len(file[k]) <= Size[Want[k]]
    /\ file[k] = SubSeq(Body(k), 1, Len(file[k]))
    /\ pc[k] = "done" /\ result[k] = 0 =>
          /\ status[k] = Reply[Want[k]]
          /\ status[k] = "OK" => Len(file[k]) = Size[Want[k]]

(* What the steps of a thread, and of its connection, have in common. *)
Statuses == {"unset", "OK", "FILE_NOT_FOUND", "ERROR", "INVALID"}
Calling == {"start", "read_header", "read_body"}

OneCall(k) ==
    /\ UNCHANGED mainVars
    /\ pc[k] \in Calling
    /\ \E p \in Calling \cup {"done"} : pc' = [pc EXCEPT ![k] = p]
    /\ \E l \in {"up", "closed", "reset"} : link' = [link EXCEPT ![k] = l]
    /\ \E n \in Nat : taken' = [taken EXCEPT ![k] = n]
    /\ \E s \in Statuses : status' = [status EXCEPT ![k] = s]
    /\ \E f \in Seq(Units) : file' = [file EXCEPT ![k] = f]
    /\ \E r \in {-1, 0} : result' = [result EXCEPT ![k] = r]

LEMMA CallTypes ==
    ASSUME TypeOK
    PROVE  /\ pc \in [Requests -> {"none", "start", "read_header", "read_body", "done"}]
           /\ link \in [Requests -> {"up", "closed", "reset"}]
           /\ taken \in [Requests -> Nat]
           /\ status \in [Requests -> Statuses]
           /\ file \in [Requests -> Seq(Units)]
           /\ result \in [Requests -> {-1, 0}]
           /\ nthreads \in Nat \ {0} /\ round \in 0 .. NRequests /\ slot \in 0 .. nthreads - 1
           /\ joined \subseteq Requests
BY ClientAssumption DEF TypeOK, Statuses, Units

(* A function that changes at k only; unchanged is the same with the old value. *)
LEMMA SameAt ==
    ASSUME NEW T, NEW f \in [Requests -> T], NEW k \in Requests
    PROVE  f = [f EXCEPT ![k] = f[k]] /\ f[k] \in T
OBVIOUS

LEMMA CallsOnly ==
    ASSUME TypeOK, NEW k \in Requests, ThreadStep(k) \/ LinkFails(k)
    PROVE  OneCall(k)
<1>t. /\ pc \in [Requests -> {"none", "start", "read_header", "read_body", "done"}]
      /\ link \in [Requests -> {"up", "closed", "reset"}]
      /\ taken \in [Requests -> Nat] /\ status \in [Requests -> Statuses]
      /\ file \in [Requests -> Seq(Units)] /\ result \in [Requests -> {-1, 0}]
  BY CallTypes
<1>s. /\ pc = [pc EXCEPT ![k] = pc[k]]
      /\ link = [link EXCEPT ![k] = link[k]] /\ link[k] \in {"up", "closed", "reset"}
      /\ taken = [taken EXCEPT ![k] = taken[k]] /\ taken[k] \in Nat
      /\ status = [status EXCEPT ![k] = status[k]] /\ status[k] \in Statuses
      /\ file = [file EXCEPT ![k] = file[k]] /\ file[k] \in Seq(Units)
      /\ result = [result EXCEPT ![k] = result[k]] /\ result[k] \in {-1, 0}
  BY <1>t, SameAt
<1>c. /\ HeadLen \in Nat /\ Buffer \in Nat /\ Extra \in {0, 1} /\ Extra + 1 < HeadLen
      /\ Size[Want[k]] \in Nat /\ Reply[Want[k]] \in {"OK", "FILE_NOT_FOUND", "ERROR", "endless"}
  BY ClientAssumption, BodySeq
<1>g. UNCHANGED mainVars /\ pc[k] \in Calling
  BY DEF ThreadStep, LinkFails, ConnectFails, SendFails, Ask, ReadFails, ReadEnd,
         ReadPartOfHeader, ReadHeader, ReadRefusal, ReadBody, Calling
<1>p. \E p \in Calling \cup {"done"} : pc' = [pc EXCEPT ![k] = p]
  BY <1>s, <1>g DEF ThreadStep, LinkFails, ConnectFails, SendFails, Ask, ReadFails, ReadEnd,
         ReadPartOfHeader, ReadHeader, ReadRefusal, ReadBody, Calling, Finish, Goto
<1>l. \E l \in {"up", "closed", "reset"} : link' = [link EXCEPT ![k] = l]
  BY <1>s DEF ThreadStep, LinkFails, ConnectFails, SendFails, Ask, ReadFails, ReadEnd,
         ReadPartOfHeader, ReadHeader, ReadRefusal, ReadBody
<1>n. \E n \in Nat : taken' = [taken EXCEPT ![k] = n]
  <2>1. CASE ReadPartOfHeader(k) \/ ReadHeader(k) \/ ReadRefusal(k) \/ ReadBody(k)
    <3>1. PICK n \in Int : /\ n >= 1 \/ n >= HeadLen - taken[k]
                           /\ CanTake(k, n)
      BY <1>c, <1>s, <2>1 DEF ReadPartOfHeader, ReadHeader, ReadRefusal, ReadBody
    <3>2. taken[k] + n \in Nat
      BY <1>c, <1>s, <3>1
    <3> QED
      BY <3>1, <3>2 DEF CanTake
  <2>2. CASE taken' = taken
    BY <1>s, <2>2
  <2> QED
    BY <2>1, <2>2 DEF ThreadStep, LinkFails, ConnectFails, SendFails, Ask, ReadFails, ReadEnd
<1>q. \E s \in Statuses : status' = [status EXCEPT ![k] = s]
  <2>1. CASE status' = status
    BY <1>s, <2>1
  <2>2. CASE \E s \in Statuses, r \in {-1, 0} : Finish(k, s, r)
    BY <2>2 DEF Finish
  <2>3. CASE status' = [status EXCEPT ![k] = "OK"]
    BY <2>3 DEF Statuses
  <2>4. {"OK", "INVALID", "FILE_NOT_FOUND", "ERROR", status[k]} \subseteq Statuses
    BY <1>s DEF Statuses
  <2> QED
    BY <1>c, <2>1, <2>2, <2>3, <2>4
    DEF ThreadStep, LinkFails, ConnectFails, SendFails, Ask, ReadFails, ReadEnd,
        ReadPartOfHeader, ReadHeader, ReadRefusal, ReadBody
<1>r. \E r \in {-1, 0} : result' = [result EXCEPT ![k] = r]
  BY <1>s DEF ThreadStep, LinkFails, ConnectFails, SendFails, Ask, ReadFails, ReadEnd,
         ReadPartOfHeader, ReadHeader, ReadRefusal, ReadBody, Finish
<1>f. \E f \in Seq(Units) : file' = [file EXCEPT ![k] = f]
  <2>1. CASE file' = file
    BY <1>s, <2>1
  <2>s. Stream(k) \in Seq(Units) /\ Len(Stream(k)) \in Nat
    BY StreamSeq, LenProperties
  <2>n. taken[k] \in Nat /\ file[k] \in Seq(Units) /\ Len(file[k]) \in Nat
    BY <1>s, LenProperties
  <2>3. CASE ReadHeader(k)
    <3>1. PICK n \in HeadLen - taken[k] .. Buffer - taken[k] :
             LET own == HeadLen - Extra
                 extra == taken[k] + n - own
                 filelen == Size[Want[k]]
             IN  /\ CanTake(k, n)
                 /\ IF extra >= filelen
                    THEN file' = [file EXCEPT ![k] = SubSeq(Stream(k), own + 1, own + filelen)]
                    ELSE file' = [file EXCEPT ![k] = SubSeq(Stream(k), own + 1, own + extra)]
      BY <2>3 DEF ReadHeader
    <3> DEFINE own == HeadLen - Extra
    <3>2. own \in Int /\ own + 1 >= 1 /\ n \in Int /\ taken[k] + n <= Len(Stream(k))
      BY <1>c, <2>n, <3>1 DEF CanTake
    <3> HIDE DEF own
    <3>5. PICK b \in Int :
             /\ b <= Len(Stream(k))
             /\ file' = [file EXCEPT ![k] = SubSeq(Stream(k), own + 1, b)]
      <4>1. /\ own + Size[Want[k]] \in Int
            /\ own + (taken[k] + n - own) = taken[k] + n /\ taken[k] + n \in Int
        BY <1>c, <2>n, <3>2
      <4>2. CASE taken[k] + n - own >= Size[Want[k]]
        <5>1. own + Size[Want[k]] <= Len(Stream(k))
          BY <1>c, <2>s, <2>n, <3>2, <4>2
        <5> QED
          BY <3>1, <4>1, <4>2, <5>1 DEF own
      <4>3. CASE ~(taken[k] + n - own >= Size[Want[k]])
        BY <3>1, <3>2, <4>1, <4>3 DEF own
      <4> QED
        BY <4>2, <4>3
    <3>6. SubSeq(Stream(k), own + 1, b) \in Seq(Units)
      BY <2>s, <3>2, <3>5, PieceOfSeq
    <3> QED
      BY <3>5, <3>6
  <2>4. CASE ReadBody(k)
    <3>1. PICK n \in 1 .. Buffer :
             LET missing == Size[Want[k]] - Len(file[k])
                 kept == IF n < missing THEN n ELSE missing
             IN  /\ CanTake(k, n)
                 /\ file' = [file EXCEPT ![k] =
                                @ \o SubSeq(Stream(k), taken[k] + 1, taken[k] + kept)]
      BY <2>4 DEF ReadBody
    <3> DEFINE missing == Size[Want[k]] - Len(file[k])
               kept == IF n < missing THEN n ELSE missing
    <3>m. missing \in Int
      BY <1>c, <2>n
    <3> HIDE DEF missing
    <3>2. kept \in Int /\ kept <= n
      BY <3>m
    <3> HIDE DEF kept
    <3>3. /\ taken[k] + 1 \in Int /\ taken[k] + 1 >= 1 /\ taken[k] + kept \in Int
          /\ taken[k] + kept <= Len(Stream(k))
      <4>1. taken[k] + n <= Len(Stream(k))
        BY <3>1 DEF CanTake
      <4> QED
        BY <2>s, <2>n, <3>2, <4>1
    <3>4. SubSeq(Stream(k), taken[k] + 1, taken[k] + kept) \in Seq(Units)
      BY <2>s, <3>3, PieceOfSeq
    <3>5. file[k] \o SubSeq(Stream(k), taken[k] + 1, taken[k] + kept) \in Seq(Units)
      BY <2>n, <3>4, ConcatProperties
    <3>6. file' = [file EXCEPT ![k] = @ \o SubSeq(Stream(k), taken[k] + 1, taken[k] + kept)]
      BY <3>1 DEF kept, missing
    <3> QED
      BY <1>t, <3>5, <3>6
  <2> QED
    BY <2>1, <2>3, <2>4
    DEF ThreadStep, LinkFails, ConnectFails, SendFails, Ask, ReadFails, ReadEnd,
        ReadPartOfHeader, ReadRefusal
<1> QED
  BY <1>g, <1>p, <1>l, <1>n, <1>q, <1>r, <1>f DEF OneCall

(***************************************************************************)
(* The steps of one call.  The client's own header is as long as the one   *)
(* it received (Extra = 0): then the bytes it takes for the file are.      *)
(***************************************************************************)
LEMMA FileGrows ==
    ASSUME NEW k \in Requests, Reply[Want[k]] = "OK",
           NEW a \in Nat, NEW b \in Nat, a <= b, b <= Size[Want[k]]
    PROVE  /\ SubSeq(Body(k), 1, a) \o SubSeq(Stream(k), HeadLen + a + 1, HeadLen + b)
                 = SubSeq(Body(k), 1, b)
           /\ Len(SubSeq(Body(k), 1, b)) = b
<1>1. Size[Want[k]] \in Nat /\ b <= b
  BY BodySeq
<1>2. SubSeq(Stream(k), HeadLen + a + 1, HeadLen + b) = SubSeq(Body(k), a + 1, b)
  BY StreamPart
<1>3. SubSeq(Body(k), 1, a) \o SubSeq(Body(k), a + 1, b) = SubSeq(Body(k), 1, b)
  BY BodyPart
<1>4. Len(SubSeq(Body(k), 1, b)) = b
  BY <1>1, BodyPart
<1> QED
  BY <1>2, <1>3, <1>4

LEMMA FileStarts ==
    ASSUME NEW k \in Requests, Reply[Want[k]] = "OK", NEW b \in Nat, b <= Size[Want[k]]
    PROVE  LET g == SubSeq(Stream(k), HeadLen + 1, HeadLen + b)
           IN  g = SubSeq(Body(k), 1, b) /\ Len(g) = b
<1>1. HeadLen + 0 + 1 = HeadLen + 1 /\ 0 + 1 = 1 /\ 0 <= b /\ 0 \in Nat
  BY ClientAssumption
<1>2. SubSeq(Stream(k), HeadLen + 0 + 1, HeadLen + b) = SubSeq(Body(k), 0 + 1, b)
  BY <1>1, StreamPart
<1>3. Size[Want[k]] \in Nat /\ b <= b
  BY BodySeq
<1>4. Len(SubSeq(Body(k), 1, b)) = b
  BY <1>3, BodyPart
<1> QED
  BY <1>1, <1>2, <1>4

LEMMA CallKept ==
    ASSUME NEW k \in Requests, CallInv(k),
           UNCHANGED <<pc[k], taken[k], status[k], file[k], result[k]>>
    PROVE  CallInv(k)'
BY DEF CallInv, Body

(* An end of the call, with what was written left as it is. *)
LEMMA CallEnds ==
    ASSUME TypeOK, NEW k \in Requests, CallInv(k), NEW s, NEW r, Finish(k, s, r),
           file' = file,
           r # 0 \/ (s = Reply[Want[k]] /\ s # "OK")
    PROVE  CallInv(k)'
<1>1. pc'[k] = "done" /\ status'[k] = s /\ result'[k] = r
  BY CallTypes DEF Finish
<1> QED
  BY <1>1 DEF CallInv, Body

(* A step that leaves the first b bytes of the file written. *)
LEMMA CallWrote ==
    ASSUME NEW k \in Requests, NEW b \in Nat, b <= Size[Want[k]],
           file'[k] = SubSeq(Body(k), 1, b), Len(file'[k]) = b,
           Reply[Want[k]] = "OK", status'[k] = "OK",
           \/ pc'[k] = "read_body" /\ taken'[k] = HeadLen + b /\ b < Size[Want[k]]
           \/ pc'[k] = "done" /\ b = Size[Want[k]]
    PROVE  CallInv(k)'
<1>1. Body(k)' = Body(k)
  BY DEF Body
<1>2. file'[k] = SubSeq(Body(k)', 1, Len(file'[k]))
  BY <1>1
<1> QED
  BY <1>2 DEF CallInv

LEMMA CallStep ==
    ASSUME Extra = 0, TypeOK, NEW k \in Requests, CallInv(k), ThreadStep(k) \/ LinkFails(k)
    PROVE  CallInv(k)'
<1>t. /\ pc \in [Requests -> {"none", "start", "read_header", "read_body", "done"}]
      /\ taken \in [Requests -> Nat] /\ status \in [Requests -> Statuses]
      /\ file \in [Requests -> Seq(Units)] /\ result \in [Requests -> {-1, 0}]
  BY CallTypes
<1>c. /\ HeadLen \in Nat /\ Buffer \in Nat /\ Extra + 1 < HeadLen
      /\ Size[Want[k]] \in Nat /\ Len(file[k]) \in Nat
  BY <1>t, ClientAssumption, BodySeq, LenProperties
<1>1. CASE LinkFails(k)
  BY <1>1, CallKept DEF LinkFails
<1>2. CASE ConnectFails(k) \/ SendFails(k) \/ ReadFails(k) \/ ReadEnd(k)
  <2>1. \E s : Finish(k, s, -1) /\ file' = file
    BY <1>2 DEF ConnectFails, SendFails, ReadFails, ReadEnd
  <2> QED
    BY <2>1, CallEnds
<1>3. CASE Ask(k)
  <2>1. pc[k] = "start" /\ pc'[k] = "read_header" /\ UNCHANGED <<taken, status, file, result>>
    BY <1>t, <1>3 DEF Ask, Goto
  <2> QED
    BY <2>1 DEF CallInv, Body
<1>4. CASE ReadPartOfHeader(k)
  <2>1. pc[k] = "read_header" /\ file' = file
    BY <1>4 DEF ReadPartOfHeader
  <2>2. Finish(k, "INVALID", -1) \/ UNCHANGED <<pc, status, result>>
    BY <1>4 DEF ReadPartOfHeader
  <2>3. CASE UNCHANGED <<pc, status, result>>
    BY <2>1, <2>3 DEF CallInv, Body
  <2> QED
    BY <2>1, <2>2, <2>3, CallEnds
<1>5. CASE ReadRefusal(k)
  <2>1. file' = file /\ (Finish(k, Reply[Want[k]], 0) \/ Finish(k, "INVALID", -1))
        /\ (Finish(k, "INVALID", -1) \/ Reply[Want[k]] # "OK")
    BY <1>5 DEF ReadRefusal
  <2> QED
    BY <2>1, CallEnds
<1>6. CASE ReadHeader(k)
  <2>1. pc[k] = "read_header" /\ Reply[Want[k]] = "OK" /\ Size[Want[k]] > 0
    BY <1>6 DEF ReadHeader
  <2>2. PICK n \in HeadLen - taken[k] .. Buffer - taken[k] :
          LET own == HeadLen - Extra
              extra == taken[k] + n - own
              filelen == Size[Want[k]]
          IN  /\ CanTake(k, n)
              /\ IF extra >= filelen
                 THEN /\ file' = [file EXCEPT ![k] = SubSeq(Stream(k), own + 1, own + filelen)]
                      /\ Finish(k, "OK", 0)
                 ELSE /\ file' = [file EXCEPT ![k] = SubSeq(Stream(k), own + 1, own + extra)]
                      /\ Goto(k, "read_body")
                      /\ status' = [status EXCEPT ![k] = "OK"]
                      /\ UNCHANGED result
    BY <1>6 DEF ReadHeader
  <2> DEFINE m == taken[k] + n - HeadLen
             piece(b) == SubSeq(Stream(k), HeadLen + 1, HeadLen + b)
  <2>3. HeadLen - Extra = HeadLen /\ m \in Nat
    BY <1>c, <1>t
  <2>4. taken'[k] = HeadLen + m
    BY <1>c, <1>t, <2>2 DEF CanTake
  <2> HIDE DEF m
  <2>5. CASE m >= Size[Want[k]]
    <3>1. /\ file' = [file EXCEPT ![k] = piece(Size[Want[k]])]
          /\ Finish(k, "OK", 0)
      BY <2>2, <2>3, <2>5 DEF m
    <3>2. pc'[k] = "done" /\ status'[k] = "OK" /\ file'[k] = piece(Size[Want[k]])
      BY <1>t, <3>1 DEF Finish
    <3>3. /\ piece(Size[Want[k]]) = SubSeq(Body(k), 1, Size[Want[k]])
          /\ Len(piece(Size[Want[k]])) = Size[Want[k]]
      BY <1>c, <2>1, FileStarts
    <3>4. Size[Want[k]] <= Size[Want[k]]
      BY <1>c
    <3> HIDE DEF piece
    <3> QED
      BY <1>c, <2>1, <3>2, <3>3, <3>4, CallWrote
  <2>6. CASE m < Size[Want[k]]
    <3>1. /\ file' = [file EXCEPT ![k] = piece(m)]
          /\ Goto(k, "read_body") /\ status' = [status EXCEPT ![k] = "OK"]
      BY <1>c, <2>2, <2>3, <2>6 DEF m
    <3>2. pc'[k] = "read_body" /\ status'[k] = "OK" /\ file'[k] = piece(m)
      BY <1>t, <3>1 DEF Goto
    <3>3. piece(m) = SubSeq(Body(k), 1, m) /\ Len(piece(m)) = m
      <4>1. m \in Nat /\ m <= Size[Want[k]]
        BY <1>c, <2>3, <2>6
      <4> QED
        BY <2>1, <4>1, FileStarts
    <3>4. m <= Size[Want[k]]
      BY <1>c, <2>3, <2>6
    <3> HIDE DEF piece
    <3> QED
      BY <2>1, <2>3, <2>4, <2>6, <3>2, <3>3, <3>4, CallWrote
  <2> QED
    BY <1>c, <2>3, <2>5, <2>6
<1>7. CASE ReadBody(k)
  <2> DEFINE a == Len(file[k])
             size == Size[Want[k]]
             missing == size - a
  <2>1. /\ pc[k] = "read_body" /\ Reply[Want[k]] = "OK" /\ status[k] = "OK"
        /\ taken[k] = HeadLen + a /\ a < size /\ file[k] = SubSeq(Body(k), 1, a)
    BY <1>7 DEF ReadBody, CallInv
  <2>2. PICK n \in 1 .. Buffer :
          LET kept == IF n < missing THEN n ELSE missing
          IN  /\ CanTake(k, n)
              /\ file' = [file EXCEPT ![k] = @ \o SubSeq(Stream(k), taken[k] + 1, taken[k] + kept)]
              /\ IF n >= missing THEN Finish(k, status[k], 0)
                                 ELSE UNCHANGED <<pc, status, result>>
    BY <1>7 DEF ReadBody
  <2>3. Len(Stream(k)) = HeadLen + size
    <3>1. size \in Nat /\ size <= size
      BY <1>c
    <3> QED
      BY <2>1, <3>1, StreamPart
  <2>4. n <= missing
    BY <1>c, <2>1, <2>2, <2>3 DEF CanTake
  <2>5. file' = [file EXCEPT ![k] = @ \o SubSeq(Stream(k), taken[k] + 1, taken[k] + n)]
    <3>1. (IF n < missing THEN n ELSE missing) = n
      BY <1>c, <2>4
    <3> QED
      BY <2>2, <3>1
  <2>6. /\ a + n \in Nat /\ a <= a + n /\ a + n <= size
        /\ taken[k] + 1 = HeadLen + a + 1 /\ taken[k] + n = HeadLen + (a + n)
    BY <1>c, <2>1, <2>4
  <2>7. /\ file'[k] = file[k] \o SubSeq(Stream(k), HeadLen + a + 1, HeadLen + (a + n))
        /\ taken'[k] = HeadLen + (a + n)
    BY <1>t, <2>2, <2>5, <2>6 DEF CanTake
  <2>8. /\ file'[k] = SubSeq(Body(k), 1, a + n)
        /\ Len(file'[k]) = a + n
    <3> DEFINE b == a + n
    <3>1. /\ a \in Nat /\ b \in Nat /\ a <= b /\ b <= Size[Want[k]]
          /\ Reply[Want[k]] = "OK" /\ file[k] = SubSeq(Body(k), 1, a)
          /\ file'[k] = file[k] \o SubSeq(Stream(k), HeadLen + a + 1, HeadLen + b)
      BY <1>c, <2>1, <2>6, <2>7
    <3>2. /\ SubSeq(Body(k), 1, a) \o SubSeq(Stream(k), HeadLen + a + 1, HeadLen + b)
                = SubSeq(Body(k), 1, b)
          /\ Len(SubSeq(Body(k), 1, b)) = b
      <4> HIDE DEF a, b
      <4> QED
        BY <3>1, FileGrows
    <3> HIDE DEF a
    <3> QED
      BY <3>1, <3>2
  <2>9. CASE n >= missing
    <3>1. a + n = size
      BY <1>c, <2>4, <2>9
    <3>2. pc'[k] = "done" /\ status'[k] = "OK"
      BY <1>t, <2>1, <2>2, <2>9 DEF Finish
    <3> QED
      BY <2>1, <2>6, <2>8, <3>1, <3>2, CallWrote
  <2>10. CASE ~(n >= missing)
    <3>1. a + n < size
      BY <1>c, <2>10
    <3>2. UNCHANGED <<pc, status, result>>
      BY <2>2, <2>10
    <3> QED
      BY <2>1, <2>6, <2>7, <2>8, <3>1, <3>2, CallWrote
  <2> QED
    BY <2>9, <2>10
<1> QED
  BY <1>1, <1>2, <1>3, <1>4, <1>5, <1>6, <1>7 DEF ThreadStep

(***************************************************************************)
(* What a step of one call leaves of the invariants of main: the request   *)
(* was created and is not yet joined, so nothing main relies on changes.   *)
(***************************************************************************)
LEMMA OneCallKeepsMain ==
    ASSUME TypeOK, MainInv, DiskInv, NEW k \in Requests, OneCall(k)
    PROVE  TypeOK' /\ MainInv' /\ DiskInv'
<1>t. /\ pc \in [Requests -> {"none", "start", "read_header", "read_body", "done"}]
      /\ link \in [Requests -> {"up", "closed", "reset"}]
      /\ taken \in [Requests -> Nat] /\ status \in [Requests -> Statuses]
      /\ file \in [Requests -> Seq(Units)] /\ result \in [Requests -> {-1, 0}]
      /\ joined \subseteq Requests
  BY CallTypes
<1>m. /\ UNCHANGED <<nthreads, main, round, slot, localPath, disk, joined>>
      /\ pc[k] \in Calling /\ pc[k] # "done" /\ pc[k] # "none"
  BY DEF OneCall, mainVars, Calling
<1>o. \A j \in Requests : j # k =>
         pc'[j] = pc[j] /\ status'[j] = status[j] /\ result'[j] = result[j]
  BY <1>t DEF OneCall
<1>k. pc'[k] # "none"
  BY <1>t DEF OneCall, Calling
<1>1. TypeOK'
  <2>1. pc' \in [Requests -> {"none", "start", "read_header", "read_body", "done"}]
    BY <1>t DEF OneCall, Calling
  <2>2. link' \in [Requests -> {"up", "closed", "reset"}] /\ taken' \in [Requests -> Nat]
    BY <1>t DEF OneCall
  <2>3. status' \in [Requests -> {"unset", "OK", "FILE_NOT_FOUND", "ERROR", "INVALID"}]
    BY <1>t DEF OneCall, Statuses
  <2>4. file' \in [Requests -> Seq((Paths \cup {"header"}) \X Nat)]
    <3>1. file' \in [Requests -> Seq(Units)]
      BY <1>t DEF OneCall
    <3> QED
      BY <3>1 DEF Units
  <2>5. result' \in [Requests -> {-1, 0}]
    BY <1>t DEF OneCall
  <2> QED
    BY <1>m, <2>1, <2>2, <2>3, <2>4, <2>5 DEF TypeOK
<1>j. k \notin joined
  BY <1>m DEF MainInv
<1>2. MainInv'
  <2>1. Created' = Created
    BY <1>m DEF Created
  <2>2. \A j \in Requests : pc'[j] = "none" <=> pc[j] = "none"
    BY <1>m, <1>o, <1>k
  <2>3. \A j \in joined' : pc'[j] = "done"
    BY <1>t, <1>m, <1>o, <1>j DEF MainInv
  <2> QED
    BY <1>m, <2>1, <2>2, <2>3 DEF MainInv
<1>3. DiskInv'
  <2>1. Created' = Created /\ \A j \in Requests : Round(j)' = Round(j)
    BY <1>m DEF Created, Round
  <2>2. \A j \in joined : Succeeded(j)' <=> Succeeded(j)
    BY <1>t, <1>o, <1>j DEF Succeeded
  <2>3. \A j \in Requests : Missing(j) => Missing(j)'
    BY <1>m, <2>1, <2>2 DEF Missing
  <2> QED
    BY <1>m, <2>1, <2>2, <2>3 DEF DiskInv
<1> QED
  BY <1>1, <1>2, <1>3

(***************************************************************************)
(* The request main is at belongs to the round, and its file is the one    *)
(* named by localPath or an earlier one of the round.                      *)
(***************************************************************************)
LEMMA CurrentInRound ==
    ASSUME TypeOK, round < NRequests
    PROVE  /\ Current \in Requests /\ Current \in Nat
           /\ (Current - 1) \div nthreads = round
           /\ round * nthreads + nthreads \in Requests
           /\ ((round * nthreads + nthreads) - 1) \div nthreads = round
           /\ round * nthreads \in Nat /\ (round + 1) * nthreads = round * nthreads + nthreads
<1>1. /\ nthreads \in Nat \ {0} /\ nthreads \in NThreads /\ round \in Nat
      /\ slot \in 0 .. nthreads - 1 /\ NRequests \in Nat
  BY ClientAssumption DEF TypeOK
<1> DEFINE first == round * nthreads
<1>2. /\ first \in Nat /\ (round + 1) * nthreads = first + nthreads
      /\ first + nthreads <= nthreads * NRequests
      /\ \A s \in 0 .. nthreads - 1 : (first + s) \div nthreads = round
  BY <1>1, RoundArithmetic
<1>3. nthreads * NRequests <= Len(Want) /\ Len(Want) \in Nat /\ Requests = 1 .. Len(Want)
  BY <1>1, ClientAssumption, LenProperties DEF Requests
<1>4. nthreads * NRequests \in Nat
  BY <1>1
<1> DEFINE all == nthreads * NRequests
<1>5. slot \in 0 .. nthreads - 1 /\ nthreads - 1 \in 0 .. nthreads - 1
  BY <1>1
<1>6. (first + slot) \div nthreads = round /\ (first + (nthreads - 1)) \div nthreads = round
  BY <1>2, <1>5
<1>7. Current = first + slot + 1
  BY DEF Current
<1> HIDE DEF first, all
<1>8. /\ (first + slot + 1) - 1 = first + slot
      /\ (first + nthreads) - 1 = first + (nthreads - 1)
  BY <1>1, <1>2
<1>9. first + slot + 1 \in 1 .. Len(Want) /\ first + nthreads \in 1 .. Len(Want)
  <2>1. first + nthreads <= all /\ all <= Len(Want) /\ all \in Nat
    BY <1>2, <1>3, <1>4 DEF all
  <2> QED
    BY <1>1, <1>2, <1>3, <2>1
<1>10. Current \in Requests /\ Current \in Nat /\ first + nthreads \in Requests
  BY <1>1, <1>2, <1>3, <1>7, <1>9
<1>11. (Current - 1) \div nthreads = round /\ ((first + nthreads) - 1) \div nthreads = round
  BY <1>6, <1>7, <1>8
<1> QED
  BY <1>2, <1>10, <1>11 DEF first

LEMMA CreateKeeps ==
    ASSUME TypeOK, MainInv, DiskInv, Create
    PROVE  /\ TypeOK' /\ MainInv' /\ DiskInv'
           /\ \A k \in Requests : CallInv(k) => CallInv(k)'
<1>t. /\ pc \in [Requests -> {"none", "start", "read_header", "read_body", "done"}]
      /\ nthreads \in Nat \ {0} /\ nthreads \in NThreads /\ round \in 0 .. NRequests
      /\ slot \in 0 .. nthreads - 1 /\ joined \subseteq Requests /\ NRequests \in Nat
  BY CallTypes, ClientAssumption DEF TypeOK
<1>g. /\ main = "create" /\ round < NRequests
      /\ localPath' = Current /\ disk' = disk \cup {Current}
      /\ pc' = [pc EXCEPT ![Current] = "start"]
      /\ \/ slot + 1 < nthreads /\ slot' = slot + 1 /\ main' = "create"
         \/ slot + 1 >= nthreads /\ slot' = 0 /\ main' = "join"
      /\ UNCHANGED <<nthreads, round, joined, link, taken, status, file, result>>
  BY <1>t DEF Create, Goto
<1>r. /\ Current \in Requests /\ Current \in Nat
      /\ round * nthreads \in Nat
  BY <1>g, CurrentInRound
<1>c. Current = round * nthreads + slot + 1
  BY DEF Current
<1>b. slot + 1 >= nthreads => slot + 1 = nthreads
  BY <1>t
<1>n. /\ Created = round * nthreads + slot /\ Created' = Current /\ Current = Created + 1
      /\ Created \in Nat
  <2> DEFINE first == round * nthreads
  <2>1. first \in Nat /\ Current = first + slot + 1 /\ first' = first
    BY <1>g, <1>r, <1>c
  <2>2. Created = first + slot
    BY <1>g DEF Created
  <2>3. Created' = first + slot + 1
    <3>1. Created' = first' + (IF main' = "create" THEN slot'
                               ELSE IF main' = "join" THEN nthreads' ELSE 0)
      BY DEF Created
    <3> HIDE DEF first
    <3> QED
      BY <1>t, <1>g, <1>b, <2>1, <3>1
  <2> HIDE DEF first
  <2>4. Current = Created + 1 /\ Created \in Nat /\ Created' = Current
    BY <1>t, <2>1, <2>2, <2>3
  <2> QED
    BY <2>2, <2>4 DEF first
<1>k. Requests \subseteq Nat
  BY ClientAssumption, LenProperties DEF Requests
<1>f. pc[Current] = "none" /\ Current \notin joined
  <2>1. Current > Created
    BY <1>r, <1>n
  <2> QED
    BY <1>r, <2>1 DEF MainInv
<1>1. TypeOK'
  <2>1. pc' \in [Requests -> {"none", "start", "read_header", "read_body", "done"}]
    BY <1>t, <1>g
  <2>2. slot' \in 0 .. nthreads' - 1
    BY <1>t, <1>g
  <2>3. joined' = 1 .. round' * nthreads' + (IF main' = "join" THEN slot' ELSE 0)
    <3>1. joined = 1 .. round * nthreads + 0
      BY <1>g DEF TypeOK
    <3> QED
      BY <1>g, <3>1
  <2>4. /\ nthreads' \in NThreads /\ main' \in {"create", "join", "exited"}
        /\ round' \in 0 .. NRequests /\ localPath' \in Requests \cup {0}
        /\ disk' \subseteq Requests /\ joined' \subseteq Requests
    BY <1>t, <1>g, <1>r DEF TypeOK
  <2>5. UNCHANGED <<link, taken, status, file, result>>
    BY <1>g
  <2> QED
    BY <2>1, <2>2, <2>3, <2>4, <2>5 DEF TypeOK
<1>2. MainInv'
  <2>1. main' = "join" => round' < NRequests /\ localPath' = round' * nthreads' + nthreads'
    <3>1. ASSUME main' = "join" PROVE localPath' = round * nthreads + nthreads
      <4>1. slot + 1 = nthreads
        BY <1>g, <1>b, <3>1
      <4> DEFINE first == round * nthreads
      <4>2. localPath' = first + slot + 1 /\ first \in Nat
        BY <1>g, <1>r, <1>c
      <4> HIDE DEF first
      <4>3. localPath' = first + nthreads
        BY <1>t, <4>1, <4>2
      <4> QED
        BY <4>3 DEF first
    <3> QED
      BY <1>g, <3>1
  <2>2. round' # NRequests /\ main' # "exited"
    BY <1>t, <1>g
  <2>3. \A k \in Requests : pc'[k] = "none" <=> k > Created'
    <3>1. ASSUME NEW k \in Requests PROVE pc'[k] = "none" <=> k > Created'
      <4>1. CASE k = Current
        BY <1>t, <1>g, <1>n, <1>r, <4>1
      <4>2. CASE k # Current
        <5>1. pc'[k] = pc[k] /\ k \in Nat
          BY <1>t, <1>g, <1>k, <4>2
        <5>2. k > Created <=> k > Created'
          BY <1>n, <4>2, <5>1
        <5> QED
          BY <5>1, <5>2 DEF MainInv
      <4> QED
        BY <4>1, <4>2
    <3> QED
      BY <3>1
  <2>4. \A k \in joined' : pc'[k] = "done"
    BY <1>t, <1>g, <1>f DEF MainInv
  <2> QED
    BY <2>1, <2>2, <2>3, <2>4 DEF MainInv
<1>3. DiskInv'
  <2>1. \A k \in Requests : Round(k)' = Round(k)
    BY <1>g DEF Round
  <2>2. \A k \in joined : Succeeded(k)' <=> Succeeded(k)
    BY <1>t, <1>g, <1>f DEF Succeeded
  <2>3. \A k \in Requests : Missing(k) => Missing(k)'
    BY <1>g, <2>1, <2>2 DEF Missing
  <2>4. ASSUME NEW k \in Requests, k <= Created' PROVE k \in disk' \/ Missing(k)'
    <3>1. k = Current \/ k <= Created
      BY <1>n, <1>k, <2>4
    <3> QED
      BY <1>g, <2>3, <3>1 DEF DiskInv
  <2>5. nthreads' = 1 => \A k \in joined' : ~Succeeded(k)' => k \notin disk'
    BY <1>g, <1>f, <2>2 DEF DiskInv
  <2> QED
    BY <2>4, <2>5 DEF DiskInv
<1>4. ASSUME NEW k \in Requests, CallInv(k) PROVE CallInv(k)'
  <2>1. CASE k = Current
    <3>1. pc'[k] = "start" /\ file'[k] = file[k] /\ CallInv(k)
      BY <1>4, <1>t, <1>g, <2>1
    <3>2. pc[k] = "none"
      BY <1>f, <2>1
    <3> QED
      BY <3>1, <3>2 DEF CallInv, Body
  <2>2. CASE k # Current
    <3>1. UNCHANGED <<pc[k], taken[k], status[k], file[k], result[k]>>
      BY <1>t, <1>g, <2>2
    <3> QED
      BY <1>4, <3>1, CallKept
  <2> QED
    BY <2>1, <2>2
<1> QED
  BY <1>1, <1>2, <1>3, <1>4

(***************************************************************************)
(* A failed request takes the last file of its round with it; with one     *)
(* thread that file is its own.                                            *)
(***************************************************************************)
LEMMA JoinKeeps ==
    ASSUME TypeOK, MainInv, DiskInv, Join
    PROVE  /\ TypeOK' /\ MainInv' /\ DiskInv'
           /\ \A k \in Requests : CallInv(k) => CallInv(k)'
<1>t. /\ nthreads \in Nat \ {0} /\ nthreads \in NThreads /\ round \in 0 .. NRequests
      /\ slot \in 0 .. nthreads - 1 /\ joined \subseteq Requests /\ NRequests \in Nat
      /\ result \in [Requests -> {-1, 0}]
  BY CallTypes, ClientAssumption DEF TypeOK
<1>g. /\ main = "join" /\ pc[Current] = "done" /\ joined' = joined \cup {Current}
      /\ disk' = IF result[Current] < 0 \/ status[Current] # "OK" THEN disk \ {localPath} ELSE disk
      /\ UNCHANGED <<nthreads, localPath, pc, link, taken, status, file, result>>
  BY DEF Join, threadVars
<1>n. \/ slot + 1 < nthreads /\ slot' = slot + 1 /\ main' = "join" /\ round' = round
      \/ slot + 1 = nthreads /\ slot' = 0 /\ main' = "create" /\ round' = round + 1
  BY <1>t, <1>g DEF Join, NextSlot
<1>l. round < NRequests /\ localPath = round * nthreads + nthreads
  BY <1>g DEF MainInv
<1>r. /\ Current \in Requests /\ Current \in Nat
      /\ (Current - 1) \div nthreads = round
      /\ localPath \in Requests /\ (localPath - 1) \div nthreads = round
      /\ round * nthreads \in Nat /\ (round + 1) * nthreads = round * nthreads + nthreads
  BY <1>l, CurrentInRound
<1> DEFINE first == round * nthreads
<1>c. Current = first + slot + 1 /\ first \in Nat
  BY <1>r DEF Current
<1>p. round' * nthreads' = IF slot + 1 < nthreads THEN first ELSE first + nthreads
  BY <1>t, <1>g, <1>n, <1>r
<1>m. Created = first + nthreads
  BY <1>g DEF Created
<1>j. joined = 1 .. first + slot
  BY <1>g DEF TypeOK
<1>e. Created' = Created
  <2>1. Created' = (round' * nthreads') + (IF main' = "create" THEN slot'
                                ELSE IF main' = "join" THEN nthreads' ELSE 0)
    BY DEF Created
  <2> DEFINE first2 == round' * nthreads'
  <2>2. first2 = IF slot + 1 < nthreads THEN first ELSE first + nthreads
    BY <1>p
  <2> HIDE DEF first, first2
  <2>3. Created' = first2 + (IF main' = "create" THEN slot'
                                ELSE IF main' = "join" THEN nthreads' ELSE 0)
    BY <2>1 DEF first2
  <2> QED
    BY <1>t, <1>g, <1>n, <1>c, <1>m, <2>2, <2>3
<1>1. TypeOK'
  <2>1. joined' = 1 .. first + slot + 1
    <3> HIDE DEF first
    <3> QED
      BY <1>t, <1>g, <1>c, <1>j
  <2>2. joined' = 1 .. round' * nthreads' + (IF main' = "join" THEN slot' ELSE 0)
    <3> DEFINE first2 == round' * nthreads'
    <3>1. first2 = IF slot + 1 < nthreads THEN first ELSE first + nthreads
      BY <1>p
    <3> HIDE DEF first, first2
    <3>2. first + slot + 1 = first2 + (IF main' = "join" THEN slot' ELSE 0)
      BY <1>t, <1>n, <1>c, <3>1
    <3>3. joined' = 1 .. first2 + (IF main' = "join" THEN slot' ELSE 0)
      BY <2>1, <3>2
    <3> QED
      BY <3>3 DEF first2
  <2>3. /\ slot' \in 0 .. nthreads' - 1 /\ round' \in 0 .. NRequests
        /\ main' \in {"create", "join", "exited"} /\ nthreads' \in NThreads
    BY <1>t, <1>g, <1>n, <1>l
  <2>4. joined' \subseteq Requests /\ disk' \subseteq Requests
    BY <1>t, <1>g, <1>r DEF TypeOK
  <2> QED
    BY <1>g, <2>2, <2>3, <2>4 DEF TypeOK
<1>2. MainInv'
  <2>1. main' = "join" => round' < NRequests /\ localPath' = round' * nthreads' + nthreads'
    BY <1>g, <1>n, <1>l
  <2>2. /\ round' = NRequests => slot' = 0 /\ main' # "join"
        /\ main' # "exited"
    BY <1>t, <1>n, <1>l
  <2>3. \A k \in joined' : pc'[k] = "done"
    BY <1>g DEF MainInv
  <2>4. \A k \in Requests : pc'[k] = "none" <=> k > Created'
    BY <1>g, <1>e DEF MainInv
  <2> QED
    BY <2>1, <2>2, <2>3, <2>4 DEF MainInv
<1>3. DiskInv'
  <2>1. \A k \in Requests : Round(k)' = Round(k) /\ (Succeeded(k)' <=> Succeeded(k))
    BY <1>g DEF Round, Succeeded
  <2>2. \A k \in Requests : Missing(k) => Missing(k)'
    BY <1>t, <1>g, <2>1 DEF Missing
  <2>3. disk' # disk => ~Succeeded(Current)
    BY <1>g DEF Succeeded
  <2>4. \A k \in Requests : k \in disk \ disk' => Missing(k)'
    <3>1. ASSUME NEW k \in Requests, k \in disk \ disk' PROVE Missing(k)'
      <4>1. k = localPath /\ ~Succeeded(Current)
        BY <1>g, <2>3, <3>1
      <4>2. Current \in Round(k)
        BY <1>r, <4>1 DEF Round
      <4>3. \E j \in joined' : j \in Round(k)' /\ ~Succeeded(j)'
        <5> DEFINE j == Current
        <5>1. j \in joined' /\ j \in Round(k)' /\ j \in Requests /\ ~Succeeded(j)
          BY <1>g, <1>r, <2>1, <4>1, <4>2
        <5> HIDE DEF j
        <5> QED
          BY <2>1, <5>1
      <4> QED
        BY <4>3 DEF Missing
    <3> QED
      BY <3>1
  <2>5. ASSUME NEW k \in Requests, k <= Created' PROVE k \in disk' \/ Missing(k)'
    BY <1>e, <2>2, <2>4, <2>5 DEF DiskInv
  <2>6. ASSUME nthreads' = 1, NEW k \in joined', ~Succeeded(k)' PROVE k \notin disk'
    <3>1. nthreads = 1
      BY <1>g, <2>6
    <3>2. CASE k = Current
      <4>1. localPath = Current
        <5>1. localPath = first + nthreads /\ slot = 0
          BY <1>t, <1>l, <3>1
        <5> HIDE DEF first
        <5> QED
          BY <1>c, <3>1, <5>1
      <4>2. disk' = disk \ {localPath}
        BY <1>t, <1>g, <1>r, <2>1, <2>6, <3>2 DEF Succeeded
      <4> QED
        BY <3>2, <4>1, <4>2
    <3>3. CASE k \in joined
      <4>1. k \in Requests /\ ~Succeeded(k) /\ disk' \subseteq disk
        BY <1>t, <1>g, <2>1, <2>6, <3>3
      <4> QED
        BY <3>1, <3>3, <4>1 DEF DiskInv
    <3> QED
      BY <1>g, <3>2, <3>3
  <2> QED
    BY <2>5, <2>6 DEF DiskInv
<1>4. \A k \in Requests : CallInv(k) => CallInv(k)'
  BY <1>g, CallKept
<1> QED
  BY <1>1, <1>2, <1>3, <1>4

(***************************************************************************)
(* The whole invariant.  What a call writes is the file only when the      *)
(* client's own header is as long as the one it received.                  *)
(***************************************************************************)
ClientInv == TypeOK /\ MainInv /\ DiskInv
CallsInv == Extra = 0 => \A k \in Requests : CallInv(k)

LEMMA ExitKeeps ==
    ASSUME ClientInv, Exit
    PROVE  ClientInv'
<1>g. /\ main = "create" /\ round = NRequests /\ main' = "exited"
      /\ UNCHANGED <<nthreads, round, slot, localPath, disk, joined>>
      /\ UNCHANGED <<pc, link, taken, status, file, result>>
  BY DEF Exit, threadVars
<1>s. slot = 0 /\ round = NRequests
  BY <1>g DEF ClientInv, MainInv
<1>1. TypeOK'
  BY <1>g DEF ClientInv, TypeOK
<1>2. Created' = Created
  BY <1>g, <1>s DEF Created
<1>3. MainInv'
  BY <1>g, <1>s, <1>2 DEF ClientInv, MainInv
<1>4. DiskInv'
  <2>1. \A k \in Requests : Missing(k)' <=> Missing(k)
    BY <1>g DEF Missing, Round, Succeeded
  <2>2. \A k \in Requests : Succeeded(k)' <=> Succeeded(k)
    BY <1>g DEF Succeeded
  <2>3. joined \subseteq Requests
    BY DEF ClientInv, TypeOK
  <2> QED
    BY <1>g, <1>2, <2>1, <2>2, <2>3 DEF ClientInv, DiskInv
<1> QED
  BY <1>1, <1>3, <1>4 DEF ClientInv

LEMMA ClientInit ==
    ASSUME Init
    PROVE  ClientInv /\ \A k \in Requests : CallInv(k)
<1>i. /\ nthreads \in NThreads /\ nthreads \in Nat \ {0} /\ NRequests \in Nat
      /\ main = "create" /\ round = 0 /\ slot = 0 /\ localPath = 0
      /\ disk = {} /\ joined = {}
      /\ pc = [k \in Requests |-> "none"] /\ link = [k \in Requests |-> "up"]
      /\ taken = [k \in Requests |-> 0] /\ status = [k \in Requests |-> "unset"]
      /\ file = [k \in Requests |-> << >>] /\ result = [k \in Requests |-> 0]
  BY ClientAssumption DEF Init
<1>z. round * nthreads + 0 = 0
  BY <1>i
<1>k. Requests \subseteq Nat \ {0}
  BY ClientAssumption, LenProperties DEF Requests
<1>1. TypeOK
  <2>1. joined = 1 .. round * nthreads + (IF main = "join" THEN slot ELSE 0)
    BY <1>i, <1>z
  <2>2. file \in [Requests -> Seq((Paths \cup {"header"}) \X Nat)]
    BY <1>i
  <2>3. slot \in 0 .. nthreads - 1 /\ round \in 0 .. NRequests
    BY <1>i
  <2> QED
    BY <1>i, <2>1, <2>2, <2>3 DEF TypeOK
<1>c. Created = 0
  BY <1>i, <1>z DEF Created
<1>2. MainInv
  BY <1>i, <1>k, <1>c DEF MainInv
<1>3. DiskInv
  BY <1>i, <1>k, <1>c DEF DiskInv
<1>4. ASSUME NEW k \in Requests PROVE CallInv(k)
  <2>1. 0 \in Nat /\ 0 <= 0 /\ 0 <= Size[Want[k]]
    BY BodySeq
  <2>2. SubSeq(Body(k), 1, 0) = << >> /\ Len(SubSeq(Body(k), 1, 0)) = 0
    <3>1. Len(SubSeq(Body(k), 1, 0)) = 0 /\ SubSeq(Body(k), 1, 0) \in Seq(Units)
      BY <2>1, BodyPart
    <3> QED
      BY <3>1, EmptySeq
  <2>3. file[k] = << >> /\ pc[k] = "none" /\ Len(file[k]) = 0
    BY <1>i, EmptySeq
  <2> QED
    BY <2>1, <2>2, <2>3 DEF CallInv
<1> QED
  BY <1>1, <1>2, <1>3, <1>4 DEF ClientInv

LEMMA ClientNext ==
    ASSUME ClientInv, CallsInv, [Next]_vars
    PROVE  ClientInv' /\ CallsInv'
<1>i. TypeOK /\ MainInv /\ DiskInv
  BY DEF ClientInv
<1>1. CASE Create
  BY <1>1, <1>i, CreateKeeps DEF ClientInv, CallsInv
<1>2. CASE Join
  BY <1>2, <1>i, JoinKeeps DEF ClientInv, CallsInv
<1>3. CASE Exit
  <2>1. UNCHANGED <<pc, taken, status, file, result>>
    BY <1>3 DEF Exit, threadVars
  <2> QED
    BY <1>3, <2>1, ExitKeeps, CallKept DEF CallsInv
<1>4. ASSUME NEW k \in Requests, ThreadStep(k) \/ LinkFails(k)
      PROVE  ClientInv' /\ CallsInv'
  <2>1. OneCall(k)
    BY <1>4, <1>i, CallsOnly
  <2>2. ClientInv'
    BY <2>1, <1>i, OneCallKeepsMain DEF ClientInv
  <2>3. ASSUME Extra = 0, NEW j \in Requests PROVE CallInv(j)'
    <3>0. CallInv(j)
      BY <2>3 DEF CallsInv
    <3>1. CASE j = k
      BY <1>4, <1>i, <2>3, <3>0, <3>1, CallStep
    <3>2. CASE j # k
      <4>1. UNCHANGED <<pc[j], taken[j], status[j], file[j], result[j]>>
        BY <1>i, <2>1, <3>2, CallTypes DEF OneCall
      <4> QED
        BY <3>0, <4>1, CallKept
    <3> QED
      BY <3>1, <3>2
  <2> QED
    BY <2>2, <2>3 DEF CallsInv
<1>5. CASE UNCHANGED vars
  <2>1. UNCHANGED <<nthreads, main, round, slot, localPath, disk, joined>>
        /\ UNCHANGED <<pc, link, taken, status, file, result>>
    BY <1>5 DEF vars, mainVars, threadVars
  <2>2. TypeOK' /\ Created' = Created
    BY <1>i, <2>1 DEF TypeOK, Created
  <2>3. MainInv'
    BY <1>i, <2>1, <2>2 DEF MainInv
  <2>4. \A k \in Requests : (Missing(k)' <=> Missing(k)) /\ (Succeeded(k)' <=> Succeeded(k))
    BY <2>1 DEF Missing, Round, Succeeded
  <2>5. DiskInv'
    BY <1>i, <2>1, <2>2, <2>4 DEF DiskInv, TypeOK
  <2>6. CallsInv'
    BY <2>1, CallKept DEF CallsInv
  <2> QED
    BY <2>2, <2>3, <2>5, <2>6 DEF ClientInv
<1> QED
  BY <1>1, <1>2, <1>3, <1>4, <1>5 DEF Next, MainStep, Quiescent

LEMMA ClientInvariant == Spec => [](ClientInv /\ CallsInv)
<1>1. Init => ClientInv /\ CallsInv
  BY ClientInit DEF CallsInv
<1>2. ClientInv /\ CallsInv /\ [Next]_vars => (ClientInv /\ CallsInv)'
  BY ClientNext
<1> QED
  BY <1>1, <1>2, PTL DEF Spec

(***************************************************************************)
(* main and the threads keep their variables in their types, whatever is   *)
(* asked for, in how many rounds and by how many threads; the requests     *)
(* joined are always the first ones, in the order of the rounds.           *)
(***************************************************************************)
THEOREM ClientTypeCorrect == Spec => []TypeOK
<1>1. ClientInv => TypeOK
  BY DEF ClientInv
<1> QED
  BY <1>1, ClientInvariant, PTL

(***************************************************************************)
(* However gfc_perform's reads divide an answer and whenever a connection  *)
(* fails, a file holds a beginning of what was asked for.                  *)
(***************************************************************************)
THEOREM OnlyTheFileWritten ==
    ASSUME Extra = 0
    PROVE  Spec => []NothingForeignWritten
<1>1. ASSUME ClientInv, CallsInv PROVE NothingForeignWritten
  <2>1. ASSUME NEW k \in Requests PROVE IsPrefix(file[k], Body(k))
    <3> DEFINE f == file[k]
               b == Body(k)
    <3>1. /\ f \in Seq(Units) /\ b \in Seq(Units)
          /\ Len(f) <= Len(b) /\ f = SubSeq(b, 1, Len(f))
      <4>1. CallInv(k) /\ file \in [Requests -> Seq(Units)]
        BY <1>1, CallTypes DEF CallsInv, ClientInv
      <4> QED
        BY <4>1, BodySeq DEF CallInv
    <3>2. SubSeq(f, 1, Len(f)) = f
      BY <3>1, SubSeqFull
    <3> HIDE DEF f, b
    <3>3. IsPrefix(f, b)
      BY <3>1, <3>2 DEF IsPrefix
    <3> QED
      BY <3>3 DEF f, b
  <2> QED
    BY <2>1 DEF NothingForeignWritten
<1> QED
  BY <1>1, ClientInvariant, PTL

(***************************************************************************)
(* A call of gfc_perform that returned 0 has the server's status, and with *)
(* OK the whole file.                                                      *)
(***************************************************************************)
LEMMA TrueSuccess ==
    ASSUME Extra = 0, ClientInv, CallsInv
    PROVE  SuccessIsTrue
<1>1. ASSUME NEW k \in Requests, pc[k] = "done" /\ result[k] = 0
      PROVE  status[k] = Reply[Want[k]] /\ (status[k] = "OK" => file[k] = Body(k))
  <2>1. CallInv(k)
    BY DEF CallsInv
  <2>2. Size[Want[k]] \in Nat /\ 0 <= Size[Want[k]] /\ 0 \in Nat
    BY BodySeq
  <2>3. SubSeq(Body(k), 1, Size[Want[k]]) = Body(k)
    <3>1. Size[Want[k]] <= Size[Want[k]]
      BY <2>2
    <3> QED
      BY <2>2, <3>1, BodyPart
  <2> QED
    BY <1>1, <2>1, <2>3 DEF CallInv
<1> QED
  BY <1>1 DEF SuccessIsTrue

THEOREM SuccessCorrect ==
    ASSUME Extra = 0
    PROVE  Spec => []SuccessIsTrue
<1>1. ClientInv /\ CallsInv => SuccessIsTrue
  BY TrueSuccess
<1> QED
  BY <1>1, ClientInvariant, PTL

(***************************************************************************)
(* In a round of one thread, and in a round where every request succeeds,  *)
(* main's unlink leaves exactly the files that were received.              *)
(***************************************************************************)
THEOREM FilesKept ==
    ASSUME Extra = 0
    PROVE  Spec => []ReceivedFilesKept
<1>1. ASSUME ClientInv, CallsInv PROVE ReceivedFilesKept
  <2>s. SuccessIsTrue
    BY <1>1, TrueSuccess
  <2>t. /\ joined \subseteq Requests /\ Requests \subseteq Nat /\ nthreads \in Nat \ {0}
        /\ slot \in 0 .. nthreads - 1
    BY <1>1, CallTypes, ClientAssumption, LenProperties DEF ClientInv, Requests
  <2>1. ASSUME NEW k \in Requests, Settled(k)
        PROVE  k \in disk <=> Reply[Want[k]] = "OK" /\ file[k] = Body(k) /\ Succeeded(k)
    <3>1. k \in Round(k)
      BY DEF Round
    <3>2. k <= Created
      <4>1. pc[k] = "done"
        BY <1>1, <2>1 DEF ClientInv, MainInv, Settled
      <4>2. ~(k > Created)
        BY <1>1, <4>1 DEF ClientInv, MainInv
      <4>3. Created \in Int
        BY <1>1, <2>t, CallTypes DEF Created, ClientInv
      <4> QED
        BY <2>t, <4>2, <4>3
    <3>3. ASSUME Succeeded(k) PROVE k \in disk
      <4>1. k \in disk \/ Missing(k)
        BY <1>1, <3>2 DEF ClientInv, DiskInv
      <4>2. ASSUME NEW j \in joined, j \in Round(k), ~Succeeded(j) PROVE FALSE
        <5>1. CASE nthreads = 1
          <6>1. j = k
            BY <2>t, <4>2, <5>1 DEF Round
          <6> QED
            BY <3>3, <4>2, <6>1
        <5>2. CASE nthreads # 1
          BY <2>1, <4>2, <5>2 DEF Settled
        <5> QED
          BY <5>1, <5>2
      <4> QED
        BY <4>1, <4>2 DEF Missing
    <3>4. ASSUME k \in disk PROVE Succeeded(k)
      <4>1. CASE nthreads = 1
        BY <1>1, <2>1, <3>4, <4>1 DEF ClientInv, DiskInv, Settled
      <4>2. CASE nthreads # 1
        BY <2>1, <3>1, <4>2 DEF Settled
      <4> QED
        BY <4>1, <4>2
    <3>5. Succeeded(k) => Reply[Want[k]] = "OK" /\ file[k] = Body(k)
      BY <2>s DEF SuccessIsTrue, Succeeded
    <3> QED
      BY <3>3, <3>4, <3>5
  <2> QED
    BY <2>1 DEF ReceivedFilesKept
<1> QED
  BY <1>1, ClientInvariant, PTL

===============================================================================
