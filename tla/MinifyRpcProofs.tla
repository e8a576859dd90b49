---------------------------- MODULE MinifyRpcProofs ----------------------------
(***************************************************************************)
(* Machine-checked proofs about the image service: every caller gets its   *)
(* own image, and times out only under load, for all calls and all times.  *)
(***************************************************************************)
EXTENDS MinifyRpc, FiniteSetTheorems, TLAPS

ClientStates == {"start", "waiting", "no_server"} \cup Statuses

(* The static result is that of the call to be answered. *)
IInv ==
    /\ client \in [Clients -> ClientStates]
    /\ image \in [Clients -> Clients \cup {Nobody}]
    /\ inbox \subseteq Clients
    /\ server \in {"read", "resize", "reply"} => current \in Clients
    /\ server = "reply" => dst = current
    /\ OwnImage

LEMMA ServerIInv ==
    ASSUME IInv,
           Register \/ ReadArgument \/ RefuseArgument \/ Resize \/ Reply \/ Tick
    PROVE  IInv'
<1>1. CASE Register
  BY <1>1 DEF IInv, OwnImage, Register
<1>2. CASE ReadArgument
  BY <1>2 DEF IInv, OwnImage, ReadArgument
<1>3. CASE RefuseArgument
  <2>1. client' = client \/ client' = [client EXCEPT ![current] = "refused"]
    BY <1>3 DEF RefuseArgument, Answer
  <2>2. server' \in {"idle", "exited"} /\ UNCHANGED <<image, inbox>>
    BY <1>3 DEF RefuseArgument
  <2>3. client' \in [Clients -> ClientStates]
    BY <2>1 DEF IInv, ClientStates, Statuses
  <2>4. \A c \in Clients : client'[c] = "success" => client[c] = "success"
    BY <2>1 DEF IInv
  <2> QED
    BY <2>2, <2>3, <2>4 DEF IInv, OwnImage
<1>4. CASE Resize
  BY <1>4 DEF IInv, OwnImage, Resize
<1>5. CASE Reply
  <2>1. current \in Clients /\ dst = current
    BY <1>5 DEF IInv, Reply
  <2>2. server' \in {"idle", "exited"} /\ inbox' = inbox
    BY <1>5 DEF Reply
  <2>3. CASE /\ client' = [client EXCEPT ![current] = "success"]
             /\ image' = [image EXCEPT ![current] = current]
    <3>1. client' \in [Clients -> ClientStates]
      BY <2>3 DEF IInv, ClientStates, Statuses
    <3>2. image' \in [Clients -> Clients \cup {Nobody}]
      BY <2>1, <2>3 DEF IInv
    <3>3. OwnImage'
      BY <2>1, <2>3 DEF IInv, OwnImage
    <3> QED
      BY <2>2, <3>1, <3>2, <3>3 DEF IInv
  <2>4. CASE /\ client' = client \/ client' = [client EXCEPT ![current] = "refused"]
             /\ image' = image
    <3>1. client' \in [Clients -> ClientStates]
      BY <2>4 DEF IInv, ClientStates, Statuses
    <3>2. \A c \in Clients : client'[c] = "success" => client[c] = "success"
      BY <2>4 DEF IInv
    <3> QED
      BY <2>2, <2>4, <3>1, <3>2 DEF IInv, OwnImage
  <2> QED
    BY <1>5, <2>1, <2>3, <2>4 DEF Reply, Answer
<1>6. CASE Tick
  BY <1>6 DEF IInv, OwnImage, Tick
<1> QED
  BY <1>1, <1>2, <1>3, <1>4, <1>5, <1>6

LEMMA CallIInv ==
    ASSUME IInv, NEW c \in Clients, Dispatch(c) \/ Call(c) \/ Break(c) \/ GiveUp(c)
    PROVE  IInv'
<1>1. CASE Dispatch(c)
  BY <1>1 DEF IInv, OwnImage, Dispatch
<1>2. CASE Call(c)
  BY <1>2 DEF IInv, OwnImage, ClientStates, Call, serverVars
<1>3. CASE Break(c)
  BY <1>3 DEF IInv, OwnImage, ClientStates, Statuses, Break, serverVars
<1>4. CASE GiveUp(c)
  BY <1>4 DEF IInv, OwnImage, ClientStates, Statuses, GiveUp, serverVars
<1> QED
  BY <1>1, <1>2, <1>3, <1>4

(***************************************************************************)
(* A caller that returns has its own image (minifyjpeg.c:6-22,             *)
(* minifyjpeg_svc.c:25-64), however many calls there are, in whatever      *)
(* order they are served, whichever are refused, and however many callers  *)
(* are gone.                                                               *)
(***************************************************************************)
THEOREM MinifyOwnImage == Spec => []OwnImage
<1>1. Init => IInv
  BY DEF Init, IInv, OwnImage, ClientStates
<1>2. IInv /\ [Next]_vars => IInv'
  <2> SUFFICES ASSUME IInv, [Next]_vars
               PROVE  IInv'
    OBVIOUS
  <2>1. CASE UNCHANGED vars
    BY <2>1 DEF IInv, OwnImage, vars, serverVars
  <2> QED
    BY <2>1, ServerIInv, CallIInv DEF Next
<1>3. IInv => OwnImage
  BY DEF IInv
<1> QED
  BY <1>1, <1>2, <1>3, PTL DEF Spec

-------------------------------------------------------------------------------
(***************************************************************************)
(* The time a caller has waited was spent on calls the server took up: in  *)
(* full on those that are over, in part on the one it is at.               *)
(***************************************************************************)
Durations == IsFiniteSet(Clients) /\ Work \in Nat /\ Wire \in Nat /\ Timeout \in Nat

Span == Wire + Work + Wire
Stages == {"read", "resize", "reply"}

(* What the current call may still take, beginning with its stage. *)
Left(stage) ==
    IF stage = "read" THEN Wire + Work + Wire
    ELSE IF stage = "resize" THEN Work + Wire ELSE Wire

Issued == {c \in Clients : client[c] \notin {"start", "no_server"}}
TakenUp == Issued \ inbox
Cost(n) == n * Span
Spent == Cost(Cardinality(TakenUp)) - (IF server \in Stages THEN Left(server) - busy ELSE 0)

(* Who waits is known to the server: in its inbox or at work on. *)
Known(c) ==
    \/ c \in inbox
    \/ server \in Stages /\ current = c
    \/ server = "exited"

LoadInv ==
    /\ server \in {"start", "idle", "exited"} \cup Stages
    /\ client \in [Clients -> ClientStates]
    /\ waited \in [Clients -> Nat]
    /\ busy \in Nat
    /\ server \in Stages => current \in Clients /\ busy <= Limit[server]
    /\ server \notin Stages => busy = 0
    /\ inbox \subseteq Issued
    /\ server = "start" => \A c \in Clients : ~Waits(c)
    /\ \A c \in Clients : Waits(c) => Known(c)
    /\ \A c \in Clients : waited[c] <= Spent
    /\ \A c \in Clients : client[c] = "timed_out" => waited[c] = Timeout

LEMMA CostFacts ==
    ASSUME Durations
    PROVE  /\ Span \in Nat /\ \A n \in Nat : Cost(n) \in Nat /\ Cost(n + 1) = Cost(n) + Span
           /\ \A m, n \in Nat : m <= n => Cost(m) <= Cost(n)
<1>1. Span \in Nat
  BY DEF Durations, Span
<1>2. \A n \in Nat : Cost(n) \in Nat /\ Cost(n + 1) = Cost(n) + Span
  BY <1>1 DEF Cost
<1>3. ASSUME NEW m \in Nat, NEW n \in Nat, m <= n PROVE Cost(m) <= Cost(n)
  <2>1. PICK k \in Nat : n = m + k
    BY <1>3, n - m \in Nat, n = m + (n - m)
  <2>2. k * Span \in Nat
    BY <1>1
  <2>3. n * Span = m * Span + k * Span
    BY <1>1, <2>1
  <2> QED
    BY <1>1, <2>2, <2>3 DEF Cost
<1> QED
  BY <1>1, <1>2, <1>3

LEMMA TakenUpFinite ==
    ASSUME Durations
    PROVE  /\ IsFiniteSet(Issued) /\ Cardinality(Issued) \in Nat
           /\ IsFiniteSet(TakenUp) /\ Cardinality(TakenUp) \in Nat
           /\ Cardinality(TakenUp) <= Cardinality(Issued)
<1>1. IsFiniteSet(Issued)
  BY FS_Subset DEF Durations, Issued
<1>2. IsFiniteSet(TakenUp) /\ Cardinality(TakenUp) <= Cardinality(Issued)
  BY <1>1, FS_Subset, TakenUp \in SUBSET Issued DEF TakenUp
<1> QED
  BY <1>1, <1>2, FS_CardinalityType

LEMMA LimitFacts ==
    ASSUME Durations
    PROVE  /\ DOMAIN Limit = Stages
           /\ Limit["read"] = Wire /\ Limit["resize"] = Work /\ Limit["reply"] = Wire
           /\ \A s \in Stages : Limit[s] \in Nat /\ Left(s) \in Nat /\ Limit[s] <= Left(s)
           /\ Left("read") = Span
           /\ Left("read") - Limit["read"] = Left("resize")
           /\ Left("resize") - Limit["resize"] = Left("reply")
BY DEF Durations, Limit, Left, Stages, Span

LEMMA SpentFacts ==
    ASSUME Durations, LoadInv
    PROVE  /\ waited \in [Clients -> Nat] /\ busy \in Nat
           /\ Cost(Cardinality(TakenUp)) \in Nat
           /\ server \in Stages => Left(server) \in Nat /\ Left(server) - busy \in Nat
           /\ Spent \in Int /\ Spent <= Cost(Cardinality(TakenUp))
<1>1. waited \in [Clients -> Nat] /\ busy \in Nat
  BY DEF LoadInv
<1>2. server \in Stages => Left(server) \in Nat /\ Left(server) - busy \in Nat
  BY <1>1, LimitFacts DEF LoadInv
<1>3. Cost(Cardinality(TakenUp)) \in Nat
  BY TakenUpFinite, CostFacts
<1> QED
  BY <1>1, <1>2, <1>3 DEF Spent

LEMMA FullTime ==
    ASSUME Durations, LoadInv, Timeout <= Spent
    PROVE  Cardinality(Issued) * (Wire + Work + Wire) >= Timeout
<1>1. Cost(Cardinality(TakenUp)) <= Cost(Cardinality(Issued))
  BY CostFacts, TakenUpFinite
<1>2. Cost(Cardinality(Issued)) \in Nat /\ Timeout \in Nat
  BY CostFacts, TakenUpFinite DEF Durations
<1>3. Timeout <= Cost(Cardinality(Issued))
  BY <1>1, <1>2, SpentFacts
<1> QED
  BY <1>2, <1>3 DEF Cost, Span

(* A call that is taken up brings its time with it, which is only spent from now on. *)
LEMMA DispatchLoad ==
    ASSUME Durations, LoadInv, NEW c \in Clients, Dispatch(c)
    PROVE  LoadInv'
<1>0. /\ server = "idle" /\ server' = "read" /\ current' = c /\ c \in inbox
      /\ inbox' = inbox \ {c} /\ busy' = busy /\ busy = 0
      /\ UNCHANGED <<client, waited>>
  BY DEF Dispatch, LoadInv, Stages
<1>1. Issued' = Issued /\ TakenUp' = TakenUp \cup {c} /\ c \notin TakenUp
  BY <1>0 DEF Issued, TakenUp, LoadInv
<1>2. Cardinality(TakenUp') = Cardinality(TakenUp) + 1
  BY <1>1, TakenUpFinite, FS_AddElement
<1>3. Spent' = Spent
  <2>1. Spent = Cost(Cardinality(TakenUp))
    BY <1>0, SpentFacts DEF Spent, Stages
  <2>2. Spent' = Cost(Cardinality(TakenUp) + 1) - (Span - 0)
    BY <1>0, <1>2, LimitFacts DEF Spent, Stages, Left, Span
  <2> QED
    BY <2>1, <2>2, CostFacts, TakenUpFinite, SpentFacts
<1>4. busy' \in Nat /\ busy' <= Limit["read"]
  BY <1>0, LimitFacts DEF Stages
<1>5. \A d \in Clients : Waits(d)' => Known(d)'
  <2>1. \A d \in Clients : Waits(d) => d \in inbox
    BY <1>0 DEF LoadInv, Known, Stages
  <2> QED
    BY <1>0, <2>1 DEF Waits, Known, Stages
<1> QED
  BY <1>0, <1>1, <1>3, <1>4, <1>5 DEF LoadInv, Stages

(* The server goes on, early or late: what is left of the stage is used up. *)
LEMMA StageLoad ==
    ASSUME Durations, LoadInv, ReadArgument \/ Resize
    PROVE  LoadInv'
<1>0. /\ UNCHANGED <<current, client, inbox, waited>> /\ busy' = 0
      /\ \/ server = "read" /\ server' = "resize"
         \/ server = "resize" /\ server' = "reply"
  BY DEF ReadArgument, Resize
<1>1. Issued' = Issued /\ TakenUp' = TakenUp
  BY <1>0 DEF Issued, TakenUp
<1>2. server \in Stages /\ server' \in Stages
  BY <1>0 DEF Stages
<1>3. Spent' \in Int /\ Spent <= Spent'
  <2>1. Spent = Cost(Cardinality(TakenUp)) - (Left(server) - busy)
    BY <1>2 DEF Spent
  <2>2. Spent' = Cost(Cardinality(TakenUp)) - (Left(server') - 0)
    BY <1>0, <1>1, <1>2 DEF Spent, Left
  <2>3. Left(server') \in Nat /\ Left(server') = Left(server) - Limit[server]
    BY <1>0, LimitFacts DEF Stages
  <2>4. busy <= Limit[server] /\ Limit[server] \in Nat
    BY <1>2, LimitFacts DEF LoadInv
  <2> QED
    BY <1>2, <2>1, <2>2, <2>3, <2>4, SpentFacts
<1>4. \A d \in Clients : waited'[d] <= Spent'
  BY <1>0, <1>3, SpentFacts DEF LoadInv
<1>5. busy' \in Nat /\ busy' <= Limit'[server']
  <2>1. Limit[server'] \in Nat
    BY <1>2, LimitFacts
  <2> QED
    BY <1>0, <2>1 DEF Limit
<1>6. \A d \in Clients : Waits(d)' => Known(d)'
  BY <1>0, <1>2 DEF LoadInv, Waits, Known, Stages
<1> QED
  BY <1>0, <1>1, <1>2, <1>4, <1>5, <1>6 DEF LoadInv, Stages

LEMMA AnswerLoad ==
    ASSUME Durations, LoadInv, RefuseArgument \/ Reply
    PROVE  LoadInv'
<1>0. /\ UNCHANGED <<current, inbox, waited>> /\ busy' = 0
      /\ server \in {"read", "reply"} /\ server' \in {"idle", "exited"}
      /\ \E s \in {"refused", "success"} :
            client' = IF Waits(current) THEN [client EXCEPT ![current] = s] ELSE client
  BY DEF RefuseArgument, Reply, Answer
<1>1. client \in [Clients -> ClientStates] /\ current \in Clients
  BY <1>0 DEF LoadInv, Stages
<1>2. client' \in [Clients -> ClientStates]
  BY <1>0, <1>1 DEF ClientStates, Statuses
<1>3. \A d \in Clients : Waits(d)' => Waits(d) /\ d # current
  BY <1>0, <1>1 DEF Waits
<1>4. Issued' = Issued
  <2>1. \A d \in Clients : client'[d] \in {"start", "no_server"}
                             <=> client[d] \in {"start", "no_server"}
    BY <1>0, <1>1 DEF Waits
  <2> QED
    BY <2>1 DEF Issued
<1>5. TakenUp' = TakenUp
  BY <1>0, <1>4 DEF TakenUp
<1>6. Spent' \in Int /\ Spent <= Spent'
  <2>1. Spent' = Cost(Cardinality(TakenUp)) - 0
    BY <1>0, <1>5 DEF Spent, Stages
  <2> QED
    BY <2>1, SpentFacts
<1>7. \A d \in Clients : waited'[d] <= Spent'
  BY <1>0, <1>6, SpentFacts DEF LoadInv
<1>8. \A d \in Clients : client'[d] = "timed_out" => client[d] = "timed_out"
  BY <1>0, <1>1
<1>9. \A d \in Clients : Waits(d)' => Known(d)'
  BY <1>0, <1>3 DEF LoadInv, Known, Stages
<1> QED
  BY <1>0, <1>2, <1>4, <1>7, <1>8, <1>9 DEF LoadInv, Stages

(* A tick is spent, and nobody waits for longer than that: while time goes *)
(* on and somebody waits, the server is at work.                           *)
LEMMA TickLoad ==
    ASSUME Durations, LoadInv, Tick
    PROVE  LoadInv'
<1>0. /\ UNCHANGED <<server, current, client, inbox>>
      /\ busy' = IF server \in Stages THEN busy + 1 ELSE busy
      /\ waited' = [c \in Clients |-> IF Waits(c) THEN waited[c] + 1 ELSE waited[c]]
  BY LimitFacts DEF Tick
<1>1. Issued' = Issued /\ TakenUp' = TakenUp
  BY <1>0 DEF Issued, TakenUp
<1>2. waited' \in [Clients -> Nat] /\ \A d \in Clients : waited'[d] <= waited[d] + 1
  BY <1>0, SpentFacts
<1>3. \A d \in Clients : Waits(d)' => Known(d)'
  BY <1>0 DEF LoadInv, Waits, Known
<1>4. \A d \in Clients : client'[d] = "timed_out" => waited'[d] = Timeout
  BY <1>0, SpentFacts DEF LoadInv, Waits
<1>5. CASE server \in Stages
  <2>1. busy # Limit[server]
    BY <1>5, LimitFacts DEF Tick, Due
  <2>2. busy' = busy + 1 /\ busy <= Limit[server] /\ Limit[server] \in Nat /\ busy \in Nat
    BY <1>0, <1>5, LimitFacts DEF LoadInv
  <2>3. busy' \in Nat /\ busy' <= Limit[server]
    BY <2>1, <2>2
  <2>4. Spent' = Spent + 1
    BY <1>0, <1>1, <1>5, <2>2, SpentFacts DEF Spent, Left
  <2>5. \A d \in Clients : waited'[d] <= Spent'
    BY <1>2, <2>4, SpentFacts DEF LoadInv
  <2> QED
    BY <1>0, <1>1, <1>2, <1>3, <1>4, <1>5, <2>3, <2>5 DEF LoadInv, Waits, Limit
<1>6. CASE server \notin Stages
  <2>1. \A d \in Clients : ~Waits(d)
    BY <1>6 DEF LoadInv, Known, Tick, Due
  <2>2. busy' = busy /\ \A d \in Clients : waited'[d] = waited[d]
    BY <1>0, <1>6, <2>1
  <2>3. Spent' = Spent
    BY <1>0, <1>1, <1>6, <2>2 DEF Spent
  <2> QED
    BY <1>0, <1>1, <1>2, <1>3, <1>4, <1>6, <2>1, <2>2, <2>3 DEF LoadInv, Waits
<1> QED
  BY <1>5, <1>6

LEMMA RegisterLoad ==
    ASSUME Durations, LoadInv, Register
    PROVE  LoadInv'
<1>0. /\ server = "start" /\ server' \in {"idle", "exited"}
      /\ UNCHANGED <<current, busy, inbox, client, waited>>
  BY DEF Register
<1>1. Issued' = Issued /\ TakenUp' = TakenUp
  BY <1>0 DEF Issued, TakenUp
<1>2. Spent' = Spent
  BY <1>0, <1>1 DEF Spent, Stages
<1>3. \A c \in Clients : ~Waits(c)'
  BY <1>0 DEF LoadInv, Waits
<1> QED
  BY <1>0, <1>1, <1>2, <1>3 DEF LoadInv, Stages

LEMMA CallLoad ==
    ASSUME Durations, LoadInv, NEW c \in Clients, Call(c) \/ Break(c) \/ GiveUp(c)
    PROVE  LoadInv'
<1>0. UNCHANGED <<server, current, busy, waited>>
  BY DEF Call, Break, GiveUp, serverVars
<1>1. client \in [Clients -> ClientStates] /\ inbox \subseteq Issued
  BY DEF LoadInv
<1>2. /\ client' \in [Clients -> ClientStates]
      /\ inbox' \subseteq Issued' /\ TakenUp' = TakenUp
  <2>1. CASE Call(c)
    BY <1>1, <2>1 DEF Call, Issued, TakenUp, ClientStates
  <2>2. CASE Break(c) \/ GiveUp(c)
    BY <1>1, <2>2 DEF Break, GiveUp, Waits, Issued, TakenUp, ClientStates, Statuses
  <2> QED
    BY <2>1, <2>2
<1>3. Spent' = Spent
  BY <1>0, <1>2 DEF Spent
<1>4. \A d \in Clients : Waits(d)' => Known(d)' /\ server # "start"
  BY <1>0, <1>1 DEF Call, Break, GiveUp, LoadInv, Waits, Known
<1>5. \A d \in Clients : client'[d] = "timed_out" => waited'[d] = Timeout
  BY <1>0, <1>1 DEF Call, Break, GiveUp, LoadInv
<1> QED
  BY <1>0, <1>2, <1>3, <1>4, <1>5 DEF LoadInv, Waits, Limit

(***************************************************************************)
(* A caller whose connection works times out (minifyjpeg_clnt.c:18-24)     *)
(* only when reading, resizing and answering the calls so far take its     *)
(* whole time: a call that was given up is served once more, and never     *)
(* twice.                                                                  *)
(***************************************************************************)
THEOREM MinifyTimesOut ==
    ASSUME Durations
    PROVE  Spec => []TimesOutUnderLoad
<1>1. Init => LoadInv
  <2> SUFFICES ASSUME Init PROVE LoadInv
    OBVIOUS
  <2>1. Issued = {} /\ TakenUp = {} /\ inbox = {} /\ \A c \in Clients : ~Waits(c)
    BY DEF Init, Issued, TakenUp, Waits
  <2>2. Spent = 0
    <3>1. 0 * Span = 0
      BY CostFacts
    <3>2. Spent = Cost(0) - 0
      BY <2>1, FS_EmptySet DEF Init, Spent, Stages
    <3> QED
      BY <3>1, <3>2 DEF Cost
  <2>3. /\ client = [c \in Clients |-> "start"] /\ waited = [c \in Clients |-> 0]
        /\ busy = 0 /\ server = "start"
    BY DEF Init
  <2> QED
    BY <2>1, <2>2, <2>3 DEF LoadInv, Stages, ClientStates
<1>2. LoadInv /\ [Next]_vars => LoadInv'
  <2> SUFFICES ASSUME LoadInv, [Next]_vars PROVE LoadInv'
    OBVIOUS
  <2>1. CASE UNCHANGED vars
    BY <2>1 DEF LoadInv, vars, serverVars, Issued, TakenUp, Spent, Waits, Known, Left
  <2> QED
    BY <2>1, DispatchLoad, StageLoad, AnswerLoad, RegisterLoad, TickLoad, CallLoad DEF Next
<1>3. LoadInv => TimesOutUnderLoad
  <2> SUFFICES ASSUME LoadInv, NEW c \in Clients, client[c] = "timed_out"
               PROVE  Cardinality(Issued) * (Wire + Work + Wire) >= Timeout
    BY DEF TimesOutUnderLoad, Issued
  <2>1. Timeout <= Spent
    BY waited[c] = Timeout DEF LoadInv
  <2> QED
    BY <2>1, FullTime
<1> QED
  BY <1>1, <1>2, <1>3, PTL DEF Spec

-------------------------------------------------------------------------------
LEMMA StepTypes ==
    ASSUME Durations, TypeOK, [Next]_vars
    PROVE  TypeOK'
<1> USE DEF Statuses
<1>1. CASE Register
  BY <1>1, LimitFacts DEF TypeOK, Register, Stages
<1>2. CASE ReadArgument \/ Resize
  BY <1>2, LimitFacts DEF TypeOK, ReadArgument, Resize, Stages, Limit
<1>3. CASE RefuseArgument \/ Reply
  <2>1. /\ server' \in {"idle", "exited"} /\ busy' = 0
        /\ UNCHANGED <<current, dst, inbox, waited>>
    BY <1>3 DEF RefuseArgument, Reply
  <2>2. client' \in [Clients -> {"start", "waiting", "no_server"} \cup Statuses]
    BY <1>3 DEF TypeOK, RefuseArgument, Reply, Answer
  <2>3. image' \in [Clients -> Clients \cup {Nobody}]
    BY <1>3 DEF TypeOK, RefuseArgument, Reply
  <2> QED
    BY <2>1, <2>2, <2>3, LimitFacts DEF TypeOK, Stages
<1>4. CASE Tick
  <2>0. DOMAIN Limit = Stages /\ \A s \in Stages : Limit[s] \in Nat
    BY LimitFacts
  <2>1. busy' \in 0 .. IF server \in Stages THEN Limit[server] ELSE 0
    BY <1>4, <2>0 DEF TypeOK, Tick, Due
  <2>2. waited' \in [Clients -> 0 .. Timeout]
    BY <1>4 DEF Durations, TypeOK, Tick, Due, Waits
  <2>3. UNCHANGED <<server, current, dst, inbox, client, image>>
    BY <1>4 DEF Tick
  <2> QED
    BY <2>0, <2>1, <2>2, <2>3 DEF TypeOK, Limit
<1>5. ASSUME NEW c \in Clients, Dispatch(c) \/ Call(c) \/ Break(c) \/ GiveUp(c)
      PROVE  TypeOK'
  <2>1. CASE Dispatch(c)
    <3>1. server' = "read" /\ current' = c /\ inbox' \subseteq Clients
      BY <2>1 DEF TypeOK, Dispatch
    <3>2. UNCHANGED <<busy, dst, client, waited, image>>
      BY <2>1 DEF Dispatch
    <3>3. busy' = 0 /\ Limit'["read"] \in Nat /\ "read" \in DOMAIN Limit'
      BY <2>1, LimitFacts DEF TypeOK, Dispatch, Stages, Limit
    <3> QED
      BY <2>1, <3>1, <3>2, <3>3 DEF TypeOK
  <2>2. CASE Call(c)
    BY <2>2 DEF TypeOK, Call, serverVars, Limit
  <2>3. CASE Break(c)
    BY <2>3 DEF TypeOK, Break, serverVars, Limit
  <2>4. CASE GiveUp(c)
    BY <2>4 DEF TypeOK, GiveUp, serverVars, Limit
  <2> QED
    BY <1>5, <2>1, <2>2, <2>3, <2>4
<1>6. CASE UNCHANGED vars
  BY <1>6 DEF TypeOK, vars, serverVars, Limit
<1> QED
  BY <1>1, <1>2, <1>3, <1>4, <1>5, <1>6 DEF Next

(***************************************************************************)
(* Type correctness of server and callers: nobody waits for longer than    *)
(* the time-out, and no stage of a call goes on for longer than its limit  *)
(* (minifyjpeg_clnt.c:10, minifyjpeg_svc.c:50-58).                         *)
(***************************************************************************)
THEOREM MinifyTypes ==
    ASSUME Durations
    PROVE  Spec => []TypeOK
<1>1. Init => TypeOK
  BY LimitFacts DEF Durations, Init, TypeOK, Stages
<1> QED
  BY <1>1, StepTypes, PTL DEF Spec

===============================================================================
