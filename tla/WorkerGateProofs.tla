--------------------------- MODULE WorkerGateProofs ---------------------------
(***************************************************************************)
(* Machine-checked proofs about the worker gate, for every finite set of   *)
(* threads and every positive limit.                                       *)
(***************************************************************************)
EXTENDS WorkerGate, FiniteSetTheorems, TLAPS

(* Gate h is gate g after thread t went from one phase to another. *)
Moves(g, h, t, from, to) ==
    /\ g \in [Threads -> Phases] /\ h \in [Threads -> Phases]
    /\ t \in Threads /\ from # to
    /\ g[t] = from /\ h[t] = to
    /\ \A u \in Threads \ {t} : h[u] = g[u]

(***************************************************************************)
(* When a thread moves, the phase it leaves loses one thread, the phase it *)
(* enters gains one, and every other phase keeps its threads.              *)
(***************************************************************************)
LEMMA MoveOne ==
    ASSUME NEW g, NEW h, NEW t, NEW from, NEW to, Moves(g, h, t, from, to)
    PROVE  /\ Cardinality(At(h, to)) = Cardinality(At(g, to)) + 1
           /\ Cardinality(At(h, from)) = Cardinality(At(g, from)) - 1
           /\ \A q : q # to /\ q # from => At(h, q) = At(g, q)
<1>1. At(h, to) = At(g, to) \cup {t} /\ t \notin At(g, to)
  BY DEF At, Moves
<1>2. At(h, from) = At(g, from) \ {t} /\ t \in At(g, from)
  BY DEF At, Moves
<1>3. IsFiniteSet(At(g, to)) /\ IsFiniteSet(At(g, from))
  BY GateAssumption, FS_Subset DEF At
<1>4. Cardinality(At(h, to)) = Cardinality(At(g, to)) + 1
  BY <1>1, <1>3, FS_AddElement
<1>5. Cardinality(At(h, from)) = Cardinality(At(g, from)) - 1
  BY <1>2, <1>3, FS_RemoveElement
<1>6. \A q : q # to /\ q # from => At(h, q) = At(g, q)
  BY DEF At, Moves
<1> QED
  BY <1>4, <1>5, <1>6

(* How many threads are in a phase is a natural number. *)
LEMMA PhaseCount ==
    ASSUME NEW g \in [Threads -> Phases], NEW p \in Phases
    PROVE  Cardinality(At(g, p)) \in Nat
BY GateAssumption, FS_Subset, FS_CardinalityType DEF At

(***************************************************************************)
(* What pthread_cond_signal does to a gate g: nothing when nobody sleeps,  *)
(* else exactly one sleeper becomes an entering thread.                    *)
(***************************************************************************)
LEMMA SignalWakesOne ==
    ASSUME NEW g \in [Threads -> Phases], NEW h \in Signal(g)
    PROVE  /\ h \in [Threads -> Phases]
           /\ At(h, "working") = At(g, "working")
           /\ At(g, "waiting") = {} => h = g
           /\ At(g, "waiting") # {} =>
                 Cardinality(At(h, "entering")) = Cardinality(At(g, "entering")) + 1
<1>1. CASE At(g, "waiting") = {}
  BY <1>1 DEF Signal
<1>2. CASE At(g, "waiting") # {}
  <2>1. PICK u \in At(g, "waiting") : h = [g EXCEPT ![u] = "entering"]
    BY <1>2 DEF Signal
  <2>2. Moves(g, h, u, "waiting", "entering")
    BY <2>1 DEF At, Moves, Phases
  <2> QED
    BY <1>2, <2>2, MoveOne DEF Moves
<1> QED
  BY <1>1, <1>2

(***************************************************************************)
(* The three invariants are inductive together: the bound needs the count  *)
(* to be the number of working threads, and the absence of lost wakeups    *)
(* needs the count's range.                                                *)
(***************************************************************************)
IInv == TypeOK /\ GateBound /\ NoLostWakeup

(* Nobody is at the gate before the first thread is created. *)
LEMMA GateInit == Init => IInv
<1> SUFFICES ASSUME Init PROVE IInv
  OBVIOUS
<1>1. Working = {} /\ Waiting = {}
  BY DEF Init, Working, Waiting, At
<1>2. TypeOK
  BY GateAssumption DEF Init, TypeOK, Phases
<1>3. GateBound
  BY <1>1, GateAssumption, FS_EmptySet DEF GateBound, Init
<1> QED
  BY <1>1, <1>2, <1>3 DEF IInv, NoLostWakeup

(* Every step of every thread preserves the three invariants. *)
LEMMA GateStep == IInv /\ [Next]_vars => IInv'
<1> SUFFICES ASSUME IInv, [Next]_vars PROVE IInv'
  OBVIOUS
<1> USE GateAssumption
<1>t. /\ count \in 0 .. Limit
      /\ gate \in [Threads -> Phases]
      /\ count = Cardinality(At(gate, "working"))
      /\ At(gate, "waiting") # {} => Limit - count <= Cardinality(At(gate, "entering"))
  BY DEF IInv, TypeOK, GateBound, NoLostWakeup, Working, Waiting, Entering
<1>c. Cardinality(At(gate, "entering")) \in Nat /\ Cardinality(At(gate, "working")) \in Nat
  BY <1>t, PhaseCount DEF Phases
<1>g. SUFFICES /\ count' \in 0 .. Limit
               /\ gate' \in [Threads -> Phases]
               /\ count' = Cardinality(At(gate', "working"))
               /\ At(gate', "waiting") # {} =>
                     Limit - count' <= Cardinality(At(gate', "entering"))
  BY DEF IInv, TypeOK, GateBound, NoLostWakeup, Working, Waiting, Entering, At
<1>1. ASSUME NEW t \in Threads, Arrive(t) PROVE <1>g!1
  <2>1. Moves(gate, gate', t, "out", "entering") /\ count' = count
    BY <1>t, <1>1 DEF Arrive, Moves, Phases
  <2>2. /\ Cardinality(At(gate', "entering")) = Cardinality(At(gate, "entering")) + 1
        /\ At(gate', "waiting") = At(gate, "waiting")
        /\ At(gate', "working") = At(gate, "working")
    BY <2>1, MoveOne
  <2> QED
    BY <1>t, <1>c, <2>1, <2>2 DEF Moves
<1>2. ASSUME NEW t \in Threads, Admit(t) PROVE <1>g!1
  <2>1. /\ Moves(gate, gate', t, "entering", "working")
        /\ count < Limit /\ count' = count + 1
    BY <1>t, <1>2 DEF Admit, Moves, Phases
  <2>2. /\ Cardinality(At(gate', "working")) = Cardinality(At(gate, "working")) + 1
        /\ Cardinality(At(gate', "entering")) = Cardinality(At(gate, "entering")) - 1
        /\ At(gate', "waiting") = At(gate, "waiting")
    BY <2>1, MoveOne
  <2> QED
    BY <1>t, <1>c, <2>1, <2>2 DEF Moves
<1>3. ASSUME NEW t \in Threads, Sleep(t) PROVE <1>g!1
  <2>1. /\ Moves(gate, gate', t, "entering", "waiting")
        /\ count >= Limit /\ count' = count
    BY <1>t, <1>3 DEF Sleep, Moves, Phases
  <2>2. /\ At(gate', "working") = At(gate, "working")
    BY <2>1, MoveOne
  <2>3. Cardinality(At(gate', "entering")) \in Nat
    BY <2>1, PhaseCount DEF Moves, Phases
  <2> QED
    BY <1>t, <1>c, <2>1, <2>2, <2>3 DEF Moves
<1>4. ASSUME NEW t \in Threads, Leave(t) PROVE <1>g!1
  <2> DEFINE g == [gate EXCEPT ![t] = "left"]
  <2>1. Moves(gate, g, t, "working", "left") /\ count' = count - 1 /\ gate' \in Signal(g)
    BY <1>t, <1>4 DEF Leave, Moves, Phases
  <2> HIDE DEF g
  <2>2. /\ Cardinality(At(g, "working")) = Cardinality(At(gate, "working")) - 1
        /\ At(g, "waiting") = At(gate, "waiting")
        /\ At(g, "entering") = At(gate, "entering")
        /\ g \in [Threads -> Phases]
    BY <2>1, MoveOne DEF Moves
  <2>3. /\ gate' \in [Threads -> Phases]
        /\ At(gate', "working") = At(g, "working")
        /\ At(g, "waiting") = {} => gate' = g
        /\ At(g, "waiting") # {} =>
              Cardinality(At(gate', "entering")) = Cardinality(At(g, "entering")) + 1
    BY <2>1, <2>2, SignalWakesOne
  <2>4. Cardinality(At(g, "working")) \in Nat
    BY <2>2, PhaseCount DEF Phases
  <2> QED
    BY <1>t, <1>c, <2>1, <2>2, <2>3, <2>4
<1>5. ASSUME NEW t \in Threads, SpuriousWakeup(t) PROVE <1>g!1
  <2>1. Moves(gate, gate', t, "waiting", "entering") /\ count' = count
    BY <1>t, <1>5 DEF SpuriousWakeup, Moves, Phases
  <2>2. /\ Cardinality(At(gate', "entering")) = Cardinality(At(gate, "entering")) + 1
        /\ At(gate', "working") = At(gate, "working")
    BY <2>1, MoveOne
  <2>3. At(gate, "waiting") # {}
    BY <2>1 DEF At, Moves
  <2> QED
    BY <1>t, <1>c, <2>1, <2>2, <2>3 DEF Moves
<1>6. CASE UNCHANGED vars
  BY <1>t, <1>6 DEF vars, At
<1> QED
  BY <1>1, <1>2, <1>3, <1>4, <1>5, <1>6 DEF Next, Thread, Quiescent

(* The inductive invariant holds in every reachable state. *)
THEOREM GateInductive == Spec => []IInv
BY GateInit, GateStep, PTL DEF Spec

(* Every state of the gate is well-typed. *)
THEOREM GateTypeCorrect == Spec => []TypeOK
<1>1. IInv => TypeOK
  BY DEF IInv
<1> QED
  BY <1>1, GateInductive, PTL

(* The count is the number of working threads and never above the limit. *)
THEOREM GateBounded == Spec => []GateBound
<1>1. IInv => GateBound
  BY DEF IInv
<1> QED
  BY <1>1, GateInductive, PTL

(* A thread sleeps only while every free place has somebody coming for it. *)
THEOREM GateWakeups == Spec => []NoLostWakeup
<1>1. IInv => NoLostWakeup
  BY DEF IInv
<1> QED
  BY <1>1, GateInductive, PTL
===============================================================================
