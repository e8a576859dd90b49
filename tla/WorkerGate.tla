------------------------------ MODULE WorkerGate ------------------------------
(***************************************************************************)
(* The counting gate that every multi-threaded part of the repository puts *)
(* in front of its worker threads: a mutex, a condition variable and a     *)
(* count of the threads that work.  The boss creates a thread for every    *)
(* request; the gate lets at most Limit of them work at a time.            *)
(*                                                                         *)
(*     lock;  while (count >= Limit) cond_wait;  count++;  unlock          *)
(*     ... the work ...                                                    *)
(*     lock;  count--;  cond_signal;  unlock                               *)
(*                                                                         *)
(* handle_with_cache.c (workThreads), simplecached.c (currentWorkers) and  *)
(* gfserver_mt/handler.c (workThreads) contain the same lines; the map     *)
(* cites the first.  The mutex is only held between two lines that do not  *)
(* block, and pthread_cond_wait gives it up, so each critical section is   *)
(* one step.                                                               *)
(***************************************************************************)
EXTENDS Integers, FiniteSets

CONSTANTS
    Threads,    \* the threads the boss may create (one per request)
    Limit       \* nthread: how many may work at a time

ASSUME GateAssumption == IsFiniteSet(Threads) /\ Limit \in Nat \ {0}

VARIABLES
    count,      \* workThreads / currentWorkers
    gate        \* where each thread is with respect to the gate

vars == <<count, gate>>

(***************************************************************************)
(* "out": not created yet; "entering": about to (re)take the mutex and     *)
(* test the condition; "waiting": inside pthread_cond_wait, not signalled; *)
(* "working": counted; "left": gave its place back.                        *)
(***************************************************************************)
Phases == {"out", "entering", "waiting", "working", "left"}

At(g, p) == {t \in Threads : g[t] = p}

Entering == At(gate, "entering")
Waiting == At(gate, "waiting")
Working == At(gate, "working")

Init ==
    /\ count = 0
    /\ gate = [t \in Threads |-> "out"]

(* pthread_create: the thread starts at the lock of the gate. *)
Arrive(t) ==
    /\ gate[t] = "out"
    /\ gate' = [gate EXCEPT ![t] = "entering"]
    /\ UNCHANGED count

(* Faulty variant: the test lets one thread too many in. *)
AdmitOneTooMany(t) ==
    /\ gate[t] = "entering"
    /\ count <= Limit
    /\ count' = count + 1
    /\ gate' = [gate EXCEPT ![t] = "working"]

(* The test of the while loop finds a place: count++ and unlock. *)
Admit(t) ==
    /\ gate[t] = "entering"
    /\ count < Limit
    /\ count' = count + 1
    /\ gate' = [gate EXCEPT ![t] = "working"]

(* It finds none: the thread sleeps on the condition variable. *)
Sleep(t) ==
    /\ gate[t] = "entering"
    /\ count >= Limit
    /\ gate' = [gate EXCEPT ![t] = "waiting"]
    /\ UNCHANGED count

(***************************************************************************)
(* pthread_cond_signal: the gates that may follow g, one sleeper (any) of  *)
(* which wakes up and goes back to the test; with no sleeper the signal is *)
(* lost and g stays as it is.                                              *)
(***************************************************************************)
SignalForgotten(g) == {g}          \* faulty variant: no call at all

Signal(g) ==
    IF At(g, "waiting") = {} THEN {g}
    ELSE {[t \in Threads |-> IF t = s THEN "entering" ELSE g[t]] : s \in At(g, "waiting")}

(* Faulty variant: the place is not given back before the signal. *)
LeaveUncounted(t) ==
    /\ gate[t] = "working"
    /\ gate' \in Signal([gate EXCEPT ![t] = "left"])
    /\ UNCHANGED count

(* The end of the work: count--, then pthread_cond_signal. *)
Leave(t) ==
    /\ gate[t] = "working"
    /\ count' = count - 1
    /\ gate' \in Signal([gate EXCEPT ![t] = "left"])

(* POSIX lets pthread_cond_wait return without a signal: the loop tests again. *)
SpuriousWakeup(t) ==
    /\ gate[t] = "waiting"
    /\ gate' = [gate EXCEPT ![t] = "entering"]
    /\ UNCHANGED count

(* Every created thread has left and nobody else comes. *)
Quiescent ==
    /\ \A t \in Threads : gate[t] \in {"out", "left"}
    /\ UNCHANGED vars

Thread(t) == Admit(t) \/ Sleep(t) \/ Leave(t)

Next ==
    \/ \E t \in Threads : Arrive(t) \/ Thread(t) \/ SpuriousWakeup(t)
    \/ Quiescent

(***************************************************************************)
(* A created thread that can take its next step does: the kernel schedules *)
(* it and pthread mutexes are held for a few instructions.  Nothing makes  *)
(* requests arrive and nothing promises spurious wakeups.                  *)
(***************************************************************************)
Fairness == \A t \in Threads : WF_vars(Thread(t))

Spec == Init /\ [][Next]_vars
FairSpec == Spec /\ Fairness

-------------------------------------------------------------------------------
TypeOK ==
    /\ count \in 0 .. Limit
    /\ gate \in [Threads -> Phases]

(***************************************************************************)
(* The count is exactly the number of threads between the two critical     *)
(* sections, and never above Limit, however arrivals, departures, signals  *)
(* and spurious wakeups interleave.                                        *)
(***************************************************************************)
GateBound == count = Cardinality(Working) /\ count <= Limit

(***************************************************************************)
(* No lost wakeup: while some thread sleeps in pthread_cond_wait, either   *)
(* every place is taken (a Leave is still to come) or as many threads as   *)
(* there are free places are on their way to the test.  Signalling one     *)
(* sleeper per departure is therefore enough, no broadcast is needed.      *)
(***************************************************************************)
NoLostWakeup == Waiting # {} => Limit - count <= Cardinality(Entering)

(***************************************************************************)
(* Everybody who came to the gate works and leaves in the end, although a  *)
(* newcomer may take the freed place before the thread woken for it and    *)
(* send that one back to sleep.                                            *)
(***************************************************************************)
EveryoneServed == \A t \in Threads : gate[t] = "entering" ~> gate[t] = "left"
===============================================================================
