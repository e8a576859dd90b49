----------------------------- MODULE MCWorkerGate -----------------------------
(* Four interchangeable threads at a gate for two. *)
EXTENDS WorkerGate, TLC

CONSTANTS t1, t2, t3, t4

MCThreads == {t1, t2, t3, t4}
===============================================================================
