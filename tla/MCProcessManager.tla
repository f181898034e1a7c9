-------------------------- MODULE MCProcessManager --------------------------
(* Instances of ProcessManager for TLC: threads are interchangeable.        *)
EXTENDS ProcessManager, TLC

CONSTANTS t1, t2

TwoThreads == {t1, t2}
Interchangeable == Permutations(TwoThreads)
=============================================================================
