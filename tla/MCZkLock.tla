------------------------------ MODULE MCZkLock ------------------------------
(* Small instances of the lock recipe for TLC.                               *)
EXTENDS ZkLock, TLC

Swaps == Permutations(Procs)
=============================================================================
