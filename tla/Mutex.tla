-------------------------------- MODULE Mutex --------------------------------
(***************************************************************************)
(* What "Lock is a mutual exclusion lock" (zk/lock.go) promises: one       *)
(* process at a time holds the lock, it is taken only when it is free, and *)
(* it becomes free when its holder releases it or loses its session.       *)
(***************************************************************************)
CONSTANTS Procs, NoProc

VARIABLE holder

Init == holder = NoProc

Acquire(p) == holder = NoProc /\ holder' = p

Release == holder # NoProc /\ holder' = NoProc

Next == Release \/ \E p \in Procs : Acquire(p)

Spec == Init /\ [][Next]_holder
=============================================================================
