------------------------------- MODULE MCConn -------------------------------
(* Small instances of Conn for TLC; the .cfg files choose the calls that are *)
(* made, the capacity of the queue and the failures that happen.             *)
EXTENDS Conn, TLC

\* AddAuth calls can be swapped.
Credentials == Permutations(AuthReqs)
=============================================================================
