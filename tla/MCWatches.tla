------------------------------ MODULE MCWatches ------------------------------
(* Small instances of Watches for TLC: calls are named after what they do.   *)
EXTENDS Watches

KindOfCall ==
  [w \in Calls |-> CASE w = "getW"      -> "data"
                     [] w = "existsW"   -> "exist"
                     [] w = "childrenW" -> "child"]
=============================================================================
