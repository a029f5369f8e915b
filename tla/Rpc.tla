--------------------------------- MODULE Rpc ---------------------------------
(***************************************************************************)
(* What a caller of the API may rely on: a call is carried out at most     *)
(* once, and what it returns tells the truth about that.  A reply comes    *)
(* from a server that has carried the request out; some errors say that it *)
(* was not and never will be; the others leave it open.                    *)
(***************************************************************************)

CONSTANTS
  Calls,
  Replies,    \* results that come from a server
  NotDone,    \* errors of a request that was never sent
  Open        \* errors that leave the fate of the request open

VARIABLES
  status,     \* of each call: idle, pending, returned or abandoned
  outcome,    \* of a call that has returned
  performed   \* the calls carried out

rpcVars == <<status, outcome, performed>>

Init ==
  /\ status = [r \in Calls |-> "idle"]
  /\ outcome = [r \in Calls |-> "empty"]
  /\ performed = {}

Call(r) ==
  /\ status[r] = "idle"
  /\ status' = [status EXCEPT ![r] = "pending"]
  /\ UNCHANGED <<outcome, performed>>

\* The calls that may still be carried out.
MayHappen(r) ==
  \/ status[r] \in {"pending", "abandoned"}
  \/ outcome[r] \in Open

\* A server that loses the connection may have taken several requests.
Perform ==
  /\ UNCHANGED <<status, outcome>>
  /\ performed \subseteq performed'
  /\ \A r \in performed' \ performed : MayHappen(r)

Return(r, a) ==
  /\ status[r] = "pending"
  /\ a \in Replies => r \in performed
  /\ a \in NotDone => r \notin performed
  /\ status' = [status EXCEPT ![r] = "returned"]
  /\ outcome' = [outcome EXCEPT ![r] = a]
  /\ UNCHANGED performed

\* The caller does not wait any longer.
Abandon(r) ==
  /\ status[r] = "pending"
  /\ status' = [status EXCEPT ![r] = "abandoned"]
  /\ UNCHANGED <<outcome, performed>>

Next ==
  \/ Perform
  \/ \E r \in Calls : Call(r) \/ Abandon(r)
  \/ \E r \in Calls, a \in Replies \cup NotDone \cup Open : Return(r, a)

Spec == Init /\ [][Next]_rpcVars
==============================================================================
