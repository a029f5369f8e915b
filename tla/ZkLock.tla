------------------------------- MODULE ZkLock -------------------------------
(***************************************************************************)
(* The lock recipe (zk/lock.go) on top of                                  *)
(* CreateProtectedEphemeralSequential (zk/conn.go).                        *)
(*                                                                         *)
(* Every process has a session of its own and one Lock instance, used by   *)
(* one goroutine.  A lock node is known by the number the server gave it,  *)
(* counting from 0; its name ends in that number as a signed SeqLimit-wide *)
(* integer, and parseSeq reads it back from the name.                      *)
(*                                                                         *)
(* Each API call is one step at the server together with what the caller   *)
(* learns of it.  A call may fail because the connection is lost, and then *)
(* the server may or may not have carried it out; a session may expire, and*)
(* the client then goes on with a new one.                                 *)
(***************************************************************************)
EXTENDS Integers, FiniteSets

CONSTANTS
  Procs, NoProc,
  SeqLimit,     \* 2^31 in a real server: numbers are printed as an int32
  MaxNodes,     \* bound on the nodes ever created
  MaxCalls,     \* bound on the calls of Lock()
  MaxLosses,    \* bound on the API calls that fail
  MaxExpiries   \* bound on the session expiries

ASSUME LockAssumption ==
  /\ NoProc \notin Procs
  /\ SeqLimit \in Nat \ {0}
  /\ MaxNodes \in Nat /\ MaxCalls \in Nat
  /\ MaxLosses \in Nat /\ MaxExpiries \in Nat

VARIABLES
  parent,       \* does the node l.path exist?
  counter,      \* the number of the next lock node
  nodes,        \* the lock nodes that exist
  owner,        \* who created each node
  pc,           \* where each process is in Lock() or Unlock()
  tries,        \* failed attempts of CreateProtectedEphemeralSequential
  mine,         \* the nodes created with the guid of the current call
  seq,          \* Lock's local path: the node that was returned
  target,       \* prevSeqPath: the node waited for
  watch,        \* the watch on it: none, set, or lost with the session
  lockPath,     \* l.lockPath, or None for ""
  calls, losses, expiries

serverVars == <<parent, counter, nodes, owner>>
localVars  == <<tries, mine, seq, target, watch>>
boundVars  == <<calls, losses, expiries>>
vars == <<serverVars, pc, localVars, lockPath, boundVars>>

None == -1
Numbers == 0 .. MaxNodes - 1
NodeOrNone == Numbers \cup {None}

TypeOK ==
  /\ parent \in BOOLEAN
  /\ counter \in 0 .. MaxNodes
  /\ nodes \subseteq Numbers
  /\ owner \in [Numbers -> Procs \cup {NoProc}]
  /\ pc \in [Procs -> {"idle", "create", "find", "mkdir", "list", "watch",
                       "wait", "held", "unlockFailed"}]
  /\ tries \in [Procs -> 0 .. 2]
  /\ mine \in [Procs -> SUBSET Numbers]
  /\ seq \in [Procs -> NodeOrNone]
  /\ target \in [Procs -> NodeOrNone]
  /\ watch \in [Procs -> {"none", "set", "lost"}]
  /\ lockPath \in [Procs -> NodeOrNone]
  /\ calls \in 0 .. MaxCalls
  /\ losses \in 0 .. MaxLosses
  /\ expiries \in 0 .. MaxExpiries

Init ==
  /\ parent \in BOOLEAN
  /\ counter = 0 /\ nodes = {} /\ owner = [n \in Numbers |-> NoProc]
  /\ pc = [p \in Procs |-> "idle"]
  /\ tries = [p \in Procs |-> 0]
  /\ mine = [p \in Procs |-> {}]
  /\ seq = [p \in Procs |-> None]
  /\ target = [p \in Procs |-> None]
  /\ watch = [p \in Procs |-> "none"]
  /\ lockPath = [p \in Procs |-> None]
  /\ calls = 0 /\ losses = 0 /\ expiries = 0

-----------------------------------------------------------------------------
(* Names. *)

\* The server prints the number of a node as a signed integer.
PrintedSeq(n) == ((n + SeqLimit) % (2 * SeqLimit)) - SeqLimit

\* parseSeq takes what follows the last "-" of the name, so that a sign is
\* taken for the separator.
parseSeq(n) == IF PrintedSeq(n) < 0 THEN -PrintedSeq(n) ELSE PrintedSeq(n)

-----------------------------------------------------------------------------
(* Steps. *)

Step(p, from, to) == pc[p] = from /\ pc' = [pc EXCEPT ![p] = to]

\* An API call fails; Lock() gives up and returns the error.
GiveUp(p, from) ==
  /\ Step(p, from, "idle")
  /\ losses < MaxLosses /\ losses' = losses + 1
  /\ UNCHANGED <<localVars, lockPath, calls, expiries>>

\* The server creates the next sequential node for p.
ServerCreates(p) ==
  /\ parent /\ counter < MaxNodes
  /\ counter' = counter + 1
  /\ nodes' = nodes \cup {counter}
  /\ owner' = [owner EXCEPT ![counter] = p]
  /\ UNCHANGED parent

\* Lock() on an instance that is not locked; otherwise it returns ErrDeadlock.
Lock(p) ==
  /\ lockPath[p] = None
  /\ Step(p, "idle", "create")
  /\ calls < MaxCalls /\ calls' = calls + 1
  /\ tries' = [tries EXCEPT ![p] = 0]
  /\ mine' = [mine EXCEPT ![p] = {}]
  /\ UNCHANGED <<serverVars, seq, target, watch, lockPath, losses, expiries>>

(* CreateProtectedEphemeralSequential. *)

CreateOk(p) ==
  /\ Step(p, "create", "list")
  /\ ServerCreates(p)
  /\ seq' = [seq EXCEPT ![p] = counter]
  /\ mine' = [mine EXCEPT ![p] = @ \cup {counter}]
  /\ UNCHANGED <<tries, target, watch, lockPath, boundVars>>

\* ErrConnectionClosed: the node may exist, or not.
CreateLost(p) ==
  /\ Step(p, "create", "find")
  /\ losses < MaxLosses /\ losses' = losses + 1
  /\ \/ ServerCreates(p) /\ mine' = [mine EXCEPT ![p] = @ \cup {counter}]
     \/ UNCHANGED <<serverVars, mine>>
  /\ UNCHANGED <<tries, seq, target, watch, lockPath, calls, expiries>>

MayRetry(p) == tries[p] < 2

\* The next attempt, or the end of the loop with the last error.
Retry(p, from) ==
  /\ Step(p, from, IF MayRetry(p) THEN "create" ELSE "idle")
  /\ tries' = [tries EXCEPT ![p] = IF MayRetry(p) THEN @ + 1 ELSE 0]

\* ErrSessionExpired from the server: there is no node.
CreateExpired(p) ==
  /\ Retry(p, "create")
  /\ losses < MaxLosses /\ losses' = losses + 1
  /\ UNCHANGED <<serverVars, mine, seq, target, watch, lockPath, calls,
                 expiries>>

\* Any other error: one of the server, which has created nothing, or ErrClosing,
\* which leaves it open.
CreateFails(p) ==
  /\ Step(p, "create", "idle")
  /\ losses < MaxLosses /\ losses' = losses + 1
  /\ \/ ServerCreates(p) /\ mine' = [mine EXCEPT ![p] = @ \cup {counter}]
     \/ UNCHANGED <<serverVars, mine>>
  /\ UNCHANGED <<tries, seq, target, watch, lockPath, calls, expiries>>

\* A plausible slip: after a lost connection the node is created anew.
NeverFound(p) == FALSE

\* Children(rootPath) lists a node with the guid of this call.  The listing is
\* taken to be up to date: what the server has carried out for this session
\* before the reconnect shows in it.
GuidFound(p) == mine[p] \cap nodes # {}

FindOk(p) ==
  /\ GuidFound(p)
  /\ Step(p, "find", "list")
  /\ \E n \in mine[p] \cap nodes : seq' = [seq EXCEPT ![p] = n]
  /\ UNCHANGED <<serverVars, tries, mine, target, watch, lockPath, boundVars>>

FindNone(p) ==
  /\ parent /\ ~GuidFound(p)
  /\ Retry(p, "find")
  /\ UNCHANGED <<serverVars, mine, seq, target, watch, lockPath, boundVars>>

FindFails(p) == GiveUp(p, "find") /\ UNCHANGED serverVars

\* ErrNoNode, from Create or from the Children after a lost Create: Lock()
\* creates the parent, which may have appeared meanwhile, and calls
\* CreateProtectedEphemeralSequential again.
NoParent(p) ==
  /\ ~parent
  /\ pc[p] \in {"create", "find"} /\ Step(p, pc[p], "mkdir")
  /\ UNCHANGED <<serverVars, localVars, lockPath, boundVars>>

MkdirOk(p) ==
  /\ Step(p, "mkdir", "create")
  /\ parent' = TRUE
  /\ tries' = [tries EXCEPT ![p] = 0]
  /\ mine' = [mine EXCEPT ![p] = {}]
  /\ UNCHANGED <<counter, nodes, owner, seq, target, watch, lockPath,
                 boundVars>>

MkdirFails(p) ==
  /\ GiveUp(p, "mkdir")
  /\ parent' \in {parent, TRUE}
  /\ UNCHANGED <<counter, nodes, owner>>

(* The wait for the lock. *)

\* The nodes ahead of p's, in the order parseSeq gives.
Ahead(p) == {n \in nodes : parseSeq(n) < parseSeq(seq[p])}

\* A plausible slip: any node ahead will do, here the first in line.
FirstInLine(p, n) == \A m \in Ahead(p) : parseSeq(n) <= parseSeq(m)

\* prevSeqPath: the node right before p's.
NextInLine(p, n) == \A m \in Ahead(p) : parseSeq(m) <= parseSeq(n)

\* A plausible slip: a single node ahead of p's is taken for p's own.
AtMostOneAhead(p) == \A m, n \in Ahead(p) : m = n

\* seq == lowestSeq
Lowest(p) == Ahead(p) = {}

\* Children(l.path) shows nobody ahead: the lock is acquired.
ListAcquires(p) ==
  /\ Step(p, "list", "held") /\ Lowest(p)
  /\ lockPath' = [lockPath EXCEPT ![p] = seq[p]]
  /\ UNCHANGED <<serverVars, localVars, boundVars>>

ListWaits(p) ==
  /\ Step(p, "list", "watch") /\ ~Lowest(p)
  /\ \E n \in Ahead(p) :
       NextInLine(p, n) /\ target' = [target EXCEPT ![p] = n]
  /\ UNCHANGED <<serverVars, tries, mine, seq, watch, lockPath, boundVars>>

ListFails(p) == GiveUp(p, "list") /\ UNCHANGED serverVars

\* A plausible slip: the error of GetW is ignored and the wait begins anyway.
NoNodeIgnored(p) == "wait"

\* GetW on a node that is gone answers ErrNoNode: list again.
AfterGetW(p) == IF target[p] \in nodes THEN "wait" ELSE "list"

Watch(p) ==
  /\ Step(p, "watch", AfterGetW(p))
  /\ watch' = [watch EXCEPT ![p] = IF target[p] \in nodes THEN "set" ELSE "none"]
  /\ UNCHANGED <<serverVars, tries, mine, seq, target, lockPath, boundVars>>

WatchFails(p) == GiveUp(p, "watch") /\ UNCHANGED serverVars

\* The event that the node is gone arrives; a lost connection does not matter,
\* the watch is set again on the next one.
Woken(p) ==
  /\ watch[p] = "set" /\ target[p] \notin nodes
  /\ Step(p, "wait", "list")
  /\ watch' = [watch EXCEPT ![p] = "none"]
  /\ UNCHANGED <<serverVars, tries, mine, seq, target, lockPath, boundVars>>

\* invalidateWatches after the session expired: Lock() returns the error.
WaitExpired(p) ==
  /\ watch[p] = "lost"
  /\ Step(p, "wait", "idle")
  /\ watch' = [watch EXCEPT ![p] = "none"]
  /\ UNCHANGED <<serverVars, tries, mine, seq, target, lockPath, boundVars>>

(* Unlock(). *)

\* Unlock() on a locked instance; otherwise it returns ErrNotLocked.
Unlocking(p, to) ==
  /\ lockPath[p] # None
  /\ pc[p] \in {"held", "unlockFailed"} /\ Step(p, pc[p], to)
  /\ UNCHANGED <<parent, counter, owner, localVars, calls, expiries>>

\* A plausible slip: l.lockPath is cleared and the node stays.
LockNodeKept(p) == nodes

WithoutLockNode(p) == nodes \ {lockPath[p]}

UnlockOk(p) ==
  /\ Unlocking(p, "idle")
  /\ lockPath[p] \in nodes
  /\ nodes' = WithoutLockNode(p)
  /\ lockPath' = [lockPath EXCEPT ![p] = None]
  /\ UNCHANGED losses

\* Delete answers ErrNoNode.
UnlockNoNode(p) ==
  /\ Unlocking(p, "unlockFailed")
  /\ lockPath[p] \notin nodes
  /\ UNCHANGED <<nodes, lockPath, losses>>

\* The connection is lost: the node may be deleted, or not.
UnlockLost(p) ==
  /\ Unlocking(p, "unlockFailed")
  /\ losses < MaxLosses /\ losses' = losses + 1
  /\ nodes' \in {nodes, WithoutLockNode(p)}
  /\ UNCHANGED lockPath

(* The server ends p's session: its ephemeral nodes go. *)

Owned(p) == {n \in nodes : owner[n] = p}

\* An event for p that is on its way may be lost or not.
Expire(p) ==
  /\ expiries < MaxExpiries /\ expiries' = expiries + 1
  /\ nodes' = nodes \ Owned(p)
  /\ \/ /\ pc[p] = "wait" /\ watch' = [watch EXCEPT ![p] = "lost"]
     \/ /\ pc[p] # "wait" \/ target[p] \notin nodes
        /\ UNCHANGED watch
  /\ UNCHANGED <<parent, counter, owner, pc, tries, mine, seq, target,
                 lockPath, calls, losses>>

-----------------------------------------------------------------------------
(* The system. *)

LockSteps(p) ==
  \/ CreateOk(p) \/ FindOk(p) \/ FindNone(p) \/ NoParent(p)
  \/ MkdirOk(p) \/ ListAcquires(p) \/ ListWaits(p) \/ Watch(p)
  \/ Woken(p) \/ WaitExpired(p)

UnlockSteps(p) == UnlockOk(p) \/ UnlockNoNode(p)

Failures(p) ==
  \/ CreateLost(p) \/ CreateExpired(p) \/ CreateFails(p) \/ FindFails(p)
  \/ MkdirFails(p) \/ ListFails(p) \/ WatchFails(p) \/ UnlockLost(p)
  \/ Expire(p)

Next == \E p \in Procs :
          Lock(p) \/ LockSteps(p) \/ UnlockSteps(p) \/ Failures(p)

Spec == Init /\ [][Next]_vars

\* A call that can go on does, and a process that holds the lock calls
\* Unlock.  Nobody has to call Lock, and nothing has to fail.
FairSpec ==
  /\ Spec
  /\ \A p \in Procs : WF_vars(LockSteps(p) \/ UnlockSteps(p))

-----------------------------------------------------------------------------
(* Properties. *)

\* Lock() has returned nil and Unlock() has not been called.
InCriticalSection(p) == pc[p] = "held"

\* "Lock is a mutual exclusion lock": as long as no session expires, no two
\* processes are between Lock and Unlock at the same time, whatever replies are
\* lost and retried.
MutualExclusion ==
  expiries = 0 => \A p, q \in Procs :
                    InCriticalSection(p) /\ InCriticalSection(q) => p = q

Holds(p) == InCriticalSection(p) /\ lockPath[p] \in nodes

\* With sessions that expire, no two processes hold the lock with their nodes
\* still there: a session that lives protects its holder.
OneLiveHolder == \A p, q \in Procs : Holds(p) /\ Holds(q) => p = q

\* CreateProtectedEphemeralSequential "fixes a race condition if the server
\* crashes after it creates the node": however often it retries, one call
\* leaves at most one node behind.
OneNodePerCall ==
  \A p \in Procs : \A m, n \in mine[p] \cap nodes : m = n

\* The nodes that a call of Lock() under way, or an instance that is locked, will
\* delete or wait with.
InUse ==
  UNION {IF pc[p] \in {"create", "find"} THEN mine[p]
         ELSE IF pc[p] \in {"list", "watch", "wait"} THEN {seq[p]}
         ELSE {lockPath[p]} : p \in Procs}

\* A lock node that nobody knows of any more blocks the lock as long as the
\* session lives: Lock and Unlock leave no more such nodes behind than API calls
\* have failed, and none as long as no call has.
NodesAccountedFor == Cardinality(nodes \ InUse) <= losses

\* "Wait on the node next in line": no two processes whose nodes exist wait for
\* the same node, so that one Unlock wakes one process.
NoHerd ==
  \A p, q \in Procs :
    /\ pc[p] = "wait" /\ pc[q] = "wait"
    /\ seq[p] \in nodes /\ seq[q] \in nodes
    /\ target[p] \in nodes /\ target[p] = target[q]
    => p = q

\* Lock() gives nil only to a process whose lock node exists.
AcquireHasNode ==
  [][\A p \in Procs : ~InCriticalSection(p) /\ InCriticalSection(p)'
       => Holds(p)']_vars

\* A call of Lock() returns, with the lock or with an error, when the others
\* release the lock and sessions may expire, as long as no API call fails: a
\* failed one may leave a node behind that everybody waits for.
LockReturns ==
  \A p \in Procs :
    pc[p] = "create" /\ losses = 0 ~> pc[p] \in {"held", "idle"} \/ losses > 0

-----------------------------------------------------------------------------
(* The inductive invariant behind OneLiveHolder. *)

\* n was created by p.
CreatedBy(p, n) == n \in Numbers /\ n < counter /\ owner[n] = p

\* Numbers are given out once, every process knows its own nodes, and the node
\* of a holder is the lowest of all: new nodes come after it.
LockInv ==
  /\ TypeOK
  /\ \A n \in nodes : n < counter
  /\ \A p \in Procs :
       /\ \A n \in mine[p] : CreatedBy(p, n)
       /\ pc[p] \in {"list", "watch", "wait"} => CreatedBy(p, seq[p])
       /\ lockPath[p] # None => CreatedBy(p, lockPath[p])
       /\ Holds(p) => \A n \in nodes : lockPath[p] <= n

-----------------------------------------------------------------------------
(* Refinement. *)

Holder == IF \E p \in Procs : Holds(p) THEN CHOOSE p \in Procs : Holds(p)
          ELSE NoProc

Abstract == INSTANCE Mutex WITH holder <- Holder

\* The recipe implements the mutual exclusion lock.
ImplementsMutex == Abstract!Spec

=============================================================================
