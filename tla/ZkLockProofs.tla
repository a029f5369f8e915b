---------------------------- MODULE ZkLockProofs ----------------------------
(* TLAPS proofs about the lock recipe: any number of processes, calls,       *)
(* failures and expiries, as long as the sequence numbers do not overflow.   *)
EXTENDS ZkLock, FiniteSetTheorems, WellFoundedInduction, TLAPS

\* As long as the counter fits its width, parseSeq reads back the number.
LEMMA ParseSeqExact ==
  ASSUME MaxNodes <= SeqLimit, NEW n \in Numbers
  PROVE  parseSeq(n) = n
<1>1. n \in Nat /\ n < SeqLimit /\ SeqLimit \in Nat \ {0}
  BY LockAssumption DEF Numbers
<1>2. (n + SeqLimit) % (2 * SeqLimit) = n + SeqLimit
  BY <1>1
<1> QED BY <1>1, <1>2 DEF parseSeq, PrintedSeq

LEMMA LockInit == Init => LockInv
BY LockAssumption
   DEF Init, LockInv, TypeOK, NodeOrNone, Numbers, None, Holds,
       InCriticalSection

-----------------------------------------------------------------------------
(* Type correctness. *)

Waiting == {"list", "watch", "wait"}

LEMMA GiveUpType ==
  ASSUME TypeOK, NEW p \in Procs, NEW from, GiveUp(p, from),
         UNCHANGED serverVars
  PROVE  TypeOK'
BY LockAssumption DEF TypeOK, GiveUp, Step, serverVars, localVars

LEMMA TypeStep ==
  ASSUME TypeOK, NEW p \in Procs,
         Lock(p) \/ LockSteps(p) \/ UnlockSteps(p) \/ Failures(p)
  PROVE  TypeOK'
<1> USE LockAssumption DEF TypeOK, Numbers, NodeOrNone, None, Step
<1>1. CASE Lock(p)
  BY <1>1 DEF Lock, serverVars
<1>2. CASE CreateOk(p)
  BY <1>2 DEF CreateOk, ServerCreates, boundVars
<1>3. CASE CreateLost(p) \/ CreateFails(p)
  <2>1. CASE ServerCreates(p) /\ mine' = [mine EXCEPT ![p] = @ \cup {counter}]
    <3>1. CASE CreateLost(p)
      BY <2>1, <3>1 DEF CreateLost, ServerCreates
    <3>2. CASE CreateFails(p)
      BY <2>1, <3>2 DEF CreateFails, ServerCreates
    <3> QED BY <1>3, <3>1, <3>2
  <2>2. CASE UNCHANGED <<serverVars, mine>>
    BY <1>3, <2>2 DEF CreateLost, CreateFails, serverVars
  <2> QED BY <1>3, <2>1, <2>2 DEF CreateLost, CreateFails
<1>4. CASE CreateExpired(p)
  BY <1>4 DEF CreateExpired, Retry, MayRetry, serverVars
<1>5. CASE FindFails(p) \/ ListFails(p) \/ WatchFails(p)
  BY <1>5, GiveUpType DEF FindFails, ListFails, WatchFails
<1>6. CASE FindOk(p)
  BY <1>6 DEF FindOk, serverVars, boundVars
<1>7. CASE FindNone(p)
  <2>1. Retry(p, "find")
        /\ UNCHANGED <<serverVars, mine, seq, target, watch, lockPath, boundVars>>
    BY <1>7 DEF FindNone
  <2> QED BY <2>1 DEF Retry, MayRetry, serverVars, boundVars
<1>8. CASE NoParent(p)
  BY <1>8 DEF NoParent, serverVars, localVars, boundVars
<1>9. CASE MkdirOk(p)
  BY <1>9 DEF MkdirOk, boundVars
<1>10. CASE MkdirFails(p)
  <2>1. parent' \in BOOLEAN
    BY <1>10, Zenon DEF MkdirFails
  <2> QED BY <1>10, <2>1 DEF MkdirFails, GiveUp, localVars
<1>11. CASE ListAcquires(p)
  BY <1>11 DEF ListAcquires, serverVars, localVars, boundVars
<1>12. CASE ListWaits(p)
  BY <1>12 DEF ListWaits, Ahead, serverVars, boundVars
<1>13. CASE Watch(p)
  BY <1>13 DEF Watch, AfterGetW, serverVars, boundVars
<1>14. CASE Woken(p) \/ WaitExpired(p)
  BY <1>14 DEF Woken, WaitExpired, serverVars, boundVars
<1>15. CASE UnlockOk(p) \/ UnlockNoNode(p) \/ UnlockLost(p)
  <2>1. CASE UnlockOk(p)
    BY <2>1 DEF UnlockOk, Unlocking, WithoutLockNode, localVars
  <2>2. CASE UnlockNoNode(p)
    BY <2>2 DEF UnlockNoNode, Unlocking, localVars
  <2>3. CASE UnlockLost(p)
    BY <2>3 DEF UnlockLost, Unlocking, WithoutLockNode, localVars
  <2> QED BY <1>15, <2>1, <2>2, <2>3
<1>16. CASE Expire(p)
  <2>1. nodes' \subseteq nodes
    BY <1>16 DEF Expire
  <2>2. watch' \in [Procs -> {"none", "set", "lost"}]
    BY <1>16 DEF Expire
  <2>3. expiries' \in 0 .. MaxExpiries
    BY <1>16 DEF Expire
  <2> QED BY <1>16, <2>1, <2>2, <2>3 DEF Expire
<1> QED
  BY <1>1, <1>2, <1>3, <1>4, <1>5, <1>6, <1>7, <1>8, <1>9, <1>10, <1>11,
     <1>12, <1>13, <1>14, <1>15, <1>16
     DEF LockSteps, UnlockSteps, Failures

\* Lock and Unlock keep their state, and the server's, within its types.
THEOREM TypeCorrect == Spec => []TypeOK
<1>1. Init => TypeOK
  BY LockInit DEF LockInv
<1>2. TypeOK /\ [Next]_vars => TypeOK'
  <2>1. ASSUME TypeOK, UNCHANGED vars PROVE TypeOK'
    BY <2>1 DEF TypeOK, vars, serverVars, localVars, boundVars
  <2> QED BY <2>1, TypeStep DEF Next
<1> QED BY <1>1, <1>2, PTL DEF Spec

-----------------------------------------------------------------------------
(* The lowest node. *)

\* Steps that create nothing and let nobody new hold the lock.
LEMMA NothingNew ==
  ASSUME LockInv, TypeOK',
         UNCHANGED <<counter, owner>>, nodes' \subseteq nodes,
         \A q \in Procs :
           /\ mine'[q] \subseteq mine[q]
           /\ pc'[q] \in Waiting => CreatedBy(q, seq'[q])
           /\ lockPath'[q] # None => lockPath'[q] = lockPath[q]
           /\ pc'[q] = "held" => pc[q] = "held"
  PROVE  LockInv'
<1>1. \A q, n : CreatedBy(q, n)' <=> CreatedBy(q, n)
  BY DEF CreatedBy
<1>2. \A n \in nodes' : n < counter'
  BY DEF LockInv
<1>3. ASSUME NEW q \in Procs
      PROVE  /\ \A n \in mine'[q] : CreatedBy(q, n)
             /\ pc'[q] \in Waiting => CreatedBy(q, seq'[q])
             /\ lockPath'[q] # None => CreatedBy(q, lockPath'[q])
  BY <1>3 DEF LockInv
<1>4. ASSUME NEW q \in Procs, Holds(q)'
      PROVE  \A n \in nodes' : lockPath'[q] <= n
  <2>1. lockPath'[q] # None
    BY <1>4 DEF Holds, TypeOK, Numbers, None
  <2>2. Holds(q) /\ lockPath'[q] = lockPath[q]
    BY <1>4, <2>1 DEF Holds, InCriticalSection
  <2> QED BY <2>2 DEF LockInv
<1> QED BY <1>1, <1>2, <1>3, <1>4 DEF LockInv, Waiting

\* A new node comes after all others.
LEMMA NewNode ==
  ASSUME LockInv, TypeOK', NEW p \in Procs, ServerCreates(p),
         mine' = [mine EXCEPT ![p] = @ \cup {counter}],
         UNCHANGED lockPath,
         \A q \in Procs \ {p} : pc'[q] = pc[q] /\ seq'[q] = seq[q],
         pc'[p] \in Waiting => seq'[p] = counter,
         pc'[p] # "held"
  PROVE  LockInv'
<1> USE DEF TypeOK
<1>1. counter \in Numbers /\ counter' = counter + 1 /\ counter \in Nat
  BY LockAssumption DEF LockInv, ServerCreates, Numbers
<1> DEFINE Created(q, n) == n \in Numbers /\ n < counter' /\ owner'[n] = q
<1>2. /\ Created(p, counter)
      /\ \A q, n : CreatedBy(q, n) => Created(q, n)
  BY <1>1 DEF CreatedBy, ServerCreates, LockInv, Numbers
<1>3. \A n \in nodes' : n < counter'
  BY <1>1 DEF LockInv, ServerCreates, Numbers
<1>4. ASSUME NEW q \in Procs
      PROVE  /\ \A n \in mine'[q] : Created(q, n)
             /\ pc'[q] \in Waiting => Created(q, seq'[q])
             /\ lockPath'[q] # None => Created(q, lockPath'[q])
  <2> HIDE DEF Created
  <2>1. \A n \in mine'[q] : n \in mine[q] \/ (q = p /\ n = counter)
    BY <1>4 DEF LockInv
  <2> QED BY <1>2, <1>4, <2>1 DEF LockInv, Waiting
<1>5. ASSUME NEW q \in Procs, Holds(q)'
      PROVE  \A n \in nodes' : lockPath'[q] <= n
  <2>1. q # p /\ pc[q] = "held" /\ lockPath'[q] = lockPath[q]
    BY <1>5 DEF Holds, InCriticalSection
  <2>2. lockPath[q] \in Numbers
    BY <1>5, <2>1 DEF Holds, LockInv
  <2>3. lockPath[q] # counter
    BY <1>1, <2>2 DEF LockInv, CreatedBy, None, Numbers
  <2>4. Holds(q)
    BY <1>5, <2>1, <2>3 DEF Holds, InCriticalSection, ServerCreates
  <2>5. lockPath[q] < counter
    BY <2>4 DEF LockInv, Holds
  <2> QED BY <1>1, <2>1, <2>2, <2>4, <2>5 DEF LockInv, ServerCreates, Numbers
<1> QED BY <1>3, <1>4, <1>5 DEF LockInv, Waiting, CreatedBy

\* Children shows no lower node: p's own node, if it is still there, is the
\* lowest.
LEMMA AcquireLowest ==
  ASSUME MaxNodes <= SeqLimit, LockInv, TypeOK', NEW p \in Procs,
         ListAcquires(p)
  PROVE  LockInv'
<1> USE DEF TypeOK
<1>1. UNCHANGED <<counter, nodes, owner, mine, seq>>
  BY DEF ListAcquires, serverVars, localVars
<1>2. /\ pc[p] = "list" /\ pc' = [pc EXCEPT ![p] = "held"]
      /\ lockPath' = [lockPath EXCEPT ![p] = seq[p]]
      /\ Ahead(p) = {}
  BY DEF ListAcquires, Step, Lowest
<1>3. CreatedBy(p, seq[p])
  BY <1>2 DEF LockInv
<1>4. \A n \in nodes : seq[p] <= n
  <2> SUFFICES ASSUME NEW n \in nodes PROVE seq[p] <= n
    OBVIOUS
  <2>1. n \in Numbers /\ seq[p] \in Numbers
    BY <1>3 DEF LockInv, CreatedBy
  <2>2. ~(parseSeq(n) < parseSeq(seq[p]))
    BY <1>2 DEF Ahead
  <2> QED BY <2>1, <2>2, ParseSeqExact DEF Numbers
<1>5. \A q, n : CreatedBy(q, n)' <=> CreatedBy(q, n)
  BY <1>1 DEF CreatedBy
<1>6. ASSUME NEW q \in Procs
      PROVE  /\ \A n \in mine'[q] : CreatedBy(q, n)
             /\ pc'[q] \in Waiting => CreatedBy(q, seq'[q])
             /\ lockPath'[q] # None => CreatedBy(q, lockPath'[q])
  BY <1>1, <1>2, <1>3, <1>6 DEF LockInv, Waiting
<1>7. ASSUME NEW q \in Procs, Holds(q)'
      PROVE  \A n \in nodes' : lockPath'[q] <= n
  <2>1. CASE q = p
    BY <1>1, <1>2, <1>4, <2>1 DEF LockInv
  <2>2. CASE q # p
    BY <1>1, <1>2, <1>7, <2>2 DEF LockInv, Holds, InCriticalSection
  <2> QED BY <2>1, <2>2
<1> QED BY <1>1, <1>5, <1>6, <1>7 DEF LockInv, Waiting

LEMMA LockStep ==
  ASSUME MaxNodes <= SeqLimit, LockInv, NEW p \in Procs,
         Lock(p) \/ LockSteps(p) \/ UnlockSteps(p) \/ Failures(p)
  PROVE  LockInv'
<1>0. TypeOK /\ TypeOK'
  BY TypeStep DEF LockInv
<1>1. CASE CreateOk(p)
  <2>1. seq' = [seq EXCEPT ![p] = counter] /\ pc' = [pc EXCEPT ![p] = "list"]
    BY <1>1 DEF CreateOk, Step
  <2> QED BY <1>0, <1>1, <2>1, NewNode DEF CreateOk, TypeOK, Waiting
<1>2. CASE CreateLost(p) \/ CreateFails(p)
  <2>1. /\ UNCHANGED <<seq, lockPath>>
        /\ \E to \in {"find", "idle"} : pc' = [pc EXCEPT ![p] = to]
    BY <1>2 DEF CreateLost, CreateFails, Step
  <2>2. CASE ServerCreates(p) /\ mine' = [mine EXCEPT ![p] = @ \cup {counter}]
    BY <1>0, <2>1, <2>2, NewNode DEF TypeOK, Waiting
  <2>3. CASE UNCHANGED <<serverVars, mine>>
    BY <1>0, <2>1, <2>3, NothingNew DEF TypeOK, serverVars, LockInv, Waiting
  <2> QED BY <1>2, <2>2, <2>3 DEF CreateLost, CreateFails
<1>3. CASE ListAcquires(p)
  BY <1>0, <1>3, AcquireLowest
<1>4. CASE FindOk(p)
  <2>1. PICK n \in mine[p] \cap nodes : seq' = [seq EXCEPT ![p] = n]
    BY <1>4 DEF FindOk
  <2>2. pc' = [pc EXCEPT ![p] = "list"] /\ UNCHANGED <<lockPath, mine>>
    BY <1>4 DEF FindOk, Step
  <2>3. UNCHANGED <<counter, owner, nodes>>
    BY <1>4 DEF FindOk, serverVars
  <2>4. CreatedBy(p, n)
    BY DEF LockInv
  <2>5. \A q \in Procs : pc'[q] \in Waiting => CreatedBy(q, seq'[q])
    BY <1>0, <2>1, <2>2, <2>4 DEF TypeOK, LockInv, Waiting
  <2>6. \A q \in Procs : pc'[q] = "held" => pc[q] = "held"
    BY <1>0, <2>2 DEF TypeOK
  <2> QED BY <1>0, <2>2, <2>3, <2>5, <2>6, NothingNew
<1>5. CASE Lock(p) \/ MkdirOk(p)
  <2>1. /\ UNCHANGED <<counter, owner, nodes, seq, lockPath>>
        /\ mine' = [mine EXCEPT ![p] = {}]
        /\ pc' = [pc EXCEPT ![p] = "create"]
    BY <1>5 DEF Lock, MkdirOk, Step, serverVars
  <2> QED BY <1>0, <2>1, NothingNew DEF TypeOK, LockInv, Waiting
<1>6. CASE \/ CreateExpired(p) \/ FindNone(p) \/ FindFails(p)
           \/ NoParent(p) \/ MkdirFails(p)
           \/ ListFails(p) \/ WatchFails(p) \/ WaitExpired(p)
  <2>1. /\ UNCHANGED <<counter, owner, nodes, seq, lockPath, mine>>
        /\ \E to \in {"create", "idle", "mkdir"} : pc' = [pc EXCEPT ![p] = to]
    BY <1>6 DEF CreateExpired, FindNone, FindFails,
                NoParent, MkdirFails, ListFails, WatchFails,
                WaitExpired, GiveUp, Retry, Step, serverVars, localVars
  <2> QED BY <1>0, <2>1, NothingNew DEF TypeOK, LockInv, Waiting
<1>7. CASE ListWaits(p) \/ Watch(p) \/ Woken(p)
  <2>1. /\ UNCHANGED <<counter, owner, nodes, seq, lockPath, mine>>
        /\ pc[p] \in Waiting
        /\ \E to \in Waiting : pc' = [pc EXCEPT ![p] = to]
    BY <1>7 DEF ListWaits, Watch, Woken, AfterGetW, Step, serverVars, Waiting
  <2> QED BY <1>0, <2>1, NothingNew DEF TypeOK, LockInv, Waiting
<1>8. CASE UnlockOk(p) \/ UnlockNoNode(p) \/ UnlockLost(p)
  <2>1. /\ UNCHANGED <<counter, owner, seq, mine>>
        /\ nodes' \subseteq nodes
        /\ lockPath' = lockPath \/ lockPath' = [lockPath EXCEPT ![p] = None]
        /\ \E to \in {"idle", "unlockFailed"} : pc' = [pc EXCEPT ![p] = to]
    BY <1>8 DEF UnlockOk, UnlockNoNode, UnlockLost, Unlocking, Step,
                WithoutLockNode, localVars
  <2> QED BY <1>0, <2>1, NothingNew DEF TypeOK, LockInv, Waiting
<1>9. CASE Expire(p)
  <2>1. /\ UNCHANGED <<counter, owner, seq, lockPath, mine, pc>>
        /\ nodes' \subseteq nodes
    BY <1>9 DEF Expire
  <2> QED BY <1>0, <2>1, NothingNew DEF TypeOK, LockInv, Waiting
<1> QED
  BY <1>1, <1>2, <1>3, <1>4, <1>5, <1>6, <1>7, <1>8, <1>9
     DEF LockSteps, UnlockSteps, Failures

\* While the sequence numbers fit their width, a process that holds the lock
\* with its node has the lowest node of all.
THEOREM HolderIsLowest ==
  ASSUME MaxNodes <= SeqLimit PROVE Spec => []LockInv
<1>1. LockInv /\ [Next]_vars => LockInv'
  <2>1. ASSUME LockInv, UNCHANGED vars PROVE LockInv'
    BY <2>1 DEF LockInv, TypeOK, vars, serverVars, localVars, boundVars,
                CreatedBy, Holds, InCriticalSection
  <2> QED BY <2>1, LockStep DEF Next
<1> QED BY <1>1, LockInit, PTL DEF Spec

\* Whatever replies are lost and sessions expire, no two processes hold the
\* lock with their nodes in place, as long as the sequence numbers fit.
THEOREM LiveHoldersExclude ==
  ASSUME MaxNodes <= SeqLimit PROVE Spec => []OneLiveHolder
<1>1. LockInv => OneLiveHolder
  <2> SUFFICES ASSUME LockInv, NEW p \in Procs, NEW q \in Procs,
                      Holds(p), Holds(q)
               PROVE  p = q
    BY DEF OneLiveHolder
  <2>1. /\ lockPath[p] \in nodes /\ lockPath[p] \in Numbers
        /\ lockPath[q] \in nodes /\ lockPath[q] \in Numbers
    BY DEF Holds, LockInv, TypeOK
  <2>2. lockPath[p] <= lockPath[q] /\ lockPath[q] <= lockPath[p]
    BY <2>1 DEF LockInv
  <2>3. lockPath[p] = lockPath[q]
    BY <2>1, <2>2, LockAssumption DEF Numbers
  <2>4. owner[lockPath[p]] = p /\ owner[lockPath[q]] = q
    BY <2>1 DEF LockInv, CreatedBy, Numbers, None
  <2> QED BY <2>3, <2>4
<1> QED BY <1>1, HolderIsLowest, PTL

-----------------------------------------------------------------------------
(* What a call of Lock() leaves behind. *)

\* Between the node p waits for and p's own there is no other.
NothingBetween(p) ==
  target[p] < seq[p] /\ \A n \in nodes : ~(target[p] < n /\ n < seq[p])

\* p's call has at most the one node it will wait with or delete.
CallOf(p) ==
  /\ pc[p] = "create" => mine[p] \cap nodes = {}
  /\ \A m, n \in mine[p] \cap nodes : m = n
  /\ pc[p] \notin {"held", "unlockFailed"} => lockPath[p] = None
  /\ pc[p] \in {"watch", "wait"} => NothingBetween(p)
  /\ watch[p] = "lost" => pc[p] = "wait" /\ seq[p] \notin nodes
  /\ expiries = 0 => /\ pc[p] \in Waiting => seq[p] \in nodes
                     /\ pc[p] = "held" => lockPath[p] \in nodes

CallInv ==
  /\ LockInv
  /\ ~parent => nodes = {}
  /\ \A p \in Procs : CallOf(p)

\* The nodes of the others are left alone: numbers are given out once, and a
\* process deletes nodes of its own.
LEMMA OtherCalls ==
  ASSUME LockInv, NEW q \in Procs, CallOf(q),
         pc'[q] = pc[q], mine'[q] = mine[q], seq'[q] = seq[q],
         target'[q] = target[q], watch'[q] = watch[q],
         lockPath'[q] = lockPath[q],
         nodes' \subseteq nodes \cup {counter},
         expiries' = 0 =>
           expiries = 0 /\ \A n \in nodes \ nodes' : owner[n] # q
  PROVE  CallOf(q)'
<1> USE DEF CallOf, Waiting
<1>0. counter \in Nat /\ nodes \subseteq Nat
  BY LockAssumption DEF LockInv, TypeOK, Numbers
<1>1. /\ \A n \in mine[q] : n < counter
      /\ pc[q] \in Waiting => seq[q] \in Nat /\ seq[q] < counter
  BY <1>0, LockAssumption DEF LockInv, CreatedBy, Numbers
<1>2. mine'[q] \cap nodes' \subseteq mine[q] \cap nodes
  BY <1>0, <1>1 DEF LockInv, CreatedBy, Numbers
<1>3. (pc[q] = "create" => mine[q] \cap nodes = {})'
      /\ (\A m, n \in mine[q] \cap nodes : m = n)'
      /\ (pc[q] \notin {"held", "unlockFailed"} => lockPath[q] = None)'
  BY <1>2
<1>4. (pc[q] \in {"watch", "wait"} => NothingBetween(q))'
  BY <1>0, <1>1 DEF NothingBetween
<1>5. (watch[q] = "lost" => pc[q] = "wait" /\ seq[q] \notin nodes)'
  BY <1>0, <1>1
<1>6. ASSUME expiries' = 0, pc'[q] \in Waiting PROVE seq'[q] \in nodes'
  <2>1. owner[seq[q]] = q /\ seq[q] \in nodes
    BY <1>6 DEF LockInv, CreatedBy
  <2> QED BY <1>6, <2>1
<1>7. ASSUME expiries' = 0, pc'[q] = "held" PROVE lockPath'[q] \in nodes'
  <2>1. lockPath[q] \in nodes
    BY <1>7
  <2>2. owner[lockPath[q]] = q
    BY <2>1, LockAssumption DEF LockInv, CreatedBy, TypeOK, Numbers, None
  <2> QED BY <1>7, <2>1, <2>2
<1> QED BY <1>3, <1>4, <1>5, <1>6, <1>7

\* Every step of p takes care of p's own call.
LEMMA OwnCall ==
  ASSUME MaxNodes <= SeqLimit, CallInv, LockInv', NEW p \in Procs,
         Lock(p) \/ LockSteps(p) \/ UnlockSteps(p) \/ Failures(p)
  PROVE  CallOf(p)'
<1>0. TypeOK /\ TypeOK' /\ LockInv /\ CallOf(p)
  BY DEF CallInv, LockInv
<1>1. counter \in Nat /\ nodes \subseteq Nat /\ nodes \subseteq Numbers
      /\ \A n \in mine[p] : n < counter
  BY <1>0, LockAssumption DEF LockInv, TypeOK, Numbers, CreatedBy
<1>2. counter \notin nodes /\ counter \notin mine[p]
  BY <1>0, <1>1 DEF LockInv
<1> USE DEF CallOf, Waiting, TypeOK
<1>3. CASE Lock(p) \/ MkdirOk(p)
  <2>1. /\ UNCHANGED <<nodes, expiries>>
        /\ pc[p] \in {"idle", "mkdir"} /\ pc'[p] = "create" /\ mine'[p] = {}
        /\ watch'[p] = watch[p] /\ lockPath'[p] = lockPath[p]
    BY <1>0, <1>3 DEF Lock, MkdirOk, Step, serverVars, boundVars
  <2> QED BY <1>0, <2>1
<1>4. CASE CreateOk(p)
  <2>1. /\ pc[p] = "create" /\ pc'[p] = "list"
        /\ nodes' = nodes \cup {counter} /\ seq'[p] = counter
        /\ mine'[p] = mine[p] \cup {counter}
        /\ watch'[p] = watch[p] /\ lockPath'[p] = lockPath[p]
    BY <1>0, <1>4 DEF CreateOk, Step, ServerCreates
  <2>2. mine'[p] \cap nodes' \subseteq {counter}
    BY <1>0, <1>2, <2>1
  <2> QED BY <1>0, <2>1, <2>2
<1>5. CASE CreateLost(p) \/ CreateFails(p)
  <2>1. /\ pc[p] = "create" /\ pc'[p] \in {"find", "idle"}
        /\ watch'[p] = watch[p] /\ lockPath'[p] = lockPath[p]
    BY <1>0, <1>5 DEF CreateLost, CreateFails, Step
  <2>2. mine'[p] \cap nodes' \subseteq {counter}
    <3>1. CASE /\ ServerCreates(p)
               /\ mine' = [mine EXCEPT ![p] = @ \cup {counter}]
      BY <1>0, <1>2, <2>1, <3>1 DEF ServerCreates
    <3>2. CASE UNCHANGED <<serverVars, mine>>
      BY <1>0, <2>1, <3>2 DEF serverVars
    <3> QED BY <1>5, <3>1, <3>2 DEF CreateLost, CreateFails
  <2> QED BY <1>0, <2>1, <2>2
<1>6. CASE CreateExpired(p) \/ FindNone(p)
  <2>1. /\ UNCHANGED <<nodes, expiries, mine, watch, lockPath>>
        /\ pc[p] \in {"create", "find"} /\ pc'[p] \in {"create", "idle"}
        /\ mine[p] \cap nodes = {}
    BY <1>0, <1>6 DEF CreateExpired, FindNone, Retry, Step, serverVars,
                      boundVars, GuidFound
  <2> QED BY <1>0, <2>1
<1>7. CASE FindOk(p)
  <2>1. /\ UNCHANGED <<nodes, expiries, mine, watch, lockPath>>
        /\ pc[p] = "find" /\ pc'[p] = "list" /\ seq'[p] \in nodes
    BY <1>0, <1>7 DEF FindOk, Step, serverVars, boundVars
  <2> QED BY <1>0, <2>1
<1>8. CASE \/ FindFails(p) \/ ListFails(p) \/ WatchFails(p)
           \/ NoParent(p) \/ MkdirFails(p)
  <2>1. /\ UNCHANGED <<nodes, expiries, mine, watch, lockPath>>
        /\ pc[p] \in {"create", "find", "list", "watch", "mkdir"}
        /\ pc'[p] \in {"idle", "mkdir"}
    BY <1>0, <1>8 DEF FindFails, ListFails, WatchFails, NoParent,
                      MkdirFails, GiveUp, Step, serverVars, localVars, boundVars
  <2> QED BY <1>0, <2>1
<1>9. CASE ListAcquires(p)
  <2>1. /\ UNCHANGED <<nodes, expiries, mine, watch>>
        /\ pc[p] = "list" /\ pc'[p] = "held" /\ lockPath'[p] = seq[p]
    BY <1>0, <1>9 DEF ListAcquires, Step, serverVars, localVars, boundVars
  <2> QED BY <1>0, <2>1
<1>10. CASE ListWaits(p)
  <2>1. /\ UNCHANGED <<nodes, expiries, mine, seq, watch, lockPath>>
        /\ pc[p] = "list" /\ pc'[p] = "watch"
    BY <1>0, <1>10 DEF ListWaits, Step, serverVars, boundVars
  <2>2. PICK n \in Ahead(p) : NextInLine(p, n) /\ target'[p] = n
    BY <1>0, <1>10 DEF ListWaits
  <2>3. seq[p] \in Numbers
    BY <1>0, <2>1 DEF LockInv, CreatedBy
  <2>4. n \in nodes /\ n < seq[p]
    BY <1>1, <2>2, <2>3, ParseSeqExact DEF Ahead
  <2>5. \A m \in nodes : m < seq[p] => m <= n
    <3> SUFFICES ASSUME NEW m \in nodes, m < seq[p] PROVE m <= n
      OBVIOUS
    <3>1. parseSeq(m) = m /\ parseSeq(n) = n /\ parseSeq(seq[p]) = seq[p]
      BY <1>1, <2>3, <2>4, ParseSeqExact
    <3>2. m \in Ahead(p)
      BY <3>1 DEF Ahead
    <3> QED BY <2>2, <3>1, <3>2 DEF NextInLine
  <2>6. NothingBetween(p)'
    BY <1>1, <2>1, <2>2, <2>4, <2>5 DEF NothingBetween
  <2> QED BY <1>0, <2>1, <2>6
<1>11. CASE Watch(p)
  <2>1. /\ UNCHANGED <<nodes, expiries, mine, seq, target, lockPath>>
        /\ pc[p] = "watch" /\ pc'[p] \in {"list", "wait"}
        /\ watch'[p] \in {"set", "none"}
    BY <1>0, <1>11 DEF Watch, AfterGetW, Step, serverVars, boundVars
  <2> QED BY <1>0, <2>1 DEF NothingBetween
<1>12. CASE Woken(p) \/ WaitExpired(p)
  <2>1. /\ UNCHANGED <<nodes, expiries, mine, seq, target, lockPath>>
        /\ pc[p] = "wait" /\ pc'[p] \in {"list", "idle"}
        /\ watch'[p] = "none"
    BY <1>0, <1>12 DEF Woken, WaitExpired, Step, serverVars, boundVars
  <2> QED BY <1>0, <2>1
<1>13. CASE UnlockOk(p) \/ UnlockNoNode(p) \/ UnlockLost(p)
  <2>1. /\ UNCHANGED <<expiries, mine, watch>> /\ nodes' \subseteq nodes
        /\ pc[p] \in {"held", "unlockFailed"}
        /\ \/ pc'[p] = "idle" /\ lockPath'[p] = None
           \/ pc'[p] = "unlockFailed"
    BY <1>0, <1>13 DEF UnlockOk, UnlockNoNode, UnlockLost, Unlocking, Step,
                       WithoutLockNode, localVars
  <2> QED BY <1>0, <2>1
<1>14. CASE Expire(p)
  <2>1. /\ UNCHANGED <<pc, mine, seq, target, lockPath>> /\ expiries' # 0
        /\ nodes' = nodes \ Owned(p)
        /\ watch'[p] = "lost" => watch[p] = "lost" \/ pc[p] = "wait"
    BY <1>0, <1>14 DEF Expire
  <2>2. pc[p] = "wait" => seq[p] \notin nodes'
    BY <1>0, <2>1 DEF LockInv, CreatedBy, Owned
  <2> QED BY <1>0, <2>1, <2>2 DEF NothingBetween
<1> QED
  BY <1>3, <1>4, <1>5, <1>6, <1>7, <1>8, <1>9, <1>10, <1>11, <1>12, <1>13,
     <1>14 DEF LockSteps, UnlockSteps, Failures

\* A step of p changes nothing of the others but what happens to the nodes: a
\* new one has the next number, and those that go are p's.
LEMMA OnlyOwn ==
  ASSUME LockInv, NEW p \in Procs,
         Lock(p) \/ LockSteps(p) \/ UnlockSteps(p) \/ Failures(p)
  PROVE  /\ \A q \in Procs \ {p} :
              /\ pc'[q] = pc[q] /\ mine'[q] = mine[q] /\ seq'[q] = seq[q]
              /\ target'[q] = target[q] /\ watch'[q] = watch[q]
              /\ lockPath'[q] = lockPath[q]
         /\ nodes' \subseteq nodes \cup {counter}
         /\ \A n \in nodes \ nodes' : owner[n] = p
         /\ expiries' = 0 => expiries = 0
         /\ parent => parent'
         /\ nodes' \subseteq nodes \/ parent
<1> USE DEF LockInv, TypeOK, Step, serverVars, localVars, boundVars
<1>1. CASE Lock(p)
  BY <1>1 DEF Lock
<1>2. CASE CreateOk(p)
  BY <1>2 DEF CreateOk, ServerCreates
<1>3. CASE CreateLost(p) \/ CreateFails(p)
  BY <1>3 DEF CreateLost, CreateFails, ServerCreates
<1>4. CASE CreateExpired(p) \/ FindNone(p)
  BY <1>4 DEF CreateExpired, FindNone, Retry
<1>5. CASE FindFails(p) \/ ListFails(p) \/ WatchFails(p)
  BY <1>5 DEF FindFails, ListFails, WatchFails, GiveUp
<1>6. CASE FindOk(p)
  BY <1>6 DEF FindOk
<1>7. CASE NoParent(p)
  BY <1>7 DEF NoParent
<1>8. CASE MkdirOk(p) \/ MkdirFails(p)
  BY <1>8 DEF MkdirOk, MkdirFails, GiveUp
<1>9. CASE ListAcquires(p)
  BY <1>9 DEF ListAcquires
<1>10. CASE ListWaits(p)
  BY <1>10 DEF ListWaits
<1>11. CASE Watch(p)
  BY <1>11 DEF Watch
<1>12. CASE Woken(p) \/ WaitExpired(p)
  BY <1>12 DEF Woken, WaitExpired
<1>13. CASE UnlockOk(p) \/ UnlockNoNode(p) \/ UnlockLost(p)
  <2>1. nodes' \subseteq nodes /\ nodes \ nodes' \subseteq {lockPath[p]}
    BY <1>13 DEF UnlockOk, UnlockNoNode, UnlockLost, Unlocking, WithoutLockNode
  <2>2. lockPath[p] # None => owner[lockPath[p]] = p
    BY DEF CreatedBy
  <2>3. lockPath[p] # None
    BY <1>13 DEF UnlockOk, UnlockNoNode, UnlockLost, Unlocking
  <2> QED BY <1>13, <2>1, <2>2, <2>3
          DEF UnlockOk, UnlockNoNode, UnlockLost, Unlocking
<1>14. CASE Expire(p)
  <2>1. expiries' # 0
    BY <1>14 DEF Expire
  <2> QED BY <1>14, <2>1 DEF Expire, Owned
<1> QED
  BY <1>1, <1>2, <1>3, <1>4, <1>5, <1>6, <1>7, <1>8, <1>9, <1>10, <1>11,
     <1>12, <1>13, <1>14 DEF LockSteps, UnlockSteps, Failures

LEMMA CallStep ==
  ASSUME MaxNodes <= SeqLimit, CallInv, NEW p \in Procs,
         Lock(p) \/ LockSteps(p) \/ UnlockSteps(p) \/ Failures(p)
  PROVE  CallInv'
<1>1. LockInv /\ LockInv'
  BY LockStep DEF CallInv
<1>2. CallOf(p)'
  BY <1>1, OwnCall
<1>3. ASSUME NEW q \in Procs \ {p} PROVE CallOf(q)'
  <2>1. /\ pc'[q] = pc[q] /\ mine'[q] = mine[q] /\ seq'[q] = seq[q]
        /\ target'[q] = target[q] /\ watch'[q] = watch[q]
        /\ lockPath'[q] = lockPath[q]
        /\ nodes' \subseteq nodes \cup {counter}
        /\ expiries' = 0 =>
             expiries = 0 /\ \A n \in nodes \ nodes' : owner[n] # q
    BY <1>1, OnlyOwn
  <2> QED BY <1>1, <2>1, OtherCalls DEF CallInv
<1>4. (~parent => nodes = {})'
  BY <1>1, OnlyOwn DEF CallInv
<1> QED BY <1>1, <1>2, <1>3, <1>4 DEF CallInv

LEMMA CallInvariant ==
  ASSUME MaxNodes <= SeqLimit PROVE Spec => []CallInv
<1>1. Init => CallInv
  BY LockInit DEF Init, CallInv, CallOf, Waiting
<1>2. CallInv /\ [Next]_vars => CallInv'
  <2>1. ASSUME CallInv, UNCHANGED vars PROVE CallInv'
    BY <2>1 DEF CallInv, CallOf, NothingBetween, LockInv, TypeOK, CreatedBy,
                Holds, InCriticalSection, vars, serverVars, localVars, boundVars
  <2> QED BY <2>1, CallStep DEF Next
<1> QED BY <1>1, <1>2, PTL DEF Spec

\* Without expiries no two processes are between Lock and Unlock, whatever
\* replies are lost and retried, as long as the sequence numbers fit.
THEOREM LockExcludes ==
  ASSUME MaxNodes <= SeqLimit PROVE Spec => []MutualExclusion
<1>1. CallInv /\ OneLiveHolder => MutualExclusion
  BY DEF CallInv, CallOf, OneLiveHolder, MutualExclusion, Holds,
         InCriticalSection
<1> QED BY <1>1, CallInvariant, LiveHoldersExclude, PTL

\* However often CreateProtectedEphemeralSequential retries after a lost
\* reply, one call of it leaves at most one node behind.
THEOREM CallsLeaveOneNode ==
  ASSUME MaxNodes <= SeqLimit PROVE Spec => []OneNodePerCall
<1>1. CallInv => OneNodePerCall
  BY DEF CallInv, CallOf, OneNodePerCall
<1> QED BY <1>1, CallInvariant, PTL

\* No two waiting processes are woken by the same Unlock: everyone waits for
\* the node right before its own, and no node is ever created in between.
THEOREM OneIsWoken ==
  ASSUME MaxNodes <= SeqLimit PROVE Spec => []NoHerd
<1>1. CallInv => NoHerd
  <2> SUFFICES ASSUME CallInv, NEW p \in Procs, NEW q \in Procs,
                      pc[p] = "wait", pc[q] = "wait",
                      seq[p] \in nodes, seq[q] \in nodes,
                      target[p] = target[q]
               PROVE  p = q
    BY DEF NoHerd
  <2>1. NothingBetween(p) /\ NothingBetween(q)
    BY DEF CallInv, CallOf
  <2>2. nodes \subseteq Nat
    BY LockAssumption DEF CallInv, LockInv, TypeOK, Numbers
  <2>3. ~(seq[p] < seq[q]) /\ ~(seq[q] < seq[p])
    BY <2>1 DEF NothingBetween
  <2>4. owner[seq[p]] = p /\ owner[seq[q]] = q
    BY DEF CallInv, LockInv, CreatedBy
  <2>5. seq[p] = seq[q]
    <3>1. seq[p] \in Nat /\ seq[q] \in Nat
      BY <2>2
    <3> QED BY <2>3, <3>1
  <2> QED BY <2>4, <2>5
<1> QED BY <1>1, CallInvariant, PTL

-----------------------------------------------------------------------------
(* The nodes nobody knows of. *)

\* The nodes p will delete or wait with.
Knows(p) ==
  IF pc[p] \in {"create", "find"} THEN mine[p]
  ELSE IF pc[p] \in {"list", "watch", "wait"} THEN {seq[p]}
  ELSE {lockPath[p]}

\* A step of p forgets nothing, or it is a failure and forgets one node.
LEMMA Forgets ==
  ASSUME CallInv, NEW p \in Procs, TypeOK',
         Lock(p) \/ LockSteps(p) \/ UnlockSteps(p) \/ Failures(p)
  PROVE  \E x : /\ nodes' \cap (Knows(p) \cup (nodes' \ nodes))
                     \subseteq Knows(p)' \cup {x}
                /\ (x = None /\ losses' = losses) \/ losses' = losses + 1
<1> DEFINE Keeps(x) == nodes' \cap (Knows(p) \cup (nodes' \ nodes))
                         \subseteq Knows(p)' \cup {x}
<1> SUFFICES \E x : /\ Keeps(x)
                    /\ (x = None /\ losses' = losses) \/ losses' = losses + 1
  OBVIOUS
<1>0. TypeOK /\ CallOf(p)
  BY DEF CallInv, LockInv
<1> USE DEF Knows, Step, serverVars, localVars, boundVars, Waiting
<1>1. CASE Lock(p) \/ MkdirOk(p)
  <2>1. Keeps(None)
    BY <1>0, <1>1 DEF TypeOK, CallOf, Lock, MkdirOk
  <2> QED BY <1>1, <2>1 DEF Lock, MkdirOk
<1>2. CASE CreateOk(p)
  <2>1. Keeps(None)
    BY <1>0, <1>2 DEF TypeOK, CallOf, CreateOk, ServerCreates
  <2> QED BY <1>2, <2>1 DEF CreateOk
<1>3. CASE CreateLost(p)
  <2>1. Keeps(None)
    BY <1>0, <1>3 DEF TypeOK, CallOf, CreateLost, ServerCreates
  <2> QED BY <1>3, <2>1 DEF CreateLost
<1>4. CASE CreateExpired(p) \/ FindNone(p)
  <2>1. Keeps(None)
    BY <1>0, <1>4 DEF TypeOK, CallOf, CreateExpired, FindNone, GuidFound, Retry
  <2> QED BY <1>4, <2>1 DEF CreateExpired, FindNone
<1>5. CASE FindOk(p)
  <2>1. PICK n \in mine[p] \cap nodes : seq' = [seq EXCEPT ![p] = n]
    BY <1>5 DEF FindOk
  <2>2. mine[p] \cap nodes = {n}
    BY <1>0 DEF CallOf
  <2>3. Keeps(None)
    BY <1>0, <1>5, <2>1, <2>2 DEF TypeOK, FindOk
  <2> QED BY <1>5, <2>3 DEF FindOk
<1>6. CASE NoParent(p)
  <2>1. Keeps(None)
    BY <1>6 DEF NoParent, CallInv
  <2> QED BY <1>6, <2>1 DEF NoParent
<1>7. CASE FindFails(p)
  <2>1. PICK x : mine[p] \cap nodes \subseteq {x}
    BY <1>0 DEF CallOf
  <2>2. Keeps(x)
    BY <1>0, <1>7, <2>1 DEF TypeOK, FindFails, GiveUp
  <2> QED BY <1>7, <2>2 DEF FindFails, GiveUp
<1>8. CASE MkdirFails(p)
  <2>1. Keeps(None)
    BY <1>0, <1>8 DEF TypeOK, MkdirFails, GiveUp
  <2> QED BY <1>8, <2>1 DEF MkdirFails, GiveUp
<1>9. CASE ListFails(p) \/ WatchFails(p)
  <2>1. Keeps(seq[p])
    BY <1>0, <1>9 DEF TypeOK, ListFails, WatchFails, GiveUp
  <2> QED BY <1>9, <2>1 DEF ListFails, WatchFails, GiveUp
<1>10. CASE ListAcquires(p)
  <2>1. Keeps(None)
    BY <1>0, <1>10 DEF TypeOK, ListAcquires
  <2> QED BY <1>10, <2>1 DEF ListAcquires
<1>11. CASE ListWaits(p)
  <2>1. Keeps(None)
    BY <1>0, <1>11 DEF TypeOK, ListWaits
  <2> QED BY <1>11, <2>1 DEF ListWaits
<1>12. CASE Watch(p) \/ Woken(p)
  <2>1. Keeps(None)
    BY <1>0, <1>12 DEF TypeOK, Watch, Woken, AfterGetW
  <2> QED BY <1>12, <2>1 DEF Watch, Woken
<1>13. CASE WaitExpired(p)
  <2>1. Keeps(None)
    BY <1>0, <1>13 DEF TypeOK, CallOf, WaitExpired
  <2> QED BY <1>13, <2>1 DEF WaitExpired
<1>14. CASE UnlockOk(p)
  <2>1. Keeps(None)
    BY <1>0, <1>14 DEF TypeOK, UnlockOk, Unlocking, WithoutLockNode
  <2> QED BY <1>14, <2>1 DEF UnlockOk
<1>15. CASE UnlockNoNode(p) \/ UnlockLost(p)
  <2>1. Keeps(None)
    BY <1>0, <1>15
       DEF TypeOK, UnlockNoNode, UnlockLost, Unlocking, WithoutLockNode
  <2> QED BY <1>15, <2>1 DEF UnlockNoNode, UnlockLost
<1>16. CASE Expire(p)
  <2>1. Keeps(None)
    BY <1>0, <1>16 DEF TypeOK, Expire
  <2> QED BY <1>16, <2>1 DEF Expire
<1>17. CASE CreateFails(p)
  <2>1. nodes' \subseteq nodes \cup {counter} /\ losses' = losses + 1
    BY <1>17 DEF CreateFails, ServerCreates
  <2>2. mine[p] \cap nodes = {} /\ pc[p] = "create"
    BY <1>0, <1>17 DEF CallOf, CreateFails
  <2>3. Keeps(counter)
    BY <2>1, <2>2
  <2> QED BY <2>1, <2>3
<1> QED
  BY <1>1, <1>2, <1>3, <1>4, <1>5, <1>6, <1>7, <1>8, <1>9, <1>10, <1>11,
     <1>12, <1>13, <1>14, <1>15, <1>16, <1>17
     DEF LockSteps, UnlockSteps, Failures

LEMMA InUseIsKnown == \A n : n \in InUse <=> \E p \in Procs : n \in Knows(p)
BY DEF InUse, Knows

\* A failed call may leave a node that nobody will delete; nothing else does,
\* as long as the sequence numbers fit.
THEOREM OrphansCounted ==
  ASSUME MaxNodes <= SeqLimit PROVE Spec => []NodesAccountedFor
<1> DEFINE Orphans == nodes \ InUse
<1>1. TypeOK => IsFiniteSet(Orphans) /\ Cardinality(Orphans) \in Nat
  <2> SUFFICES ASSUME TypeOK PROVE IsFiniteSet(Orphans)
    BY FS_CardinalityType
  <2>1. IsFiniteSet(Numbers)
    BY FS_Interval, LockAssumption DEF Numbers
  <2>2. Orphans \in SUBSET Numbers
    BY DEF TypeOK
  <2> QED BY <2>1, <2>2, FS_Subset
<1>2. Init => NodesAccountedFor
  <2> SUFFICES ASSUME Init PROVE NodesAccountedFor
    OBVIOUS
  <2>1. nodes \ InUse = {} /\ losses = 0
    BY DEF Init
  <2> QED BY <2>1, FS_EmptySet DEF NodesAccountedFor
<1>3. ASSUME CallInv, CallInv', NodesAccountedFor, NEW p \in Procs,
             Lock(p) \/ LockSteps(p) \/ UnlockSteps(p) \/ Failures(p)
      PROVE  NodesAccountedFor'
  <2>1. TypeOK /\ TypeOK' /\ LockInv
    BY <1>3 DEF CallInv, LockInv
  <2>2. PICK x : /\ nodes' \cap (Knows(p) \cup (nodes' \ nodes))
                      \subseteq Knows(p)' \cup {x}
                 /\ (x = None /\ losses' = losses) \/ losses' = losses + 1
    BY <1>3, <2>1, Forgets
  <2>3. \A q \in Procs \ {p} : Knows(q)' = Knows(q)
    BY <1>3, <2>1, OnlyOwn, ZenonT(40) DEF Knows
  <2>4. nodes' \ InUse' \subseteq Orphans \cup {x}
    <3> SUFFICES ASSUME NEW n \in nodes', n \notin InUse', n # x
                 PROVE  n \in nodes /\ n \notin InUse
      OBVIOUS
    <3>1. \A q \in Procs : n \notin Knows(q)'
      BY DEF InUse, Knows
    <3>2. n \notin Knows(p) /\ n \in nodes
      BY <2>2, <3>1
    <3> QED BY <2>3, <3>1, <3>2, InUseIsKnown
  <2>5. None \notin nodes'
    BY <2>1, LockAssumption DEF TypeOK, Numbers, None
  <2>6. /\ IsFiniteSet(Orphans) /\ Cardinality(Orphans) \in Nat
        /\ Cardinality(Orphans) <= losses
    BY <1>1, <1>3, <2>1 DEF NodesAccountedFor
  <2>7. losses \in Nat /\ losses' \in Nat /\ Cardinality(nodes' \ InUse') \in Nat
    <3>1. IsFiniteSet(nodes' \ InUse')
      BY <2>4, <2>6, FS_AddElement, FS_Subset
    <3> QED BY <2>1, <3>1, FS_CardinalityType, LockAssumption DEF TypeOK
  <2>8. CASE x = None /\ losses' = losses
    <3>1. nodes' \ InUse' \subseteq Orphans
      BY <2>4, <2>5, <2>8
    <3>2. Cardinality(nodes' \ InUse') <= Cardinality(Orphans)
      BY <2>6, <3>1, FS_Subset
    <3> QED BY <2>6, <2>7, <2>8, <3>2 DEF NodesAccountedFor
  <2>9. CASE losses' = losses + 1
    <3>1. /\ IsFiniteSet(Orphans \cup {x})
          /\ Cardinality(Orphans \cup {x}) <= Cardinality(Orphans) + 1
          /\ Cardinality(Orphans \cup {x}) \in Nat
      BY <2>6, FS_AddElement
    <3>2. Cardinality(nodes' \ InUse') <= Cardinality(Orphans \cup {x})
      BY <2>4, <3>1, FS_Subset
    <3> QED BY <2>6, <2>7, <2>9, <3>1, <3>2 DEF NodesAccountedFor
  <2> QED BY <2>2, <2>8, <2>9
<1>4. ASSUME NodesAccountedFor, UNCHANGED vars PROVE NodesAccountedFor'
  BY <1>4 DEF NodesAccountedFor, InUse, vars, serverVars, localVars, boundVars
<1>5. CallInv /\ CallInv' /\ NodesAccountedFor /\ [Next]_vars
        => NodesAccountedFor'
  BY <1>3, <1>4 DEF Next
<1> QED BY <1>2, <1>5, CallInvariant, PTL DEF Spec

-----------------------------------------------------------------------------
(* The abstract lock. *)

LEMMA HolderIs ==
  ASSUME OneLiveHolder
  PROVE  /\ \A p \in Procs : Holds(p) => Holder = p
         /\ (\A p \in Procs : ~Holds(p)) => Holder = NoProc
         /\ Holder # NoProc => Holder \in Procs /\ Holds(Holder)
BY LockAssumption DEF OneLiveHolder, Holder

\* Only ListAcquires lets a process hold the lock.
LEMMA OnlyListAcquires ==
  ASSUME LockInv, NEW p \in Procs, ~ListAcquires(p),
         Lock(p) \/ LockSteps(p) \/ UnlockSteps(p) \/ Failures(p),
         NEW q \in Procs, Holds(q)'
  PROVE  Holds(q)
<1>1. pc'[q] = "held" => pc[q] = "held" /\ lockPath'[q] = lockPath[q]
  <2>1. CASE q # p
    BY <2>1, OnlyOwn
  <2>2. CASE q = p
    BY <2>2 DEF LockInv, TypeOK, LockSteps, UnlockSteps, Failures, Lock,
       CreateOk, CreateLost, CreateExpired, CreateFails, FindOk, FindNone,
       FindFails, NoParent, MkdirOk, MkdirFails, ListWaits, ListFails, Watch,
       AfterGetW, WatchFails, Woken, WaitExpired, UnlockOk, UnlockNoNode,
       UnlockLost, Unlocking, Expire, Retry, GiveUp, Step
  <2> QED BY <2>1, <2>2
<1>2. pc[q] = "held" /\ lockPath'[q] = lockPath[q] /\ lockPath[q] \in nodes'
  BY <1>1 DEF Holds, InCriticalSection
<1>3. lockPath[q] # counter
  BY <1>2, LockAssumption DEF LockInv, TypeOK, CreatedBy, Numbers, None
<1>4. lockPath[q] \in nodes
  BY <1>2, <1>3, OnlyOwn
<1> QED BY <1>2, <1>4 DEF Holds, InCriticalSection

LEMMA MutexStep ==
  ASSUME LockInv, OneLiveHolder, OneLiveHolder', [Next]_vars
  PROVE  [Abstract!Next]_Holder
<1>0. (/\ \A p \in Procs : Holds(p) => Holder = p
       /\ Holder # NoProc => Holder \in Procs /\ Holds(Holder))'
  BY LockAssumption DEF OneLiveHolder, Holder
<1>1. ASSUME \A q \in Procs : Holds(q)' => Holds(q)
      PROVE  [Abstract!Next]_Holder
  <2>1. CASE Holder' = NoProc
    BY <2>1 DEF Abstract!Next, Abstract!Release
  <2>2. CASE Holder' # NoProc
    <3>1. Holder' \in Procs /\ Holds(Holder')
      BY <1>0, <1>1, <2>2
    <3> QED BY <3>1, HolderIs
  <2> QED BY <2>1, <2>2
<1>2. CASE UNCHANGED vars
  BY <1>1, <1>2 DEF vars, serverVars, Holds, InCriticalSection
<1>3. ASSUME NEW p \in Procs, ListAcquires(p) PROVE [Abstract!Next]_Holder
  <2>1. /\ \A q \in Procs \ {p} : Holds(q)' <=> Holds(q)
        /\ ~Holds(p)
    BY <1>3 DEF ListAcquires, Step, Holds, InCriticalSection, LockInv, TypeOK,
                serverVars
  <2>2. CASE Holds(p)'
    <3>1. \A q \in Procs : ~Holds(q)
      BY <2>1, <2>2 DEF OneLiveHolder
    <3>2. Holder = NoProc
      BY <3>1, HolderIs
    <3>3. Holder' = p
      BY <1>0, <2>2
    <3> QED BY <3>2, <3>3 DEF Abstract!Next, Abstract!Acquire
  <2> QED BY <1>1, <2>1, <2>2
<1>4. ASSUME NEW p \in Procs, ~ListAcquires(p),
             Lock(p) \/ LockSteps(p) \/ UnlockSteps(p) \/ Failures(p)
      PROVE  [Abstract!Next]_Holder
  BY <1>1, <1>4, OnlyListAcquires
<1> QED BY <1>2, <1>3, <1>4 DEF Next

\* The recipe implements the mutual exclusion lock, as long as the sequence
\* numbers fit: it is taken only when it is free, whatever fails on the way.
THEOREM RecipeIsMutex ==
  ASSUME MaxNodes <= SeqLimit PROVE Spec => ImplementsMutex
<1>1. Init => Abstract!Init
  BY DEF Init, Abstract!Init, Holder, Holds, InCriticalSection
<1>2. LockInv /\ OneLiveHolder /\ OneLiveHolder' /\ [Next]_vars
        => [Abstract!Next]_Holder
  BY MutexStep
<1> QED BY <1>1, <1>2, HolderIsLowest, LiveHoldersExclude, PTL
        DEF Spec, ImplementsMutex, Abstract!Spec

-----------------------------------------------------------------------------
(* Nobody waits for nobody. *)

\* p waits, and neither Woken nor WaitExpired can end the wait.
Blocked(p) ==
  /\ pc[p] = "wait"
  /\ ~(watch[p] = "set" /\ target[p] \notin nodes) /\ watch[p] # "lost"

\* q is in a call that it can go on with, or is to call Unlock.
Busy(q) ==
  /\ pc[q] \in {"find", "list", "watch", "wait", "held", "unlockFailed"}
  /\ ~Blocked(q)

\* Behind every process that is blocked there is one that is not and that has a
\* node ahead of it; only a failed call can have left a node there for which
\* nobody is responsible.
NobodyStuck ==
  \A p \in Procs : Blocked(p) =>
    \E n \in nodes :
      /\ n < seq[p]
      /\ \/ n \notin InUse /\ losses > 0
         \/ \E q \in Procs : n \in Knows(q) /\ Busy(q)

\* Who waits has a watch, or has lost it.
Watching == \A p \in Procs : pc[p] = "wait" => watch[p] # "none"

LEMMA WatchingStep ==
  ASSUME LockInv, Watching, NEW p \in Procs,
         Lock(p) \/ LockSteps(p) \/ UnlockSteps(p) \/ Failures(p)
  PROVE  Watching'
<1>0. TypeOK
  BY DEF LockInv
<1>1. \A q \in Procs \ {p} : pc'[q] = pc[q] /\ watch'[q] = watch[q]
  BY OnlyOwn
<1>2. pc'[p] = "wait" => watch'[p] # "none"
  <2>1. CASE Watch(p)
    BY <1>0, <2>1 DEF Watch, AfterGetW, Step, TypeOK
  <2>2. CASE Expire(p)
    BY <1>0, <2>2 DEF Expire, TypeOK, Watching
  <2>3. CASE ~Watch(p) /\ ~Expire(p)
    BY <1>0, <2>3 DEF TypeOK, LockSteps, UnlockSteps, Failures, Lock,
       CreateOk, CreateLost, CreateExpired, CreateFails, FindOk, FindNone,
       FindFails, NoParent, MkdirOk, MkdirFails, ListWaits, ListFails,
       ListAcquires, WatchFails, Woken, WaitExpired, UnlockOk, UnlockNoNode,
       UnlockLost, Unlocking, Retry, GiveUp, Step
  <2> QED BY <2>1, <2>2, <2>3
<1> QED BY <1>1, <1>2 DEF Watching

\* The lowest of the nodes ahead of p: nobody blocked can have it.
LEMMA LowestIsBusy ==
  ASSUME CallInv, Watching, NodesAccountedFor
  PROVE  NobodyStuck
<1> SUFFICES ASSUME NEW p \in Procs, Blocked(p)
             PROVE  \E n \in nodes :
                      /\ n < seq[p]
                      /\ \/ n \notin InUse /\ losses > 0
                         \/ \E q \in Procs : n \in Knows(q) /\ Busy(q)
  BY DEF NobodyStuck
<1>0. TypeOK /\ LockInv /\ nodes \subseteq Nat /\ losses \in Nat
  BY LockAssumption DEF CallInv, LockInv, TypeOK, Numbers
<1>1. \A q \in Procs : Blocked(q) => target[q] \in nodes /\ target[q] < seq[q]
  BY <1>0 DEF Blocked, Watching, CallInv, CallOf, NothingBetween, TypeOK
<1> DEFINE T == {n \in nodes : n < seq[p]}
<1>2. T \subseteq Nat /\ T # {}
  BY <1>0, <1>1
<1>3. PICK n \in T : \A m \in T : ~(<<m, n>> \in OpToRel(<, Nat))
  BY <1>2, NatLessThanWellFounded, WFMin
<1>4. n \in nodes /\ n \in Nat /\ n < seq[p]
  BY <1>0
<1>5. \A m \in nodes : m < seq[p] => n <= m
  <2>1. OpToRel(<, Nat) = {ss \in Nat \X Nat : ss[1] < ss[2]}
    BY Zenon DEF OpToRel
  <2> SUFFICES ASSUME NEW m \in nodes, m < seq[p] PROVE n <= m
    OBVIOUS
  <2>2. ~(<<m, n>> \in {ss \in Nat \X Nat : ss[1] < ss[2]})
    BY <1>3, <2>1, Zenon
  <2>3. m \in Nat
    BY <1>0
  <2> HIDE DEF T
  <2> QED BY <1>4, <2>2, <2>3
<1>6. CASE n \notin InUse
  <2>1. losses > 0
    <3> SUFFICES ASSUME losses = 0 PROVE FALSE
      BY <1>0
    <3>1. IsFiniteSet(nodes \ InUse)
      <4>1. IsFiniteSet(Numbers)
        BY FS_Interval, LockAssumption DEF Numbers
      <4>2. nodes \ InUse \in SUBSET Numbers
        BY <1>0 DEF TypeOK
      <4> QED BY <4>1, <4>2, FS_Subset
    <3>2. Cardinality(nodes \ InUse) = 0
      BY <3>1, FS_CardinalityType DEF NodesAccountedFor
    <3>3. nodes \ InUse = {}
      BY <3>1, <3>2, FS_EmptySet
    <3> QED BY <1>4, <1>6, <3>3
  <2> QED BY <1>4, <1>6, <2>1
<1>7. CASE n \in InUse
  <2>1. PICK q \in Procs : n \in Knows(q)
    BY <1>7, InUseIsKnown
  <2>2. CallOf(q) /\ n # None
    BY <1>4, LockAssumption DEF CallInv, None
  <2>3. pc[q] \in {"find", "list", "watch", "wait", "held", "unlockFailed"}
    BY <1>0, <1>4, <2>1, <2>2 DEF Knows, CallOf, TypeOK
  <2>4. ~Blocked(q)
    <3> SUFFICES ASSUME Blocked(q) PROVE FALSE
      OBVIOUS
    <3>1. seq[q] = n
      BY <2>1 DEF Blocked, Knows
    <3>2. target[q] \in nodes /\ target[q] < n
      BY <1>1, <3>1
    <3>3. target[q] \in Nat /\ seq[p] \in Int
      BY <1>0, <3>2, LockAssumption DEF TypeOK, NodeOrNone, Numbers, None
    <3> QED BY <1>4, <1>5, <3>2, <3>3
  <2> QED BY <1>4, <2>1, <2>3, <2>4 DEF Busy
<1> QED BY <1>6, <1>7

\* Whatever fails and however the calls interleave, the wait of lock.go has no
\* cycle: a process that is blocked in Lock() has before it one that is not
\* blocked, or a node that a failed call has left.  This is the part of
\* LockReturns that is not about fairness.
THEOREM WaitsEndSomewhere ==
  ASSUME MaxNodes <= SeqLimit PROVE Spec => []NobodyStuck
<1>1. Init => Watching
  BY DEF Init, Watching
<1>2. LockInv /\ Watching /\ [Next]_vars => Watching'
  <2>1. ASSUME Watching, UNCHANGED vars PROVE Watching'
    BY <2>1 DEF Watching, vars, localVars
  <2> QED BY <2>1, WatchingStep DEF Next
<1>3. Spec => []Watching
  BY <1>1, <1>2, HolderIsLowest, PTL DEF Spec
<1>4. CallInv /\ Watching /\ NodesAccountedFor => NobodyStuck
  BY LowestIsBusy
<1> QED BY <1>3, <1>4, CallInvariant, OrphansCounted, PTL

\* While no session has expired, Lock() gives nil only to a process whose lock
\* node exists, whatever else fails: the step that run lock_lost_node finds
\* needs an expiry.
THEOREM AcquiresWithNode ==
  ASSUME MaxNodes <= SeqLimit
  PROVE  Spec => [][expiries' = 0 =>
                      \A p \in Procs :
                        ~InCriticalSection(p) /\ InCriticalSection(p)'
                          => Holds(p)']_vars
<1>1. CallInv' => (expiries' = 0 => \A p \in Procs :
                     ~InCriticalSection(p) /\ InCriticalSection(p)' => Holds(p)')
  BY DEF CallInv, CallOf, Holds, InCriticalSection
<1> QED BY <1>1, CallInvariant, PTL

=============================================================================
