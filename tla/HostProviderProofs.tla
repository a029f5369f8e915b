------------------------- MODULE HostProviderProofs -------------------------
(* TLAPS proofs about HostProvider, for every number of servers.            *)
EXTENDS HostProvider, TLAPS

\* Moving one position on from curr, going round.
LEMMA FollowingMoves ==
  ASSUME curr \in Servers
  PROVE  /\ Following \in Servers
         /\ Following = IF curr = NumServers - 1 THEN 0 ELSE curr + 1
<1>1. CASE curr = NumServers - 1
  BY <1>1, NumServersAssumption DEF Following, Servers
<1>2. CASE curr < NumServers - 1
  BY <1>2, NumServersAssumption DEF Following, Servers
<1> QED BY <1>1, <1>2, NumServersAssumption DEF Servers

\* The first call of Next moves to position 0.
LEMMA FollowingStarts ==
  ASSUME curr = -1 PROVE Following = 0 /\ Following \in Servers
BY NumServersAssumption DEF Following, Servers

LEMMA InitRotation == Init => RotationInv
<1> SUFFICES ASSUME Init PROVE RotationInv
  OBVIOUS
<1>1. retryStart \in BOOLEAN
  BY Zenon DEF Init
<1> QED BY <1>1, NumServersAssumption DEF Init, RotationInv, TypeOK, Servers

\* NextServer keeps the rotation invariant: before the first Connected the
\* reference position is 0, afterwards curr moves one step further from last.
LEMMA NextServerRotation == RotationInv /\ NextServer => RotationInv'
<1> SUFFICES ASSUME RotationInv, NextServer PROVE RotationInv'
  OBVIOUS
<1> USE NumServersAssumption
<1>0. retryStart' \in BOOLEAN
  BY Zenon DEF NextServer, RetryStartAt
<1>1. CASE curr = -1
  <2>1. last = -1 /\ streak = 0 /\ Following = 0 /\ 0 \in Servers
    BY <1>1, FollowingStarts DEF RotationInv
  <2>2. curr' = 0 /\ last' = 0 /\ ~RetryStartAt(Following)
    BY <2>1 DEF NextServer, LastAfterNext, RetryStartAt
  <2>3. streak' = 1 /\ handedOut' = handedOut \cup {0}
    BY <2>1, <2>2 DEF NextServer
  <2>4. TypeOK'
    BY <1>0, <2>1, <2>2, <2>3 DEF RotationInv, TypeOK
  <2>5. Passed' = {} /\ Distance' = 0
    BY <2>2 DEF Passed, Distance, Servers
  <2> QED BY <2>2, <2>3, <2>4, <2>5 DEF RotationInv
<1>2. CASE curr # -1
  <2>1. curr \in Servers /\ last \in Servers
    BY <1>2 DEF RotationInv, TypeOK
  <2>2. /\ curr' = IF curr = NumServers - 1 THEN 0 ELSE curr + 1
        /\ curr' \in Servers
        /\ last' = last
        /\ handedOut' = handedOut \cup {curr'}
    BY <2>1, FollowingMoves DEF NextServer, LastAfterNext, Servers
  <2>3. TypeOK'
    BY <1>0, <2>1, <2>2 DEF RotationInv, TypeOK, NextServer
  <2>4. curr' # last => Passed' \subseteq Passed \cup {curr'}
    BY <2>1, <2>2 DEF Passed, Servers
  <2>5. curr' = last => Passed' = {}
    BY <2>1, <2>2 DEF Passed, Servers
  <2>6. Passed' \subseteq handedOut'
    BY <1>2, <2>2, <2>4, <2>5 DEF RotationInv
  <2>7. curr' # last => Distance' = Distance + 1
    BY <2>1, <2>2 DEF Distance, Servers
  <2>8. streak' <= Distance' + 1
    <3>1. CASE curr' = last
      BY <3>1, <2>1, <2>2 DEF NextServer, RetryStartAt, Distance, Servers
    <3>2. CASE curr' # last
      BY <3>2, <1>2, <2>1, <2>7
         DEF NextServer, RetryStartAt, RotationInv, TypeOK, Distance, Servers
    <3> QED BY <3>1, <3>2
  <2> QED BY <2>1, <2>2, <2>3, <2>6, <2>8 DEF RotationInv, Servers
<1> QED BY <1>1, <1>2

LEMMA ConnectedRotation == RotationInv /\ Connected => RotationInv'
BY NumServersAssumption
   DEF RotationInv, TypeOK, Connected, Servers, Passed, Distance

LEMMA StutterRotation == RotationInv /\ UNCHANGED hpVars => RotationInv'
BY DEF RotationInv, TypeOK, hpVars, Passed, Distance

\* DNSHostProvider keeps the set of servers handed out since the last
\* Connected, and the number of calls, in step with the distance travelled
\* from hp.last, whatever the number of servers.
THEOREM Rotation == Spec => []RotationInv
<1>1. RotationInv /\ [Next]_hpVars => RotationInv'
  BY NextServerRotation, ConnectedRotation, StutterRotation DEF Next
<1> QED BY <1>1, InitRotation, PTL DEF Spec

\* No more than NumServers calls of Next pass without a retryStart: connect()
\* always reaches its pause and its check of shouldQuit.
THEOREM BoundedRound == Spec => []RoundIsBounded
<1>1. RotationInv => RoundIsBounded
  BY NumServersAssumption
     DEF RotationInv, RoundIsBounded, TypeOK, Distance, Servers
<1> QED BY <1>1, Rotation, PTL

\* retryStart is only reported once every server has been handed out since
\* the last Connected.
THEOREM FullRound == Spec => RetryStartAfterFullRound
<1>1. RotationInv /\ [Next]_hpVars
        => [NextServer /\ retryStart' => handedOut' = Servers]_hpVars
  <2> SUFFICES ASSUME RotationInv, NextServer, retryStart'
               PROVE  handedOut' = Servers
    OBVIOUS
  <2> USE NumServersAssumption
  <2>1. Following = last
    BY DEF NextServer, RetryStartAt
  <2>2. curr \in Servers /\ last \in Servers
    BY <2>1, FollowingStarts DEF RotationInv, TypeOK, Servers
  <2>3. last = IF curr = NumServers - 1 THEN 0 ELSE curr + 1
    BY <2>1, <2>2, FollowingMoves
  <2>4. Servers \subseteq Passed \cup {last}
    BY <2>2, <2>3 DEF Passed, Servers
  <2>5. Passed \subseteq handedOut /\ handedOut \subseteq Servers
    BY <2>2 DEF RotationInv, TypeOK, Servers
  <2> QED BY <2>1, <2>2, <2>4, <2>5 DEF NextServer
<1> QED BY <1>1, Rotation, PTL DEF Spec, RetryStartAfterFullRound

=============================================================================
