--------------------------- MODULE SessionProofs ----------------------------
(* TLAPS proofs about the life of a session: any number of servers,          *)
(* sessions and transactions, any length of the event channel.               *)
EXTENDS Session, HostProviderProofs, FiniteSetTheorems, FunctionTheorems

(***************************************************************************)
(* The inductive invariant.  Handshake is what connect and authenticate    *)
(* leave behind for each other; EventsInFlight says what the events that   *)
(* are still in the channel will tell the user.                            *)
(***************************************************************************)

\* The zxid the client presents is one the server of an established connection
\* has applied, and nothing is left of a session once it is gone.
Handshake ==
  /\ lpc # "next" => curr # -1
  /\ lpc = "up" => lastZxid <= applied[curr]
  /\ passwd = sessionID
  /\ sessionID = 0 => lastZxid = 0
  /\ sessionID <= opened /\ \A s \in alive : s <= opened

\* The positions of the expiries among the events s.
Expiries(s) == {i \in 1 .. Len(s) : s[i] = "Expired"}

\* x is the last state among the events s, or the one known before them.
LastState(s, before, x) ==
  /\ (\A i \in 1 .. Len(s) : s[i] = NodeEvent) => before = x
  /\ \A i \in 1 .. Len(s) :
       s[i] # NodeEvent /\ (\A j \in 1 .. Len(s) : j > i => s[j] = NodeEvent)
         => s[i] = x

EventsInFlight ==
  ~dropped => /\ LastState(eventChan, told, state)
              /\ expiries = expiriesTold + Cardinality(Expiries(eventChan))

SessionInv ==
  RotationInv /\ SessionType /\ Handshake /\ SocketsAccountedFor
              /\ EventsInFlight

-----------------------------------------------------------------------------
(* What sending and reading an event does to the events in flight. *)

LEMMA ExpiriesFinite ==
  ASSUME NEW S, NEW s \in Seq(S)
  PROVE  IsFiniteSet(Expiries(s)) /\ Cardinality(Expiries(s)) \in Nat
<1>1. IsFiniteSet(1 .. Len(s))
  BY FS_Interval
<1>2. Expiries(s) \in SUBSET (1 .. Len(s))
  BY DEF Expiries
<1> QED BY <1>1, <1>2, FS_Subset, FS_CardinalityType

LEMMA ExpiriesAppend ==
  ASSUME NEW S, NEW s \in Seq(S), NEW e \in S
  PROVE  Cardinality(Expiries(Append(s, e)))
           = Cardinality(Expiries(s)) + (IF e = "Expired" THEN 1 ELSE 0)
<1>1. Expiries(Append(s, e))
        = IF e = "Expired" THEN Expiries(s) \cup {Len(s) + 1} ELSE Expiries(s)
  BY DEF Expiries
<1>2. Len(s) + 1 \notin Expiries(s)
  BY DEF Expiries
<1>3. IsFiniteSet(Expiries(s)) /\ Cardinality(Expiries(s)) \in Nat
  BY ExpiriesFinite
<1>4. Cardinality(Expiries(s) \cup {Len(s) + 1}) = Cardinality(Expiries(s)) + 1
  BY <1>2, <1>3, FS_AddElement
<1> QED BY <1>1, <1>3, <1>4

LEMMA ExpiriesTail ==
  ASSUME NEW S, NEW s \in Seq(S), s # <<>>
  PROVE  Cardinality(Expiries(s))
           = Cardinality(Expiries(Tail(s)))
               + (IF Head(s) = "Expired" THEN 1 ELSE 0)
<1> DEFINE T == Expiries(Tail(s))
           U == Expiries(s) \ {1}
           f == [i \in T |-> i + 1]
<1>1. Tail(s) \in Seq(S) /\ Len(Tail(s)) = Len(s) - 1
      /\ \A i \in 1 .. Len(s) - 1 : Tail(s)[i] = s[i + 1]
  OBVIOUS
<1>2. f \in [T -> U]
  BY <1>1 DEF Expiries
<1>3. \A a, b \in T : f[a] = f[b] => a = b
  BY DEF Expiries
<1>4. \A y \in U : \E x \in T : f[x] = y
  <2> TAKE y \in U
  <2>1. y - 1 \in T /\ f[y - 1] = y
    BY <1>1 DEF Expiries
  <2> QED BY <2>1
<1>5. f \in Bijection(T, U)
  BY <1>2, <1>3, <1>4, Fun_IsBij
<1>6. Cardinality(U) = Cardinality(T)
  <2>1. IsFiniteSet(T)
    BY <1>1, ExpiriesFinite
  <2>2. ExistsBijection(T, U)
    BY <1>5 DEF ExistsBijection
  <2> HIDE DEF T, U
  <2> QED BY <2>1, <2>2, FS_Bijection
<1>7. 1 \in Expiries(s) <=> Head(s) = "Expired"
  BY DEF Expiries
<1>8. /\ IsFiniteSet(Expiries(s)) /\ Cardinality(Expiries(s)) \in Nat
      /\ Cardinality(T) \in Nat
  BY <1>1, ExpiriesFinite
<1>9. Cardinality(U) = IF 1 \in Expiries(s) THEN Cardinality(Expiries(s)) - 1
                                            ELSE Cardinality(Expiries(s))
  BY <1>8, FS_RemoveElement
<1> QED BY <1>6, <1>7, <1>8, <1>9

LEMMA LastStateAppend ==
  ASSUME NEW S, NEW s \in Seq(S), NEW before, NEW x \in S, x # NodeEvent
  PROVE  LastState(Append(s, x), before, x)
BY DEF LastState

LEMMA LastStateNode ==
  ASSUME NEW S, NEW s \in Seq(S), NEW before, NEW x,
         NodeEvent \in S, LastState(s, before, x)
  PROVE  LastState(Append(s, NodeEvent), before, x)
<1> DEFINE t == Append(s, NodeEvent)
<1>1. /\ Len(t) = Len(s) + 1 /\ t[Len(s) + 1] = NodeEvent
      /\ \A i \in 1 .. Len(s) : t[i] = s[i]
  OBVIOUS
<1> QED BY <1>1 DEF LastState

LEMMA LastStateTail ==
  ASSUME NEW S, NEW s \in Seq(S), s # <<>>, NEW before, NEW x,
         LastState(s, before, x)
  PROVE  LastState(Tail(s), IF Head(s) = NodeEvent THEN before ELSE Head(s), x)
<1> DEFINE t == Tail(s)
           told1 == IF Head(s) = NodeEvent THEN before ELSE Head(s)
<1>1. /\ Len(t) = Len(s) - 1 /\ Len(s) \in Nat \ {0} /\ Head(s) = s[1]
      /\ \A i \in 1 .. Len(s) - 1 : t[i] = s[i + 1]
      /\ \A i \in 2 .. Len(s) : s[i] = t[i - 1] /\ i - 1 \in 1 .. Len(t)
  OBVIOUS
<1>2. ASSUME \A i \in 1 .. Len(t) : t[i] = NodeEvent PROVE told1 = x
  <2>1. \A i \in 2 .. Len(s) : s[i] = NodeEvent
    BY <1>1, <1>2
  <2> QED BY <1>1, <2>1 DEF LastState
<1>3. ASSUME NEW i \in 1 .. Len(t), t[i] # NodeEvent,
             \A j \in 1 .. Len(t) : j > i => t[j] = NodeEvent
      PROVE  t[i] = x
  <2>1. i + 1 \in 1 .. Len(s) /\ s[i + 1] = t[i]
    BY <1>1
  <2>2. \A j \in 1 .. Len(s) : j > i + 1 => s[j] = NodeEvent
    BY <1>1, <1>3
  <2> QED BY <1>3, <2>1, <2>2 DEF LastState
<1> QED BY <1>2, <1>3 DEF LastState

-----------------------------------------------------------------------------
(* The steps. *)

USE NumServersAssumption, SessionAssumption

\* The part of SessionType that is about events.
EventsType ==
  /\ state \in States /\ told \in States
  /\ eventChan \in Seq(States \cup {NodeEvent})
  /\ Len(eventChan) <= EventChanSize
  /\ dropped \in BOOLEAN /\ expiriesTold \in Nat

LEMMA SendEventType ==
  ASSUME EventsType, NEW e \in States \cup {NodeEvent}, sendEvent(e),
         state' \in States
  PROVE  EventsType'
<1>1. told' = told /\ expiriesTold' = expiriesTold
  BY DEF sendEvent
<1>2. CASE EventChanHasRoom
  BY <1>1, <1>2 DEF EventsType, sendEvent, EventChanHasRoom
<1>3. CASE ~EventChanHasRoom
  BY <1>1, <1>3 DEF EventsType, sendEvent
<1> QED BY <1>2, <1>3

\* A state announced with setState is the last one in the channel.
LEMMA StateInFlight ==
  ASSUME EventsType, EventsInFlight, expiries \in Nat,
         NEW x \in States, setState(x),
         expiries' = expiries + (IF x = "Expired" THEN 1 ELSE 0)
  PROVE  EventsInFlight'
<1> SUFFICES ASSUME ~dropped' PROVE EventsInFlight'
  BY DEF EventsInFlight
<1> DEFINE E == States \cup {NodeEvent}
<1>1. ~dropped /\ eventChan' = Append(eventChan, x) /\ state' = x
      /\ told' = told /\ expiriesTold' = expiriesTold
  BY DEF setState, sendEvent
<1>2. eventChan \in Seq(E) /\ x \in E /\ x # NodeEvent
  BY DEF EventsType, States, NodeEvent
<1>3. LastState(eventChan', told', state')
  BY <1>1, <1>2, LastStateAppend
<1>4. /\ Cardinality(Expiries(eventChan'))
           = Cardinality(Expiries(eventChan)) + (IF x = "Expired" THEN 1 ELSE 0)
      /\ Cardinality(Expiries(eventChan)) \in Nat
  BY <1>1, <1>2, ExpiriesAppend, ExpiriesFinite
<1>5. expiries' = expiriesTold' + Cardinality(Expiries(eventChan'))
  BY <1>1, <1>4 DEF EventsInFlight, EventsType
<1> QED BY <1>3, <1>5 DEF EventsInFlight

LEMMA SessionInitInv == SessionInit => SessionInv
<1> SUFFICES ASSUME SessionInit PROVE SessionInv
  OBVIOUS
<1>1. RotationInv
  BY InitRotation DEF SessionInit
<1>2. dropped \in BOOLEAN
  BY Zenon DEF SessionInit
<1>3. SessionType
  BY <1>1, <1>2 DEF SessionInit, SessionType, RotationInv, States, Sessions
<1>4. Handshake /\ SocketsAccountedFor
  BY DEF SessionInit, Handshake, SocketsAccountedFor
<1>5. Cardinality(Expiries(eventChan)) = 0
  <2>1. Expiries(eventChan) = {}
    BY DEF SessionInit, Expiries
  <2> QED BY <2>1, FS_EmptySet
<1>6. EventsInFlight
  BY <1>5 DEF SessionInit, EventsInFlight, LastState
<1> QED BY <1>1, <1>3, <1>4, <1>6 DEF SessionInv

\* The loop calls Next and Connected, nobody else, and one at a time.
LEMMA RotationStep ==
  ASSUME RotationInv, [SessionNext]_sessionVars
  PROVE  RotationInv' /\ [Next]_hpVars
<1>1. CASE ConnectNext
  BY <1>1, NextServerRotation DEF ConnectNext, Next
<1>2. CASE AuthNew \/ AuthKept
  BY <1>2, ConnectedRotation DEF AuthNew, AuthKept, Welcome, Next
<1>3. CASE UNCHANGED hpVars
  BY <1>3, StutterRotation
<1>4. ~(ConnectNext \/ AuthNew \/ AuthKept) => UNCHANGED hpVars
  BY DEF SessionNext, sessionVars, ReadEvent, RetryTimer, QuitWhileWaiting,
         DialFails, DialOk, AuthExpired, AuthFails, RecvReply, RecvWatchEvent,
         UpStep, ConnectionGone, Disconnected, Expire, Apply, EnsembleStep
<1> QED BY <1>1, <1>2, <1>3, <1>4

\* Every step keeps the events in the channel and the state in step: it sends
\* a state, passes on the event of a watch, or takes an event from the channel.
LEMMA EventsStep ==
  ASSUME EventsType, EventsInFlight, expiries \in Nat,
         [SessionNext]_sessionVars
  PROVE  EventsType' /\ EventsInFlight'
<1>1. CASE ReadEvent
  <2> DEFINE E == States \cup {NodeEvent}
  <2>1. eventChan \in Seq(E) /\ eventChan # <<>>
    BY <1>1 DEF ReadEvent, EventsType
  <2>2. /\ Head(eventChan) \in E /\ Tail(eventChan) \in Seq(E)
        /\ Len(Tail(eventChan)) <= EventChanSize
    BY <2>1 DEF EventsType
  <2>3. EventsType'
    BY <1>1, <2>2 DEF ReadEvent, EventsType
  <2>4. ASSUME ~dropped'
        PROVE  LastState(eventChan', told', state')
    BY <1>1, <2>1, <2>4, LastStateTail DEF ReadEvent, EventsInFlight
  <2>5. /\ Cardinality(Expiries(eventChan))
             = Cardinality(Expiries(eventChan'))
                 + (IF Head(eventChan) = "Expired" THEN 1 ELSE 0)
        /\ Cardinality(Expiries(eventChan')) \in Nat
    BY <1>1, <2>1, <2>2, ExpiriesTail, ExpiriesFinite DEF ReadEvent
  <2>6. ASSUME ~dropped'
        PROVE  expiries' = expiriesTold' + Cardinality(Expiries(eventChan'))
    BY <1>1, <2>5, <2>6 DEF ReadEvent, EventsInFlight, EventsType, clientVars
  <2> QED BY <2>3, <2>4, <2>6 DEF EventsInFlight
<1>2. ASSUME NEW x \in States, setState(x),
             expiries' = expiries + (IF x = "Expired" THEN 1 ELSE 0)
      PROVE  EventsType' /\ EventsInFlight'
  BY <1>2, StateInFlight, SendEventType DEF setState
<1>3. CASE ConnectNext
  BY <1>2, <1>3 DEF ConnectNext, States, clientVars
<1>4. CASE QuitWhileWaiting \/ Disconnected
  BY <1>2, <1>4 DEF QuitWhileWaiting, Disconnected, States, clientVars
<1>5. CASE DialOk
  BY <1>2, <1>5 DEF DialOk, States, clientVars
<1>6. CASE AuthNew \/ AuthKept
  BY <1>2, <1>6 DEF AuthNew, AuthKept, Welcome, States
<1>7. CASE AuthExpired
  BY <1>2, <1>7 DEF AuthExpired, States
<1>8. CASE RecvWatchEvent
  <2> DEFINE E == States \cup {NodeEvent}
  <2>1. /\ sendEvent(NodeEvent) /\ state' = state /\ expiries' = expiries
        /\ NodeEvent \in E /\ eventChan \in Seq(E)
    BY <1>8 DEF RecvWatchEvent, EventsType, clientVars
  <2>2. EventsType'
    BY <2>1, SendEventType DEF EventsType
  <2>3. ASSUME ~dropped'
        PROVE  /\ ~dropped /\ eventChan' = Append(eventChan, NodeEvent)
               /\ told' = told /\ expiriesTold' = expiriesTold
    BY <2>1, <2>3 DEF sendEvent
  <2>4. Cardinality(Expiries(Append(eventChan, NodeEvent)))
          = Cardinality(Expiries(eventChan))
    BY <2>1, ExpiriesAppend, ExpiriesFinite DEF NodeEvent
  <2> HIDE DEF E
  <2>5. ASSUME ~dropped' PROVE LastState(eventChan', told', state')
    BY <2>1, <2>3, <2>5, LastStateNode DEF EventsInFlight
  <2> QED BY <2>1, <2>2, <2>3, <2>4, <2>5 DEF EventsInFlight
<1>9. CASE UNCHANGED <<eventVars, expiries>>
  BY <1>9 DEF eventVars, EventsType, EventsInFlight
<1>10. CASE RetryTimer \/ DialFails \/ AuthFails \/ RecvReply \/ ConnectionGone
  BY <1>9, <1>10 DEF RetryTimer, DialFails, AuthFails, RecvReply,
                     ConnectionGone, clientVars
<1>11. CASE \/ \E s \in Sessions : Expire(s)
            \/ \E s \in Servers : Apply(s)
            \/ UNCHANGED sessionVars
  BY <1>9, <1>11 DEF Expire, Apply, EnsembleStep, sessionVars, clientVars
<1> QED BY <1>1, <1>3, <1>4, <1>5, <1>6, <1>7, <1>8, <1>10, <1>11
           DEF SessionNext

LEMMA SocketsStep ==
  ASSUME SocketsAccountedFor, expiries \in Nat, [SessionNext]_sessionVars
  PROVE  SocketsAccountedFor' /\ expiries' \in Nat /\ sockets' \in Nat
<1> USE DEF SocketsAccountedFor, LoopStep, clientVars
<1>1. CASE ReadEvent \/ RecvReply \/ RecvWatchEvent
  BY <1>1 DEF ReadEvent, RecvReply, RecvWatchEvent, UpStep
<1>2. CASE ConnectNext
  BY <1>2 DEF ConnectNext
<1>3. CASE RetryTimer \/ QuitWhileWaiting \/ DialFails \/ DialOk
  BY <1>3 DEF RetryTimer, QuitWhileWaiting, DialFails, DialOk
<1>4. CASE AuthNew \/ AuthKept
  BY <1>4 DEF AuthNew, AuthKept, Welcome
<1>5. CASE AuthExpired \/ AuthFails
  BY <1>5 DEF AuthExpired, AuthFails, SocketClosed
<1>6. CASE ConnectionGone \/ Disconnected
  BY <1>6 DEF ConnectionGone, Disconnected
<1>7. CASE \/ \E s \in Sessions : Expire(s)
           \/ \E s \in Servers : Apply(s)
           \/ UNCHANGED sessionVars
  BY <1>7 DEF Expire, Apply, EnsembleStep, sessionVars
<1> QED BY <1>1, <1>2, <1>3, <1>4, <1>5, <1>6, <1>7 DEF SessionNext

\* The rest of SessionType.
ClientType ==
  /\ lpc \in {"next", "wait", "dial", "auth", "up", "disc", "exited"}
  /\ sessionID \in Sessions \cup {0} /\ passwd \in Sessions \cup {0}
  /\ lastZxid \in 0 .. MaxZxid
  /\ alive \subseteq Sessions /\ opened \in Sessions \cup {0}
  /\ applied \in [Servers -> 1 .. MaxZxid]

LEMMA SessionTypeParts ==
  SessionType <=> /\ TypeOK /\ EventsType /\ ClientType
                  /\ sockets \in Nat /\ expiries \in Nat
BY DEF SessionType, EventsType, ClientType

LEMMA HandshakeStep ==
  ASSUME TypeOK, TypeOK', ClientType, Handshake, [SessionNext]_sessionVars
  PROVE  ClientType' /\ Handshake'
<1> USE DEF ClientType, Handshake, LoopStep, clientVars, ensembleVars
<1>1. CASE ReadEvent
  BY <1>1 DEF ReadEvent, hpVars
<1>2. CASE ConnectNext
  <2>1. curr' # -1
    BY <1>2, FollowingMoves, FollowingStarts
       DEF ConnectNext, NextServer, TypeOK, Servers
  <2> QED BY <1>2, <2>1 DEF ConnectNext
<1>3. CASE RetryTimer \/ QuitWhileWaiting \/ DialFails \/ DialOk
  BY <1>3 DEF RetryTimer, QuitWhileWaiting, DialFails, DialOk, hpVars
<1>4. CASE AuthNew
  <2>1. lastZxid' <= applied'[curr']
    BY <1>4 DEF AuthNew, Welcome, Connected, Behind, ZxidSent, TypeOK
  <2> QED BY <1>4, <2>1
          DEF AuthNew, Welcome, Connected, NewPassword, Sessions
<1>5. CASE AuthKept
  <2>1. lastZxid' <= applied'[curr']
    BY <1>5 DEF AuthKept, Welcome, Connected, Behind, ZxidSent, TypeOK
  <2> QED BY <1>5, <2>1
          DEF AuthKept, Welcome, Connected, NewPassword, Sessions
<1>6. CASE AuthExpired
  BY <1>6 DEF AuthExpired, ZxidAfterExpiry, Sessions, hpVars
<1>7. CASE AuthFails
  <2>1. /\ UNCHANGED <<hpVars, clientVars, applied>> /\ lpc' = "disc"
        /\ lpc = "auth"
    BY <1>7 DEF AuthFails
  <2>2. CASE UNCHANGED <<alive, opened>>
    BY <2>1, <2>2 DEF hpVars
  <2>3. CASE /\ opened < MaxSessions
             /\ opened' = opened + 1 /\ alive' = alive \cup {opened + 1}
    <3>1. opened' \in Sessions /\ alive' \subseteq Sessions
      BY <2>3 DEF Sessions
    <3>2. sessionID <= opened' /\ \A s \in alive' : s <= opened'
      BY <2>3 DEF Sessions
    <3> QED BY <2>1, <3>1, <3>2 DEF hpVars
  <2> QED BY <1>7, <2>2, <2>3 DEF AuthFails
<1>8. CASE RecvReply
  <2>1. curr \in Servers /\ sessionID # 0
    BY <1>8 DEF RecvReply, UpStep, TypeOK, Sessions
  <2> QED BY <1>8, <2>1 DEF RecvReply, UpStep, hpVars
<1>9. CASE RecvWatchEvent \/ ConnectionGone \/ Disconnected
  BY <1>9 DEF RecvWatchEvent, UpStep, ConnectionGone, Disconnected, hpVars
<1>10. ASSUME NEW s \in Sessions, Expire(s) PROVE ClientType' /\ Handshake'
  BY <1>10 DEF Expire, EnsembleStep, hpVars
<1>11. ASSUME NEW s \in Servers, Apply(s) PROVE ClientType' /\ Handshake'
  <2>1. /\ applied' = [applied EXCEPT ![s] = @ + 1]
        /\ applied[s] < MaxZxid /\ applied[s] \in 1 .. MaxZxid
        /\ UNCHANGED <<hpVars, lpc, clientVars, alive, opened>>
    BY <1>11 DEF Apply, EnsembleStep
  <2>2. applied' \in [Servers -> 1 .. MaxZxid]
    BY <2>1
  <2>3. lpc' = "up" => lastZxid' <= applied'[curr']
    BY <2>1 DEF hpVars, TypeOK
  <2> QED BY <2>1, <2>2, <2>3 DEF hpVars
<1>12. CASE UNCHANGED sessionVars
  BY <1>12 DEF sessionVars, hpVars
<1> QED BY <1>1, <1>2, <1>3, <1>4, <1>5, <1>6, <1>7, <1>8, <1>9, <1>10,
           <1>11, <1>12 DEF SessionNext

LEMMA SessionStep ==
  SessionInv /\ [SessionNext]_sessionVars => SessionInv'
<1> SUFFICES ASSUME SessionInv, [SessionNext]_sessionVars PROVE SessionInv'
  OBVIOUS
<1>1. RotationInv' /\ TypeOK /\ TypeOK'
  BY RotationStep DEF SessionInv, RotationInv
<1>2. EventsType /\ ClientType /\ expiries \in Nat
  BY SessionTypeParts DEF SessionInv
<1>3. EventsType' /\ EventsInFlight'
  BY <1>2, EventsStep DEF SessionInv
<1>4. SocketsAccountedFor' /\ expiries' \in Nat /\ sockets' \in Nat
  BY <1>2, SocketsStep DEF SessionInv
<1>5. ClientType' /\ Handshake'
  BY <1>1, <1>2, HandshakeStep DEF SessionInv
<1>6. SessionType'
  BY <1>1, <1>3, <1>4, <1>5 DEF SessionType, EventsType, ClientType
<1> QED BY <1>1, <1>3, <1>4, <1>5, <1>6 DEF SessionInv

-----------------------------------------------------------------------------
(* The theorems. *)

LEMMA SessionInvariant == SessionSpec => []SessionInv
BY SessionInitInv, SessionStep, PTL DEF SessionSpec

\* The variables keep their types, and the number of events in c.eventChan
\* its bound, through every sequence of dials, handshakes and expiries.
THEOREM SessionTypeCorrect == SessionSpec => []SessionType
<1>1. SessionInv => SessionType
  BY DEF SessionInv
<1> QED BY <1>1, SessionInvariant, PTL

\* The loop drives the host provider as HostProvider describes it, so what is
\* proved of DNSHostProvider alone holds of it inside the connection loop.
THEOREM SessionDrivesHostProvider == SessionSpec => Spec
<1>1. SessionInit => Init
  BY DEF SessionInit
<1>2. SessionInv /\ [SessionNext]_sessionVars => [Next]_hpVars
  BY RotationStep DEF SessionInv
<1> QED BY <1>1, <1>2, SessionInvariant, PTL DEF SessionSpec, Spec

\* Every connection that was dialled is closed again before the next dial and
\* before the loop ends, except one for each expired session.
THEOREM SocketsClosed == SessionSpec => []SocketsAccountedFor
<1>1. SessionInv => SocketsAccountedFor
  BY DEF SessionInv
<1> QED BY <1>1, SessionInvariant, PTL

\* authenticate resets c.lastZxid when it learns that the session is gone, so
\* no server turns away a client that asks for a new session.
THEOREM NewSessionsWelcome == SessionSpec => []NewSessionWelcome
<1>1. SessionInv => NewSessionWelcome
  <2> SUFFICES ASSUME SessionInv, lpc = "auth", sessionID = 0 PROVE ~Behind
    BY DEF NewSessionWelcome
  <2>1. lastZxid = 0 /\ curr \in Servers
    BY DEF SessionInv, Handshake, SessionType, TypeOK
  <2> QED BY <2>1 DEF Behind, ZxidSent, SessionInv, SessionType
<1> QED BY <1>1, SessionInvariant, PTL

\* A user who has read every event, when none was dropped, knows the state of
\* the connection and has been told of every expiry.
THEOREM EventsComplete == SessionSpec => []EventsTellState
<1>1. SessionInv => EventsTellState
  <2> SUFFICES ASSUME SessionInv, eventChan = <<>>, ~dropped
               PROVE  told = state /\ expiriesTold = expiries
    BY DEF EventsTellState
  <2>1. Expiries(eventChan) = {}
    BY DEF Expiries
  <2>2. Cardinality(Expiries(eventChan)) = 0
    BY <2>1, FS_EmptySet
  <2> QED BY <2>2 DEF SessionInv, EventsInFlight, LastState, SessionType
<1> QED BY <1>1, SessionInvariant, PTL

\* recvLoop assigns c.lastZxid without comparing; the handshake, which turns
\* the client away from a server that lags behind it, makes that safe.
THEOREM ZxidMonotonic == SessionSpec => NeverGoesBack
<1>1. SessionInv /\ [SessionNext]_sessionVars
        => [sessionID # 0 /\ sessionID' = sessionID
              => lastZxid' >= lastZxid]_sessionVars
  <2> SUFFICES ASSUME SessionInv, SessionNext,
                      sessionID # 0, sessionID' = sessionID
               PROVE  lastZxid' >= lastZxid
    OBVIOUS
  <2>1. lastZxid \in Nat
    BY DEF SessionInv, SessionType
  <2>2. CASE RecvReply
    BY <2>2 DEF RecvReply, UpStep, SessionInv, Handshake, SessionType, TypeOK
  <2>3. CASE AuthExpired
    BY <2>3 DEF AuthExpired
  <2>4. CASE UNCHANGED lastZxid
    BY <2>1, <2>4
  <2>5. ~RecvReply /\ ~AuthExpired => UNCHANGED lastZxid
    BY DEF SessionNext, ReadEvent, ConnectNext, RetryTimer, QuitWhileWaiting,
           DialFails, DialOk, AuthNew, AuthKept, Welcome, AuthFails,
           RecvWatchEvent, ConnectionGone, Disconnected, Expire, Apply,
           EnsembleStep, clientVars
  <2> QED BY <2>2, <2>3, <2>4, <2>5
<1> QED BY <1>1, SessionInvariant, PTL DEF SessionSpec, NeverGoesBack

\* The client gives up no session that the ensemble still keeps for it.
THEOREM SessionIsKept == SessionSpec => SessionKept
<1>1. SessionInv /\ [SessionNext]_sessionVars
        => [(sessionID \in alive) => sessionID' = sessionID]_sessionVars
  <2> SUFFICES ASSUME SessionInv, SessionNext, sessionID \in alive
               PROVE  sessionID' = sessionID
    OBVIOUS
  <2>1. sessionID # 0 /\ passwd = sessionID
    BY DEF SessionInv, Handshake, SessionType, Sessions
  <2>2. ~AuthNew /\ ~AuthExpired
    BY <2>1 DEF AuthNew, AuthExpired, Known
  <2> QED BY <2>2
      DEF SessionNext, ReadEvent, ConnectNext, RetryTimer, QuitWhileWaiting,
          DialFails, DialOk, AuthKept, Welcome, AuthFails, RecvReply,
          RecvWatchEvent, ConnectionGone, Disconnected, Expire, Apply,
          EnsembleStep, clientVars
<1> QED BY <1>1, SessionInvariant, PTL DEF SessionSpec, SessionKept

=============================================================================
