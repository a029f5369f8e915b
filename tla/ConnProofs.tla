----------------------------- MODULE ConnProofs -----------------------------
(***************************************************************************)
(* Theorems about Conn, for any calls, servers, queue and failures: type   *)
(* correctness; the connections do not mix and never have two writers; and *)
(* nothing is left of the connection when the loop has ended.              *)
(***************************************************************************)
EXTENDS Conn, SequenceTheorems, TLAPS

\* What the loop and the goroutines of a connection keep among themselves: the
\* goroutines run only while the loop is past the handshake, the pending map is
\* empty while it looks for a connection, and whoever is inside sendData has a
\* request in hand.
Structure ==
  /\ spc \in {"reg", "write"} => sreq # NoReq
  /\ lpc \in ReauthPCs \ {"reauth"} => lreq # NoReq
  /\ lpc \notin UpPCs => spc = "off" /\ rpc = "off"
  /\ \A r \in Calls : pc[r] = "remember" => r \in AuthReqs
  /\ OneWriter
  /\ lpc \in DownPCs \cup {"exited"} => requests = {}
  /\ lpc \in FlushPCs \cup {"exited"} => state = "Disconnected"
  /\ lpc = "flushUnsent" /\ lerr = "ErrClosing" => state = "Disconnected"

ConnInv == TypeOK /\ Structure

Slots == [RIDs -> Answers \cup {Empty}]

-----------------------------------------------------------------------------
(* The host provider. *)

LEMMA HostsStay == HP!TypeOK /\ UNCHANGED hpVars => HP!TypeOK'
BY DEF HP!TypeOK, hpVars

LEMMA HostsMove == HP!TypeOK /\ HP!NextServer => HP!TypeOK'
<1> SUFFICES ASSUME HP!TypeOK, HP!NextServer PROVE HP!TypeOK'
  OBVIOUS
<1>1. NumServers \in Nat \ {0}
  BY ConnAssumption
<1>2. HP!Following \in HP!Servers
  BY <1>1 DEF HP!Following, HP!Servers, HP!TypeOK
<1>3. HP!RetryStartAt(HP!Following) \in BOOLEAN
  BY DEF HP!RetryStartAt
<1> QED
  BY <1>1, <1>2, <1>3
     DEF HP!NextServer, HP!TypeOK, HP!LastAfterNext, HP!Servers

LEMMA HostsConnected == HP!TypeOK /\ HP!Connected => HP!TypeOK'
BY DEF HP!TypeOK, HP!Connected, HP!Servers

-----------------------------------------------------------------------------
(* The shared pieces. *)

LEMMA CallsAreRIDs == Calls \subseteq RIDs /\ NoReq \notin RIDs
BY ConnAssumption DEF RIDs

LEMMA AnswerType ==
  ASSUME recvChan \in Slots, NEW r, NEW a \in Answers, Answer(r, a)
  PROVE  recvChan' \in Slots
BY DEF Answer, Slots

LEMMA CloseSockType ==
  ASSUME TypeOK, CloseSock
  PROVE  /\ sock' = "closed"
         /\ toServer' \in Seq(RIDs) /\ toClient' \in Seq(Packets)
         /\ served' \subseteq RIDs
         /\ authed' = authed
<1>1. toServer \in Seq(RIDs) /\ served \subseteq RIDs
  BY DEF TypeOK
<1>2. PICK n \in 0 .. Len(toServer) :
        served' = served \cup {toServer[i] : i \in 1 .. n}
  BY DEF CloseSock, ServerGotPrefix
<1>3. \A i \in 1 .. n : toServer[i] \in RIDs
  BY <1>1, <1>2, LenProperties
<1>4. served' \subseteq RIDs
  BY <1>1, <1>2, <1>3
<1> QED BY <1>4, EmptySeq DEF CloseSock

LEMMA WriteOkType ==
  ASSUME TypeOK, NEW r \in RIDs, WriteOk(r)
  PROVE  /\ sock' \in {"open", "broken"}
         /\ toServer' \in Seq(RIDs)
         /\ UNCHANGED <<toClient, authed, served>>
BY AppendProperties DEF TypeOK, WriteOk

LEMMA DequeueType ==
  ASSUME TypeOK, sendChan # <<>>, sendChan' = Tail(sendChan)
  PROVE  /\ Head(sendChan) \in Calls
         /\ sendChan' \in Seq(Calls) /\ Len(sendChan') <= SendChanSize
<1>1. sendChan \in Seq(Calls) /\ Len(sendChan) <= SendChanSize
  BY DEF TypeOK
<1>2. Len(sendChan) \in Nat /\ SendChanSize \in Nat
  BY <1>1, LenProperties, ConnAssumption
<1>3. /\ Head(sendChan) \in Calls
      /\ Tail(sendChan) \in Seq(Calls)
      /\ Len(Tail(sendChan)) = Len(sendChan) - 1
  BY <1>1, HeadTailProperties
<1> QED BY <1>1, <1>2, <1>3

-----------------------------------------------------------------------------
(* Type correctness: the initial state, and every step. *)

LEMMA InitInv == Init => ConnInv
<1> SUFFICES ASSUME Init PROVE ConnInv
  OBVIOUS
<1>1. HP!TypeOK
  BY DEF Init, HP!Init, HP!TypeOK
<1>2. /\ toServer \in Seq(RIDs) /\ toClient \in Seq(Packets)
      /\ sendChan \in Seq(Calls) /\ Len(sendChan) <= SendChanSize
      /\ creds \in Seq(AuthReqs)
  BY EmptySeq, ConnAssumption DEF Init
<1>3. /\ recvChan \in [RIDs -> Answers \cup {Empty}]
      /\ res \in [Calls -> Answers \cup {Empty}]
      /\ pc \in [Calls -> {"idle", "queueing", "waiting", "remember", "done",
                          "timedOut"}]
  BY DEF Init
<1>4. /\ lpc \in DownPCs /\ lerr \in Flushed /\ lreq = NoReq /\ ri = 1
      /\ spc = "off" /\ sreq = NoReq /\ rpc = "off" /\ sock = "none"
      /\ state = "Disconnected"
      /\ requests = {} /\ authed = {} /\ served = {}
      /\ faults \in 0 .. MaxFaults
  BY ConnAssumption DEF Init, DownPCs, Flushed
<1>5. closeChan \in BOOLEAN /\ quit \in BOOLEAN
  BY Zenon DEF Init
<1>6. TypeOK
  BY <1>1, <1>2, <1>3, <1>4, <1>5 DEF TypeOK
<1> QED
  BY <1>6 DEF ConnInv, Structure, Init, ReauthPCs, UpPCs, DownPCs, FlushPCs,
              OneWriter

LEMMA ConnectType ==
  ASSUME TypeOK,
         \/ ConnectNext \/ FlushUnsent \/ UnsentFlushed \/ RetryTimer
         \/ QuitWhileWaiting \/ DialFails \/ DialOk
  PROVE  TypeOK'
<1> USE DEF LoopStep, netVars, chanVars, sendVars, callVars, DownPCs, FlushPCs,
            Flushed
<1>1. CASE ConnectNext
  <2>1. HP!TypeOK'
    BY <1>1, HostsMove DEF TypeOK, ConnectNext
  <2> QED BY <1>1, <2>1 DEF TypeOK, ConnectNext
<1>2. CASE FlushUnsent
  <2>1. /\ Head(sendChan) \in Calls
        /\ sendChan' \in Seq(Calls) /\ Len(sendChan') <= SendChanSize
    BY <1>2, DequeueType DEF FlushUnsent
  <2>2. recvChan' \in Slots
    BY <1>2, AnswerType DEF FlushUnsent, TypeOK, Slots, Answers
  <2> QED BY <1>2, <2>1, <2>2, HostsStay DEF TypeOK, FlushUnsent, Slots
<1>3. CASE UnsentFlushed \/ RetryTimer \/ DialFails
  BY <1>3, HostsStay DEF TypeOK, UnsentFlushed, RetryTimer, DialFails
<1>4. CASE QuitWhileWaiting
  BY <1>4, HostsStay DEF TypeOK, QuitWhileWaiting, QuitState
<1>5. CASE DialOk
  <2>1. /\ toServer' \in Seq(RIDs) /\ toClient' \in Seq(Packets)
        /\ authed' \subseteq AuthReqs
    BY <1>5, EmptySeq DEF DialOk
  <2>2. /\ lpc' = "auth" /\ state' = "Connected" /\ sock' = "open"
        /\ UNCHANGED <<hpVars, lerr, lreq, ri, closeChan, sendVars, rpc,
                       served, chanVars, callVars, faults>>
    BY <1>5 DEF DialOk
  <2> QED BY <2>1, <2>2, HostsStay DEF TypeOK
<1> QED BY <1>1, <1>2, <1>3, <1>4, <1>5

LEMMA AuthType ==
  ASSUME TypeOK, AuthOk \/ AuthExpired \/ AuthFails
  PROVE  TypeOK'
<1> USE DEF LoopStep, netVars, chanVars, sendVars, callVars, Flushed
<1>1. CASE AuthOk
  <2>1. HP!TypeOK'
    BY <1>1, HostsConnected DEF TypeOK, AuthOk
  <2>2. closeChan' \in BOOLEAN
    BY <1>1, Zenon DEF AuthOk
  <2>3. /\ lpc' = "reauth" /\ ri' = 1 /\ state' = "HasSession"
        /\ spc' = "waitReauth" /\ rpc' = "read"
        /\ UNCHANGED <<lerr, lreq, sreq, netVars, chanVars, callVars, faults>>
    BY <1>1 DEF AuthOk, SenderStarts
  <2> QED BY <2>1, <2>2, <2>3 DEF TypeOK, UpPCs, ReauthPCs
<1>2. CASE AuthExpired
  BY <1>2, HostsStay DEF TypeOK, AuthExpired
<1>3. CASE AuthFails
  <2>1. CloseSock
    BY <1>3 DEF AuthFails
  <2> QED BY <1>3, <2>1, CloseSockType, HostsStay DEF TypeOK, AuthFails
<1> QED BY <1>1, <1>2, <1>3

\* resendZkAuth.  In sendData it has a request in hand, see Structure.
LEMMA ReauthType ==
  ASSUME ConnInv,
         \/ ReauthEnds \/ ReauthRequest \/ ReauthRefused \/ ReauthRegister
         \/ ReauthWrite \/ ReauthWriteFails \/ ReauthWriteClosed
         \/ ReauthAnswered \/ ReauthCancelled
  PROVE  TypeOK'
<1> USE DEF ReauthAt, ReauthGoes, ReauthContinues, ReauthReturns, netVars,
            callVars, UpPCs, ReauthPCs
<1>1. TypeOK /\ NoReq \in RIDs \cup {NoReq}
  BY DEF ConnInv
<1>2. CASE ReauthEnds \/ ReauthCancelled \/ ReauthWriteClosed
  BY <1>1, <1>2, HostsStay
     DEF TypeOK, ReauthEnds, ReauthCancelled, ReauthWriteClosed
<1>3. CASE ReauthRequest
  <2>1. ri \in 1 .. Len(creds) /\ creds \in Seq(AuthReqs)
    BY <1>1, <1>3, LenProperties DEF TypeOK, ReauthRequest
  <2>2. creds[ri] \in AuthReqs
    BY <2>1, LenProperties
  <2>3. lreq' \in RIDs
    BY <1>3, <2>2 DEF ReauthRequest, RIDs
  <2>4. recvChan' \in Slots
    BY <1>1, <1>3 DEF TypeOK, ReauthRequest, Slots
  <2> QED BY <1>1, <1>3, <2>3, <2>4, HostsStay DEF TypeOK, ReauthRequest, Slots
<1>4. CASE ReauthRefused
  <2>1. recvChan' \in Slots
    BY <1>1, <1>4, AnswerType
       DEF TypeOK, ReauthRefused, Slots, Answers, Flushed
  <2> QED BY <1>1, <1>4, <2>1, HostsStay DEF TypeOK, ReauthRefused, Slots
<1>5. CASE ReauthRegister
  <2>1. lreq \in RIDs
    BY <1>5 DEF ConnInv, Structure, TypeOK, ReauthRegister
  <2> QED BY <1>1, <1>5, <2>1, HostsStay DEF TypeOK, ReauthRegister
<1>6. CASE ReauthWrite
  <2>1. lreq \in RIDs
    BY <1>6 DEF ConnInv, Structure, TypeOK, ReauthWrite
  <2>2. /\ sock' \in {"open", "broken"}
        /\ toServer' \in Seq(RIDs)
        /\ UNCHANGED <<toClient, authed, served>>
    BY <1>1, <1>6, <2>1, WriteOkType DEF ReauthWrite
  <2> QED BY <1>1, <1>6, <2>2, HostsStay DEF TypeOK, ReauthWrite
<1>7. CASE ReauthWriteFails
  <2>1. CloseSock /\ Answer(lreq, "writeErr")
    BY <1>7 DEF ReauthWriteFails, WriteFails
  <2>2. recvChan' \in Slots
    BY <1>1, <2>1, AnswerType DEF TypeOK, Slots, Answers, Unsent
  <2>3. /\ lpc' = "reauth" /\ lreq' = NoReq /\ ri' = ri + 1
        /\ UNCHANGED <<hpVars, lerr, state, rpc, spc, sreq, closeChan, sendChan,
                       callVars, faults, requests>>
    BY <1>7 DEF ReauthWriteFails
  <2> QED BY <1>1, <2>1, <2>2, <2>3, CloseSockType, HostsStay DEF TypeOK, Slots
<1>8. CASE ReauthAnswered
  <2>1. recvChan' \in Slots
    BY <1>1, <1>8 DEF TypeOK, ReauthAnswered, Slots
  <2> QED BY <1>1, <1>8, <2>1, HostsStay DEF TypeOK, ReauthAnswered, Slots
<1> QED BY <1>2, <1>3, <1>4, <1>5, <1>6, <1>7, <1>8

LEMMA SendType ==
  ASSUME ConnInv, SendLoop
  PROVE  TypeOK'
<1> USE DEF SendStep, loopVars, netVars, chanVars, callVars
<1>1. TypeOK /\ recvChan \in Slots
  BY DEF ConnInv, TypeOK, Slots
<1>2. CASE SendTooLarge
  <2>1. /\ Head(sendChan) \in Calls
        /\ sendChan' \in Seq(Calls) /\ Len(sendChan') <= SendChanSize
    BY <1>1, <1>2, DequeueType DEF SendTooLarge
  <2>2. recvChan' \in Slots
    BY <1>1, <1>2, AnswerType DEF SendTooLarge, Answers, Unsent
  <2> QED BY <1>1, <1>2, <2>1, <2>2, HostsStay DEF TypeOK, SendTooLarge, Slots
<1>3. CASE SendTake
  <2>1. /\ Head(sendChan) \in Calls
        /\ sendChan' \in Seq(Calls) /\ Len(sendChan') <= SendChanSize
    BY <1>1, <1>3, DequeueType DEF SendTake, TakenFromQueue
  <2> QED BY <1>1, <1>3, <2>1, HostsStay DEF TypeOK, SendTake
<1>4. CASE SendRefused
  <2>1. recvChan' \in Slots
    BY <1>1, <1>4, AnswerType DEF SendRefused, Answers, Flushed
  <2> QED BY <1>1, <1>4, <2>1, HostsStay DEF TypeOK, SendRefused, Slots
<1>5. CASE SendRegister
  <2>1. sreq \in RIDs
    BY <1>5, CallsAreRIDs DEF ConnInv, Structure, TypeOK, SendRegister
  <2> QED BY <1>1, <1>5, <2>1, HostsStay DEF TypeOK, SendRegister, Registered
<1>6. CASE SendWrite
  <2>1. sreq \in RIDs
    BY <1>6, CallsAreRIDs DEF ConnInv, Structure, TypeOK, SendWrite
  <2>2. /\ sock' \in {"open", "broken"}
        /\ toServer' \in Seq(RIDs)
        /\ UNCHANGED <<toClient, authed, served>>
    BY <1>1, <1>6, <2>1, WriteOkType DEF SendWrite
  <2> QED BY <1>1, <1>6, <2>2, HostsStay DEF TypeOK, SendWrite
<1>7. CASE SendWriteFails
  <2>1. CloseSock /\ Answer(sreq, "writeErr")
    BY <1>7 DEF SendWriteFails, WriteFails
  <2>2. recvChan' \in Slots
    BY <1>1, <2>1, AnswerType DEF Answers, Unsent
  <2>3. /\ spc' = "exit" /\ sreq' = NoReq
        /\ UNCHANGED <<hpVars, loopVars, rpc, closeChan, callVars, faults,
                       sendChan, requests>>
    BY <1>7 DEF SendWriteFails
  <2> QED BY <1>1, <2>1, <2>2, <2>3, CloseSockType, HostsStay DEF TypeOK, Slots
<1>8. CASE SendWriteClosed \/ SendStops
  BY <1>1, <1>8, HostsStay DEF TypeOK, SendWriteClosed, SendStops
<1>9. CASE PingFails \/ SendExit
  <2>1. CloseSock
    BY <1>9 DEF PingFails, SendExit
  <2>2. /\ spc' \in {"exit", "off"}
        /\ UNCHANGED <<hpVars, loopVars, rpc, closeChan, callVars, faults,
                       sreq, chanVars>>
    BY <1>9 DEF PingFails, SendExit
  <2> QED BY <1>1, <2>1, <2>2, CloseSockType, HostsStay DEF TypeOK
<1> QED BY <1>2, <1>3, <1>4, <1>5, <1>6, <1>7, <1>8, <1>9 DEF SendLoop

LEMMA RecvType ==
  ASSUME TypeOK, RecvLoop \/ RecvGivesUp
  PROVE  TypeOK'
<1> USE DEF RecvStep, loopVars, sendVars, netVars, callVars
<1>1. CASE RecvReply
  <2> DEFINE m == Head(toClient)
  <2>1. toClient # <<>> /\ toClient \in Seq(Packets)
    BY <1>1 DEF RecvReply, TypeOK
  <2>2. m \in Packets /\ Tail(toClient) \in Seq(Packets)
    BY <2>1, HeadTailProperties
  <2>3. m.ans \in Answers
    BY <2>2 DEF Packets, Answers
  <2>4. /\ requests' \subseteq RIDs
        /\ rpc' \in {"read", "exit"}
        /\ recvChan' \in Slots
    <3>1. recvChan \in Slots /\ requests \subseteq RIDs /\ rpc = "read"
      BY <1>1 DEF TypeOK, Slots, RecvReply
    <3>2. CASE m.req \in requests
      <4>1. Answer(m.req, m.ans)
        BY <1>1, <3>2 DEF RecvReply
      <4>2. recvChan' \in Slots
        BY <3>1, <4>1, <2>3, AnswerType
      <4> QED BY <1>1, <3>1, <3>2, <4>2 DEF RecvReply
    <3>3. CASE m.req \notin requests
      BY <1>1, <3>1, <3>3 DEF RecvReply
    <3> QED BY <3>2, <3>3
  <2>5. /\ toClient' \in Seq(Packets)
        /\ UNCHANGED <<hpVars, loopVars, sendVars, sendChan, callVars, sock,
                       toServer, authed, served, closeChan, faults>>
    BY <1>1, <2>2 DEF RecvReply
  <2> QED BY <2>4, <2>5, HostsStay DEF TypeOK, Slots
<1>2. CASE RecvFails
  BY <1>2, HostsStay DEF TypeOK, RecvFails
<1>3. CASE RecvGivesUp
  BY <1>3, HostsStay, ConnAssumption DEF TypeOK, RecvGivesUp
<1>4. CASE RecvExit
  <2>1. closeChan' \in BOOLEAN
    BY <1>4, Zenon DEF RecvExit
  <2>2. /\ rpc' = "off"
        /\ UNCHANGED <<hpVars, loopVars, sendVars, sendChan, callVars, netVars,
                       requests, recvChan, faults>>
    BY <1>4 DEF RecvExit
  <2> QED BY <2>1, <2>2, HostsStay DEF TypeOK
<1> QED BY <1>1, <1>2, <1>3, <1>4 DEF RecvLoop

LEMMA FlushType ==
  ASSUME TypeOK,
         ConnectionGone \/ Disconnected \/ FlushPick \/ FlushSend \/ FlushEnd
  PROVE  TypeOK'
<1> USE DEF LoopStep, netVars, chanVars, sendVars, callVars, Flushed, FlushPCs,
            DownPCs
<1>1. CASE ConnectionGone
  BY <1>1, HostsStay DEF TypeOK, ConnectionGone, LostError
<1>2. CASE Disconnected
  BY <1>2, HostsStay DEF TypeOK, Disconnected
<1>3. CASE FlushPick
  BY <1>3, HostsStay DEF TypeOK, FlushPick
<1>4. CASE FlushSend
  <2>1. recvChan' \in Slots
    BY <1>4, AnswerType DEF TypeOK, FlushSend, Slots, Answers
  <2> QED BY <1>4, <2>1, HostsStay DEF TypeOK, FlushSend, Slots
<1>5. CASE FlushEnd
  BY <1>5, HostsStay DEF TypeOK, FlushEnd, AfterFlush
<1> QED BY <1>1, <1>2, <1>3, <1>4, <1>5

\* A call moves on; what it does to the channels is left to the lemmas below.
Progress == [Calls -> {"idle", "queueing", "waiting", "remember", "done",
                       "timedOut"}]

LEMMA CallStepType ==
  ASSUME TypeOK, NEW r, NEW from,
         NEW to \in {"queueing", "waiting", "remember", "done", "timedOut"},
         CallStep(r, from, to)
  PROVE  /\ pc' \in Progress
         /\ UNCHANGED <<hpVars, loopVars, sendVars, rpc, netVars, closeChan,
                        requests, faults>>
BY DEF TypeOK, CallStep, Progress

LEMMA ApiType ==
  ASSUME ConnInv,
         \/ \E r \in Reqs : Call(r)
         \/ \E r \in Calls : Api(r)
         \/ Close \/ CloseGivesUp
  PROVE  TypeOK'
<1> USE DEF loopVars, sendVars, netVars
<1>0. TypeOK
  BY DEF ConnInv
<1>1. ASSUME NEW r \in Reqs, Call(r) PROVE TypeOK'
  <2>1. pc' \in Progress /\ UNCHANGED <<hpVars, loopVars, sendVars, rpc, netVars,
                                        closeChan, requests, faults>>
    BY <1>0, <1>1, CallStepType DEF Call
  <2> QED BY <1>0, <1>1, <2>1, HostsStay DEF TypeOK, Call, Progress
<1>2. CASE Close
  <2>1. pc' \in Progress /\ UNCHANGED <<hpVars, loopVars, sendVars, rpc, netVars,
                                        closeChan, requests, faults>>
    BY <1>0, <1>2, CallStepType DEF Close
  <2>2. quit' \in BOOLEAN
    BY <1>2, Zenon DEF Close
  <2>3. UNCHANGED <<res, creds, sendChan, recvChan>>
    BY <1>2 DEF Close
  <2> QED BY <1>0, <2>1, <2>2, <2>3, HostsStay DEF TypeOK, Progress
<1>3. CASE CloseGivesUp
  <2>1. pc' \in Progress /\ UNCHANGED <<hpVars, loopVars, sendVars, rpc, netVars,
                                        closeChan, requests, faults>>
    BY <1>0, <1>3, CallStepType DEF CloseGivesUp
  <2>2. UNCHANGED <<res, quit, creds, sendChan, recvChan>>
    BY <1>3 DEF CloseGivesUp
  <2> QED BY <1>0, <2>1, <2>2, HostsStay DEF TypeOK, Progress
<1>4. ASSUME NEW r \in Calls, Queue(r) PROVE TypeOK'
  <2>1. pc' \in Progress /\ UNCHANGED <<hpVars, loopVars, sendVars, rpc, netVars,
                                        closeChan, requests, faults>>
    BY <1>0, <1>4, CallStepType DEF Queue
  <2>2. sendChan \in Seq(Calls) /\ SendChanSize \in Nat
    BY <1>0, ConnAssumption DEF TypeOK
  <2>3. Len(sendChan) \in Nat /\ Len(sendChan) < SendChanSize
    BY <1>4, <2>2, LenProperties DEF Queue, SendChanHasRoom
  <2>4. sendChan' \in Seq(Calls) /\ Len(sendChan') = Len(sendChan) + 1
    BY <1>4, <2>2, AppendProperties DEF Queue
  <2>5. Len(sendChan') <= SendChanSize
    BY <2>2, <2>3, <2>4
  <2>6. UNCHANGED <<res, quit, creds, recvChan>>
    BY <1>4 DEF Queue
  <2> QED BY <1>0, <2>1, <2>4, <2>5, <2>6, HostsStay DEF TypeOK, Progress
<1>5. ASSUME NEW r \in Calls, Receive(r) PROVE TypeOK'
  <2>1. pc' \in Progress /\ UNCHANGED <<hpVars, loopVars, sendVars, rpc, netVars,
                                        closeChan, requests, faults>>
    BY <1>0, <1>5, CallStepType DEF Receive
  <2>2. recvChan[r] \in Answers \cup {Empty}
    BY <1>0, CallsAreRIDs DEF TypeOK
  <2>3. /\ recvChan' \in Slots
        /\ res' \in [Calls -> Answers \cup {Empty}]
    BY <1>0, <1>5, <2>2 DEF TypeOK, Receive, Slots
  <2>4. UNCHANGED <<quit, creds, sendChan>>
    BY <1>5 DEF Receive
  <2> QED BY <1>0, <2>1, <2>3, <2>4, HostsStay DEF TypeOK, Slots, Progress
<1>6. ASSUME NEW r \in Calls, Remember(r) PROVE TypeOK'
  <2>1. pc' \in Progress /\ UNCHANGED <<hpVars, loopVars, sendVars, rpc, netVars,
                                        closeChan, requests, faults>>
    BY <1>0, <1>6, CallStepType DEF Remember
  <2>2. r \in AuthReqs
    BY <1>6 DEF ConnInv, Structure, Remember, CallStep
  <2>3. creds' \in Seq(AuthReqs)
    BY <1>0, <1>6, <2>2, AppendProperties DEF TypeOK, Remember
  <2>4. UNCHANGED <<res, quit, sendChan, recvChan>>
    BY <1>6 DEF Remember
  <2> QED BY <1>0, <2>1, <2>3, <2>4, HostsStay DEF TypeOK, Progress
<1> QED BY <1>1, <1>2, <1>3, <1>4, <1>5, <1>6 DEF Api

LEMMA NetType ==
  ASSUME TypeOK, Serve \/ RefuseCredential \/ Break
  PROVE  TypeOK'
<1> USE DEF NetStep, loopVars, sendVars, chanVars, callVars
<1>1. CASE Serve
  <2> DEFINE r == Head(toServer)
  <2>1. toServer # <<>> /\ toServer \in Seq(RIDs)
    BY <1>1 DEF Serve, TypeOK
  <2>2. r \in RIDs /\ Tail(toServer) \in Seq(RIDs)
    BY <2>1, HeadTailProperties
  <2>3. PICK a \in Replies :
          /\ toClient' = Append(toClient, [req |-> r, ans |-> a])
          /\ authed' = authed \cup {c \in AuthReqs : a = "nil"
                                              /\ r \in {c, Reauth(c)}}
          /\ served' = served \cup {r}
    BY <1>1 DEF Serve, Replies
  <2>4. [req |-> r, ans |-> a] \in Packets
    BY <2>2, <2>3 DEF Packets
  <2>5. toClient' \in Seq(Packets)
    BY <2>3, <2>4, AppendProperties DEF TypeOK
  <2>6. authed' \subseteq AuthReqs /\ served' \subseteq RIDs
    BY <2>2, <2>3 DEF TypeOK
  <2>7. /\ toServer' = Tail(toServer)
        /\ UNCHANGED <<hpVars, loopVars, sendVars, rpc, closeChan, chanVars,
                       callVars, sock, faults>>
    BY <1>1 DEF Serve
  <2> QED BY <2>2, <2>5, <2>6, <2>7, HostsStay DEF TypeOK
<1>2. CASE Break
  <2>1. served' \subseteq RIDs
    <3>1. toServer \in Seq(RIDs) /\ served \subseteq RIDs
      BY DEF TypeOK
    <3>2. PICK n \in 0 .. Len(toServer) :
            served' = served \cup {toServer[i] : i \in 1 .. n}
      BY <1>2 DEF Break, ServerGotPrefix
    <3>3. \A i \in 1 .. n : toServer[i] \in RIDs
      BY <3>1, <3>2, LenProperties
    <3> QED BY <3>1, <3>2, <3>3
  <2>2. toServer' \in Seq(RIDs)
    BY <1>2, EmptySeq DEF Break
  <2>3. /\ sock' = "broken" /\ faults < MaxFaults /\ faults' = faults + 1
        /\ UNCHANGED <<hpVars, loopVars, sendVars, rpc, closeChan, chanVars,
                       callVars, toClient, authed>>
    BY <1>2 DEF Break
  <2> QED BY <2>1, <2>2, <2>3, HostsStay, ConnAssumption DEF TypeOK
<1>3. CASE RefuseCredential
  <2> DEFINE r == Head(toServer)
  <2>1. r \in RIDs /\ toServer' \in Seq(RIDs)
    BY <1>3, EmptySeq DEF RefuseCredential
  <2>2. [req |-> r, ans |-> "zkErr"] \in Packets
    BY <2>1 DEF Packets, Replies
  <2>3. /\ toClient' = Append(toClient, [req |-> r, ans |-> "zkErr"])
        /\ served' = served \cup {r} /\ sock' = "broken"
        /\ UNCHANGED <<hpVars, loopVars, sendVars, rpc, closeChan, chanVars,
                       callVars, authed, faults>>
    BY <1>3 DEF RefuseCredential
  <2>4. toClient' \in Seq(Packets) /\ served' \subseteq RIDs
    BY <2>1, <2>2, <2>3, AppendProperties DEF TypeOK
  <2> QED BY <2>1, <2>3, <2>4, HostsStay DEF TypeOK
<1> QED BY <1>1, <1>2, <1>3

-----------------------------------------------------------------------------
(* Every step keeps the structure. *)

LEMMA LoopStructure ==
  ASSUME ConnInv, Loop
  PROVE  Structure'
<1> USE DEF Structure, OneWriter, UpPCs, ReauthPCs, DownPCs, FlushPCs, LoopStep,
            sendVars, callVars, chanVars
<1>1. Structure
  BY DEF ConnInv
<1>2. CASE ConnectNext \/ RetryTimer \/ DialFails \/ DialOk \/ FlushUnsent
  BY <1>1, <1>2 DEF ConnectNext, RetryTimer, DialFails, DialOk, FlushUnsent
<1>3. CASE UnsentFlushed \/ QuitWhileWaiting
  BY <1>1, <1>3 DEF UnsentFlushed, QuitWhileWaiting, QuitState
<1>4. CASE AuthOk
  BY <1>1, <1>4 DEF AuthOk, SenderStarts
<1>5. CASE AuthExpired \/ AuthFails
  BY <1>1, <1>5 DEF AuthExpired, AuthFails
<1>6. CASE \/ ReauthEnds \/ ReauthRefused \/ ReauthRegister \/ ReauthWrite
           \/ ReauthWriteFails \/ ReauthWriteClosed \/ ReauthAnswered
           \/ ReauthCancelled
  BY <1>1, <1>6
     DEF ReauthAt, ReauthGoes, ReauthContinues, ReauthReturns, ReauthEnds,
         ReauthRefused, ReauthRegister, ReauthWrite, ReauthWriteFails,
         ReauthWriteClosed, ReauthAnswered, ReauthCancelled
<1>7. CASE ReauthRequest
  <2>1. ri \in 1 .. Len(creds) /\ creds \in Seq(AuthReqs)
    BY <1>7, LenProperties DEF ConnInv, TypeOK, ReauthRequest, ReauthAt
  <2>2. lreq' \in RIDs
    BY <1>7, <2>1, LenProperties DEF ReauthRequest, RIDs
  <2> QED BY <1>1, <1>7, <2>2, CallsAreRIDs DEF ReauthRequest, ReauthAt
<1>8. CASE ConnectionGone \/ Disconnected
  BY <1>1, <1>8 DEF ConnectionGone, Disconnected, GoroutinesGone
<1>9. CASE FlushPick \/ FlushSend \/ FlushEnd
  BY <1>1, <1>9 DEF FlushPick, FlushSend, FlushEnd, AfterFlush
<1> QED BY <1>2, <1>3, <1>4, <1>5, <1>6, <1>7, <1>8, <1>9 DEF Loop

LEMMA GoroutinesStructure ==
  ASSUME ConnInv, SendLoop \/ RecvLoop \/ RecvGivesUp
  PROVE  Structure'
<1> USE DEF Structure, OneWriter, UpPCs, ReauthPCs, DownPCs, FlushPCs, SendStep,
            RecvStep, loopVars, sendVars, callVars, chanVars
<1>1. Structure
  BY DEF ConnInv
<1>2. CASE SendTake
  <2>1. Head(sendChan) \in Calls
    BY <1>2, HeadTailProperties DEF ConnInv, TypeOK, SendTake
  <2> QED BY <1>1, <1>2, <2>1, CallsAreRIDs DEF SendTake
<1>3. CASE \/ SendTooLarge \/ SendRefused \/ SendRegister
           \/ SendWrite \/ SendWriteFails \/ SendWriteClosed
           \/ PingFails \/ SendStops \/ SendExit
  BY <1>1, <1>3
     DEF SendTooLarge, SendRefused, SendRegister, SendWrite, SendWriteFails,
         SendWriteClosed, PingFails, SendStops, SendExit
<1>4. CASE RecvLoop \/ RecvGivesUp
  BY <1>1, <1>4 DEF RecvLoop, RecvReply, RecvFails, RecvGivesUp, RecvExit
<1> QED BY <1>2, <1>3, <1>4 DEF SendLoop

LEMMA OthersStructure ==
  ASSUME ConnInv,
         \/ \E r \in Reqs : Call(r)
         \/ \E r \in Calls : Api(r)
         \/ Close \/ CloseGivesUp \/ Serve \/ RefuseCredential \/ Break
  PROVE  Structure'
<1> USE DEF Structure, OneWriter, loopVars, sendVars, callVars, chanVars
<1>1. Structure
  BY DEF ConnInv
<1>2. CASE Serve \/ RefuseCredential \/ Break
  BY <1>1, <1>2 DEF Serve, RefuseCredential, Break, NetStep
<1>3. ASSUME NEW r \in Calls, Call(r) \/ Queue(r) \/ Receive(r) \/ Remember(r)
      PROVE  Structure'
  BY <1>1, <1>3 DEF ConnInv, TypeOK, CallStep, Call, Queue, Receive, Remember
<1>4. CASE Close \/ CloseGivesUp
  BY <1>1, <1>4 DEF ConnInv, TypeOK, CallStep, Close, CloseGivesUp
<1> QED BY <1>2, <1>3, <1>4 DEF Api, Calls

LEMMA StutterInv == ConnInv /\ UNCHANGED vars => ConnInv'
BY HostsStay DEF ConnInv, TypeOK, Structure, OneWriter, vars, loopVars,
   sendVars, netVars, chanVars, callVars

\* No step of any goroutine, of a caller, of the server or of the network breaks
\* the invariant.
THEOREM Invariance == Spec => []ConnInv
<1>1. ConnInv /\ [Next]_vars => ConnInv'
  <2> SUFFICES ASSUME ConnInv, [Next]_vars PROVE ConnInv'
    OBVIOUS
  <2>1. CASE Loop
    BY <2>1, ConnectType, AuthType, ReauthType, FlushType, LoopStructure
       DEF Loop, ConnInv
  <2>2. CASE SendLoop \/ RecvLoop \/ RecvGivesUp
    BY <2>2, SendType, RecvType, GoroutinesStructure DEF ConnInv
  <2>3. CASE \/ \E r \in Reqs : Call(r)
             \/ \E r \in Calls : Api(r)
             \/ Close \/ CloseGivesUp
    BY <2>3, ApiType, OthersStructure DEF ConnInv
  <2>4. CASE Serve \/ RefuseCredential \/ Break
    BY <2>4, NetType, OthersStructure DEF ConnInv
  <2>5. CASE UNCHANGED vars
    BY <2>5, StutterInv
  <2> QED BY <2>1, <2>2, <2>3, <2>4, <2>5 DEF Next
<1> QED BY <1>1, InitInv, PTL DEF Spec

-----------------------------------------------------------------------------
(* What the runs check on small instances. *)

\* Every variable of the client keeps its type.
THEOREM TypeCorrect == Spec => []TypeOK
<1>1. ConnInv => TypeOK
  BY DEF ConnInv
<1> QED BY <1>1, Invariance, PTL

\* resendZkAuth and the send loop never write at the same time, however often
\* the connection is lost.
THEOREM SingleWriter == Spec => []OneWriter
<1>1. ConnInv => OneWriter
  BY DEF ConnInv, Structure
<1> QED BY <1>1, Invariance, PTL

\* When the loop looks for a connection no goroutine and no pending request of
\* the last one is left.
THEOREM FreshConnections == Spec => []ConnectionsDoNotMix
<1>1. ConnInv => ConnectionsDoNotMix
  BY DEF ConnInv, Structure, ConnectionsDoNotMix, DownPCs, UpPCs, ReauthPCs
<1> QED BY <1>1, Invariance, PTL

\* When eventChan is closed the goroutines are gone, nothing is pending and the
\* state is StateDisconnected.
THEOREM ExitIsClean == Spec => []CleanExit
<1>1. ConnInv => CleanExit
  BY DEF ConnInv, Structure, CleanExit, UpPCs, ReauthPCs
<1> QED BY <1>1, Invariance, PTL

-----------------------------------------------------------------------------
(* The host provider inside the connection loop. *)

LEMMA HostsStep == [Next]_vars => [HP!Next]_(HP!hpVars)
<1> SUFFICES ASSUME [Next]_vars PROVE HP!NextServer \/ HP!Connected \/ UNCHANGED hpVars
  BY DEF HP!Next, hpVars, HP!hpVars
<1>1. CASE Loop
  BY <1>1 DEF Loop, ConnectNext, FlushUnsent, UnsentFlushed, RetryTimer,
     QuitWhileWaiting, DialFails, DialOk, AuthOk, AuthExpired, AuthFails,
     ReauthAt, ReauthEnds, ReauthRequest, ReauthRefused, ReauthRegister,
     ReauthWrite, ReauthWriteFails, ReauthWriteClosed, ReauthAnswered,
     ReauthCancelled, ConnectionGone, Disconnected, FlushPick, FlushSend, FlushEnd
<1>2. CASE SendLoop \/ RecvLoop \/ RecvGivesUp
  BY <1>2 DEF SendLoop, SendStep, SendTooLarge, SendTake, SendRefused,
     SendRegister, SendWrite, SendWriteFails, SendWriteClosed, PingFails,
     SendStops, SendExit, RecvLoop, RecvStep, RecvReply, RecvFails, RecvExit,
     RecvGivesUp
<1>3. CASE \/ \E r \in Reqs : Call(r)
           \/ \E r \in Calls : Api(r)
           \/ Close \/ CloseGivesUp \/ Serve \/ RefuseCredential \/ Break
  BY <1>3 DEF Api, Call, Queue, Receive, Remember, Close, CloseGivesUp, CallStep,
     Serve, RefuseCredential, Break, NetStep
<1>4. CASE UNCHANGED vars
  BY <1>4 DEF vars
<1> QED BY <1>1, <1>2, <1>3, <1>4 DEF Next

Rotating == INSTANCE HostProviderProofs

\* connect() and loop() drive the host provider as module HostProvider says, so
\* what DNSHostProvider promises holds of it with the whole client around it: no
\* more than NumServers servers are dialled in vain before connect() answers the
\* unsent requests, pauses and looks at shouldQuit, and it does so only after it
\* has been given every server.
THEOREM ConnRotates ==
  Spec => HP!Spec /\ []HP!RoundIsBounded /\ HP!RetryStartAfterFullRound
<1>1. Init => HP!Init
  BY DEF Init
<1>2. Spec => HP!Spec
  BY <1>1, HostsStep, PTL DEF Spec, HP!Spec
<1>3. HP!Spec => Rotating!Spec
  <2>1. HP!Init => Rotating!Init
    BY DEF HP!Init, Rotating!Init
  <2>2. [HP!Next]_(HP!hpVars) => [Rotating!Next]_(Rotating!hpVars)
    BY DEF HP!Next, HP!hpVars, HP!NextServer, HP!Connected, HP!Following,
       HP!RetryStartAt, HP!LastAfterNext, Rotating!Next, Rotating!hpVars,
       Rotating!NextServer, Rotating!Connected, Rotating!Following,
       Rotating!RetryStartAt, Rotating!LastAfterNext
  <2>3. QED  BY <2>1, <2>2, PTL DEF HP!Spec, Rotating!Spec
<1>4. Rotating!NumServersAssumption
  BY ConnAssumption DEF Rotating!NumServersAssumption
<1>5. Rotating!Spec => []Rotating!RoundIsBounded
  BY <1>4, Rotating!BoundedRound
<1>6. Rotating!Spec => Rotating!RetryStartAfterFullRound
  BY <1>4, Rotating!FullRound
<1>7. Rotating!RoundIsBounded => HP!RoundIsBounded
  BY DEF Rotating!RoundIsBounded, HP!RoundIsBounded
<1>8. [Rotating!NextServer /\ retryStart' => handedOut' = Rotating!Servers]_(Rotating!hpVars)
        => [HP!NextServer /\ retryStart' => handedOut' = HP!Servers]_(HP!hpVars)
  BY DEF HP!hpVars, HP!NextServer, HP!Servers, HP!Following, HP!RetryStartAt,
     HP!LastAfterNext, Rotating!hpVars, Rotating!NextServer, Rotating!Servers,
     Rotating!Following, Rotating!RetryStartAt, Rotating!LastAfterNext
<1>9. QED  BY <1>2, <1>3, <1>5, <1>6, <1>7, <1>8, PTL
           DEF HP!RetryStartAfterFullRound, Rotating!RetryStartAfterFullRound

=============================================================================
