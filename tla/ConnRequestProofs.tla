-------------------------- MODULE ConnRequestProofs --------------------------
(***************************************************************************)
(* What becomes of a request: theorems about Conn for any calls, servers,  *)
(* queue and failures.  A call's request is in one place at a time on its  *)
(* way to the server, is answered, and what the call returns is true.      *)
(***************************************************************************)
EXTENDS ConnProofs

Elems(s) == {s[i] : i \in 1 .. Len(s)}

\* The elements of S are in s at most once.
OnceIn(s, S) ==
  \A i, j \in 1 .. Len(s) : i # j /\ s[i] \in S => s[i] # s[j]

Wire == Elems(toServer)

NotDone == Unsent \cup {"ErrNoServer"}

\* The call has not queued its request yet.
Fresh(r) == pc[r] \in {"idle", "queueing"}

\* Answer a to call r is true, and no step can make it false.
Truthful(r, a) ==
  /\ a \in Replies => r \in served
  /\ a \in NotDone => r \notin Queued \cup InHand \cup Wire \cup served

\* The request of a call goes from the queue to the send loop, to the wire and
\* to the server, is in one of these places at a time, and has no answer before
\* it is written; a call that waits has its request in one of them, in the
\* pending map, or answered.
Sound(r) ==
  /\ Fresh(r) =>
       /\ r \notin Queued \cup InHand \cup requests \cup Wire \cup served
       /\ recvChan[r] = Empty /\ res[r] = Empty
  /\ r \in Queued =>
       /\ r \notin InHand \cup requests \cup Wire \cup served
       /\ recvChan[r] = Empty
  /\ r \in InHand =>
       /\ r \notin Wire \cup served /\ recvChan[r] = Empty
       /\ r \in requests <=> spc = "write"
  /\ r \in Wire => r \notin served
  /\ pc[r] = "waiting" =>
       r \in Queued \cup InHand \cup requests \/ recvChan[r] # Empty
  /\ Truthful(r, recvChan[r]) /\ Truthful(r, res[r])
  /\ pc[r] \in {"remember", "done"} => res[r] # Empty

CallsSound == \A r \in Calls : Sound(r)

\* A pending request that has been answered is one whose write failed.
SlotsFree ==
  \A r \in requests : recvChan[r] # Empty => sock = "closed"

\* The wire carries a call once, and replies to what was carried out; nothing
\* is on a connection that is closed.
WireInv ==
  /\ OnceIn(sendChan, Calls) /\ OnceIn(toServer, Calls)
  /\ sock \in {"none", "closed"} => toServer = <<>> /\ toClient = <<>>
  /\ \A i \in 1 .. Len(toClient) : toClient[i].req \in served

\* flushRequests answers pending requests, and does not tell a caller that its
\* request was never sent.
FlushInv ==
  /\ lpc \in FlushPCs \cup {"disc"} => lerr # "ErrNoServer"
  /\ lreq # NoReq => \/ lpc \in ReauthPCs \ {"reauth"}
                     \/ lpc \in FlushPCs /\ lreq \in requests

\* resendZkAuth goes through the credentials once per connection.
ReauthInv ==
  /\ ri <= Len(creds) + 1
  /\ OnceIn(creds, AuthReqs)
  /\ \A i \in 1 .. Len(creds) : pc[creds[i]] = "done"
  /\ lpc \in ReauthPCs \ {"reauth"} =>
       ri <= Len(creds) /\ lreq = Reauth(creds[ri])
  /\ lpc = "reauthReg" => recvChan[lreq] = Empty
  /\ lpc \in ReauthPCs =>
       \A i \in ri .. Len(creds) : Reauth(creds[i]) \in requests =>
         i = ri /\ lpc \in {"reauthWrite", "reauthWait"}

\* On a connection that is up, a credential that has been answered for is in
\* force: a server that refuses one hangs up.
AuthInv ==
  /\ sock = "open" =>
       /\ \A i \in 1 .. Len(toClient), a \in AuthReqs :
            toClient[i].req = Reauth(a) => a \in authed
       /\ lpc \in {"reauthWrite", "reauthWait"} /\ recvChan[lreq] # Empty =>
            creds[ri] \in authed
  /\ /\ lpc \in ReauthPCs \/ spc \in {"select", "reg", "write"}
     /\ sock = "open" /\ ~closeChan /\ ~quit
     => \A i \in 1 .. ri - 1 : creds[i] \in authed

PlacesInv == CallsSound /\ SlotsFree /\ WireInv /\ FlushInv

RequestInv == ConnInv /\ PlacesInv /\ ReauthInv /\ AuthInv

-----------------------------------------------------------------------------
(* Sequences. *)

LEMMA Appending ==
  ASSUME NEW S, NEW s \in Seq(S), NEW x, NEW C, OnceIn(s, C),
         x \in C => x \notin Elems(s)
  PROVE  /\ Elems(Append(s, x)) = Elems(s) \cup {x}
         /\ OnceIn(Append(s, x), C)
<1> DEFINE t == Append(s, x)
<1>1. /\ Len(t) = Len(s) + 1 /\ Len(s) \in Nat /\ t[Len(s) + 1] = x
      /\ \A i \in 1 .. Len(s) : t[i] = s[i]
  BY AppendProperties
<1> HIDE DEF t
<1>2. Elems(t) = Elems(s) \cup {x}
  BY <1>1 DEF Elems
<1>3. OnceIn(t, C)
  <2> SUFFICES ASSUME NEW i \in 1 .. Len(t), NEW j \in 1 .. Len(t), i # j,
                      t[i] \in C, t[i] = t[j]
               PROVE  FALSE
    BY DEF OnceIn
  <2>1. CASE i \in 1 .. Len(s) /\ j \in 1 .. Len(s)
    BY <1>1, <2>1 DEF OnceIn
  <2>2. CASE i = Len(s) + 1 \/ j = Len(s) + 1
    BY <1>1, <2>2 DEF Elems
  <2> QED BY <1>1, <2>1, <2>2
<1> QED BY <1>2, <1>3 DEF t

LEMMA Tailing ==
  ASSUME NEW S, NEW s \in Seq(S), s # <<>>, NEW C, OnceIn(s, C)
  PROVE  /\ Head(s) \in S /\ Head(s) \in Elems(s)
         /\ Elems(s) = Elems(Tail(s)) \cup {Head(s)}
         /\ Head(s) \in C => Head(s) \notin Elems(Tail(s))
         /\ OnceIn(Tail(s), C)
<1> DEFINE t == Tail(s)
           h == Head(s)
<1>1. /\ Len(t) = Len(s) - 1 /\ Len(s) \in Nat \ {0} /\ s[1] = h /\ h \in S
      /\ \A i \in 1 .. Len(t) : t[i] = s[i + 1]
  BY HeadTailProperties
<1> HIDE DEF t, h
<1>2. \A i \in 1 .. Len(s) : i = 1 \/ (i - 1 \in 1 .. Len(t) /\ t[i - 1] = s[i])
  BY <1>1
<1>3. \A i \in 1 .. Len(t) : i + 1 \in 1 .. Len(s) /\ t[i] = s[i + 1]
  BY <1>1
<1>4. h \in Elems(s) /\ Elems(s) = Elems(t) \cup {h}
  <2>1. 1 \in 1 .. Len(s)
    BY <1>1
  <2> QED BY <1>1, <1>2, <1>3, <2>1 DEF Elems
<1>5. h \in C => h \notin Elems(t)
  <2> SUFFICES ASSUME h \in C, NEW i \in 1 .. Len(t), t[i] = h PROVE FALSE
    BY DEF Elems
  <2>1. i + 1 \in 1 .. Len(s) /\ s[i + 1] = h /\ 1 \in 1 .. Len(s) /\ i + 1 # 1
    BY <1>1, <1>3
  <2> QED BY <1>1, <2>1 DEF OnceIn
<1>6. OnceIn(t, C)
  <2> SUFFICES ASSUME NEW i \in 1 .. Len(t), NEW j \in 1 .. Len(t), i # j,
                      t[i] \in C, t[i] = t[j]
               PROVE  FALSE
    BY DEF OnceIn
  <2>1. i + 1 \in 1 .. Len(s) /\ j + 1 \in 1 .. Len(s) /\ i + 1 # j + 1
    BY <1>3
  <2> QED BY <1>3, <2>1 DEF OnceIn
<1> QED BY <1>1, <1>4, <1>5, <1>6 DEF t, h

LEMMA EmptyElems == Elems(<<>>) = {} /\ \A C : OnceIn(<<>>, C)
BY DEF Elems, OnceIn

-----------------------------------------------------------------------------
(* The places a request can be in. *)

LEMMA Kinds ==
  /\ Empty \notin Answers /\ Empty \notin NotDone /\ Empty \notin Replies
  /\ Replies \cap NotDone = {} /\ Replies \cap Flushed = {}
  /\ Answers = Replies \cup Flushed \cup Unsent
  /\ \A a \in Flushed : a # "ErrNoServer" => a \notin NotDone
BY DEF Answers, Replies, Flushed, Unsent, NotDone, Empty

LEMMA Functions ==
  ASSUME ConnInv
  PROVE  /\ recvChan \in Slots /\ pc \in Progress
         /\ res \in [Calls -> Answers \cup {Empty}]
         /\ sendChan \in Seq(Calls) /\ toServer \in Seq(RIDs)
         /\ toClient \in Seq(Packets) /\ requests \subseteq RIDs
         /\ Calls \subseteq RIDs /\ NoReq \notin Calls /\ lerr \in Flushed
BY CallsAreRIDs DEF ConnInv, TypeOK, Slots, Progress

\* An answer changes one slot, which was empty.
LEMMA Answering ==
  ASSUME recvChan \in Slots, NEW r \in RIDs, NEW a, Answer(r, a)
  PROVE  /\ recvChan[r] = Empty /\ recvChan'[r] = a
         /\ \A q \in RIDs : q # r => recvChan'[q] = recvChan[q]
BY DEF Answer, Slots

\* Nothing that concerns a request changes.
LEMMA PlacesStay ==
  ASSUME PlacesInv, FlushInv',
         UNCHANGED <<pc, res, sendChan, requests, recvChan, toServer, toClient,
                     served, sock>>,
         InHand' = InHand, InHand # {} => spc' = spc
  PROVE  PlacesInv'
<1>1. Queued' = Queued /\ Wire' = Wire
  BY DEF Queued, Wire, Elems
<1>2. CallsSound'
  BY <1>1 DEF PlacesInv, CallsSound, Sound, Truthful, Fresh
<1>3. SlotsFree' /\ WireInv'
  BY DEF PlacesInv, SlotsFree, WireInv, OnceIn
<1> QED BY <1>2, <1>3 DEF PlacesInv

\* The server got a part of what was on the wire.
LEMMA PrefixServed ==
  ASSUME toServer \in Seq(RIDs), ServerGotPrefix
  PROVE  served \subseteq served' /\ served' \subseteq served \cup Wire
<1>1. PICK n \in 0 .. Len(toServer) :
        served' = served \cup {toServer[i] : i \in 1 .. n}
  BY DEF ServerGotPrefix
<1>2. \A i \in 1 .. n : i \in 1 .. Len(toServer)
  BY LenProperties
<1> QED BY <1>1, <1>2 DEF Wire, Elems

\* The connection is lost or closed, and nothing else happens.
LEMMA PlacesDropped ==
  ASSUME ConnInv, PlacesInv, FlushInv', ServerGotPrefix, toServer' = <<>>,
         \/ sock' = "closed" /\ toClient' = <<>>
         \/ sock = "open" /\ sock' = "broken" /\ toClient' = toClient,
         UNCHANGED <<pc, res, sendChan, requests, recvChan>>,
         InHand' = InHand, InHand # {} => spc' = spc
  PROVE  PlacesInv'
<1>1. served \subseteq served' /\ served' \subseteq served \cup Wire
  BY PrefixServed, Functions
<1>2. Queued' = Queued /\ Wire' = {}
  BY EmptyElems DEF Queued, Wire, Elems
<1>3. CallsSound'
  BY <1>1, <1>2 DEF PlacesInv, CallsSound, Sound, Truthful, Fresh
<1>4. SlotsFree'
  BY DEF PlacesInv, SlotsFree
<1>5. WireInv'
  <2>1. OnceIn(sendChan', Calls) /\ OnceIn(toServer', Calls)
    BY EmptyElems DEF PlacesInv, WireInv, OnceIn
  <2>2. \A i \in 1 .. Len(toClient') : toClient'[i].req \in served'
    BY <1>1 DEF PlacesInv, WireInv
  <2> QED BY <2>1, <2>2 DEF WireInv
<1> QED BY <1>3, <1>4, <1>5 DEF PlacesInv

\* connect(), authenticate() and loop(), but for the answers they give.
LEMMA LoopPlaces ==
  ASSUME ConnInv, PlacesInv,
         \/ ConnectNext \/ UnsentFlushed \/ RetryTimer \/ QuitWhileWaiting
         \/ DialFails \/ DialOk \/ AuthOk \/ AuthExpired \/ AuthFails
         \/ ConnectionGone \/ Disconnected \/ FlushPick \/ FlushEnd
  PROVE  PlacesInv'
<1> USE DEF LoopStep, netVars, chanVars, sendVars, callVars
<1>1. InHand' = InHand /\ (InHand # {} => spc' = spc)
  <2>1. CASE AuthOk
    <3>1. spc = "off" /\ spc' = "waitReauth"
      BY <2>1 DEF AuthOk, ConnInv, Structure, SenderStarts, UpPCs, ReauthPCs
    <3> QED BY <3>1 DEF InHand
  <2>2. CASE ~AuthOk
    BY <2>2 DEF InHand, ConnectNext, UnsentFlushed, RetryTimer,
                QuitWhileWaiting, DialFails, DialOk, AuthExpired, AuthFails,
                ConnectionGone, Disconnected, FlushPick, FlushEnd
  <2> QED BY <2>1, <2>2
<1>2. FlushInv'
  BY DEF FlushInv, PlacesInv, ConnectNext, UnsentFlushed, RetryTimer,
         QuitWhileWaiting, DialFails, DialOk, AuthOk, AuthExpired, AuthFails,
         ConnectionGone, LostError, Disconnected, FlushPick, FlushEnd,
         AfterFlush, FlushPCs, ReauthPCs
<1>3. CASE DialOk
  <2>1. /\ sock' = "open" /\ toServer' = <<>> /\ toClient' = <<>>
        /\ UNCHANGED <<pc, res, sendChan, requests, recvChan, served>>
    BY <1>3 DEF DialOk
  <2>2. requests = {}
    BY <1>3 DEF DialOk, ConnInv, Structure, DownPCs
  <2>3. Queued' = Queued /\ Wire' = {}
    BY <2>1, EmptyElems DEF Queued, Wire
  <2>4. CallsSound'
    BY <1>1, <2>1, <2>3 DEF PlacesInv, CallsSound, Sound, Truthful, Fresh
  <2>5. WireInv'
    BY <2>1, EmptyElems DEF PlacesInv, WireInv, OnceIn
  <2>6. SlotsFree'
    BY <2>1, <2>2 DEF SlotsFree
  <2> QED BY <1>2, <2>4, <2>5, <2>6 DEF PlacesInv
<1>4. CASE AuthFails
  <2>1. CloseSock /\ UNCHANGED <<pc, res, sendChan, requests, recvChan>>
    BY <1>4 DEF AuthFails
  <2> QED BY <1>1, <1>2, <2>1, PlacesDropped DEF CloseSock
<1>5. CASE ~DialOk /\ ~AuthFails
  <2>1. UNCHANGED <<pc, res, sendChan, requests, recvChan, toServer, toClient,
                    served, sock>>
    BY <1>5 DEF ConnectNext, UnsentFlushed, RetryTimer, QuitWhileWaiting,
                DialFails, AuthOk, AuthExpired, ConnectionGone, Disconnected,
                FlushPick, FlushEnd
  <2> QED BY <1>1, <1>2, <2>1, PlacesStay
<1> QED BY <1>3, <1>4, <1>5

\* A request is taken from the queue and answered without being sent.
LEMMA PlacesDequeued ==
  ASSUME ConnInv, PlacesInv, FlushInv', sendChan # <<>>,
         sendChan' = Tail(sendChan), NEW a \in Flushed \cup Unsent,
         Answer(Head(sendChan), a), InHand' = InHand, InHand # {} => spc' = spc,
         UNCHANGED <<pc, res, requests, toServer, toClient, served, sock>>
  PROVE  PlacesInv'
<1> DEFINE h == Head(sendChan)
<1>1. /\ h \in Calls /\ Queued = Queued' \cup {h} /\ h \notin Queued'
      /\ OnceIn(sendChan', Calls)
  <2>1. sendChan \in Seq(Calls) /\ OnceIn(sendChan, Calls)
    BY Functions DEF PlacesInv, WireInv
  <2>2. /\ h \in Calls /\ Elems(sendChan) = Elems(Tail(sendChan)) \cup {h}
        /\ h \in Calls => h \notin Elems(Tail(sendChan))
        /\ OnceIn(Tail(sendChan), Calls)
    BY <2>1, Tailing
  <2> QED BY <2>2 DEF Queued, Elems
<1> HIDE DEF h
<1>2. /\ recvChan'[h] = a /\ a # Empty /\ a \notin Replies
      /\ \A q \in RIDs : q # h => recvChan'[q] = recvChan[q]
  BY <1>1, Functions, Answering, Kinds DEF h, Flushed, Unsent, Replies
<1>3. h \notin InHand \cup requests \cup Wire \cup served
      /\ Sound(h) /\ Calls \subseteq RIDs /\ requests \subseteq RIDs
  BY <1>1, Functions DEF PlacesInv, CallsSound, Sound
<1>4. Wire' = Wire
  BY DEF Wire, Elems
<1>5. CallsSound'
  <2> SUFFICES ASSUME NEW r \in Calls PROVE Sound(r)'
    BY DEF CallsSound
  <2>1. CASE r = h
    BY <1>1, <1>2, <1>3, <1>4, <2>1 DEF Sound, Truthful, Fresh
  <2>2. CASE r # h
    <3>1. Sound(r) /\ recvChan'[r] = recvChan[r] /\ (r \in Queued' <=> r \in Queued)
      BY <1>1, <1>2, <1>3, <2>2 DEF PlacesInv, CallsSound
    <3> QED BY <1>4, <3>1 DEF Sound, Truthful, Fresh
  <2> QED BY <2>1, <2>2
<1>6. SlotsFree'
  BY <1>2, <1>3 DEF PlacesInv, SlotsFree
<1>7. WireInv'
  BY <1>1 DEF PlacesInv, WireInv, OnceIn
<1> QED BY <1>5, <1>6, <1>7 DEF PlacesInv

LEMMA FlushPlaces ==
  ASSUME ConnInv, PlacesInv, FlushUnsent \/ FlushSend
  PROVE  PlacesInv'
<1> USE DEF LoopStep, netVars, chanVars, sendVars, callVars
<1>1. InHand' = InHand /\ spc' = spc /\ UNCHANGED <<pc, res>>
  BY DEF InHand, FlushUnsent, FlushSend
<1>2. FlushInv'
  BY DEF FlushInv, PlacesInv, FlushUnsent, FlushSend
<1>3. CASE FlushUnsent
  <2>1. /\ sendChan # <<>> /\ sendChan' = Tail(sendChan)
        /\ Answer(Head(sendChan), lerr) /\ lerr \in Flushed \cup Unsent
        /\ UNCHANGED <<requests, toServer, toClient, served, sock>>
    BY <1>3, Functions DEF FlushUnsent
  <2> QED BY <1>1, <1>2, <2>1, PlacesDequeued
<1>4. CASE FlushSend
  <2>1. /\ Answer(lreq, lerr) /\ requests' = requests \ {lreq} /\ lreq \in RIDs
        /\ UNCHANGED <<sendChan, toServer, toClient, served, sock>>
    BY <1>4 DEF FlushSend, ConnInv, TypeOK
  <2>2. lerr \in Flushed /\ lerr # "ErrNoServer"
    BY <1>4, Functions DEF FlushSend, PlacesInv, FlushInv
  <2>3. /\ recvChan[lreq] = Empty /\ recvChan'[lreq] = lerr
        /\ \A q \in RIDs : q # lreq => recvChan'[q] = recvChan[q]
    BY <2>1, Functions, Answering
  <2>4. InHand = {}
    BY <1>4 DEF FlushSend, InHand, ConnInv, Structure, FlushPCs, UpPCs, ReauthPCs
  <2>5. Queued' = Queued /\ Wire' = Wire
    BY <2>1 DEF Queued, Wire, Elems
  <2>6. lerr # Empty /\ lerr \notin Replies /\ lerr \notin NotDone
    BY <2>2, Kinds
  <2>7. lreq \in requests /\ Calls \subseteq RIDs /\ requests \subseteq RIDs
    BY <1>4, Functions DEF FlushSend, PlacesInv, FlushInv, FlushPCs, ReauthPCs
  <2>8. CallsSound'
    <3> SUFFICES ASSUME NEW r \in Calls PROVE Sound(r)'
      BY DEF CallsSound
    <3>1. Sound(r) /\ r \in RIDs
      BY <2>7 DEF PlacesInv, CallsSound
    <3>2. CASE r = lreq
      BY <1>1, <2>1, <2>3, <2>4, <2>5, <2>6, <2>7, <3>1, <3>2
         DEF Sound, Truthful, Fresh
    <3>3. CASE r # lreq
      <4>1. recvChan'[r] = recvChan[r] /\ (r \in requests' <=> r \in requests)
        BY <2>1, <2>3, <3>1, <3>3
      <4> QED BY <1>1, <2>1, <2>4, <2>5, <3>1, <4>1 DEF Sound, Truthful, Fresh
    <3> QED BY <3>2, <3>3
  <2>9. SlotsFree' /\ WireInv'
    BY <2>1, <2>3, <2>7 DEF PlacesInv, SlotsFree, WireInv, OnceIn
  <2> QED BY <1>2, <2>8, <2>9 DEF PlacesInv
<1> QED BY <1>3, <1>4

\* The send loop is done with the request in hand.
LEMMA HandEmptied ==
  ASSUME ConnInv, PlacesInv, spc \in {"reg", "write"},
         spc' \notin {"reg", "write"}
  PROVE  /\ InHand = {sreq} /\ InHand' = {} /\ sreq \in Calls /\ sreq \in RIDs
         /\ Sound(sreq)
BY CallsAreRIDs DEF InHand, ConnInv, TypeOK, Structure, PlacesInv, CallsSound

\* While the send loop runs the loop is busy neither with resendZkAuth nor with
\* flushRequests.
LEMMA LoopIdle ==
  ASSUME ConnInv, PlacesInv, spc \in {"select", "reg", "write", "exit"}
  PROVE  lpc = "wg" /\ lreq = NoReq
BY DEF ConnInv, Structure, OneWriter, PlacesInv, FlushInv, UpPCs, ReauthPCs,
       FlushPCs

LEMMA SendPlaces ==
  ASSUME ConnInv, PlacesInv, SendLoop
  PROVE  PlacesInv'
<1> USE DEF SendStep, loopVars, netVars, chanVars, callVars
<1>0. /\ lpc = "wg" /\ lreq = NoReq /\ UNCHANGED <<pc, res, lpc, lreq>>
      /\ Calls \subseteq RIDs /\ requests \subseteq RIDs
  BY LoopIdle, Functions
     DEF SendLoop, SendTooLarge, SendTake, SendRefused, SendRegister, SendWrite,
         SendWriteFails, SendWriteClosed, PingFails, SendStops, SendExit
<1>1. FlushInv'
  BY <1>0 DEF FlushInv, FlushPCs
<1>2. CASE SendTooLarge
  <2>1. /\ sendChan # <<>> /\ sendChan' = Tail(sendChan)
        /\ Answer(Head(sendChan), "ErrShortBuffer")
        /\ UNCHANGED <<requests, toServer, toClient, served, sock>>
        /\ InHand' = InHand /\ InHand = {}
    BY <1>2 DEF SendTooLarge, InHand
  <2>2. "ErrShortBuffer" \in Flushed \cup Unsent
    BY DEF Unsent
  <2> QED BY <1>0, <1>1, <2>1, <2>2, PlacesDequeued
<1>3. CASE SendTake
  <2> DEFINE h == Head(sendChan)
  <2>1. /\ sendChan' = Tail(sendChan) /\ sendChan # <<>> /\ InHand = {}
        /\ InHand' = {h} /\ spc' = "reg"
        /\ UNCHANGED <<toServer, toClient, served, sock, requests, recvChan>>
    BY <1>3 DEF SendTake, TakenFromQueue, InHand
  <2>2. /\ h \in Calls /\ Queued = Queued' \cup {h} /\ h \notin Queued'
        /\ OnceIn(sendChan', Calls)
    <3>1. sendChan \in Seq(Calls) /\ OnceIn(sendChan, Calls)
      BY Functions DEF PlacesInv, WireInv
    <3>2. /\ h \in Calls /\ Elems(sendChan) = Elems(Tail(sendChan)) \cup {h}
          /\ h \in Calls => h \notin Elems(Tail(sendChan))
          /\ OnceIn(Tail(sendChan), Calls)
      BY <2>1, <3>1, Tailing
    <3> QED BY <2>1, <3>2 DEF Queued, Elems
  <2> HIDE DEF h
  <2>3. Wire' = Wire
    BY <2>1 DEF Wire, Elems
  <2>4. CallsSound'
    <3> SUFFICES ASSUME NEW r \in Calls PROVE Sound(r)'
      BY DEF CallsSound
    <3>1. Sound(r)
      BY DEF PlacesInv, CallsSound
    <3>2. CASE r = h
      BY <1>0, <2>1, <2>2, <2>3, <3>1, <3>2 DEF Sound, Truthful, Fresh
    <3>3. CASE r # h
      <4>1. (r \in Queued' <=> r \in Queued) /\ r \notin InHand'
            /\ r \notin InHand
        BY <2>1, <2>2, <3>3
      <4> QED BY <1>0, <2>1, <2>3, <3>1, <4>1 DEF Sound, Truthful, Fresh
    <3> QED BY <3>2, <3>3
  <2>5. SlotsFree' /\ WireInv'
    BY <2>1, <2>2 DEF PlacesInv, SlotsFree, WireInv, OnceIn
  <2> QED BY <1>1, <2>4, <2>5 DEF PlacesInv
<1>4. CASE SendRefused
  <2>1. /\ spc = "reg" /\ spc' = "exit" /\ Answer(sreq, "ErrConnectionClosed")
        /\ UNCHANGED <<sendChan, requests, toServer, toClient, served, sock>>
    BY <1>4 DEF SendRefused
  <2>2. /\ InHand = {sreq} /\ InHand' = {} /\ sreq \in Calls /\ sreq \in RIDs
        /\ Sound(sreq)
    BY <2>1, HandEmptied
  <2>3. /\ recvChan'[sreq] = "ErrConnectionClosed"
        /\ \A q \in RIDs : q # sreq => recvChan'[q] = recvChan[q]
    BY <2>1, <2>2, Functions, Answering
  <2>4. /\ "ErrConnectionClosed" # Empty /\ "ErrConnectionClosed" \notin Replies
        /\ "ErrConnectionClosed" \notin NotDone
    BY DEF Empty, Replies, NotDone, Unsent
  <2>5. Queued' = Queued /\ Wire' = Wire
    BY <2>1 DEF Queued, Wire, Elems
  <2>6. sreq \notin requests
    BY <2>1, <2>2 DEF Sound
  <2>7. CallsSound'
    <3> SUFFICES ASSUME NEW r \in Calls PROVE Sound(r)'
      BY DEF CallsSound
    <3>1. Sound(r) /\ r \in RIDs
      BY <1>0 DEF PlacesInv, CallsSound
    <3>2. CASE r = sreq
      BY <1>0, <2>1, <2>2, <2>3, <2>4, <2>5, <3>2 DEF Sound, Truthful, Fresh
    <3>3. CASE r # sreq
      BY <1>0, <2>1, <2>2, <2>3, <2>5, <3>1, <3>3 DEF Sound, Truthful, Fresh
    <3> QED BY <3>2, <3>3
  <2>8. SlotsFree' /\ WireInv'
    BY <1>0, <2>1, <2>3, <2>6 DEF PlacesInv, SlotsFree, WireInv, OnceIn
  <2> QED BY <1>1, <2>7, <2>8 DEF PlacesInv
<1>5. CASE SendRegister
  <2>1. /\ spc = "reg" /\ spc' = "write" /\ requests' = requests \cup {sreq}
        /\ UNCHANGED <<sreq, sendChan, recvChan, toServer, toClient, served,
                       sock>>
    BY <1>5 DEF SendRegister, Registered
  <2>2. /\ InHand = {sreq} /\ InHand' = {sreq} /\ Queued' = Queued
        /\ Wire' = Wire
    BY <2>1 DEF InHand, Queued, Wire, Elems
  <2>3. sreq \in Calls /\ recvChan[sreq] = Empty
    BY <2>1, <2>2 DEF ConnInv, TypeOK, Structure, PlacesInv, CallsSound, Sound
  <2>4. CallsSound'
    BY <1>0, <2>1, <2>2 DEF PlacesInv, CallsSound, Sound, Truthful, Fresh
  <2>5. SlotsFree' /\ WireInv'
    BY <2>1, <2>3 DEF PlacesInv, SlotsFree, WireInv, OnceIn
  <2> QED BY <1>1, <2>4, <2>5 DEF PlacesInv
<1>6. CASE SendWrite
  <2>1. /\ spc = "write" /\ spc' = "select" /\ WriteOk(sreq)
        /\ UNCHANGED <<sendChan, requests, recvChan>>
    BY <1>6 DEF SendWrite
  <2>2. /\ InHand = {sreq} /\ InHand' = {} /\ sreq \in Calls /\ sreq \in RIDs
        /\ Sound(sreq)
    BY <2>1, HandEmptied
  <2>3. /\ UNCHANGED <<sock, toClient, served>>
        /\ toServer' = toServer \/ toServer' = Append(toServer, sreq)
        /\ sock \in {"open", "broken"}
    BY <2>1 DEF WriteOk
  <2>4. sreq \notin Wire /\ sreq \notin served /\ sreq \in requests
    BY <2>1, <2>2 DEF Sound
  <2>5. /\ Wire' = Wire \/ Wire' = Wire \cup {sreq}
        /\ OnceIn(toServer', Calls)
    <3>1. toServer \in Seq(RIDs) /\ OnceIn(toServer, Calls)
      BY Functions DEF PlacesInv, WireInv
    <3>2. /\ Elems(Append(toServer, sreq)) = Elems(toServer) \cup {sreq}
          /\ OnceIn(Append(toServer, sreq), Calls)
      BY <2>4, <3>1, Appending DEF Wire
    <3> QED BY <2>3, <3>1, <3>2 DEF Wire
  <2>6. Queued' = Queued
    BY <2>1 DEF Queued
  <2>7. CallsSound'
    <3> SUFFICES ASSUME NEW r \in Calls PROVE Sound(r)'
      BY DEF CallsSound
    <3>1. Sound(r)
      BY DEF PlacesInv, CallsSound
    <3>2. CASE r = sreq
      <4>1. recvChan[r] = Empty /\ ~Fresh(r) /\ r \notin Queued
        BY <2>2, <3>2 DEF Sound
      <4>2. res[r] \notin NotDone \/ r \notin InHand
        BY <3>1 DEF Sound, Truthful
      <4> QED BY <1>0, <2>1, <2>2, <2>3, <2>4, <2>5, <2>6, <3>1, <3>2, <4>1,
                 <4>2, Kinds
              DEF Sound, Truthful, Fresh
    <3>3. CASE r # sreq
      BY <1>0, <2>1, <2>2, <2>3, <2>5, <2>6, <3>1, <3>3
         DEF Sound, Truthful, Fresh
    <3> QED BY <3>2, <3>3
  <2>8. SlotsFree'
    BY <2>1, <2>3 DEF PlacesInv, SlotsFree
  <2>9. WireInv'
    BY <2>1, <2>3, <2>5 DEF PlacesInv, WireInv, OnceIn
  <2> QED BY <1>1, <2>7, <2>8, <2>9 DEF PlacesInv
<1>7. CASE SendWriteFails
  <2>1. /\ spc = "write" /\ spc' = "exit" /\ Answer(sreq, "writeErr")
        /\ CloseSock /\ UNCHANGED <<sendChan, requests>>
    BY <1>7 DEF SendWriteFails, WriteFails
  <2>2. /\ InHand = {sreq} /\ InHand' = {} /\ sreq \in Calls /\ sreq \in RIDs
        /\ Sound(sreq)
    BY <2>1, HandEmptied
  <2>3. /\ recvChan'[sreq] = "writeErr"
        /\ \A q \in RIDs : q # sreq => recvChan'[q] = recvChan[q]
    BY <2>1, <2>2, Functions, Answering
  <2>4. "writeErr" # Empty /\ "writeErr" \notin Replies
    BY DEF Empty, Replies
  <2>5. /\ served \subseteq served' /\ served' \subseteq served \cup Wire
        /\ Wire' = {} /\ Queued' = Queued
        /\ sock' = "closed" /\ toServer' = <<>> /\ toClient' = <<>>
    BY <2>1, PrefixServed, Functions, EmptyElems DEF CloseSock, Queued, Wire
  <2>6. CallsSound'
    <3> SUFFICES ASSUME NEW r \in Calls PROVE Sound(r)'
      BY DEF CallsSound
    <3>1. Sound(r) /\ r \in RIDs
      BY <1>0 DEF PlacesInv, CallsSound
    <3>2. CASE r = sreq
      BY <1>0, <2>1, <2>2, <2>3, <2>4, <2>5, <3>2 DEF Sound, Truthful, Fresh
    <3>3. CASE r # sreq
      BY <1>0, <2>1, <2>2, <2>3, <2>5, <3>1, <3>3 DEF Sound, Truthful, Fresh
    <3> QED BY <3>2, <3>3
  <2>7. SlotsFree'
    BY <2>5 DEF SlotsFree
  <2>8. WireInv'
    BY <2>1, <2>5, EmptyElems DEF PlacesInv, WireInv, OnceIn
  <2> QED BY <1>1, <2>6, <2>7, <2>8 DEF PlacesInv
<1>8. CASE SendWriteClosed
  <2>1. /\ spc = "write" /\ spc' = "exit"
        /\ UNCHANGED <<sendChan, requests, recvChan, toServer, toClient, served,
                       sock>>
    BY <1>8 DEF SendWriteClosed
  <2>2. InHand = {sreq} /\ InHand' = {}
    BY <2>1, HandEmptied
  <2>3. Queued' = Queued /\ Wire' = Wire
    BY <2>1 DEF Queued, Wire, Elems
  <2>4. CallsSound'
    BY <1>0, <2>1, <2>2, <2>3 DEF PlacesInv, CallsSound, Sound, Truthful, Fresh
  <2>5. SlotsFree' /\ WireInv'
    BY <2>1 DEF PlacesInv, SlotsFree, WireInv, OnceIn
  <2> QED BY <1>1, <2>4, <2>5 DEF PlacesInv
<1>9. CASE PingFails \/ SendExit
  <2>1. CloseSock /\ UNCHANGED <<sendChan, requests, recvChan>>
        /\ InHand' = InHand /\ InHand = {}
    BY <1>9 DEF PingFails, SendExit, InHand
  <2> QED BY <1>0, <1>1, <2>1, PlacesDropped DEF CloseSock
<1>10. CASE SendStops
  <2>1. /\ InHand' = InHand /\ InHand = {}
        /\ UNCHANGED <<sendChan, requests, recvChan, toServer, toClient, served,
                       sock>>
    BY <1>10 DEF SendStops, InHand
  <2> QED BY <1>0, <1>1, <2>1, PlacesStay
<1> QED BY <1>2, <1>3, <1>4, <1>5, <1>6, <1>7, <1>8, <1>9, <1>10 DEF SendLoop

LEMMA RecvPlaces ==
  ASSUME ConnInv, PlacesInv, RecvLoop \/ RecvGivesUp
  PROVE  PlacesInv'
<1> USE DEF RecvStep, loopVars, sendVars, netVars, callVars
<1>0. /\ UNCHANGED <<pc, res, lpc, lreq, spc, sreq, sendChan>>
      /\ InHand' = InHand /\ Queued' = Queued
  BY DEF RecvLoop, RecvReply, RecvFails, RecvExit, RecvGivesUp, InHand, Queued
<1>1. FlushInv'
  <2>1. rpc # "off"
    BY DEF RecvLoop, RecvReply, RecvFails, RecvExit, RecvGivesUp
  <2>2. lpc \in UpPCs
    BY <2>1 DEF ConnInv, Structure
  <2> QED BY <1>0, <2>2 DEF PlacesInv, FlushInv, UpPCs, ReauthPCs, FlushPCs
<1>2. CASE RecvReply
  <2> DEFINE m == Head(toClient)
  <2>1. /\ toClient # <<>> /\ toClient' = Tail(toClient)
        /\ sock \in {"open", "broken"} /\ UNCHANGED <<sock, toServer, served>>
    BY <1>2 DEF RecvReply
  <2>2. /\ toClient \in Seq(Packets) /\ requests \subseteq RIDs
        /\ Calls \subseteq RIDs
    BY Functions
  <2>3. /\ m \in Packets /\ m = toClient[1] /\ 1 \in 1 .. Len(toClient)
        /\ \A i \in 1 .. Len(toClient') :
             i + 1 \in 1 .. Len(toClient) /\ toClient'[i] = toClient[i + 1]
    BY <2>1, <2>2
  <2>4. m.req \in served /\ m.ans \in Replies
    BY <2>3 DEF PlacesInv, WireInv, Packets
  <2>5. WireInv'
    BY <1>0, <2>1, <2>3 DEF PlacesInv, WireInv, OnceIn
  <2>6. Wire' = Wire
    BY <2>1 DEF Wire, Elems
  <2>7. CASE m.req \notin requests
    <3>1. UNCHANGED <<requests, recvChan>>
      BY <1>2, <2>7 DEF RecvReply
    <3>2. CallsSound'
      BY <1>0, <2>1, <2>6, <3>1
         DEF PlacesInv, CallsSound, Sound, Truthful, Fresh
    <3>3. SlotsFree'
      BY <2>1, <3>1 DEF PlacesInv, SlotsFree
    <3> QED BY <1>1, <2>5, <3>2, <3>3 DEF PlacesInv
  <2>8. CASE m.req \in requests
    <3>1. requests' = requests \ {m.req} /\ Answer(m.req, m.ans)
          /\ m.req \in RIDs
      BY <1>2, <2>2, <2>8 DEF RecvReply
    <3> HIDE DEF m
    <3>2. /\ recvChan'[m.req] = m.ans
          /\ \A q \in RIDs : q # m.req => recvChan'[q] = recvChan[q]
      BY <3>1, Functions, Answering
    <3>3. m.ans # Empty /\ m.ans \notin NotDone
      BY <2>4, Kinds
    <3>4. CallsSound'
      <4> SUFFICES ASSUME NEW r \in Calls PROVE Sound(r)'
        BY DEF CallsSound
      <4>1. Sound(r) /\ r \in RIDs
        BY <2>2 DEF PlacesInv, CallsSound
      <4>2. CASE r = m.req
        BY <1>0, <2>1, <2>4, <2>6, <3>1, <3>2, <3>3, <4>1, <4>2
           DEF Sound, Truthful, Fresh
      <4>3. CASE r # m.req
        <5>1. recvChan'[r] = recvChan[r] /\ (r \in requests' <=> r \in requests)
          BY <3>1, <3>2, <4>1, <4>3
        <5> QED BY <1>0, <2>1, <2>6, <4>1, <5>1 DEF Sound, Truthful, Fresh
      <4> QED BY <4>2, <4>3
    <3>5. SlotsFree'
      BY <2>1, <2>2, <3>1, <3>2 DEF PlacesInv, SlotsFree
    <3> QED BY <1>1, <2>5, <3>4, <3>5 DEF PlacesInv
  <2> QED BY <2>7, <2>8
<1>3. CASE RecvFails \/ RecvExit \/ RecvGivesUp
  <2>1. UNCHANGED <<requests, recvChan, toServer, toClient, served, sock>>
    BY <1>3 DEF RecvFails, RecvExit, RecvGivesUp
  <2> QED BY <1>0, <1>1, <2>1, PlacesStay
<1> QED BY <1>2, <1>3 DEF RecvLoop

\* resendZkAuth touches no call: its requests are its own.
LEMMA ReauthPlaces ==
  ASSUME ConnInv, PlacesInv, ReauthInv,
         \/ ReauthEnds \/ ReauthRequest \/ ReauthRefused \/ ReauthRegister
         \/ ReauthWrite \/ ReauthWriteFails \/ ReauthWriteClosed
         \/ ReauthAnswered \/ ReauthCancelled
  PROVE  PlacesInv'
<1> USE DEF ReauthAt, ReauthGoes, ReauthContinues, ReauthReturns, netVars,
            callVars
<1>0. /\ lpc \in ReauthPCs /\ lpc' \in ReauthPCs \cup {"wg"}
      /\ UNCHANGED <<pc, res, sendChan>>
      /\ lreq' # NoReq => lpc' \in ReauthPCs \ {"reauth"}
  BY DEF ReauthEnds, ReauthRequest, ReauthRefused, ReauthRegister, ReauthWrite,
         ReauthWriteFails, ReauthWriteClosed, ReauthAnswered, ReauthCancelled,
         ReauthPCs
<1>1. FlushInv'
  BY <1>0 DEF FlushInv, ReauthPCs, FlushPCs
<1>2. InHand = {} /\ InHand' = {} /\ Queued' = Queued
  <2>1. spc = "waitReauth" /\ spc' \in {"waitReauth", "select"}
    BY <1>0 DEF ConnInv, Structure, OneWriter, ReauthEnds, ReauthRequest,
       ReauthRefused, ReauthRegister, ReauthWrite, ReauthWriteFails,
       ReauthWriteClosed, ReauthAnswered, ReauthCancelled
  <2> QED BY <1>0, <2>1 DEF InHand, Queued
<1>3. Calls \subseteq RIDs /\ requests \subseteq RIDs /\ recvChan \in Slots
      /\ toServer \in Seq(RIDs)
  BY Functions
<1>4. ASSUME lpc # "reauth" PROVE lreq \in RIDs /\ lreq \notin Calls
  <2>1. lreq = Reauth(creds[ri]) /\ ri \in 1 .. Len(creds)
    BY <1>0, <1>4 DEF ReauthInv, ConnInv, TypeOK
  <2>2. creds[ri] \in AuthReqs
    BY <2>1 DEF ConnInv, TypeOK
  <2> QED BY <2>1, <2>2, ConnAssumption DEF RIDs
<1>5. lpc = "reauthReg" => lreq \notin requests /\ recvChan[lreq] = Empty
  <2>1. CASE lpc = "reauthReg"
    <3>1. lreq = Reauth(creds[ri]) /\ ri \in ri .. Len(creds)
      BY <2>1 DEF ReauthInv, ConnInv, TypeOK, ReauthPCs
    <3> QED BY <2>1, <3>1 DEF ReauthInv, ReauthPCs
  <2> QED BY <2>1
\* What a call sees of it.
<1>6. ASSUME \A r \in Calls : /\ recvChan'[r] = recvChan[r]
                              /\ r \in requests' <=> r \in requests
                              /\ r \in Wire' => r \in Wire /\ r \notin served'
                              /\ r \in served => r \in served'
                              /\ r \in served' => r \in served \cup Wire
      PROVE  CallsSound'
  BY <1>0, <1>2, <1>6 DEF PlacesInv, CallsSound, Sound, Truthful, Fresh
<1>7. CASE \/ ReauthEnds \/ ReauthCancelled \/ ReauthWriteClosed
  <2>1. UNCHANGED <<requests, recvChan, toServer, toClient, served, sock>>
    BY <1>7 DEF ReauthEnds, ReauthCancelled, ReauthWriteClosed
  <2> QED BY <1>0, <1>1, <1>2, <2>1, PlacesStay
<1>8. CASE ReauthRequest \/ ReauthAnswered \/ ReauthRefused \/ ReauthRegister
  <2>1. UNCHANGED <<toServer, toClient, served, sock>>
    BY <1>8 DEF ReauthRequest, ReauthAnswered, ReauthRefused, ReauthRegister
  <2>2. /\ \A r \in Calls : /\ recvChan'[r] = recvChan[r]
                            /\ r \in requests' <=> r \in requests
        /\ SlotsFree'
    <3>1. CASE ReauthRequest
      <4>1. ri \in 1 .. Len(creds) /\ creds \in Seq(AuthReqs)
        BY <3>1, LenProperties DEF ConnInv, TypeOK, ReauthRequest
      <4>2. creds[ri] \in AuthReqs
        BY <4>1, LenProperties
      <4>3. Reauth(creds[ri]) \notin Calls
        BY <4>2, ConnAssumption
      <4>4. \A q \in RIDs : recvChan'[q] = recvChan[q]
                            \/ (q = Reauth(creds[ri]) /\ recvChan'[q] = Empty)
        BY <1>3, <3>1 DEF ReauthRequest, Slots
      <4>5. requests' = requests
        BY <3>1 DEF ReauthRequest
      <4> QED BY <1>3, <2>1, <4>3, <4>4, <4>5 DEF PlacesInv, SlotsFree
    <3>2. CASE ReauthAnswered
      <4>1. lreq \notin Calls /\ requests' = requests
            /\ recvChan' = [recvChan EXCEPT ![lreq] = Empty]
        BY <1>4, <3>2 DEF ReauthAnswered
      <4>2. \A q \in RIDs : recvChan'[q] = recvChan[q]
                            \/ (q = lreq /\ recvChan'[q] = Empty)
        BY <1>3, <4>1 DEF Slots
      <4> QED BY <1>3, <2>1, <4>1, <4>2 DEF PlacesInv, SlotsFree
    <3>3. CASE ReauthRefused
      <4>1. /\ lreq \notin Calls /\ lreq \in RIDs /\ requests' = requests
            /\ Answer(lreq, "ErrConnectionClosed") /\ lreq \notin requests
        BY <1>4, <1>5, <3>3 DEF ReauthRefused
      <4>2. \A q \in RIDs : q # lreq => recvChan'[q] = recvChan[q]
        BY <1>3, <4>1, Answering
      <4> QED BY <1>3, <2>1, <4>1, <4>2 DEF PlacesInv, SlotsFree
    <3>4. CASE ReauthRegister
      <4>1. /\ lreq \notin Calls /\ requests' = requests \cup {lreq}
            /\ recvChan' = recvChan /\ recvChan[lreq] = Empty
        BY <1>4, <1>5, <3>4 DEF ReauthRegister
      <4> QED BY <2>1, <4>1 DEF PlacesInv, SlotsFree
    <3> QED BY <1>8, <3>1, <3>2, <3>3, <3>4
  <2>3. Wire' = Wire
    BY <2>1 DEF Wire, Elems
  <2>4. CallsSound'
    BY <1>6, <2>1, <2>2, <2>3 DEF PlacesInv, CallsSound, Sound
  <2>5. WireInv'
    BY <1>0, <2>1 DEF PlacesInv, WireInv, OnceIn
  <2> QED BY <1>1, <2>2, <2>4, <2>5 DEF PlacesInv
<1>9. CASE ReauthWrite
  <2>1. /\ WriteOk(lreq) /\ UNCHANGED <<requests, recvChan>>
        /\ lreq \in RIDs /\ lreq \notin Calls
    BY <1>4, <1>9 DEF ReauthWrite
  <2>2. /\ UNCHANGED <<sock, toClient, served>>
        /\ toServer' = toServer \/ toServer' = Append(toServer, lreq)
        /\ sock \in {"open", "broken"}
    BY <2>1 DEF WriteOk
  <2>3. /\ Wire' = Wire \/ Wire' = Wire \cup {lreq}
        /\ OnceIn(toServer', Calls)
    <3>1. OnceIn(toServer, Calls)
      BY DEF PlacesInv, WireInv
    <3>2. /\ Elems(Append(toServer, lreq)) = Elems(toServer) \cup {lreq}
          /\ OnceIn(Append(toServer, lreq), Calls)
      BY <1>3, <2>1, <3>1, Appending
    <3> QED BY <2>2, <3>1, <3>2 DEF Wire
  <2>4. CallsSound'
    BY <1>6, <2>1, <2>2, <2>3 DEF PlacesInv, CallsSound, Sound
  <2>5. SlotsFree' /\ WireInv'
    BY <1>0, <2>1, <2>2, <2>3 DEF PlacesInv, SlotsFree, WireInv, OnceIn
  <2> QED BY <1>1, <2>4, <2>5 DEF PlacesInv
<1>10. CASE ReauthWriteFails
  <2>1. /\ Answer(lreq, "writeErr") /\ CloseSock /\ UNCHANGED requests
        /\ lreq \in RIDs /\ lreq \notin Calls
    BY <1>4, <1>10 DEF ReauthWriteFails, WriteFails
  <2>2. \A q \in RIDs : q # lreq => recvChan'[q] = recvChan[q]
    BY <1>3, <2>1, Answering
  <2>3. /\ served \subseteq served' /\ served' \subseteq served \cup Wire
        /\ Wire' = {}
        /\ sock' = "closed" /\ toServer' = <<>> /\ toClient' = <<>>
    BY <1>3, <2>1, PrefixServed, EmptyElems DEF CloseSock, Wire
  <2>4. CallsSound'
    BY <1>3, <1>6, <2>1, <2>2, <2>3
  <2>5. SlotsFree'
    BY <2>3 DEF SlotsFree
  <2>6. WireInv'
    BY <1>0, <2>3, EmptyElems DEF PlacesInv, WireInv, OnceIn
  <2> QED BY <1>1, <2>4, <2>5, <2>6 DEF PlacesInv
<1> QED BY <1>7, <1>8, <1>9, <1>10

LEMMA ApiPlaces ==
  ASSUME ConnInv, PlacesInv,
         \/ \E r \in Reqs : Call(r)
         \/ \E r \in Calls : Api(r)
         \/ Close \/ CloseGivesUp
  PROVE  PlacesInv'
<1> USE DEF loopVars, sendVars, netVars
<1>a. PICK c \in Calls :
        /\ \E from, to : CallStep(c, from, to)
        /\ \/ Call(c) \/ (Close /\ c = CloseReq) \/ Queue(c) \/ Receive(c)
           \/ Remember(c) \/ (CloseGivesUp /\ c = CloseReq)
  BY DEF Api, Call, Close, Queue, Receive, Remember, CloseGivesUp, Calls
<1>b. PICK from, to : CallStep(c, from, to)
  BY <1>a
<1>0. /\ CallStep(c, from, to)
      /\ \/ Call(c) \/ (Close /\ c = CloseReq) \/ Queue(c) \/ Receive(c)
         \/ Remember(c) \/ (CloseGivesUp /\ c = CloseReq)
  BY <1>a, <1>b
<1>1. /\ UNCHANGED <<lpc, lreq, lerr, spc, sreq, requests, toServer, toClient,
                     served, sock>>
      /\ pc[c] = from /\ pc' = [pc EXCEPT ![c] = to]
  BY <1>0 DEF CallStep
<1>2. FlushInv' /\ InHand' = InHand /\ Wire' = Wire
  BY <1>1 DEF PlacesInv, FlushInv, InHand, Wire, Elems
<1>3. /\ recvChan \in Slots /\ pc \in Progress /\ Calls \subseteq RIDs
      /\ res \in [Calls -> Answers \cup {Empty}] /\ sendChan \in Seq(Calls)
      /\ requests \subseteq RIDs
  BY Functions
<1>4. pc'[c] = to /\ \A r \in Calls : r # c => pc'[r] = pc[r]
  BY <1>1, <1>3 DEF Progress
<1>5. CASE \/ Call(c) \/ (Close /\ c = CloseReq)
           \/ Remember(c) \/ (CloseGivesUp /\ c = CloseReq)
  <2>1. UNCHANGED <<res, sendChan, recvChan>>
    BY <1>5 DEF Call, Close, Remember, CloseGivesUp
  <2>2. \/ pc[c] = "idle" /\ pc'[c] = "queueing"
        \/ pc[c] = "remember" /\ pc'[c] = "done"
        \/ pc[c] = "waiting" /\ pc'[c] = "timedOut"
    BY <1>3, <1>5 DEF Call, Close, Remember, CloseGivesUp, CallStep, Progress
  <2>3. Queued' = Queued
    BY <2>1 DEF Queued
  <2>4. CallsSound'
    BY <1>1, <1>2, <1>4, <2>1, <2>2, <2>3
       DEF PlacesInv, CallsSound, Sound, Truthful, Fresh
  <2>5. SlotsFree' /\ WireInv'
    BY <1>1, <2>1 DEF PlacesInv, SlotsFree, WireInv, OnceIn
  <2> QED BY <1>2, <2>4, <2>5 DEF PlacesInv
<1>6. CASE Queue(c)
  <2>1. /\ sendChan' = Append(sendChan, c) /\ UNCHANGED <<res, recvChan>>
        /\ pc[c] = "queueing" /\ pc'[c] = "waiting"
    BY <1>3, <1>6 DEF Queue, CallStep, Progress
  <2>2. Sound(c)
    BY DEF PlacesInv, CallsSound
  <2>3. c \notin Queued
    BY <2>1, <2>2 DEF Sound, Fresh
  <2>4. Queued' = Queued \cup {c} /\ OnceIn(sendChan', Calls)
    <3>1. OnceIn(sendChan, Calls) /\ c \notin Elems(sendChan)
      BY <2>3 DEF PlacesInv, WireInv, Queued, Elems
    <3>2. /\ Elems(Append(sendChan, c)) = Elems(sendChan) \cup {c}
          /\ OnceIn(Append(sendChan, c), Calls)
      BY <1>3, <3>1, Appending
    <3> QED BY <2>1, <3>2 DEF Queued, Elems
  <2>5. CallsSound'
    <3> SUFFICES ASSUME NEW r \in Calls PROVE Sound(r)'
      BY DEF CallsSound
    <3>1. CASE r = c
      BY <1>1, <1>2, <2>1, <2>2, <2>4, <3>1, Kinds DEF Sound, Truthful, Fresh
    <3>2. CASE r # c
      <4>1. Sound(r) /\ pc'[r] = pc[r] /\ (r \in Queued' <=> r \in Queued)
        BY <1>4, <2>4, <3>2 DEF PlacesInv, CallsSound
      <4> QED BY <1>1, <1>2, <2>1, <4>1 DEF Sound, Truthful, Fresh
    <3> QED BY <3>1, <3>2
  <2>6. SlotsFree'
    BY <1>1, <2>1 DEF PlacesInv, SlotsFree
  <2>7. WireInv'
    <3>1. OnceIn(toServer', Calls)
      BY <1>1 DEF PlacesInv, WireInv, OnceIn
    <3> QED BY <1>1, <2>4, <3>1 DEF PlacesInv, WireInv
  <2> QED BY <1>2, <2>5, <2>6, <2>7 DEF PlacesInv
<1>7. CASE Receive(c)
  <2>1. /\ pc[c] = "waiting" /\ pc'[c] \in {"remember", "done"}
        /\ recvChan[c] # Empty /\ UNCHANGED sendChan
    BY <1>3, <1>7 DEF Receive, CallStep, Progress
  <2>2. /\ res'[c] = recvChan[c] /\ recvChan'[c] = Empty
        /\ \A r \in Calls : r # c => res'[r] = res[r]
        /\ \A r \in RIDs : r # c => recvChan'[r] = recvChan[r]
    BY <1>3, <1>7 DEF Receive, Slots
  <2>3. Queued' = Queued
    BY <2>1 DEF Queued
  <2>4. CallsSound'
    <3> SUFFICES ASSUME NEW r \in Calls PROVE Sound(r)'
      BY DEF CallsSound
    <3>0. Sound(r) /\ r \in RIDs
      BY <1>3 DEF PlacesInv, CallsSound
    <3>1. CASE r = c
      BY <1>1, <1>2, <2>1, <2>2, <2>3, <3>0, <3>1, Kinds
         DEF Sound, Truthful, Fresh
    <3>2. CASE r # c
      BY <1>1, <1>2, <1>4, <2>2, <2>3, <3>0, <3>2 DEF Sound, Truthful, Fresh
    <3> QED BY <3>1, <3>2
  <2>5. SlotsFree' /\ WireInv'
    BY <1>1, <1>3, <2>1, <2>2 DEF PlacesInv, SlotsFree, WireInv, OnceIn
  <2> QED BY <1>2, <2>4, <2>5 DEF PlacesInv
<1> QED BY <1>0, <1>5, <1>6, <1>7

LEMMA NetPlaces ==
  ASSUME ConnInv, PlacesInv, Serve \/ RefuseCredential \/ Break
  PROVE  PlacesInv'
<1> USE DEF NetStep, loopVars, sendVars, chanVars, callVars
<1>1. /\ UNCHANGED <<pc, res, lpc, lreq, lerr, spc, sreq, sendChan, requests,
                     recvChan>> /\ sock = "open"
      /\ InHand' = InHand /\ Queued' = Queued
  BY DEF Serve, RefuseCredential, Break, InHand, Queued
<1>2. FlushInv'
  BY <1>1 DEF PlacesInv, FlushInv
<1>3. CASE Serve
  <2> DEFINE h == Head(toServer)
  <2>1. PICK a \in Replies :
          /\ toServer # <<>> /\ toServer' = Tail(toServer) /\ sock' = sock
          /\ served' = served \cup {h}
          /\ toClient' = Append(toClient, [req |-> h, ans |-> a])
    BY <1>3 DEF Serve, Replies
  <2>2. /\ h \in Wire /\ Wire = Wire' \cup {h}
        /\ h \in Calls => h \notin Wire'
        /\ OnceIn(toServer', Calls)
    <3>1. toServer \in Seq(RIDs) /\ OnceIn(toServer, Calls)
      BY Functions DEF PlacesInv, WireInv
    <3>2. /\ h \in Elems(toServer) /\ Elems(toServer) = Elems(Tail(toServer)) \cup {h}
          /\ h \in Calls => h \notin Elems(Tail(toServer))
          /\ OnceIn(Tail(toServer), Calls)
      BY <2>1, <3>1, Tailing
    <3> QED BY <2>1, <3>2 DEF Wire
  <2> HIDE DEF h
  <2>3. CallsSound'
    <3> SUFFICES ASSUME NEW r \in Calls PROVE Sound(r)'
      BY DEF CallsSound
    <3>0. Sound(r)
      BY DEF PlacesInv, CallsSound
    <3>1. CASE r = h
      BY <1>1, <2>1, <2>2, <3>0, <3>1 DEF Sound, Truthful, Fresh
    <3>2. CASE r # h
      BY <1>1, <2>1, <2>2, <3>0, <3>2 DEF Sound, Truthful, Fresh
    <3> QED BY <3>1, <3>2
  <2>4. ASSUME NEW i \in 1 .. Len(toClient') PROVE toClient'[i].req \in served'
    <3>1. toClient \in Seq(Packets)
      BY Functions
    <3>2. \/ i \in 1 .. Len(toClient) /\ toClient'[i] = toClient[i]
          \/ toClient'[i] = [req |-> h, ans |-> a]
      BY <2>1, <3>1
    <3> QED BY <2>1, <3>2 DEF PlacesInv, WireInv
  <2>5. SlotsFree' /\ WireInv'
    BY <1>1, <2>1, <2>2, <2>4 DEF PlacesInv, SlotsFree, WireInv, OnceIn
  <2> QED BY <1>2, <2>3, <2>5 DEF PlacesInv
<1>4. CASE Break
  <2>1. ServerGotPrefix /\ toServer' = <<>> /\ sock' = "broken"
        /\ toClient' = toClient
    BY <1>4 DEF Break
  <2> QED BY <1>1, <1>2, <2>1, PlacesDropped
<1>5. CASE RefuseCredential
  <2> DEFINE h == Head(toServer)
  <2>1. /\ toServer # <<>> /\ toServer' = <<>> /\ sock' = "broken"
        /\ served' = served \cup {h}
        /\ toClient' = Append(toClient, [req |-> h, ans |-> "zkErr"])
    BY <1>5 DEF RefuseCredential
  <2>2. h \in Wire /\ Wire' = {} /\ OnceIn(toServer', Calls)
    <3>1. toServer \in Seq(RIDs) /\ OnceIn(toServer, Calls)
      BY Functions DEF PlacesInv, WireInv
    <3> QED BY <2>1, <3>1, Tailing, EmptyElems DEF Wire
  <2> HIDE DEF h
  <2>3. CallsSound'
    <3> SUFFICES ASSUME NEW r \in Calls PROVE Sound(r)'
      BY DEF CallsSound
    <3>0. Sound(r)
      BY DEF PlacesInv, CallsSound
    <3>1. CASE r = h
      BY <1>1, <2>1, <2>2, <3>0, <3>1 DEF Sound, Truthful, Fresh
    <3>2. CASE r # h
      BY <1>1, <2>1, <2>2, <3>0, <3>2 DEF Sound, Truthful, Fresh
    <3> QED BY <3>1, <3>2
  <2>4. ASSUME NEW i \in 1 .. Len(toClient') PROVE toClient'[i].req \in served'
    <3>1. toClient \in Seq(Packets)
      BY Functions
    <3>2. \/ i \in 1 .. Len(toClient) /\ toClient'[i] = toClient[i]
          \/ toClient'[i] = [req |-> h, ans |-> "zkErr"]
      BY <2>1, <3>1
    <3> QED BY <2>1, <3>2 DEF PlacesInv, WireInv
  <2>5. SlotsFree' /\ WireInv'
    BY <1>1, <2>1, <2>2, <2>4 DEF PlacesInv, SlotsFree, WireInv, OnceIn
  <2> QED BY <1>2, <2>3, <2>5 DEF PlacesInv
<1> QED BY <1>3, <1>4, <1>5

LEMMA PlacesStep ==
  ASSUME RequestInv, [Next]_vars
  PROVE  PlacesInv'
<1>1. CASE UNCHANGED vars
  <2>1. FlushInv' /\ InHand' = InHand
    BY <1>1 DEF RequestInv, PlacesInv, FlushInv, InHand, vars, loopVars,
                sendVars, chanVars
  <2>2. UNCHANGED <<pc, res, sendChan, requests, recvChan, toServer, toClient,
                    served, sock, spc>>
    BY <1>1 DEF vars, sendVars, netVars, chanVars, callVars
  <2> QED BY <2>1, <2>2, PlacesStay DEF RequestInv
<1>2. CASE Loop
  BY <1>2, LoopPlaces, FlushPlaces, ReauthPlaces DEF Loop, RequestInv
<1> QED BY <1>1, <1>2, SendPlaces, RecvPlaces, ApiPlaces, NetPlaces
        DEF Next, RequestInv

-----------------------------------------------------------------------------
(* resendZkAuth. *)

\* The request in hand is the one for the credential at ri, no call's.
LEMMA ReauthInHand ==
  ASSUME ConnInv, ReauthInv, lpc \in ReauthPCs \ {"reauth"}
  PROVE  /\ ri \in 1 .. Len(creds) /\ creds[ri] \in AuthReqs
         /\ lreq = Reauth(creds[ri]) /\ lreq \in RIDs /\ lreq \notin Calls
         /\ lpc = "reauthReg" => lreq \notin requests
<1>1. /\ ri \in 1 .. Len(creds) /\ lreq = Reauth(creds[ri])
      /\ creds \in Seq(AuthReqs) /\ ri \in ri .. Len(creds)
  BY DEF ReauthInv, ConnInv, TypeOK
<1>2. creds[ri] \in AuthReqs
  BY <1>1
<1>3. lreq \in RIDs /\ lreq \notin Calls
  BY <1>1, <1>2, ConnAssumption DEF RIDs
<1>4. lpc = "reauthReg" => lreq \notin requests
  BY <1>1 DEF ReauthInv, ReauthPCs
<1> QED BY <1>1, <1>2, <1>3, <1>4

LEMMA ReauthStays ==
  ASSUME ReauthInv, UNCHANGED <<ri, creds, lpc, lreq>>,
         \A i \in 1 .. Len(creds) :
           pc[creds[i]] = "done" => pc'[creds[i]] = "done",
         lpc \in ReauthPCs => requests' \subseteq requests,
         lpc = "reauthReg" => recvChan'[lreq] = recvChan[lreq]
  PROVE  ReauthInv'
BY DEF ReauthInv, OnceIn, ReauthPCs

\* Credentials are different, and so are the requests for them.
LEMMA ReauthDiffers ==
  ASSUME ConnInv, ReauthInv, NEW i \in 1 .. Len(creds), NEW j \in 1 .. Len(creds),
         i # j
  PROVE  Reauth(creds[i]) # Reauth(creds[j])
<1>1. creds[i] \in AuthReqs /\ creds[i] # creds[j]
  BY DEF ReauthInv, OnceIn, ConnInv, TypeOK
<1> QED BY <1>1 DEF Reauth

LEMMA ReauthKept ==
  ASSUME ConnInv, PlacesInv, ReauthInv, [Next]_vars
  PROVE  ReauthInv'
<1> USE DEF LoopStep, ReauthAt, netVars, chanVars, sendVars, callVars, loopVars
<1>0. /\ creds \in Seq(AuthReqs) /\ ri \in Nat \ {0} /\ Len(creds) \in Nat
      /\ recvChan \in Slots /\ Calls \subseteq RIDs /\ AuthReqs \subseteq Calls
      /\ pc \in Progress
  BY Functions, ConnAssumption DEF ConnInv, TypeOK, Calls
<1>1. CASE UNCHANGED vars
  BY <1>1, ReauthStays DEF vars
<1>2. CASE \/ ConnectNext \/ FlushUnsent \/ UnsentFlushed \/ RetryTimer
           \/ QuitWhileWaiting \/ DialFails \/ DialOk \/ AuthExpired \/ AuthFails
           \/ ConnectionGone \/ Disconnected \/ FlushPick \/ FlushSend \/ FlushEnd
  <2>1. UNCHANGED <<ri, creds, pc>> /\ lpc' \notin ReauthPCs
    BY <1>2 DEF ConnectNext, FlushUnsent, UnsentFlushed, RetryTimer,
       QuitWhileWaiting, DialFails, DialOk, AuthExpired, AuthFails,
       ConnectionGone, Disconnected, FlushPick, FlushSend, FlushEnd, AfterFlush,
       ReauthPCs, FlushPCs
  <2> QED BY <2>1 DEF ReauthInv, OnceIn, ReauthPCs
<1>3. CASE AuthOk
  <2>1. /\ UNCHANGED <<creds, pc>> /\ lpc' = "reauth" /\ ri' = 1
        /\ requests' = {}
    BY <1>3 DEF AuthOk, ConnInv, Structure, DownPCs
  <2> QED BY <1>0, <2>1 DEF ReauthInv, OnceIn
<1>4. CASE ReauthEnds \/ ReauthCancelled
  <2>1. UNCHANGED <<ri, creds, pc>> /\ lpc' = "wg"
    BY <1>4 DEF ReauthEnds, ReauthCancelled, ReauthReturns
  <2> QED BY <2>1 DEF ReauthInv, OnceIn, ReauthPCs
<1>5. CASE ReauthRequest
  <2>1. /\ UNCHANGED <<ri, creds, pc, requests>> /\ lpc' = "reauthReg"
        /\ lpc = "reauth" /\ lreq' = Reauth(creds[ri]) /\ ri <= Len(creds)
        /\ recvChan' = [recvChan EXCEPT ![Reauth(creds[ri])] = Empty]
    BY <1>5 DEF ReauthRequest
  <2>2. creds[ri] \in AuthReqs
    BY <1>0, <2>1
  <2>3. recvChan'[lreq'] = Empty
    BY <1>0, <2>1, <2>2 DEF Slots, RIDs
  <2> QED BY <2>1, <2>3 DEF ReauthInv, OnceIn, ReauthPCs
<1>6. CASE ReauthRegister
  <2>1. /\ UNCHANGED <<ri, creds, pc, lreq>> /\ lpc' = "reauthWrite"
        /\ lpc = "reauthReg" /\ requests' = requests \cup {lreq}
    BY <1>6 DEF ReauthRegister, ReauthGoes
  <2>2. ri \in 1 .. Len(creds) /\ lreq = Reauth(creds[ri])
    BY <2>1, ReauthInHand DEF ReauthPCs
  <2>3. ASSUME NEW i \in ri .. Len(creds), Reauth(creds[i]) \in requests'
        PROVE  i = ri
    <3>1. i \in 1 .. Len(creds)
      BY <1>0
    <3>2. Reauth(creds[i]) \notin requests
      BY <2>1 DEF ReauthInv, ReauthPCs
    <3>3. Reauth(creds[i]) = Reauth(creds[ri])
      BY <2>1, <2>2, <2>3, <3>2
    <3> QED BY <2>2, <3>1, <3>3, ReauthDiffers
  <2> QED BY <2>1, <2>2, <2>3 DEF ReauthInv, OnceIn, ReauthPCs
<1>7. CASE ReauthWrite
  <2>1. /\ UNCHANGED <<ri, creds, pc, lreq, requests>> /\ lpc' = "reauthWait"
        /\ lpc = "reauthWrite"
    BY <1>7 DEF ReauthWrite, ReauthGoes
  <2> QED BY <2>1 DEF ReauthInv, OnceIn, ReauthPCs
<1>8. CASE ReauthRefused \/ ReauthWriteFails \/ ReauthWriteClosed \/ ReauthAnswered
  <2>1. /\ UNCHANGED <<creds, pc, requests>> /\ lpc' = "reauth" /\ ri' = ri + 1
        /\ lpc \in ReauthPCs \ {"reauth"}
    BY <1>8 DEF ReauthRefused, ReauthWriteFails, ReauthWriteClosed,
                ReauthAnswered, ReauthContinues, ReauthPCs
  <2>2. ri \in 1 .. Len(creds)
    BY <2>1, ReauthInHand
  <2>3. \A i \in ri + 1 .. Len(creds) : i \in ri .. Len(creds) /\ i # ri
    BY <1>0
  <2>4. \A i \in ri + 1 .. Len(creds) : Reauth(creds[i]) \notin requests
    BY <2>1, <2>3 DEF ReauthInv
  <2> QED BY <1>0, <2>1, <2>2, <2>4 DEF ReauthInv, OnceIn, ReauthPCs
<1>9. CASE SendLoop
  <2>1. UNCHANGED <<ri, creds, lpc, lreq, pc>>
    BY <1>9 DEF SendLoop, SendStep, SendTooLarge, SendTake, SendRefused,
       SendRegister, SendWrite, SendWriteFails, SendWriteClosed, PingFails,
       SendStops, SendExit
  <2>2. spc \in {"select", "reg", "write", "exit"}
    BY <1>9 DEF SendLoop, SendStep, SendTooLarge, SendTake, SendRefused,
       SendRegister, SendWrite, SendWriteFails, SendWriteClosed, PingFails,
       SendStops, SendExit
  <2>3. lpc \notin ReauthPCs
    BY <2>2, LoopIdle DEF ReauthPCs
  <2> QED BY <2>1, <2>3, ReauthStays DEF ReauthPCs
<1>10. CASE RecvLoop \/ RecvGivesUp
  <2>1. UNCHANGED <<ri, creds, lpc, lreq, pc>> /\ requests' \subseteq requests
    BY <1>10 DEF RecvLoop, RecvStep, RecvReply, RecvFails, RecvExit, RecvGivesUp
  <2>2. ASSUME lpc = "reauthReg" PROVE recvChan'[lreq] = recvChan[lreq]
    <3>1. lreq \notin requests /\ lreq \in RIDs
      BY <2>2, ReauthInHand DEF ReauthPCs
    <3>2. \/ recvChan' = recvChan
          \/ \E r \in requests : \E a : Answer(r, a)
      BY <1>10 DEF RecvLoop, RecvReply, RecvFails, RecvExit, RecvGivesUp
    <3> QED BY <1>0, <3>1, <3>2 DEF Answer, Slots
  <2> QED BY <2>1, <2>2, ReauthStays
<1>11. CASE \/ \E r \in Reqs : Call(r)
            \/ \E r \in Calls : Queue(r) \/ Receive(r)
            \/ Close \/ CloseGivesUp
  <2>1. PICK c \in Calls : /\ UNCHANGED <<ri, creds, lpc, lreq, requests>>
                           /\ pc[c] # "done"
                           /\ \A r \in Calls : r # c => pc'[r] = pc[r]
                           /\ \A r \in RIDs : r # c => recvChan'[r] = recvChan[r]
    BY <1>0, <1>11 DEF Call, Queue, Receive, Close, CloseGivesUp, CallStep,
                       Calls, Slots, Progress
  <2>2. lpc = "reauthReg" => recvChan'[lreq] = recvChan[lreq]
    BY <2>1, ReauthInHand DEF ReauthPCs
  <2>3. \A i \in 1 .. Len(creds) : creds[i] \in Calls
    BY <1>0
  <2> QED BY <2>1, <2>2, <2>3, ReauthStays
<1>12. ASSUME NEW c \in Calls, Remember(c) PROVE ReauthInv'
  <2>1. /\ UNCHANGED <<ri, lpc, lreq>> /\ creds' = Append(creds, c)
        /\ pc[c] = "remember" /\ pc' = [pc EXCEPT ![c] = "done"]
        /\ lpc \notin ReauthPCs
    BY <1>12 DEF Remember, CallStep
  <2>2. c \notin Elems(creds)
    BY <2>1 DEF ReauthInv, Elems
  <2>3. OnceIn(creds, AuthReqs)
    BY DEF ReauthInv
  <2>4. OnceIn(creds', AuthReqs)
    BY <1>0, <2>1, <2>2, <2>3, Appending
  <2>5. ASSUME NEW i \in 1 .. Len(creds') PROVE pc'[creds'[i]] = "done"
    <3>1. \/ i \in 1 .. Len(creds) /\ creds'[i] = creds[i]
          \/ creds'[i] = c
      BY <1>0, <2>1
    <3>2. i \in 1 .. Len(creds) => pc[creds[i]] = "done" /\ creds[i] \in Calls
      BY <1>0 DEF ReauthInv
    <3> QED BY <1>0, <2>1, <3>1, <3>2 DEF Progress
  <2>6. ri' <= Len(creds') + 1
    <3>1. Len(creds') = Len(creds) + 1
      BY <1>0, <2>1
    <3> QED BY <1>0, <2>1, <3>1 DEF ReauthInv
  <2> QED BY <2>1, <2>4, <2>5, <2>6 DEF ReauthInv, ReauthPCs
<1>13. CASE Serve \/ RefuseCredential \/ Break
  BY <1>13, ReauthStays DEF Serve, RefuseCredential, Break, NetStep
<1>14. CASE Loop
  BY <1>14, <1>2, <1>3, <1>4, <1>5, <1>6, <1>7, <1>8 DEF Loop
<1> QED BY <1>1, <1>9, <1>10, <1>11, <1>12, <1>13, <1>14 DEF Next, Api

-----------------------------------------------------------------------------
(* Credentials in force. *)

\* The connection is in use, and neither given up nor to be closed.
Usable == sock = "open" /\ ~closeChan /\ ~quit
Sending == lpc \in ReauthPCs \/ spc \in {"select", "reg", "write"}

LEMMA AuthStays ==
  ASSUME AuthInv, UNCHANGED <<ri, creds>>, authed \subseteq authed',
         toClient' = toClient \/ toClient' = <<>>,
         sock' = "open" => sock = "open",
         Sending' => Sending, Sending' /\ Usable' => Usable,
         lpc' \in {"reauthWrite", "reauthWait"} =>
           /\ lpc \in {"reauthWrite", "reauthWait"}
           /\ UNCHANGED <<lreq, recvChan>>
  PROVE  AuthInv'
<1>1. sock' = "open" => \A i \in 1 .. Len(toClient'), a \in AuthReqs :
        toClient'[i].req = Reauth(a) => a \in authed'
  BY DEF AuthInv
<1>2. sock' = "open" /\ lpc' \in {"reauthWrite", "reauthWait"}
        => (recvChan'[lreq'] # Empty => creds'[ri'] \in authed')
  BY DEF AuthInv
<1>3. Sending' /\ Usable' => \A i \in 1 .. ri' - 1 : creds'[i] \in authed'
  BY DEF AuthInv, Sending, Usable
<1> QED BY <1>1, <1>2, <1>3 DEF AuthInv, Sending, Usable

LEMMA AuthReauth ==
  ASSUME ConnInv, ReauthInv, AuthInv,
         \/ ReauthEnds \/ ReauthRequest \/ ReauthRefused \/ ReauthRegister
         \/ ReauthWrite \/ ReauthWriteFails \/ ReauthWriteClosed
         \/ ReauthAnswered \/ ReauthCancelled
  PROVE  AuthInv'
<1> USE DEF ReauthAt, ReauthGoes, ReauthContinues, ReauthReturns, netVars,
            callVars
<1>1. CASE ReauthEnds \/ ReauthCancelled
  <2>1. /\ UNCHANGED <<ri, creds, authed, toClient, sock, closeChan, quit>>
        /\ lpc \in ReauthPCs /\ lpc' = "wg"
    BY <1>1 DEF ReauthEnds, ReauthCancelled, ReauthPCs
  <2> QED BY <2>1, AuthStays DEF Sending, Usable
<1>2. CASE ReauthRequest
  <2>1. /\ UNCHANGED <<ri, creds, authed, toClient, sock, closeChan, quit>>
        /\ lpc \in ReauthPCs /\ lpc' = "reauthReg"
    BY <1>2 DEF ReauthRequest, ReauthPCs
  <2> QED BY <2>1, AuthStays DEF Sending, Usable
<1>3. CASE ReauthRegister
  <2>1. /\ UNCHANGED <<ri, creds, authed, toClient, sock, closeChan, quit, spc,
                       recvChan, lreq>>
        /\ lpc = "reauthReg" /\ lpc' = "reauthWrite"
    BY <1>3 DEF ReauthRegister
  <2>2. recvChan'[lreq'] = Empty
    BY <2>1 DEF ReauthInv
  <2> QED BY <2>1, <2>2 DEF AuthInv, ReauthPCs
<1>4. CASE ReauthWrite
  <2>1. /\ UNCHANGED <<ri, creds, authed, toClient, sock, closeChan, quit, spc,
                       recvChan, lreq>>
        /\ lpc = "reauthWrite" /\ lpc' = "reauthWait"
    BY <1>4 DEF ReauthWrite, WriteOk
  <2> QED BY <2>1, AuthStays DEF Sending, Usable, ReauthPCs
<1>5. CASE ReauthRefused \/ ReauthWriteFails \/ ReauthWriteClosed
  <2>1. /\ ~Usable' /\ lpc' = "reauth" /\ authed' = authed
        /\ toClient' = toClient \/ toClient' = <<>>
        /\ sock' = "open" => sock = "open"
    BY <1>5 DEF ReauthRefused, ReauthWriteFails, ReauthWriteClosed, WriteFails,
                CloseSock, Usable
  <2> QED BY <2>1 DEF AuthInv, Usable
<1>6. CASE ReauthAnswered
  <2>1. /\ UNCHANGED <<creds, authed, toClient, sock, closeChan, quit, spc>>
        /\ ri' = ri + 1 /\ lpc = "reauthWait" /\ lpc' = "reauth"
        /\ recvChan[lreq] # Empty
    BY <1>6 DEF ReauthAnswered, ReauthReplied
  <2>2. (sock = "open" => creds[ri] \in authed) /\ ri \in Nat
    BY <2>1 DEF AuthInv, ConnInv, TypeOK
  <2>3. \A i \in 1 .. ri' - 1 : i = ri \/ i \in 1 .. ri - 1
    BY <2>1, <2>2
  <2> QED BY <2>1, <2>2, <2>3 DEF AuthInv, ReauthPCs
<1> QED BY <1>1, <1>2, <1>3, <1>4, <1>5, <1>6

LEMMA AuthLoop ==
  ASSUME ConnInv, AuthInv,
         \/ ConnectNext \/ FlushUnsent \/ UnsentFlushed \/ RetryTimer
         \/ QuitWhileWaiting \/ DialFails \/ DialOk
         \/ AuthOk \/ AuthExpired \/ AuthFails
         \/ ConnectionGone \/ Disconnected \/ FlushPick \/ FlushSend \/ FlushEnd
  PROVE  AuthInv'
<1> USE DEF LoopStep, netVars, chanVars, sendVars, callVars
<1>1. \/ toClient' = <<>>
      \/ UNCHANGED <<toClient, authed, sock>>
  BY DEF ConnectNext, FlushUnsent, UnsentFlushed, RetryTimer, QuitWhileWaiting,
         DialFails, DialOk, AuthOk, AuthExpired, AuthFails, CloseSock,
         ConnectionGone, Disconnected, FlushPick, FlushSend, FlushEnd
<1>2. sock' = "open" => \A i \in 1 .. Len(toClient'), a \in AuthReqs :
        toClient'[i].req = Reauth(a) => a \in authed'
  BY <1>1 DEF AuthInv
<1>3. lpc' \notin {"reauthWrite", "reauthWait"}
  BY DEF ConnectNext, FlushUnsent, UnsentFlushed, RetryTimer, QuitWhileWaiting,
         DialFails, DialOk, AuthOk, AuthExpired, AuthFails, ConnectionGone,
         Disconnected, FlushPick, FlushSend, FlushEnd, AfterFlush, FlushPCs
<1>4. CASE AuthOk
  <2>1. ri' = 1
    BY <1>4 DEF AuthOk
  <2>2. \A i : i \notin 1 .. ri' - 1
    BY <2>1
  <2> QED BY <1>2, <1>3, <2>2 DEF AuthInv
<1>5. CASE ~AuthOk
  <2>1. spc' = spc /\ lpc' \notin ReauthPCs /\ spc = "off"
    BY <1>5 DEF ConnectNext, FlushUnsent, UnsentFlushed, RetryTimer,
       QuitWhileWaiting, DialFails, DialOk, AuthExpired, AuthFails,
       ConnectionGone, GoroutinesGone, Disconnected, FlushPick, FlushSend,
       FlushEnd, AfterFlush, FlushPCs, ConnInv, Structure, UpPCs, ReauthPCs
  <2> QED BY <1>2, <1>3, <2>1 DEF AuthInv
<1> QED BY <1>4, <1>5

LEMMA AuthKept ==
  ASSUME ConnInv, PlacesInv, ReauthInv, AuthInv, [Next]_vars
  PROVE  AuthInv'
<1> USE DEF netVars, chanVars, sendVars, callVars, loopVars
<1>0. /\ creds \in Seq(AuthReqs) /\ ri \in Nat \ {0} /\ Len(creds) \in Nat
      /\ recvChan \in Slots /\ Calls \subseteq RIDs /\ AuthReqs \subseteq Calls
      /\ toClient \in Seq(Packets)
  BY Functions, ConnAssumption DEF ConnInv, TypeOK, Calls
<1>1. CASE UNCHANGED vars
  <2>1. UNCHANGED <<ri, creds, authed, toClient, sock, closeChan, quit, spc, lpc,
                    lreq, recvChan>>
    BY <1>1 DEF vars
  <2> QED BY <2>1, AuthStays DEF Sending, Usable
<1>2. CASE SendLoop
  <2>1. /\ UNCHANGED <<ri, creds, authed, closeChan, quit, lpc, lreq>>
        /\ toClient' = toClient \/ toClient' = <<>>
        /\ sock' = sock \/ sock' = "closed"
    BY <1>2 DEF SendLoop, SendStep, SendTooLarge, SendTake, SendRefused,
       SendRegister, SendWrite, SendWriteFails, SendWriteClosed, PingFails,
       SendStops, SendExit, WriteOk, WriteFails, CloseSock
  <2>2. /\ spc \in {"select", "reg", "write", "exit"}
        /\ spc = "exit" => spc' = "off"
    BY <1>2 DEF SendLoop, SendStep, SendTooLarge, SendTake, SendRefused,
       SendRegister, SendWrite, SendWriteFails, SendWriteClosed, PingFails,
       SendStops, SendExit
  <2>3. lpc = "wg"
    BY <2>2, LoopIdle
  <2> QED BY <2>1, <2>2, <2>3, AuthStays DEF Sending, Usable, ReauthPCs
<1>3. CASE RecvFails \/ RecvExit \/ RecvGivesUp
  <2>1. /\ UNCHANGED <<ri, creds, authed, quit, lpc, lreq, spc, toClient, sock,
                       recvChan>>
        /\ closeChan' = closeChan \/ closeChan'
    BY <1>3 DEF RecvStep, RecvFails, RecvExit, RecvGivesUp
  <2> QED BY <2>1, AuthStays DEF Sending, Usable
<1>4. CASE RecvReply
  <2> DEFINE m == Head(toClient)
  <2>1. /\ UNCHANGED <<ri, creds, authed, quit, lpc, lreq, spc, sock, closeChan>>
        /\ toClient # <<>> /\ toClient' = Tail(toClient)
        /\ recvChan' = recvChan \/ Answer(m.req, m.ans)
    BY <1>4 DEF RecvReply, RecvStep
  <2>2. /\ m = toClient[1] /\ 1 \in 1 .. Len(toClient)
        /\ \A i \in 1 .. Len(toClient') :
             i + 1 \in 1 .. Len(toClient) /\ toClient'[i] = toClient[i + 1]
    BY <1>0, <2>1
  <2>3. sock' = "open" => \A i \in 1 .. Len(toClient'), a \in AuthReqs :
          toClient'[i].req = Reauth(a) => a \in authed'
    BY <2>1, <2>2 DEF AuthInv
  <2>4. ASSUME sock' = "open", lpc' \in {"reauthWrite", "reauthWait"},
               recvChan'[lreq'] # Empty
        PROVE  creds'[ri'] \in authed'
    <3>1. lreq = Reauth(creds[ri]) /\ lreq \in RIDs /\ creds[ri] \in AuthReqs
      BY <2>1, <2>4, ReauthInHand DEF ReauthPCs
    <3>2. CASE m.req = lreq
      BY <2>1, <2>2, <2>4, <3>1, <3>2 DEF AuthInv
    <3>3. CASE m.req # lreq
      <4>1. recvChan'[lreq] = recvChan[lreq]
        BY <1>0, <2>1, <3>1, <3>3 DEF Answer, Slots
      <4> QED BY <2>1, <2>4, <4>1 DEF AuthInv
    <3> QED BY <3>2, <3>3
  <2>5. Sending' /\ Usable' => \A i \in 1 .. ri' - 1 : creds'[i] \in authed'
    BY <2>1 DEF AuthInv, Sending, Usable
  <2> QED BY <2>3, <2>4, <2>5 DEF AuthInv, Sending, Usable
<1>5. CASE \/ \E r \in Reqs : Call(r)
           \/ \E r \in Calls : Queue(r) \/ Receive(r)
           \/ Close \/ CloseGivesUp
  <2>1. PICK c \in Calls :
          /\ UNCHANGED <<ri, creds, authed, lpc, lreq, spc, toClient, sock,
                         closeChan>>
          /\ quit' = quit \/ quit'
          /\ \A r \in RIDs : r # c => recvChan'[r] = recvChan[r]
    BY <1>0, <1>5 DEF Call, Queue, Receive, Close, CloseGivesUp, CallStep,
                      Calls, Slots
  <2>2. lpc \in {"reauthWrite", "reauthWait"} => recvChan'[lreq] = recvChan[lreq]
    BY <2>1, ReauthInHand DEF ReauthPCs
  <2>3. Sending' /\ Usable' => \A i \in 1 .. ri' - 1 : creds'[i] \in authed'
    BY <2>1 DEF AuthInv, Sending, Usable
  <2> QED BY <2>1, <2>2, <2>3 DEF AuthInv, Sending, Usable
<1>6. ASSUME NEW c \in Calls, Remember(c) PROVE AuthInv'
  <2>1. /\ UNCHANGED <<ri, authed, lpc, lreq, spc, toClient, sock, closeChan,
                       quit>>
        /\ creds' = Append(creds, c) /\ lpc \notin ReauthPCs
    BY <1>6 DEF Remember, CallStep
  <2>2. \A i \in 1 .. ri - 1 : creds'[i] = creds[i]
    <3>1. ri - 1 <= Len(creds)
      BY <1>0 DEF ReauthInv
    <3> QED BY <1>0, <2>1, <3>1
  <2> QED BY <2>1, <2>2 DEF AuthInv, ReauthPCs
<1>7. CASE Break
  <2>1. /\ UNCHANGED <<ri, creds, authed, quit, lpc, lreq, spc, toClient,
                       recvChan, closeChan>>
        /\ sock' = "broken"
    BY <1>7 DEF Break, NetStep
  <2> QED BY <2>1, AuthStays DEF Sending, Usable
<1>8. CASE Serve
  <2> DEFINE h == Head(toServer)
  <2>1. PICK a \in IF h \in Reqs \ AuthReqs THEN Replies ELSE {"nil"} :
          /\ toClient' = Append(toClient, [req |-> h, ans |-> a])
          /\ authed' = authed \cup {c \in AuthReqs : a = "nil"
                                              /\ h \in {c, Reauth(c)}}
    BY <1>8 DEF Serve
  <2> HIDE DEF h
  <2>2. /\ UNCHANGED <<ri, creds, quit, lpc, lreq, spc, recvChan, closeChan, sock>>
        /\ sock = "open"
    BY <1>8 DEF Serve, NetStep
  <2>3. ASSUME NEW i \in 1 .. Len(toClient'), NEW c \in AuthReqs,
               toClient'[i].req = Reauth(c)
        PROVE  c \in authed'
    <3>1. \/ i \in 1 .. Len(toClient) /\ toClient'[i] = toClient[i]
          \/ toClient'[i] = [req |-> h, ans |-> a]
      BY <1>0, <2>1
    <3>2. CASE i \in 1 .. Len(toClient) /\ toClient'[i] = toClient[i]
      BY <2>1, <2>2, <2>3, <3>2 DEF AuthInv
    <3>3. CASE toClient'[i] = [req |-> h, ans |-> a]
      <4>1. h = Reauth(c)
        BY <2>3, <3>3
      <4>2. h \notin Reqs
        BY <4>1, ConnAssumption DEF Calls
      <4>3. a = "nil"
        BY <2>1, <4>2
      <4> QED BY <2>1, <4>1, <4>3
    <3> QED BY <3>1, <3>2, <3>3
  <2>4. Sending' /\ Usable' => \A i \in 1 .. ri' - 1 : creds'[i] \in authed'
    BY <2>1, <2>2 DEF AuthInv, Sending, Usable
  <2>5. lpc' \in {"reauthWrite", "reauthWait"} /\ recvChan'[lreq'] # Empty
          => creds'[ri'] \in authed'
    BY <2>1, <2>2 DEF AuthInv
  <2> QED BY <2>3, <2>4, <2>5 DEF AuthInv, Sending, Usable
<1>9. CASE Loop
  BY <1>9, AuthLoop, AuthReauth DEF Loop
<1>10. CASE RefuseCredential
  <2>1. sock' = "broken"
    BY <1>10 DEF RefuseCredential
  <2> QED BY <2>1 DEF AuthInv
<1> QED BY <1>1, <1>2, <1>3, <1>4, <1>5, <1>6, <1>7, <1>8, <1>9, <1>10
        DEF Next, RecvLoop, Api

-----------------------------------------------------------------------------
(* The theorems. *)

LEMMA RequestInvariant == Spec => []RequestInv
<1>1. Init => PlacesInv /\ ReauthInv /\ AuthInv
  <2> SUFFICES ASSUME Init PROVE PlacesInv /\ ReauthInv /\ AuthInv
    OBVIOUS
  <2>1. /\ sendChan = <<>> /\ toServer = <<>> /\ toClient = <<>> /\ creds = <<>>
        /\ requests = {} /\ served = {} /\ lreq = NoReq /\ lpc = "next"
        /\ spc = "off" /\ ri = 1 /\ Calls \subseteq RIDs
        /\ recvChan = [r \in RIDs |-> Empty]
        /\ pc = [r \in Calls |-> "idle"] /\ res = [r \in Calls |-> Empty]
    BY CallsAreRIDs DEF Init
  <2>2. Queued = {} /\ InHand = {} /\ Wire = {}
    BY <2>1, EmptyElems DEF Queued, InHand, Wire, Elems
  <2>3. CallsSound
    BY <2>1, <2>2, Kinds DEF CallsSound, Sound, Truthful, Fresh
  <2>4. SlotsFree /\ WireInv /\ FlushInv
    BY <2>1, EmptyElems DEF SlotsFree, WireInv, FlushInv, FlushPCs
  <2>5. ReauthInv
    BY <2>1, EmptyElems DEF ReauthInv, ReauthPCs
  <2>6. AuthInv
    BY <2>1 DEF AuthInv, ReauthPCs
  <2> QED BY <2>3, <2>4, <2>5, <2>6 DEF PlacesInv
<1>2. PlacesInv /\ ReauthInv /\ AuthInv /\ ConnInv /\ ConnInv' /\ [Next]_vars
        => (PlacesInv /\ ReauthInv /\ AuthInv)'
  BY PlacesStep, ReauthKept, AuthKept DEF RequestInv
<1>3. Spec => [](PlacesInv /\ ReauthInv /\ AuthInv)
  BY <1>1, <1>2, Invariance, PTL DEF Spec
<1> QED BY <1>3, Invariance, PTL DEF RequestInv

\* A call that waits on its recvChan, which it does without a timeout, has its
\* request queued, with the send loop, pending, or answered.
THEOREM RequestsAreKept == Spec => []NoLostRequest
<1>1. RequestInv => NoLostRequest
  BY DEF RequestInv, PlacesInv, CallsSound, Sound, NoLostRequest
<1> QED BY <1>1, RequestInvariant, PTL

\* What a call reports about its request is true: a reply means that a server
\* has carried it out, ErrNoServer, ErrShortBuffer and a failed write that none
\* has.
THEOREM OutcomesAreTrue == Spec => []OutcomeIsTrue
<1>1. RequestInv => OutcomeIsTrue
  BY DEF RequestInv, PlacesInv, CallsSound, Sound, Truthful, NotDone,
         OutcomeIsTrue
<1> QED BY <1>1, RequestInvariant, PTL

\* No request that a server may have carried out is queued, held by the send
\* loop or on the wire again, over any number of connections.
THEOREM RequestsSentOnce == Spec => []NeverResent
<1>1. RequestInv => NeverResent
  <2> SUFFICES ASSUME RequestInv PROVE NeverResent
    OBVIOUS
  <2>1. ASSUME NEW r \in Calls \cap served
        PROVE  /\ r \notin Queued \cup InHand
               /\ \A i \in 1 .. Len(toServer) : toServer[i] # r
    BY <2>1 DEF RequestInv, PlacesInv, CallsSound, Sound, Wire, Elems
  <2>2. OnceIn(toServer, Calls)
    BY DEF RequestInv, PlacesInv, WireInv
  <2> QED BY <2>1, <2>2 DEF NeverResent, OnceIn
<1> QED BY <1>1, RequestInvariant, PTL

\* sendData, recvLoop and flushUnsentRequests never block on a recvChan, whose
\* one slot is empty when they answer.
THEOREM AnswersNeverBlock == Spec => []AnswerSlotFree
<1>1. RequestInv => AnswerSlotFree
  <2> SUFFICES ASSUME RequestInv PROVE AnswerSlotFree
    OBVIOUS
  <2>1. ASSUME NEW r \in Queued \cup InHand PROVE recvChan[r] = Empty
    <3>1. sendChan \in Seq(Calls)
      BY Functions DEF RequestInv
    <3>2. r \in Calls
      BY <3>1 DEF RequestInv, ConnInv, TypeOK, Structure, Queued, InHand
    <3> QED BY <3>2 DEF RequestInv, PlacesInv, CallsSound, Sound
  <2>2. ASSUME toClient # <<>>, Head(toClient).req \in requests
        PROVE  recvChan[Head(toClient).req] = Empty
    BY <2>2 DEF RequestInv, PlacesInv, WireInv, SlotsFree
  <2> QED BY <2>1, <2>2 DEF AnswerSlotFree
<1> QED BY <1>1, RequestInvariant, PTL

\* On a usable connection every credential that resendZkAuth found is in force
\* before the send loop hands over the first request.
THEOREM CredentialsFirst == Spec => []ReauthBeforeRequests
<1>1. RequestInv => ReauthBeforeRequests
  BY DEF RequestInv, AuthInv, ReauthBeforeRequests
<1> QED BY <1>1, RequestInvariant, PTL

-----------------------------------------------------------------------------
(* The pipeline implements Rpc. *)

Stage(p) ==
  CASE p = "idle" -> "idle"
    [] p \in {"queueing", "waiting"} -> "pending"
    [] p \in {"remember", "done"} -> "returned"
    [] p = "timedOut" -> "abandoned"

LEMMA StatusIsStage == CallStatus = [r \in Calls |-> Stage(pc[r])]
BY DEF CallStatus, Stage

LEMMA StageIs ==
  /\ Stage("idle") = "idle"
  /\ \A p \in {"queueing", "waiting"} : Stage(p) = "pending"
  /\ \A p \in {"remember", "done"} : Stage(p) = "returned"
  /\ Stage("timedOut") = "abandoned"
BY DEF Stage

LEMMA StatusIs ==
  ASSUME NEW r \in Calls, pc \in Progress
  PROVE  /\ pc[r] = "idle" => CallStatus[r] = "idle"
         /\ pc[r] \in {"queueing", "waiting"} => CallStatus[r] = "pending"
         /\ pc[r] \in {"remember", "done"} => CallStatus[r] = "returned"
         /\ pc[r] = "timedOut" => CallStatus[r] = "abandoned"
BY StatusIsStage, StageIs

\* Steps of the goroutines, the server and the network do not move a call, and
\* only what is on the wire is carried out.
LEMMA OthersServe ==
  ASSUME RequestInv,
         \/ Loop \/ SendLoop \/ RecvLoop \/ RecvGivesUp
         \/ Serve \/ RefuseCredential \/ Break \/ UNCHANGED vars
  PROVE  /\ UNCHANGED <<pc, res>>
         /\ served \subseteq served' /\ served' \subseteq served \cup Wire
<1> USE DEF netVars, chanVars, sendVars, callVars, loopVars
<1>0. toServer \in Seq(RIDs)
  BY Functions DEF RequestInv
<1>1. CASE UNCHANGED vars
  BY <1>1 DEF vars
<1>2. CASE Loop
  <2>1. UNCHANGED <<pc, res>> /\ (served' = served \/ ServerGotPrefix)
    BY <1>2 DEF Loop, LoopStep, ReauthAt, ConnectNext, FlushUnsent,
       UnsentFlushed, RetryTimer, QuitWhileWaiting, DialFails, DialOk, AuthOk,
       AuthExpired, AuthFails, ReauthEnds, ReauthRequest, ReauthRefused,
       ReauthRegister, ReauthWrite, ReauthWriteFails, ReauthWriteClosed,
       ReauthAnswered, ReauthCancelled, ConnectionGone, Disconnected, FlushPick,
       FlushSend, FlushEnd, WriteOk, WriteFails, CloseSock
  <2> QED BY <1>0, <2>1, PrefixServed
<1>3. CASE SendLoop
  <2>1. UNCHANGED <<pc, res>> /\ (served' = served \/ ServerGotPrefix)
    BY <1>3 DEF SendLoop, SendStep, SendTooLarge, SendTake, SendRefused,
       SendRegister, SendWrite, SendWriteFails, SendWriteClosed, PingFails,
       SendStops, SendExit, WriteOk, WriteFails, CloseSock
  <2> QED BY <1>0, <2>1, PrefixServed
<1>4. CASE RecvLoop \/ RecvGivesUp
  BY <1>4 DEF RecvLoop, RecvStep, RecvReply, RecvFails, RecvExit, RecvGivesUp
<1>5. CASE Break
  BY <1>0, <1>5, PrefixServed DEF Break, NetStep
<1>6. CASE Serve \/ RefuseCredential
  <2>1. toServer # <<>> /\ served' = served \cup {Head(toServer)}
        /\ UNCHANGED <<pc, res>>
    BY <1>6 DEF Serve, RefuseCredential, NetStep
  <2>2. Head(toServer) \in Wire
    <3>1. OnceIn(toServer, Calls)
      BY DEF RequestInv, PlacesInv, WireInv
    <3> QED BY <1>0, <2>1, <3>1, Tailing DEF Wire
  <2> QED BY <2>1, <2>2
<1> QED BY <1>1, <1>2, <1>3, <1>4, <1>5, <1>6

LEMMA OthersPerform ==
  ASSUME RequestInv, UNCHANGED <<pc, res>>, served \subseteq served',
         served' \subseteq served \cup Wire
  PROVE  CallerView!Perform
<1>1. CallStatus' = CallStatus
  BY DEF CallStatus
<1>2. ASSUME NEW r \in (served' \cap Calls) \ (served \cap Calls)
      PROVE  CallStatus[r] \in {"pending", "abandoned"}
             \/ res[r] \in Flushed \ {"ErrNoServer"}
  <2>1. r \in Calls /\ r \in Wire /\ r \notin served
    BY <1>2
  <2>2. Sound(r) /\ pc \in Progress /\ res[r] \in Answers \cup {Empty}
    BY <2>1, Functions DEF RequestInv, PlacesInv, CallsSound
  <2>3. pc[r] \in {"waiting", "remember", "done", "timedOut"}
    BY <2>1, <2>2 DEF Sound, Fresh, Progress
  <2>4. CASE pc[r] \in {"waiting", "timedOut"}
    BY <2>1, <2>2, <2>4, StatusIs
  <2>5. CASE pc[r] \in {"remember", "done"}
    <3>1. res[r] # Empty /\ res[r] \notin Replies /\ res[r] \notin NotDone
      BY <2>1, <2>2, <2>5 DEF Sound, Truthful
    <3> QED BY <2>2, <3>1 DEF Answers, NotDone
  <2> QED BY <2>3, <2>4, <2>5
<1> QED BY <1>1, <1>2 DEF CallerView!Perform, CallerView!MayHappen

LEMMA ApiReturns ==
  ASSUME RequestInv, NEW c \in Calls,
         \/ Call(c) \/ (Close /\ c = CloseReq) \/ Queue(c) \/ Receive(c)
         \/ Remember(c) \/ (CloseGivesUp /\ c = CloseReq)
  PROVE  CallerView!Next \/ UNCHANGED CallerView!rpcVars
<1> USE DEF CallStep, netVars
<1>0. /\ pc \in Progress /\ recvChan \in Slots /\ Calls \subseteq RIDs
      /\ res \in [Calls -> Answers \cup {Empty}] /\ Sound(c) /\ served' = served
  BY Functions DEF RequestInv, PlacesInv, CallsSound, Call, Close, Queue,
                   Receive, Remember, CloseGivesUp
<1>1. PICK to \in {"queueing", "waiting", "remember", "done", "timedOut"} :
        pc' = [pc EXCEPT ![c] = to]
  BY DEF Call, Close, Queue, Receive, Remember, CloseGivesUp
<1>2. pc' \in Progress
  BY <1>0, <1>1 DEF Progress
<1>3. /\ CallStatus = [r \in Calls |-> Stage(pc[r])]
      /\ CallStatus' = [r \in Calls |-> Stage(pc'[r])]
  BY DEF CallStatus, Stage
<1>4. CallStatus'[c] = Stage(to)
      /\ CallStatus' = [CallStatus EXCEPT ![c] = Stage(to)]
  <2>1. pc'[c] = to /\ \A r \in Calls : r # c => pc'[r] = pc[r]
    BY <1>0, <1>1 DEF Progress
  <2> QED BY <1>3, <2>1
<1>5. CASE Call(c) \/ (Close /\ c = CloseReq)
  <2>1. pc[c] = "idle" /\ to = "queueing" /\ UNCHANGED res
    BY <1>0, <1>1, <1>5 DEF Call, Close, Progress
  <2>2. CallStatus[c] = "idle" /\ CallStatus'[c] = "pending"
    BY <1>0, <1>4, <2>1, StatusIs, StageIs
  <2>3. CallerView!Call(c)
    BY <1>0, <1>4, <2>1, <2>2 DEF CallerView!Call
  <2> QED BY <2>3 DEF CallerView!Next
<1>6. CASE Queue(c) \/ Remember(c)
  <2>1. /\ UNCHANGED res
        /\ \/ pc[c] = "queueing" /\ to = "waiting"
           \/ pc[c] = "remember" /\ to = "done"
    BY <1>0, <1>1, <1>6 DEF Queue, Remember, Progress
  <2>2. CallStatus[c] = CallStatus'[c]
    BY <1>0, <1>4, <2>1, StatusIs, StageIs
  <2>3. CallStatus' = CallStatus
    BY <1>3, <1>4, <2>2
  <2> QED BY <1>0, <2>1, <2>3 DEF CallerView!rpcVars
<1>7. CASE CloseGivesUp /\ c = CloseReq
  <2>1. pc[c] = "waiting" /\ to = "timedOut" /\ UNCHANGED res
    BY <1>0, <1>1, <1>7 DEF CloseGivesUp, Progress
  <2>2. CallStatus[c] = "pending" /\ CallStatus'[c] = "abandoned"
    BY <1>0, <1>4, <2>1, StatusIs, StageIs
  <2>3. CallerView!Abandon(c)
    BY <1>0, <1>4, <2>1, <2>2 DEF CallerView!Abandon
  <2> QED BY <2>3 DEF CallerView!Next
<1>8. CASE Receive(c)
  <2> DEFINE a == recvChan[c]
  <2>1. /\ pc[c] = "waiting" /\ to \in {"remember", "done"} /\ a # Empty
        /\ res' = [res EXCEPT ![c] = a]
    BY <1>0, <1>1, <1>8 DEF Receive, Progress
  <2>2. CallStatus[c] = "pending" /\ CallStatus'[c] = "returned"
    BY <1>0, <1>4, <2>1, StatusIs, StageIs
  <2>3. /\ a \in Replies => c \in served \cap Calls
        /\ a \in Unsent \cup {"ErrNoServer"} => c \notin served \cap Calls
    BY <1>0 DEF Sound, Truthful, NotDone
  <2>4. a \in Replies \cup (Unsent \cup {"ErrNoServer"})
                      \cup (Flushed \ {"ErrNoServer"})
    BY <1>0, <2>1 DEF Slots, Answers
  <2> HIDE DEF a
  <2>5. CallerView!Return(c, a)
    BY <1>0, <1>4, <2>1, <2>2, <2>3 DEF CallerView!Return
  <2> QED BY <2>4, <2>5 DEF CallerView!Next
<1> QED BY <1>5, <1>6, <1>7, <1>8

\* The pipeline keeps its promise to callers, through any number of connections:
\* every step is one of Rpc's, or none as far as a caller can tell, so that a
\* call returns once and what it says stays true while the server still takes
\* packets of a connection that is being given up.
THEOREM PipelineIsRpc == Spec => ImplementsRpc
<1>1. Init => CallerView!Init
  <2> SUFFICES ASSUME Init PROVE CallerView!Init
    OBVIOUS
  <2>1. CallStatus = [r \in Calls |-> "idle"]
    BY DEF Init, CallStatus
  <2> QED BY <2>1 DEF Init, CallerView!Init, Empty
<1>2. RequestInv /\ [Next]_vars => [CallerView!Next]_(CallerView!rpcVars)
  <2> SUFFICES ASSUME RequestInv, [Next]_vars
               PROVE  CallerView!Next \/ UNCHANGED CallerView!rpcVars
    OBVIOUS
  <2>1. CASE \/ Loop \/ SendLoop \/ RecvLoop \/ RecvGivesUp
             \/ Serve \/ RefuseCredential \/ Break
             \/ UNCHANGED vars
    BY <2>1, OthersServe, OthersPerform DEF CallerView!Next
  <2>2. CASE \/ \E r \in Reqs : Call(r)
             \/ \E r \in Calls : Api(r)
             \/ Close \/ CloseGivesUp
    BY <2>2, ApiReturns DEF Api, Calls
  <2> QED BY <2>1, <2>2 DEF Next
<1> QED BY <1>1, <1>2, RequestInvariant, PTL
        DEF Spec, ImplementsRpc, CallerView!Spec

-----------------------------------------------------------------------------
(* Where flushRequests can block. *)

\* The caller is at its receive, or is a Close() that has stopped waiting.
Expected(r) == pc[r] \in {"waiting", "timedOut"}

Unread(r) == r \in requests /\ recvChan[r] # Empty

UnreadInv ==
  \A r \in Calls :
    /\ r \in Queued \cup InHand \/ Unread(r) => Expected(r)
    /\ pc[r] = "timedOut" => r = CloseReq

LEMMA UnreadStays ==
  ASSUME UnreadInv, pc' = pc,
         \A r \in Calls :
           /\ r \in (Queued \cup InHand)' => r \in Queued \cup InHand
           /\ Unread(r)' => Unread(r) \/ r \in Queued \cup InHand
  PROVE  UnreadInv'
<1>1. \A r \in Calls : Expected(r)' <=> Expected(r)
  BY DEF Expected
<1> QED BY <1>1 DEF UnreadInv

LEMMA LoopUnread ==
  ASSUME RequestInv, UnreadInv, Loop
  PROVE  UnreadInv'
<1> USE DEF LoopStep, ReauthAt, callVars, chanVars, sendVars
<1>0. /\ recvChan \in Slots /\ Calls \subseteq RIDs /\ sendChan \in Seq(Calls)
      /\ requests \subseteq RIDs
  BY Functions DEF RequestInv
<1>1. CASE FlushUnsent
  <2>1. sendChan # <<>> /\ sendChan' = Tail(sendChan) /\ Answer(Head(sendChan), lerr)
        /\ UNCHANGED <<pc, spc, sreq, requests>>
    BY <1>1 DEF FlushUnsent
  <2>2. Queued' \subseteq Queued /\ Head(sendChan) \in Queued /\ Head(sendChan) \in RIDs
    BY <1>0, <2>1, Tailing DEF Queued, Elems, RequestInv, PlacesInv, WireInv
  <2>3. \A q \in RIDs : q # Head(sendChan) => recvChan'[q] = recvChan[q]
    BY <1>0, <2>1, <2>2, Answering
  <2> QED BY <1>0, <2>1, <2>2, <2>3, UnreadStays DEF InHand, Unread
<1>2. CASE FlushSend
  <2>1. /\ lreq # NoReq /\ Answer(lreq, lerr) /\ requests' = requests \ {lreq}
        /\ UNCHANGED <<pc, spc, sreq, sendChan>>
    BY <1>2 DEF FlushSend
  <2>2. lreq \in RIDs
    BY <2>1 DEF RequestInv, ConnInv, TypeOK
  <2>3. \A q \in RIDs : q # lreq => recvChan'[q] = recvChan[q]
    BY <1>0, <2>1, <2>2, Answering
  <2> QED BY <1>0, <2>1, <2>3, UnreadStays DEF InHand, Queued, Unread
<1>3. CASE ReauthRequest \/ ReauthRefused \/ ReauthWriteFails \/ ReauthAnswered
  <2>1. \A r \in Calls : recvChan'[r] = recvChan[r]
    <3>1. CASE ReauthRequest
      <4>1. creds[ri] \in AuthReqs
        BY <3>1 DEF ReauthRequest, RequestInv, ConnInv, TypeOK
      <4> QED BY <1>0, <3>1, <4>1, ConnAssumption DEF ReauthRequest, Slots
    <3>2. CASE ReauthRefused \/ ReauthWriteFails \/ ReauthAnswered
      <4>1. lreq \notin Calls
        BY <3>2, ReauthInHand DEF RequestInv, ReauthRefused, ReauthWriteFails,
           ReauthAnswered, ReauthPCs
      <4> QED BY <1>0, <3>2, <4>1 DEF ReauthRefused, ReauthWriteFails,
              ReauthAnswered, WriteFails, Answer, Slots
    <3> QED BY <1>3, <3>1, <3>2
  <2>2. UNCHANGED <<pc, spc, sreq, requests, sendChan>>
    BY <1>3 DEF ReauthRequest, ReauthRefused, ReauthWriteFails, ReauthAnswered,
       ReauthContinues
  <2> QED BY <2>1, <2>2, UnreadStays DEF InHand, Queued, Unread
<1>4. CASE ReauthRegister
  <2>1. lreq \notin Calls
    BY <1>4, ReauthInHand DEF RequestInv, ReauthRegister, ReauthPCs
  <2>2. requests' = requests \cup {lreq} /\ UNCHANGED <<pc, spc, sreq, sendChan, recvChan>>
    BY <1>4 DEF ReauthRegister, ReauthGoes
  <2> QED BY <2>1, <2>2, UnreadStays DEF InHand, Queued, Unread
<1>5. CASE \/ ConnectNext \/ UnsentFlushed \/ RetryTimer \/ QuitWhileWaiting
           \/ DialFails \/ DialOk \/ AuthExpired \/ AuthFails \/ ReauthWrite
           \/ ReauthWriteClosed \/ ConnectionGone \/ Disconnected \/ FlushPick
           \/ FlushEnd
  <2>1. UNCHANGED <<pc, spc, sreq, sendChan, requests, recvChan>>
    BY <1>5 DEF ConnectNext, UnsentFlushed, RetryTimer, QuitWhileWaiting,
       DialFails, DialOk, AuthExpired, AuthFails, ReauthWrite, ReauthWriteClosed,
       ReauthGoes, ReauthContinues, ConnectionGone, Disconnected, FlushPick, FlushEnd
  <2> QED BY <2>1, UnreadStays DEF InHand, Queued, Unread
<1>6. CASE AuthOk \/ ReauthEnds \/ ReauthCancelled
  <2>1. UNCHANGED <<pc, sendChan, requests, recvChan>> /\ spc' \in {"waitReauth", "select"}
    BY <1>6 DEF AuthOk, SenderStarts, ReauthEnds, ReauthCancelled, ReauthReturns
  <2> QED BY <2>1, UnreadStays DEF InHand, Queued, Unread
<1> QED BY <1>1, <1>2, <1>3, <1>4, <1>5, <1>6 DEF Loop

LEMMA SendUnread ==
  ASSUME RequestInv, UnreadInv, SendLoop \/ RecvLoop \/ RecvGivesUp
  PROVE  UnreadInv'
<1> USE DEF SendStep, RecvStep, callVars, chanVars, sendVars
<1>0. /\ recvChan \in Slots /\ Calls \subseteq RIDs /\ sendChan \in Seq(Calls)
      /\ requests \subseteq RIDs /\ OnceIn(sendChan, Calls)
  BY Functions DEF RequestInv, PlacesInv, WireInv
<1>00. spc \in {"reg", "write"} => sreq \in InHand /\ sreq \in RIDs
  BY <1>0 DEF RequestInv, ConnInv, TypeOK, Structure, InHand
<1>1. CASE SendTooLarge
  <2>1. /\ sendChan # <<>> /\ sendChan' = Tail(sendChan)
        /\ Answer(Head(sendChan), "ErrShortBuffer")
        /\ UNCHANGED <<pc, spc, sreq, requests>>
    BY <1>1 DEF SendTooLarge
  <2>2. Queued' \subseteq Queued /\ Head(sendChan) \in Queued /\ Head(sendChan) \in RIDs
    BY <1>0, <2>1, Tailing DEF Queued, Elems
  <2>3. \A q \in RIDs : q # Head(sendChan) => recvChan'[q] = recvChan[q]
    BY <1>0, <2>1, <2>2, Answering
  <2> QED BY <1>0, <2>1, <2>2, <2>3, UnreadStays DEF InHand, Unread
<1>2. CASE SendTake
  <2>1. /\ sendChan # <<>> /\ sendChan' = Tail(sendChan) /\ sreq' = Head(sendChan)
        /\ UNCHANGED <<pc, requests, recvChan>>
    BY <1>2 DEF SendTake, TakenFromQueue
  <2>2. Queued' \subseteq Queued /\ Head(sendChan) \in Queued
    BY <1>0, <2>1, Tailing DEF Queued, Elems
  <2> QED BY <2>1, <2>2, UnreadStays DEF InHand, Unread
<1>3. CASE SendRefused \/ SendWriteFails
  <2>1. PICK a : Answer(sreq, a)
    BY <1>3 DEF SendRefused, SendWriteFails, WriteFails
  <2>2. /\ spc \in {"reg", "write"} /\ spc' = "exit"
        /\ UNCHANGED <<pc, sendChan, requests>>
    BY <1>3 DEF SendRefused, SendWriteFails
  <2>3. \A q \in RIDs : q # sreq => recvChan'[q] = recvChan[q]
    BY <1>0, <1>00, <2>1, <2>2, Answering
  <2> QED BY <1>0, <1>00, <2>2, <2>3, UnreadStays DEF InHand, Queued, Unread
<1>4. CASE SendRegister
  <2>1. /\ spc = "reg" /\ spc' = "write" /\ requests' = requests \cup {sreq}
        /\ UNCHANGED <<pc, sreq, sendChan, recvChan>>
    BY <1>4 DEF SendRegister, Registered
  <2> QED BY <1>00, <2>1, UnreadStays DEF InHand, Queued, Unread
<1>5. CASE SendWrite \/ SendWriteClosed \/ PingFails \/ SendStops \/ SendExit
  <2>1. /\ spc' \in {"select", "exit", "off"}
        /\ UNCHANGED <<pc, sendChan, requests, recvChan>>
    BY <1>5 DEF SendWrite, SendWriteClosed, PingFails, SendStops, SendExit
  <2> QED BY <2>1, UnreadStays DEF InHand, Queued, Unread
<1>6. CASE RecvReply
  <2>1. UNCHANGED <<pc, spc, sreq, sendChan>>
    BY <1>6 DEF RecvReply
  <2>2. CASE UNCHANGED <<requests, recvChan>>
    BY <2>1, <2>2, UnreadStays DEF InHand, Queued, Unread
  <2>3. ASSUME NEW m \in RIDs, NEW a, requests' = requests \ {m}, Answer(m, a)
        PROVE  UnreadInv'
    <3>1. \A q \in RIDs : q # m => recvChan'[q] = recvChan[q]
      BY <1>0, <2>3, Answering
    <3> QED BY <1>0, <2>1, <2>3, <3>1, UnreadStays DEF InHand, Queued, Unread
  <2> QED BY <1>0, <1>6, <2>2, <2>3 DEF RecvReply
<1>7. CASE RecvFails \/ RecvExit \/ RecvGivesUp
  <2>1. UNCHANGED <<pc, spc, sreq, sendChan, requests, recvChan>>
    BY <1>7 DEF RecvFails, RecvExit, RecvGivesUp
  <2> QED BY <2>1, UnreadStays DEF InHand, Queued, Unread
<1> QED BY <1>1, <1>2, <1>3, <1>4, <1>5, <1>6, <1>7 DEF SendLoop, RecvLoop

LEMMA ApiUnread ==
  ASSUME RequestInv, UnreadInv,
         \/ \E r \in Reqs : Call(r)
         \/ \E r \in Calls : Api(r)
         \/ Close \/ CloseGivesUp \/ Serve \/ RefuseCredential \/ Break
  PROVE  UnreadInv'
<1> USE DEF CallStep, callVars, chanVars, sendVars, loopVars
<1>0. /\ recvChan \in Slots /\ Calls \subseteq RIDs /\ sendChan \in Seq(Calls)
      /\ pc \in Progress /\ CallsSound
  BY Functions DEF RequestInv, PlacesInv
<1>1. CASE Serve \/ RefuseCredential \/ Break
  <2>1. UNCHANGED <<pc, spc, sreq, sendChan, requests, recvChan>>
    BY <1>1 DEF Serve, RefuseCredential, Break, NetStep
  <2> QED BY <2>1, UnreadStays DEF InHand, Queued, Unread
<1>2. ASSUME NEW r \in Calls, pc[r] = "idle", pc' = [pc EXCEPT ![r] = "queueing"],
             UNCHANGED <<spc, sreq, sendChan, requests, recvChan>>
      PROVE  UnreadInv'
  <2>1. r \notin Queued \cup InHand \cup requests
    BY <1>0, <1>2 DEF CallsSound, Sound, Fresh
  <2>2. Queued' = Queued /\ InHand' = InHand
    BY <1>2 DEF Queued, InHand
  <2> QED BY <1>0, <1>2, <2>1, <2>2 DEF UnreadInv, Unread, Expected, Progress
<1>3. ASSUME NEW r \in Calls, Queue(r) PROVE UnreadInv'
  <2>1. /\ pc' = [pc EXCEPT ![r] = "waiting"] /\ sendChan' = Append(sendChan, r)
        /\ UNCHANGED <<spc, sreq, requests, recvChan>>
    BY <1>3 DEF Queue
  <2>2. Queued' \subseteq Queued \cup {r}
    BY <1>0, <2>1, AppendProperties DEF Queued
  <2>3. InHand' = InHand
    BY <2>1 DEF InHand
  <2> QED BY <1>0, <2>1, <2>2, <2>3 DEF UnreadInv, Unread, Expected, Progress
<1>4. ASSUME NEW r \in Calls, Receive(r) PROVE UnreadInv'
  <2>1. /\ pc[r] = "waiting" /\ recvChan[r] # Empty
        /\ \E to \in {"remember", "done"} : pc' = [pc EXCEPT ![r] = to]
        /\ recvChan' = [recvChan EXCEPT ![r] = Empty]
        /\ UNCHANGED <<spc, sreq, requests, sendChan>>
    BY <1>4 DEF Receive
  <2>2. r \notin Queued \cup InHand
    BY <1>0, <2>1 DEF CallsSound, Sound
  <2>3. Queued' = Queued /\ InHand' = InHand
    BY <2>1 DEF Queued, InHand
  <2>4. /\ pc'[r] # "timedOut" /\ recvChan'[r] = Empty
        /\ \A q \in Calls : q # r => pc'[q] = pc[q] /\ recvChan'[q] = recvChan[q]
    BY <1>0, <2>1 DEF Progress, Slots
  <2> QED BY <2>1, <2>2, <2>3, <2>4 DEF UnreadInv, Unread, Expected
<1>5. ASSUME NEW r \in Calls, Remember(r) PROVE UnreadInv'
  <2>1. /\ pc[r] = "remember" /\ pc' = [pc EXCEPT ![r] = "done"]
        /\ UNCHANGED <<spc, sreq, requests, sendChan, recvChan>>
    BY <1>5 DEF Remember
  <2>2. Queued' = Queued /\ InHand' = InHand
    BY <2>1 DEF Queued, InHand
  <2> QED BY <1>0, <2>1, <2>2 DEF UnreadInv, Unread, Expected, Progress
<1>6. CASE CloseGivesUp
  <2>1. /\ CloseReq \in Calls /\ pc[CloseReq] = "waiting"
        /\ pc' = [pc EXCEPT ![CloseReq] = "timedOut"]
        /\ UNCHANGED <<spc, sreq, requests, sendChan, recvChan>>
    BY <1>6 DEF CloseGivesUp, Calls
  <2>2. Queued' = Queued /\ InHand' = InHand
    BY <2>1 DEF Queued, InHand
  <2> QED BY <1>0, <2>1, <2>2 DEF UnreadInv, Unread, Expected, Progress
<1>7. CASE \E r \in Reqs : Call(r)
  BY <1>2, <1>7 DEF Call, Calls
<1>8. CASE Close
  BY <1>2, <1>8 DEF Close, Calls
<1> QED BY <1>1, <1>3, <1>4, <1>5, <1>6, <1>7, <1>8 DEF Api

\* flushRequests finds the one slot of a recvChan full only for a request of
\* resendZkAuth, whose channel nobody reads any more, for a Close() that has
\* stopped waiting, or for a call that is about to receive, which it can do.
FlushBlocksOn ==
  lpc \in FlushPCs /\ lreq # NoReq /\ recvChan[lreq] # Empty =>
    \/ lreq \in {Reauth(a) : a \in AuthReqs}
    \/ pc[lreq] = "waiting"
    \/ lreq = CloseReq /\ pc[CloseReq] = "timedOut"

\* The failed writes that run conn_close_hang is about block flushRequests, and
\* with it the connection loop, for no other request: without AddAuth, and with a
\* Close() that still waits, every slot it finds full is emptied by its caller.
THEOREM FlushBlocksRarely == Spec => []FlushBlocksOn
<1>1. Init => UnreadInv
  <2> SUFFICES ASSUME Init PROVE UnreadInv
    OBVIOUS
  <2>1. Queued = {} /\ InHand = {} /\ requests = {}
    BY EmptyElems DEF Init, Queued, InHand, Elems
  <2> QED BY <2>1 DEF Init, UnreadInv, Unread
<1>2. RequestInv /\ UnreadInv /\ [Next]_vars => UnreadInv'
  <2>1. ASSUME UnreadInv, UNCHANGED vars PROVE UnreadInv'
    BY <2>1 DEF UnreadInv, Unread, Expected, Queued, InHand, vars, sendVars,
       chanVars, callVars
  <2> QED BY <2>1, LoopUnread, SendUnread, ApiUnread DEF Next
<1>3. RequestInv /\ UnreadInv => FlushBlocksOn
  <2> SUFFICES ASSUME RequestInv, UnreadInv, lpc \in FlushPCs, lreq # NoReq,
                      recvChan[lreq] # Empty, lreq \in Calls
               PROVE  pc[lreq] = "waiting" \/ (lreq = CloseReq
                        /\ pc[CloseReq] = "timedOut")
    BY DEF FlushBlocksOn, RequestInv, ConnInv, TypeOK, RIDs
  <2>1. lreq \in requests
    BY DEF RequestInv, PlacesInv, FlushInv, FlushPCs, ReauthPCs
  <2> QED BY <2>1 DEF UnreadInv, Unread, Expected
<1> QED BY <1>1, <1>2, <1>3, RequestInvariant, PTL DEF Spec

-----------------------------------------------------------------------------
(* No pending request is forgotten on a connection that stays up. *)

\* sendData is between registering the request and writing it.
BeingWritten(r) ==
  \/ spc = "write" /\ r = sreq
  \/ lpc = "reauthWrite" /\ r = lreq

ReplyComing(r) == \E i \in 1 .. Len(toClient) : toClient[i].req = r

\* While the connection is up, every request in c.requests is about to be
\* written, on its way to the server, or answered by a reply that recvLoop has
\* not read yet.
PendingUnderWay ==
  sock = "open" =>
    \A r \in requests : BeingWritten(r) \/ r \in Wire \/ ReplyComing(r)

LEMMA UnderWayStays ==
  ASSUME PendingUnderWay,
         sock' = "open" =>
           /\ sock = "open" /\ UNCHANGED <<toServer, toClient>>
           /\ \A r \in requests' :
                r \in requests /\ (BeingWritten(r) => BeingWritten(r)')
  PROVE  PendingUnderWay'
BY DEF PendingUnderWay, Wire, Elems, ReplyComing

\* A request that is written goes onto the wire, the others stay where they are.
LEMMA WrittenUnderWay ==
  ASSUME RequestInv, PendingUnderWay, NEW q \in RIDs, WriteOk(q), requests' = requests,
         \A r \in requests : BeingWritten(r) => r = q
  PROVE  PendingUnderWay'
<1> SUFFICES ASSUME sock' = "open", NEW r \in requests
             PROVE  r \in Wire' \/ ReplyComing(r)'
  BY DEF PendingUnderWay
<1>1. sock = "open" /\ toServer' = Append(toServer, q) /\ toClient' = toClient
  BY DEF WriteOk
<1>2. toServer \in Seq(RIDs)
  BY DEF RequestInv, ConnInv, TypeOK
<1>3. Wire' = Wire \cup {q}
  <2>1. OnceIn(toServer, {})
    BY DEF OnceIn
  <2> QED BY <1>1, <1>2, <2>1, Appending DEF Wire
<1> QED BY <1>1, <1>3 DEF PendingUnderWay, ReplyComing

LEMMA LoopUnderWay ==
  ASSUME RequestInv, PendingUnderWay, Loop
  PROVE  PendingUnderWay'
<1> USE DEF LoopStep, ReauthAt, netVars, chanVars, sendVars
<1>1. CASE DialOk
  <2>1. requests' = {}
    BY <1>1 DEF DialOk, RequestInv, ConnInv, Structure, DownPCs
  <2> QED BY <2>1 DEF PendingUnderWay
<1>2. CASE ReauthRegister
  <2>1. /\ lpc = "reauthReg" /\ lpc' = "reauthWrite" /\ requests' = requests \cup {lreq}
        /\ UNCHANGED <<sock, toServer, toClient, spc, sreq, lreq>>
    BY <1>2 DEF ReauthRegister, ReauthGoes
  <2> QED BY <2>1 DEF PendingUnderWay, BeingWritten, Wire, Elems, ReplyComing
<1>3. CASE ReauthWrite
  <2>1. /\ lpc = "reauthWrite" /\ WriteOk(lreq) /\ requests' = requests
    BY <1>3 DEF ReauthWrite
  <2>2. spc # "write" /\ lreq \in RIDs
    BY <2>1, ReauthInHand DEF RequestInv, ConnInv, Structure, OneWriter, ReauthPCs
  <2> QED BY <2>1, <2>2, WrittenUnderWay DEF BeingWritten
<1>4. CASE AuthFails \/ ReauthWriteFails \/ ReauthWriteClosed
  <2>1. sock' # "open"
    BY <1>4 DEF AuthFails, ReauthWriteFails, ReauthWriteClosed, WriteFails, CloseSock
  <2> QED BY <2>1, UnderWayStays
<1>5. CASE \/ ConnectNext \/ FlushUnsent \/ UnsentFlushed \/ RetryTimer
           \/ QuitWhileWaiting \/ DialFails \/ AuthExpired \/ ConnectionGone
           \/ Disconnected \/ FlushPick \/ FlushSend \/ FlushEnd
  <2>1. UNCHANGED <<sock, toServer, toClient, spc, sreq>> /\ requests' \subseteq requests
    BY <1>5 DEF ConnectNext, FlushUnsent, UnsentFlushed, RetryTimer,
       QuitWhileWaiting, DialFails, AuthExpired, ConnectionGone, Disconnected,
       FlushPick, FlushSend, FlushEnd
  <2>2. lpc # "reauthWrite"
    BY <1>5 DEF ConnectNext, FlushUnsent, UnsentFlushed, RetryTimer,
       QuitWhileWaiting, DialFails, AuthExpired, ConnectionGone, Disconnected,
       FlushPick, FlushSend, FlushEnd, FlushPCs
  <2> QED BY <2>1, <2>2, UnderWayStays DEF BeingWritten
<1>6. CASE \/ AuthOk \/ ReauthEnds \/ ReauthRequest \/ ReauthRefused
           \/ ReauthAnswered \/ ReauthCancelled
  <2>1. /\ UNCHANGED <<sock, toServer, toClient, requests>>
        /\ lpc \in {"auth", "reauth", "reauthReg", "reauthWait"}
    BY <1>6 DEF AuthOk, ReauthEnds, ReauthRequest, ReauthRefused, ReauthAnswered,
       ReauthCancelled
  <2>2. spc # "write"
    BY <2>1 DEF RequestInv, ConnInv, Structure, OneWriter, ReauthPCs, UpPCs
  <2> QED BY <2>1, <2>2, UnderWayStays DEF BeingWritten
<1> QED BY <1>1, <1>2, <1>3, <1>4, <1>5, <1>6 DEF Loop

LEMMA SendUnderWay ==
  ASSUME RequestInv, PendingUnderWay, SendLoop
  PROVE  PendingUnderWay'
<1> USE DEF SendStep, netVars, chanVars, loopVars
<1>1. CASE SendRegister
  <2>1. /\ spc = "reg" /\ spc' = "write" /\ requests' = requests \cup {sreq}
        /\ UNCHANGED <<sock, toServer, toClient, sreq, lpc, lreq>>
    BY <1>1 DEF SendRegister, Registered
  <2> QED BY <2>1 DEF PendingUnderWay, BeingWritten, Wire, Elems, ReplyComing
<1>2. CASE SendWrite
  <2>1. spc = "write" /\ WriteOk(sreq) /\ requests' = requests
    BY <1>2 DEF SendWrite
  <2>2. lpc # "reauthWrite" /\ sreq \in RIDs
    BY <2>1 DEF RequestInv, ConnInv, TypeOK, Structure, OneWriter, ReauthPCs, RIDs
  <2> QED BY <2>1, <2>2, WrittenUnderWay DEF BeingWritten
<1>3. CASE SendWriteFails \/ SendWriteClosed \/ PingFails \/ SendExit
  <2>1. sock' # "open"
    BY <1>3 DEF SendWriteFails, SendWriteClosed, PingFails, SendExit, WriteFails,
       CloseSock
  <2> QED BY <2>1, UnderWayStays
<1>4. CASE SendTooLarge \/ SendTake \/ SendRefused \/ SendStops
  <2>1. /\ UNCHANGED <<sock, toServer, toClient, requests, lpc, lreq>>
        /\ spc # "write"
    BY <1>4 DEF SendTooLarge, SendTake, SendRefused, SendStops
  <2> QED BY <2>1, UnderWayStays DEF BeingWritten
<1> QED BY <1>1, <1>2, <1>3, <1>4 DEF SendLoop

LEMMA RecvUnderWay ==
  ASSUME RequestInv, PendingUnderWay, RecvReply
  PROVE  PendingUnderWay'
<1> DEFINE m == Head(toClient)
<1>1. /\ toClient # <<>> /\ toClient' = Tail(toClient)
      /\ UNCHANGED <<sock, toServer, lpc, lreq, spc, sreq>>
      /\ requests' = requests \ {m.req}
  BY DEF RecvReply, RecvStep, loopVars, sendVars
<1>2. toClient \in Seq(Packets)
  BY DEF RequestInv, ConnInv, TypeOK
<1> SUFFICES ASSUME sock' = "open", NEW r \in requests, r # m.req
             PROVE  (BeingWritten(r) \/ r \in Wire \/ ReplyComing(r))'
  BY <1>1 DEF PendingUnderWay
<1>3. CASE BeingWritten(r) \/ r \in Wire
  BY <1>1, <1>3 DEF BeingWritten, Wire, Elems
<1>4. CASE ReplyComing(r)
  <2>1. PICK i \in 1 .. Len(toClient) : toClient[i].req = r
    BY <1>4 DEF ReplyComing
  <2>2. i # 1
    BY <1>1, <1>2, <2>1, HeadTailProperties
  <2>3. i - 1 \in 1 .. Len(Tail(toClient)) /\ Tail(toClient)[i - 1] = toClient[i]
    BY <1>1, <1>2, <2>1, <2>2, HeadTailProperties
  <2> QED BY <1>1, <2>1, <2>3 DEF ReplyComing
<1> QED BY <1>1, <1>3, <1>4 DEF PendingUnderWay

LEMMA ServeUnderWay ==
  ASSUME RequestInv, PendingUnderWay, Serve
  PROVE  PendingUnderWay'
<1>1. /\ toServer # <<>> /\ toServer' = Tail(toServer)
      /\ UNCHANGED <<sock, lpc, lreq, spc, sreq, requests>>
      /\ \E a : toClient' = Append(toClient, [req |-> Head(toServer), ans |-> a])
  BY DEF Serve, NetStep, loopVars, sendVars, chanVars
<1>2. PICK h, a : h = Head(toServer) /\ toClient' = Append(toClient, [req |-> h, ans |-> a])
  BY <1>1
<1>3. toClient \in Seq(Packets) /\ toServer \in Seq(RIDs)
  BY DEF RequestInv, ConnInv, TypeOK
<1>4. Wire = Wire' \cup {h}
  <2>1. OnceIn(toServer, {})
    BY DEF OnceIn
  <2> QED BY <1>1, <1>2, <1>3, <2>1, Tailing DEF Wire
<1>5. /\ Len(toClient') = Len(toClient) + 1 /\ Len(toClient) \in Nat
      /\ toClient'[Len(toClient) + 1] = [req |-> h, ans |-> a]
      /\ \A i \in 1 .. Len(toClient) : toClient'[i] = toClient[i]
  BY <1>2, <1>3, AppendProperties
<1>6. ReplyComing(h)'
  BY <1>5 DEF ReplyComing
<1>7. \A r \in requests : ReplyComing(r) => ReplyComing(r)'
  BY <1>5 DEF ReplyComing
<1>8. \A r \in requests : BeingWritten(r)' <=> BeingWritten(r)
  BY <1>1 DEF BeingWritten
<1> QED BY <1>1, <1>4, <1>6, <1>7, <1>8 DEF PendingUnderWay

\* A reply nobody waits for is dropped, but no request is left waiting for a
\* reply that will not come: on a connection that stays up, a server that
\* answers what it receives answers every pending request.  What is pending on
\* a connection that goes down is left to flushRequests.
THEOREM PendingIsAnswerable == Spec => []PendingUnderWay
<1>1. Init => PendingUnderWay
  BY DEF Init, PendingUnderWay
<1>2. RequestInv /\ PendingUnderWay /\ [Next]_vars => PendingUnderWay'
  <2> SUFFICES ASSUME RequestInv, PendingUnderWay, [Next]_vars PROVE PendingUnderWay'
    OBVIOUS
  <2>1. CASE RecvFails \/ RecvExit \/ RecvGivesUp
    BY <2>1, UnderWayStays DEF RecvFails, RecvExit, RecvGivesUp, RecvStep,
       BeingWritten, loopVars, sendVars, netVars
  <2>2. CASE \/ \E r \in Reqs : Call(r)
             \/ \E r \in Calls : Api(r)
             \/ Close \/ CloseGivesUp
    <3>1. UNCHANGED <<sock, toServer, toClient, requests, lpc, lreq, spc, sreq>>
      BY <2>2 DEF Call, Close, Api, Queue, Receive, Remember, CloseGivesUp,
         CallStep, loopVars, sendVars, netVars
    <3> QED BY <3>1, UnderWayStays DEF BeingWritten
  <2>3. CASE RefuseCredential \/ Break
    <3>1. sock' # "open"
      BY <2>3 DEF RefuseCredential, Break
    <3> QED BY <3>1, UnderWayStays
  <2>4. CASE UNCHANGED vars
    BY <2>4, UnderWayStays DEF vars, BeingWritten, loopVars, sendVars, netVars, chanVars
  <2> QED BY <2>1, <2>2, <2>3, <2>4, LoopUnderWay, SendUnderWay, RecvUnderWay,
             ServeUnderWay DEF Next, RecvLoop
<1> QED BY <1>1, <1>2, RequestInvariant, PTL DEF Spec

-----------------------------------------------------------------------------
(* When a credential is not in force after a reconnect. *)

\* No AddAuth is between the server's answer and the append to c.creds when a new
\* connection is authenticated and resendZkAuth takes credsMu.
RememberedInTime ==
  AuthOk => \A a \in AuthReqs : pc[a] # "remember" /\ recvChan[a] # "nil"

Remembered(a) == pc[a] = "done" /\ res[a] = "nil"
Succeeded(a) == recvChan[a] = "nil" \/ pc[a] = "remember" \/ Remembered(a)

\* resendZkAuth has still to send credential a.
ToResend(a) == lpc \in ReauthPCs /\ \E i \in ri .. Len(creds) : creds[i] = a

\* A credential that the server has accepted is in force on the connection that
\* is up, or will be sent before any request.
CredInv ==
  /\ \A a \in AuthReqs : Remembered(a) => a \in Elems(creds)
  /\ \A i \in 1 .. Len(toClient), a \in AuthReqs :
       toClient[i].req = a /\ toClient[i].ans = "nil" => a \in authed
  /\ lpc \in UpPCs /\ Usable =>
       \A a \in AuthReqs : Succeeded(a) => a \in authed \/ ToResend(a)

LEMMA CredStays ==
  ASSUME CredInv, authed \subseteq authed', creds' = creds,
         toClient' = toClient \/ toClient' = <<>>,
         \A a \in AuthReqs : /\ Succeeded(a)' => Succeeded(a)
                             /\ Remembered(a)' => Remembered(a),
         lpc' \in UpPCs /\ Usable' =>
           /\ lpc \in UpPCs /\ Usable
           /\ \A a \in AuthReqs : ToResend(a) => a \in authed' \/ ToResend(a)'
  PROVE  CredInv'
<1>1. \A a \in AuthReqs : Remembered(a)' => a \in Elems(creds')
  BY DEF CredInv
<1>2. \A j \in 1 .. Len(toClient'), a \in AuthReqs :
        toClient'[j].req = a /\ toClient'[j].ans = "nil" => a \in authed'
  BY DEF CredInv
<1>3. lpc' \in UpPCs /\ Usable' =>
        \A a \in AuthReqs : Succeeded(a)' => a \in authed' \/ ToResend(a)'
  BY DEF CredInv
<1> QED BY <1>1, <1>2, <1>3 DEF CredInv

\* A call that gets an answer other than the server's has not succeeded by it.
LEMMA ErrorIsNoSuccess ==
  ASSUME RequestInv, NEW q \in RIDs, NEW a \in Answers \ {"nil"}, Answer(q, a),
         UNCHANGED <<pc, res>>, NEW c \in AuthReqs
  PROVE  (Succeeded(c)' => Succeeded(c)) /\ (Remembered(c)' => Remembered(c))
<1>1. recvChan \in Slots /\ c \in RIDs
  BY Functions, ConnAssumption DEF RequestInv, Calls
<1>2. recvChan'[c] = "nil" => recvChan[c] = "nil"
  BY <1>1, Answering
<1> QED BY <1>2 DEF Succeeded, Remembered

LEMMA CredReauth ==
  ASSUME RequestInv, CredInv,
         \/ ReauthEnds \/ ReauthRequest \/ ReauthRefused \/ ReauthRegister
         \/ ReauthWrite \/ ReauthWriteFails \/ ReauthWriteClosed
         \/ ReauthAnswered \/ ReauthCancelled
  PROVE  CredInv'
<1> USE DEF ReauthAt, ReauthGoes, ReauthContinues, ReauthReturns, netVars, callVars
<1>0. /\ creds' = creds /\ authed' = authed /\ toClient' \in {toClient, <<>>}
      /\ UNCHANGED <<pc, res, quit, closeChan>>
  BY DEF ReauthEnds, ReauthRequest, ReauthRefused, ReauthRegister, ReauthWrite,
     ReauthWriteFails, ReauthWriteClosed, ReauthAnswered, ReauthCancelled, WriteOk,
     WriteFails, CloseSock
<1>1. lpc \in ReauthPCs /\ lpc \in UpPCs
  BY DEF ReauthEnds, ReauthRequest, ReauthRefused, ReauthRegister, ReauthWrite,
     ReauthWriteFails, ReauthWriteClosed, ReauthAnswered, ReauthCancelled, ReauthPCs, UpPCs
<1>2. \A c \in AuthReqs : recvChan'[c] = recvChan[c]
  <2>0. recvChan \in Slots /\ AuthReqs \subseteq Calls /\ Calls \subseteq RIDs
    BY Functions, ConnAssumption DEF RequestInv, Calls
  <2>1. CASE ReauthRequest
    <3>1. creds[ri] \in AuthReqs
      BY <2>1 DEF ReauthRequest, RequestInv, ConnInv, TypeOK
    <3> QED BY <2>0, <2>1, <3>1, ConnAssumption DEF ReauthRequest, Slots
  <2>2. CASE ReauthRefused \/ ReauthWriteFails \/ ReauthAnswered
    <3>1. lreq \notin Calls
      BY <2>2, ReauthInHand DEF RequestInv, ReauthRefused, ReauthWriteFails,
         ReauthAnswered, ReauthPCs
    <3> QED BY <2>0, <2>2, <3>1 DEF ReauthRefused, ReauthWriteFails,
            ReauthAnswered, WriteFails, Answer, Slots
  <2>3. CASE \/ ReauthEnds \/ ReauthRegister \/ ReauthWrite
             \/ ReauthWriteClosed \/ ReauthCancelled
    BY <2>3 DEF ReauthEnds, ReauthRegister, ReauthWrite, ReauthWriteClosed,
       ReauthCancelled
  <2> QED BY <2>1, <2>2, <2>3
<1>3. \A c \in AuthReqs : /\ Succeeded(c)' => Succeeded(c)
                          /\ Remembered(c)' => Remembered(c)
  BY <1>0, <1>2 DEF Succeeded, Remembered
<1>4. ASSUME lpc' \in UpPCs, Usable'
      PROVE  Usable /\ \A c \in AuthReqs : ToResend(c) => c \in authed' \/ ToResend(c)'
  <2>1. CASE ReauthEnds \/ ReauthCancelled
    <3>1. Usable
      BY <1>4, <2>1 DEF ReauthEnds, ReauthCancelled, Usable
    <3>2. ri > Len(creds) /\ ri \in Nat /\ Len(creds) \in Nat
      BY <2>1, <3>1 DEF ReauthEnds, ReauthCancelled, Usable, shouldCancel, RequestInv,
         ConnInv, TypeOK
    <3>3. \A c : ~ToResend(c)
      BY <3>2 DEF ToResend
    <3> QED BY <3>1, <3>3
  <2>2. CASE ReauthRefused \/ ReauthWriteFails \/ ReauthWriteClosed
    BY <1>4, <2>2 DEF ReauthRefused, ReauthWriteFails, ReauthWriteClosed, WriteFails,
       CloseSock, Usable
  <2>3. CASE ReauthRequest \/ ReauthRegister \/ ReauthWrite
    <3>1. lpc' \in ReauthPCs /\ UNCHANGED <<ri, sock>>
      BY <2>3 DEF ReauthRequest, ReauthRegister, ReauthWrite, WriteOk, ReauthPCs
    <3> QED BY <1>0, <1>4, <3>1 DEF ToResend, Usable
  <2>4. CASE ReauthAnswered
    <3>1. /\ lpc = "reauthWait" /\ lpc' = "reauth" /\ ri' = ri + 1 /\ sock' = sock
          /\ recvChan[lreq] # Empty
      BY <2>4 DEF ReauthAnswered, ReauthReplied
    <3>2. creds[ri] \in authed /\ ri \in Nat /\ Len(creds) \in Nat
      BY <1>4, <3>1 DEF Usable, RequestInv, AuthInv, ConnInv, TypeOK
    <3>3. ASSUME NEW c \in AuthReqs, ToResend(c)
          PROVE  c \in authed' \/ ToResend(c)'
      <4>1. PICK i \in ri .. Len(creds) : creds[i] = c
        BY <3>3 DEF ToResend
      <4>2. CASE i = ri
        BY <1>0, <3>2, <4>1, <4>2
      <4>3. CASE i \in ri' .. Len(creds')
        BY <1>0, <3>1, <4>1, <4>3 DEF ToResend, ReauthPCs
      <4> QED BY <1>0, <3>1, <3>2, <4>2, <4>3
    <3> QED BY <1>0, <1>4, <3>1, <3>3 DEF Usable
  <2> QED BY <2>1, <2>2, <2>3, <2>4
<1> QED BY <1>0, <1>1, <1>3, <1>4, CredStays

LEMMA CredLoop ==
  ASSUME RequestInv, CredInv, RememberedInTime,
         \/ ConnectNext \/ FlushUnsent \/ UnsentFlushed \/ RetryTimer
         \/ QuitWhileWaiting \/ DialFails \/ DialOk
         \/ AuthOk \/ AuthExpired \/ AuthFails
         \/ ConnectionGone \/ Disconnected \/ FlushPick \/ FlushSend \/ FlushEnd
  PROVE  CredInv'
<1> USE DEF LoopStep, netVars, chanVars, sendVars, callVars
<1>0. UNCHANGED <<pc, res, creds>>
  BY DEF ConnectNext, FlushUnsent, UnsentFlushed, RetryTimer, QuitWhileWaiting,
     DialFails, DialOk, AuthOk, AuthExpired, AuthFails, ConnectionGone,
     Disconnected, FlushPick, FlushSend, FlushEnd
<1>1. CASE AuthOk
  <2>1. /\ lpc' = "reauth" /\ ri' = 1 /\ UNCHANGED <<toClient, authed, recvChan>>
    BY <1>1 DEF AuthOk
  <2>2. ASSUME NEW a \in AuthReqs, Succeeded(a)' PROVE ToResend(a)'
    <3>1. Remembered(a)
      BY <1>0, <1>1, <2>1, <2>2 DEF RememberedInTime, Succeeded, Remembered
    <3>2. a \in Elems(creds)
      BY <3>1 DEF CredInv
    <3> QED BY <1>0, <2>1, <3>2 DEF Elems, ToResend, ReauthPCs
  <2>3. \A a \in AuthReqs : Remembered(a)' => Remembered(a)
    BY <1>0 DEF Remembered
  <2> QED BY <1>0, <2>1, <2>2, <2>3 DEF CredInv
<1>2. CASE ~AuthOk
  <2>1. lpc' \notin UpPCs
    BY <1>2 DEF ConnectNext, FlushUnsent, UnsentFlushed, RetryTimer, QuitWhileWaiting,
       DialFails, DialOk, AuthExpired, AuthFails, ConnectionGone, Disconnected,
       FlushPick, FlushSend, FlushEnd, AfterFlush, FlushPCs, UpPCs, ReauthPCs
  <2>2. \/ toClient' = <<>>
        \/ toClient' = toClient /\ authed' = authed
    BY <1>2 DEF ConnectNext, FlushUnsent, UnsentFlushed, RetryTimer, QuitWhileWaiting,
       DialFails, DialOk, AuthExpired, AuthFails, CloseSock, ConnectionGone,
       Disconnected, FlushPick, FlushSend, FlushEnd
  <2>3. \A a \in AuthReqs : Remembered(a)' => Remembered(a)
    BY <1>0 DEF Remembered
  <2> QED BY <1>0, <2>1, <2>2, <2>3 DEF CredInv
<1> QED BY <1>1, <1>2

LEMMA CredSend ==
  ASSUME RequestInv, CredInv, SendLoop
  PROVE  CredInv'
<1> USE DEF SendStep, callVars, chanVars, sendVars, netVars, loopVars
<1>0. recvChan \in Slots /\ Calls \subseteq RIDs /\ sendChan \in Seq(Calls)
  BY Functions DEF RequestInv
<1>1. /\ UNCHANGED <<pc, res, ri, creds, authed, closeChan, quit, lpc>>
      /\ toClient' = toClient \/ toClient' = <<>>
      /\ sock' = sock \/ sock' = "closed"
  BY DEF SendLoop, SendTooLarge, SendTake, SendRefused, SendRegister, SendWrite,
     SendWriteFails, SendWriteClosed, PingFails, SendStops, SendExit, WriteOk,
     WriteFails, CloseSock
<1>2. \A c \in AuthReqs : /\ Succeeded(c)' => Succeeded(c)
                          /\ Remembered(c)' => Remembered(c)
  <2>1. CASE SendTooLarge
    <3>1. sendChan # <<>> /\ Answer(Head(sendChan), "ErrShortBuffer")
      BY <2>1 DEF SendTooLarge
    <3>2. Head(sendChan) \in RIDs
      BY <1>0, <3>1, HeadTailProperties
    <3> QED BY <1>1, <3>1, <3>2, ErrorIsNoSuccess DEF Answers, Unsent
  <2>2. CASE SendRefused \/ SendWriteFails
    <3>1. PICK a \in {"ErrConnectionClosed", "writeErr"} : Answer(sreq, a)
      BY <2>2 DEF SendRefused, SendWriteFails, WriteFails
    <3>2. sreq \in RIDs
      BY <1>0, <2>2 DEF SendRefused, SendWriteFails, RequestInv, ConnInv, TypeOK,
         Structure
    <3>3. a \in Answers \ {"nil"}
      BY <3>1 DEF Answers, Unsent, Flushed
    <3> QED BY <1>1, <3>1, <3>2, <3>3, ErrorIsNoSuccess
  <2>3. CASE recvChan' = recvChan
    BY <1>1, <2>3 DEF Succeeded, Remembered
  <2>4. SendTooLarge \/ SendRefused \/ SendWriteFails \/ recvChan' = recvChan
    BY DEF SendLoop, SendTake, SendRegister, SendWrite, SendWriteClosed, PingFails,
       SendStops, SendExit
  <2> QED BY <2>1, <2>2, <2>3, <2>4
<1>3. Usable' => Usable
  BY <1>1 DEF Usable
<1>4. \A c \in AuthReqs : ToResend(c)' <=> ToResend(c)
  BY <1>1 DEF ToResend
<1> QED BY <1>1, <1>2, <1>3, <1>4, CredStays

LEMMA CredRecv ==
  ASSUME RequestInv, CredInv, RecvLoop \/ RecvGivesUp
  PROVE  CredInv'
<1> USE DEF RecvStep, callVars, chanVars, sendVars, netVars, loopVars
<1>0. /\ recvChan \in Slots /\ AuthReqs \subseteq RIDs /\ toClient \in Seq(Packets)
      /\ requests \subseteq RIDs
  BY Functions, ConnAssumption DEF RequestInv, Calls
<1>1. CASE RecvFails \/ RecvExit \/ RecvGivesUp
  <2>1. /\ UNCHANGED <<pc, res, ri, creds, authed, quit, lpc, toClient, sock, recvChan>>
        /\ closeChan' = closeChan \/ closeChan'
    BY <1>1 DEF RecvFails, RecvExit, RecvGivesUp
  <2>2. Usable' => Usable
    BY <2>1 DEF Usable
  <2> QED BY <2>1, <2>2, CredStays DEF Succeeded, Remembered, ToResend
<1>2. CASE RecvReply
  <2> DEFINE m == Head(toClient)
  <2>1. /\ UNCHANGED <<pc, res, ri, creds, authed, quit, lpc, sock, closeChan>>
        /\ toClient # <<>> /\ toClient' = Tail(toClient)
        /\ recvChan' = recvChan \/ (m.req \in requests /\ Answer(m.req, m.ans))
    BY <1>2 DEF RecvReply
  <2>2. /\ m = toClient[1] /\ 1 \in 1 .. Len(toClient)
        /\ \A i \in 1 .. Len(toClient') :
             i + 1 \in 1 .. Len(toClient) /\ toClient'[i] = toClient[i + 1]
    BY <1>0, <2>1
  <2>3. \A i \in 1 .. Len(toClient'), a \in AuthReqs :
          toClient'[i].req = a /\ toClient'[i].ans = "nil" => a \in authed'
    BY <2>1, <2>2 DEF CredInv
  <2>4. ASSUME NEW a \in AuthReqs, Succeeded(a)' PROVE Succeeded(a) \/ a \in authed
    <3>1. CASE m.req = a /\ m.ans = "nil"
      BY <2>2, <3>1 DEF CredInv
    <3>2. CASE ~(m.req = a /\ m.ans = "nil")
      <4>1. recvChan'[a] = "nil" => recvChan[a] = "nil"
        BY <1>0, <2>1, <3>2, Answering
      <4> QED BY <2>1, <2>4, <4>1 DEF Succeeded, Remembered
    <3> QED BY <3>1, <3>2
  <2>5. \A a \in AuthReqs : /\ Remembered(a)' => Remembered(a)
                            /\ ToResend(a)' <=> ToResend(a)
    BY <2>1 DEF Remembered, ToResend
  <2>6. lpc' \in UpPCs /\ Usable' =>
          \A a \in AuthReqs : Succeeded(a)' => a \in authed' \/ ToResend(a)'
    BY <2>1, <2>4, <2>5 DEF CredInv, Usable
  <2> QED BY <2>1, <2>3, <2>5, <2>6 DEF CredInv
<1> QED BY <1>1, <1>2 DEF RecvLoop

LEMMA CredApi ==
  ASSUME RequestInv, CredInv,
         \/ \E r \in Reqs : Call(r)
         \/ \E r \in Calls : Api(r)
         \/ Close \/ CloseGivesUp
  PROVE  CredInv'
<1> USE DEF CallStep, callVars, chanVars, sendVars, netVars, loopVars
<1>0. /\ recvChan \in Slots /\ Calls \subseteq RIDs /\ AuthReqs \subseteq Calls
      /\ pc \in Progress /\ res \in [Calls -> Answers \cup {Empty}]
      /\ creds \in Seq(AuthReqs)
  BY Functions, ConnAssumption DEF RequestInv, ConnInv, TypeOK, Calls
<1>1. /\ UNCHANGED <<ri, authed, lpc, toClient, sock, closeChan>>
      /\ quit' = quit \/ quit'
  BY DEF Call, Close, CloseGivesUp, Api, Queue, Receive, Remember
<1>2. Usable' => Usable
  BY <1>1 DEF Usable
<1>3. ASSUME NEW r \in Calls, NEW to \in {"queueing", "waiting", "timedOut"},
             pc' = [pc EXCEPT ![r] = to], UNCHANGED <<creds, res, recvChan>>
      PROVE  CredInv'
  <2>1. \A c \in AuthReqs : /\ Succeeded(c)' => Succeeded(c)
                            /\ Remembered(c)' => Remembered(c)
    BY <1>0, <1>3 DEF Succeeded, Remembered, Progress
  <2> QED BY <1>1, <1>2, <1>3, <2>1, CredStays DEF ToResend
<1>4. ASSUME NEW r \in Calls, Receive(r) PROVE CredInv'
  <2>1. /\ pc' = [pc EXCEPT ![r] = IF r \in AuthReqs /\ recvChan[r] = "nil"
                                   THEN "remember" ELSE "done"]
        /\ res' = [res EXCEPT ![r] = recvChan[r]]
        /\ recvChan' = [recvChan EXCEPT ![r] = Empty]
        /\ creds' = creds
    BY <1>4 DEF Receive
  <2>2. ASSUME NEW c \in AuthReqs
        PROVE  /\ Succeeded(c)' => Succeeded(c)
               /\ Remembered(c)' => Remembered(c)
    <3>1. CASE c # r
      <4>1. UNCHANGED <<pc[c], res[c], recvChan[c]>>
        BY <1>0, <2>1, <3>1 DEF Progress, Slots
      <4> QED BY <4>1 DEF Succeeded, Remembered
    <3>2. CASE c = r /\ recvChan[c] = "nil"
      <4>1. pc'[c] = "remember"
        BY <1>0, <2>1, <3>2 DEF Progress
      <4> QED BY <3>2, <4>1 DEF Succeeded, Remembered
    <3>3. CASE c = r /\ recvChan[c] # "nil"
      <4>1. pc'[c] = "done" /\ res'[c] # "nil" /\ recvChan'[c] # "nil"
        BY <1>0, <2>1, <3>3 DEF Progress, Slots, Empty
      <4> QED BY <4>1 DEF Succeeded, Remembered
    <3> QED BY <3>1, <3>2, <3>3
  <2> QED BY <1>1, <1>2, <2>1, <2>2, CredStays DEF ToResend
<1>5. ASSUME NEW r \in Calls, Remember(r) PROVE CredInv'
  <2>1. /\ pc[r] = "remember" /\ pc' = [pc EXCEPT ![r] = "done"]
        /\ lpc \notin ReauthPCs /\ creds' = Append(creds, r)
        /\ UNCHANGED <<res, recvChan>>
    BY <1>5 DEF Remember
  <2>2. Elems(creds') = Elems(creds) \cup {r}
    <3>1. OnceIn(creds, {})
      BY DEF OnceIn
    <3> QED BY <1>0, <2>1, <3>1, Appending
  <2>3. ASSUME NEW c \in AuthReqs
        PROVE  /\ Succeeded(c)' => Succeeded(c)
               /\ Remembered(c)' => Remembered(c) \/ c = r
    BY <1>0, <2>1 DEF Succeeded, Remembered, Progress
  <2>4. \A c \in AuthReqs : ~ToResend(c)
    BY <2>1 DEF ToResend
  <2>5. \A c \in AuthReqs : Remembered(c)' => c \in Elems(creds')
    BY <2>2, <2>3 DEF CredInv
  <2>6. lpc' \in UpPCs /\ Usable' =>
          \A c \in AuthReqs : Succeeded(c)' => c \in authed' \/ ToResend(c)'
    BY <1>1, <1>2, <2>3, <2>4 DEF CredInv
  <2> QED BY <1>1, <2>5, <2>6 DEF CredInv
<1>6. CASE \E r \in Reqs : Call(r)
  BY <1>3, <1>6 DEF Call, Calls
<1>7. CASE Close \/ CloseGivesUp
  BY <1>3, <1>7 DEF Close, CloseGivesUp, Calls
<1>8. CASE \E r \in Calls : Queue(r)
  BY <1>3, <1>8 DEF Queue
<1> QED BY <1>4, <1>5, <1>6, <1>7, <1>8 DEF Api

LEMMA CredNet ==
  ASSUME RequestInv, CredInv, Serve \/ RefuseCredential \/ Break
  PROVE  CredInv'
<1> USE DEF NetStep, callVars, chanVars, sendVars, netVars, loopVars
<1>1. UNCHANGED <<pc, res, creds, ri, lpc, quit, closeChan, recvChan>>
  BY DEF Serve, RefuseCredential, Break
<1>2. \A c \in AuthReqs : /\ Succeeded(c)' <=> Succeeded(c)
                          /\ Remembered(c)' <=> Remembered(c)
                          /\ ToResend(c)' <=> ToResend(c)
  BY <1>1 DEF Succeeded, Remembered, ToResend
<1>3. CASE Break
  <2>1. UNCHANGED <<toClient, authed>> /\ sock' = "broken"
    BY <1>3 DEF Break
  <2>2. ~Usable'
    BY <2>1 DEF Usable
  <2> QED BY <1>1, <1>2, <2>1, <2>2, CredStays
<1>4. CASE Serve
  <2>1. PICK h, a : /\ toClient' = Append(toClient, [req |-> h, ans |-> a])
                    /\ authed' = authed \cup {c \in AuthReqs : a = "nil"
                                                  /\ h \in {c, Reauth(c)}}
    BY <1>4 DEF Serve
  <2>2. sock' = sock /\ toClient \in Seq(Packets)
    BY <1>4 DEF Serve, RequestInv, ConnInv, TypeOK
  <2>3. ASSUME NEW i \in 1 .. Len(toClient'), NEW c \in AuthReqs,
               toClient'[i].req = c, toClient'[i].ans = "nil"
        PROVE  c \in authed'
    <3>1. \/ i \in 1 .. Len(toClient) /\ toClient'[i] = toClient[i]
          \/ toClient'[i] = [req |-> h, ans |-> a]
      BY <2>1, <2>2
    <3>2. CASE i \in 1 .. Len(toClient) /\ toClient'[i] = toClient[i]
      BY <2>1, <2>3, <3>2 DEF CredInv
    <3>3. CASE toClient'[i] = [req |-> h, ans |-> a]
      BY <2>1, <2>3, <3>3
    <3> QED BY <3>1, <3>2, <3>3
  <2>4. lpc' \in UpPCs /\ Usable' =>
          \A c \in AuthReqs : Succeeded(c)' => c \in authed' \/ ToResend(c)'
    BY <1>1, <1>2, <2>1, <2>2 DEF CredInv, Usable
  <2> QED BY <1>1, <1>2, <2>3, <2>4 DEF CredInv
<1>5. CASE RefuseCredential
  <2>1. PICK h : toClient' = Append(toClient, [req |-> h, ans |-> "zkErr"])
    BY <1>5 DEF RefuseCredential
  <2>2. authed' = authed /\ sock' = "broken" /\ toClient \in Seq(Packets)
    BY <1>5 DEF RefuseCredential, RequestInv, ConnInv, TypeOK
  <2>3. ASSUME NEW i \in 1 .. Len(toClient'), NEW c \in AuthReqs,
               toClient'[i].req = c, toClient'[i].ans = "nil"
        PROVE  c \in authed'
    <3>1. \/ i \in 1 .. Len(toClient) /\ toClient'[i] = toClient[i]
          \/ toClient'[i] = [req |-> h, ans |-> "zkErr"]
      BY <2>1, <2>2
    <3> QED BY <2>2, <2>3, <3>1 DEF CredInv
  <2>4. ~Usable'
    BY <2>2 DEF Usable
  <2> QED BY <1>1, <1>2, <2>3, <2>4 DEF CredInv
<1> QED BY <1>3, <1>4, <1>5

\* As long as every AddAuth that the server has accepted gets to append its
\* credential before the next connection is authenticated, the credential is in
\* force on every usable connection: what run conn_auth_race finds, an append
\* that comes too late for resendZkAuth, is the only way to lose one.
THEOREM CredentialsSurvive ==
  Spec /\ [][RememberedInTime]_vars => []AuthSurvivesReconnect
<1>1. Init => CredInv
  <2> SUFFICES ASSUME Init PROVE CredInv
    OBVIOUS
  <2>1. /\ toClient = <<>> /\ lpc = "next" /\ pc = [r \in Calls |-> "idle"]
        /\ AuthReqs \subseteq Calls
    BY ConnAssumption DEF Init, Calls
  <2> QED BY <2>1 DEF CredInv, Remembered, UpPCs, ReauthPCs
<1>2. RequestInv /\ CredInv /\ [Next]_vars /\ [RememberedInTime]_vars => CredInv'
  <2> SUFFICES ASSUME RequestInv, CredInv, [Next]_vars, [RememberedInTime]_vars
               PROVE  CredInv'
    OBVIOUS
  <2>1. CASE UNCHANGED vars
    <3>1. UNCHANGED <<pc, res, ri, creds, authed, quit, lpc, toClient, sock, recvChan,
                      closeChan>>
      BY <2>1 DEF vars, callVars, chanVars, netVars, loopVars
    <3> QED BY <3>1, CredStays DEF Succeeded, Remembered, ToResend, Usable
  <2>2. CASE Loop /\ RememberedInTime
    BY <2>2, CredLoop, CredReauth DEF Loop
  <2> QED BY <2>1, <2>2, CredSend, CredRecv, CredApi, CredNet DEF Next
<1>3. RequestInv /\ CredInv => AuthSurvivesReconnect
  <2> SUFFICES ASSUME RequestInv, CredInv, spc \in {"select", "reg", "write"}, Usable,
                      NEW a \in AuthReqs, pc[a] = "done", res[a] = "nil"
               PROVE  a \in authed
    BY DEF AuthSurvivesReconnect, Usable
  <2>1. lpc = "wg"
    BY LoopIdle DEF RequestInv
  <2>2. lpc \in UpPCs /\ ~ToResend(a) /\ Succeeded(a)
    BY <2>1 DEF UpPCs, ReauthPCs, ToResend, Succeeded, Remembered
  <2> QED BY <2>2 DEF CredInv
<1> QED BY <1>1, <1>2, <1>3, RequestInvariant, PTL DEF Spec

-----------------------------------------------------------------------------
(* What Close() leaves behind. *)

ClosingMeansQuit ==
  /\ lerr = "ErrClosing" => quit
  /\ lpc \in {"final", "exited"} => quit

\* loop() returns after Close() only, and a call that is left waiting then has its
\* request in sendChan: whatever had been taken from there is answered.
StrandedInQueue ==
  lpc = "exited" =>
    /\ quit
    /\ \A r \in Calls : pc[r] = "waiting" /\ recvChan[r] = Empty => r \in Queued

\* The requests that run conn_stranded finds without an answer are lost in no other
\* way: none without Close(), and none that was sent or is pending.
THEOREM StrandedByCloseOnly == Spec => []StrandedInQueue
<1>1. Init => ClosingMeansQuit
  BY DEF Init, ClosingMeansQuit
<1>2. ClosingMeansQuit /\ [Next]_vars => ClosingMeansQuit'
  <2> SUFFICES ASSUME ClosingMeansQuit, [Next]_vars PROVE ClosingMeansQuit'
    OBVIOUS
  <2> USE DEF ClosingMeansQuit, callVars, loopVars
  <2>1. CASE \/ ConnectNext \/ FlushUnsent \/ UnsentFlushed
             \/ RetryTimer \/ QuitWhileWaiting \/ DialFails \/ DialOk
             \/ AuthOk \/ AuthExpired \/ AuthFails
    BY <2>1 DEF LoopStep, ConnectNext, FlushUnsent, UnsentFlushed, RetryTimer,
       QuitWhileWaiting, DialFails, DialOk, AuthOk, AuthExpired, AuthFails
  <2>2. CASE \/ ReauthEnds \/ ReauthRequest \/ ReauthRefused \/ ReauthRegister
             \/ ReauthWrite \/ ReauthWriteFails \/ ReauthWriteClosed
             \/ ReauthAnswered \/ ReauthCancelled
    BY <2>2 DEF ReauthAt, ReauthGoes, ReauthContinues, ReauthReturns, ReauthEnds,
       ReauthRequest, ReauthRefused, ReauthRegister, ReauthWrite, ReauthWriteFails,
       ReauthWriteClosed, ReauthAnswered, ReauthCancelled
  <2>3. CASE ConnectionGone \/ Disconnected \/ FlushPick \/ FlushSend \/ FlushEnd
    BY <2>3 DEF LoopStep, ConnectionGone, LostError, Disconnected, FlushPick,
       FlushSend, FlushEnd, AfterFlush, FlushPCs
  <2>4. ASSUME UNCHANGED <<lpc, lerr>>, quit' = quit \/ quit' PROVE ClosingMeansQuit'
    BY <2>4
  <2>5. CASE SendLoop \/ RecvLoop \/ RecvGivesUp \/ Serve \/ RefuseCredential \/ Break
    BY <2>4, <2>5 DEF SendLoop, SendStep, SendTooLarge, SendTake, SendRefused,
       SendRegister, SendWrite, SendWriteFails, SendWriteClosed, PingFails, SendStops,
       SendExit, RecvLoop, RecvStep, RecvReply, RecvFails, RecvGivesUp, RecvExit,
       NetStep, Serve, RefuseCredential, Break
  <2>6. CASE \/ \E r \in Reqs : Call(r)
             \/ \E r \in Calls : Api(r)
             \/ Close \/ CloseGivesUp
    BY <2>4, <2>6 DEF CallStep, Call, Api, Queue, Receive, Remember, Close, CloseGivesUp
  <2>7. CASE UNCHANGED vars
    BY <2>4, <2>7 DEF vars
  <2> QED BY <2>1, <2>2, <2>3, <2>5, <2>6, <2>7 DEF Next, Loop
<1>3. RequestInv /\ ClosingMeansQuit => StrandedInQueue
  <2> SUFFICES ASSUME RequestInv, ClosingMeansQuit, lpc = "exited" PROVE StrandedInQueue
    BY DEF StrandedInQueue
  <2>1. requests = {} /\ spc = "off"
    BY DEF RequestInv, ConnInv, Structure, UpPCs, ReauthPCs
  <2> QED BY <2>1 DEF StrandedInQueue, ClosingMeansQuit, RequestInv, PlacesInv,
             CallsSound, Sound, InHand
<1> QED BY <1>1, <1>2, <1>3, RequestInvariant, PTL DEF Spec

=============================================================================
