-------------------------------- MODULE Conn --------------------------------
(***************************************************************************)
(* The request pipeline and connection life cycle of the client            *)
(* (zk/conn.go).  Processes: the connection loop (connect, authenticate,   *)
(* resendZkAuth, flushRequests), the send loop and the receive loop of the *)
(* current connection, the goroutines that call the API, and Close.        *)
(*                                                                         *)
(* A request is identified by the call that made it; its xid, taken from a *)
(* 31-bit counter, is a name for it and is not represented.  resendZkAuth  *)
(* makes a request of its own for every remembered credential.             *)
(*                                                                         *)
(* A goroutine's step ends where another goroutine can observe it or where *)
(* it can block: at a channel, a mutex or the socket.                      *)
(***************************************************************************)
EXTENDS Integers, Sequences

CONSTANTS
  Reqs,           \* the API calls, each made at most once
  AuthReqs,       \* those that are AddAuth calls
  Oversized,      \* those whose packet does not fit into c.buf
  CloseReq,       \* the request that Close() queues
  NoReq,          \* "no request"
  NumServers,     \* len(hp.servers)
  SendChanSize,   \* cap(c.sendChan)
  MaxFaults,      \* bound on the failures of an established connection
  AllowClose      \* whether Close() is called

Reauth(a) == <<"reauth", a>>    \* the request resendZkAuth makes for a

Calls == Reqs \cup {CloseReq}
RIDs  == Calls \cup {Reauth(a) : a \in AuthReqs}

ASSUME ConnAssumption ==
  /\ AuthReqs \subseteq Reqs
  /\ Oversized \subseteq Reqs \ AuthReqs
  /\ CloseReq \notin Reqs
  /\ \A a \in AuthReqs : Reauth(a) \notin Calls
  /\ NoReq \notin RIDs
  /\ NumServers \in Nat \ {0}
  /\ SendChanSize \in Nat \ {0}
  /\ MaxFaults \in Nat
  /\ AllowClose \in BOOLEAN

VARIABLES
  curr, last, retryStart, handedOut, streak,    \* the host provider
  lpc,        \* where the connection loop is
  lerr,       \* the error the loop flushes requests with
  lreq,       \* the request resendZkAuth or flushRequests is busy with
  ri,         \* resendZkAuth: index of the credential to resend
  spc, sreq,  \* the send loop, and the request it took from sendChan
  rpc,        \* the receive loop
  sock,       \* c.conn
  closeChan,  \* is c.closeChan closed?
  toServer, toClient,   \* packets in flight on c.conn
  sendChan,   \* c.sendChan
  requests,   \* c.requests: the requests waiting for a reply
  recvChan,   \* each request's recvChan, of capacity one
  pc, res,    \* each call's progress, and the error value it returned
  quit,       \* is c.shouldQuit closed?
  creds,      \* c.creds
  state,      \* c.state
  authed,     \* server: credentials in force on this connection
  served,     \* history: requests a server has carried out
  faults      \* failures so far

hpVars   == <<curr, last, retryStart, handedOut, streak>>
loopVars == <<lpc, lerr, lreq, ri, state>>
sendVars == <<spc, sreq>>
netVars  == <<sock, toServer, toClient, authed, served>>
chanVars == <<sendChan, requests, recvChan>>
callVars == <<pc, res, quit, creds>>
vars == <<hpVars, loopVars, sendVars, rpc, netVars, closeChan, chanVars,
          callVars, faults>>

HP == INSTANCE HostProvider

-----------------------------------------------------------------------------
(* Types. *)

Flushed  == {"ErrNoServer", "ErrClosing", "ErrConnectionClosed",
             "ErrSessionExpired"}
Unsent   == {"ErrShortBuffer", "writeErr"}
Replies  == {"nil", "zkErr"}
Answers  == Replies \cup Flushed \cup Unsent
Packets  == [req : RIDs, ans : Replies]
Empty    == "empty"     \* an empty recvChan, and a call that has not returned

FlushPCs  == {"flush", "final"}
ReauthPCs == {"reauth", "reauthReg", "reauthWrite", "reauthWait"}
\* A connection is up: its two goroutines have been started.
UpPCs     == ReauthPCs \cup {"wg"}
\* No connection is up; requests that have not been sent wait in sendChan.
DownPCs   == {"next", "flushUnsent", "wait", "dial", "auth"}

TypeOK ==
  /\ HP!TypeOK
  /\ lpc \in UpPCs \cup DownPCs \cup FlushPCs \cup {"disc", "exited"}
  /\ lerr \in Flushed
  /\ lreq \in RIDs \cup {NoReq}
  /\ ri \in Nat \ {0}
  /\ spc \in {"off", "waitReauth", "select", "reg", "write", "exit"}
  /\ sreq \in Calls \cup {NoReq}
  /\ rpc \in {"off", "read", "exit"}
  /\ sock \in {"none", "open", "broken", "closed"}
  /\ closeChan \in BOOLEAN
  /\ toServer \in Seq(RIDs)
  /\ toClient \in Seq(Packets)
  /\ sendChan \in Seq(Calls) /\ Len(sendChan) <= SendChanSize
  /\ requests \subseteq RIDs
  /\ recvChan \in [RIDs -> Answers \cup {Empty}]
  /\ pc \in [Calls -> {"idle", "queueing", "waiting", "remember", "done",
                       "timedOut"}]
  /\ res \in [Calls -> Answers \cup {Empty}]
  /\ quit \in BOOLEAN
  /\ creds \in Seq(AuthReqs)
  /\ state \in {"Disconnected", "Connecting", "Connected", "HasSession",
                "Expired"}
  /\ authed \subseteq AuthReqs
  /\ served \subseteq RIDs
  /\ faults \in 0 .. MaxFaults

Init ==
  /\ HP!Init
  /\ lpc = "next" /\ lerr = "ErrConnectionClosed" /\ lreq = NoReq /\ ri = 1
  /\ state = "Disconnected"
  /\ spc = "off" /\ sreq = NoReq
  /\ rpc = "off"
  /\ sock = "none" /\ toServer = <<>> /\ toClient = <<>>
  /\ authed = {} /\ served = {}
  /\ closeChan = FALSE
  /\ sendChan = <<>>
  /\ requests = {}
  /\ recvChan = [r \in RIDs |-> Empty]
  /\ pc = [r \in Calls |-> "idle"] /\ res = [r \in Calls |-> Empty]
  /\ quit = FALSE
  /\ creds = <<>>
  /\ faults = 0

-----------------------------------------------------------------------------
(* Shared pieces. *)

\* req.recvChan <- response{-1, err}: blocks while the channel is full.
Answer(r, a) ==
  /\ recvChan[r] = Empty
  /\ recvChan' = [recvChan EXCEPT ![r] = a]

\* What the server still carries out of the packets under way when the
\* connection goes down: it has received some prefix of them.
ServerGotPrefix ==
  \E n \in 0 .. Len(toServer) :
    served' = served \cup {toServer[i] : i \in 1 .. n}

\* c.conn.Close(), also on a connection that is already closed.
CloseSock ==
  /\ ServerGotPrefix
  /\ sock' = "closed"
  /\ toServer' = <<>> /\ toClient' = <<>>
  /\ UNCHANGED authed

\* c.conn.Write succeeds; on a broken connection the packet goes nowhere.
WriteOk(r) ==
  /\ sock \in {"open", "broken"}
  /\ toServer' = IF sock = "open" THEN Append(toServer, r) ELSE toServer
  /\ UNCHANGED <<sock, toClient, authed, served>>

\* A plausible slip: a write that timed out fails the request only, and the
\* connection, which has taken the packet, stays in use.
WriteFailsConnStays(r) ==
  /\ sock = "open"
  /\ Answer(r, "writeErr")
  /\ toServer' = Append(toServer, r)
  /\ UNCHANGED <<sock, toClient, authed, served>>

\* c.conn.Write fails: sendData answers the request and closes c.conn.
WriteFails(r) ==
  /\ sock = "broken"
  /\ Answer(r, "writeErr")
  /\ CloseSock

-----------------------------------------------------------------------------
(* connect(): find a server and dial it. *)

\* The loop moves from one place to another; the other goroutines, and what
\* only resendZkAuth and authenticate change, stay as they are.
LoopStep(from, to) ==
  /\ lpc = from /\ lpc' = to
  /\ UNCHANGED <<ri, closeChan, sendVars, rpc, callVars, faults>>

ConnectNext ==
  /\ HP!NextServer
  /\ LoopStep("next", IF retryStart' THEN "flushUnsent" ELSE "dial")
  /\ state' = "Connecting" /\ lerr' = "ErrNoServer"
  /\ UNCHANGED <<lreq, netVars, chanVars>>

\* One round of flushUnsentRequests(err).
FlushUnsent ==
  /\ LoopStep("flushUnsent", "flushUnsent")
  /\ sendChan # <<>>
  /\ Answer(Head(sendChan), lerr)
  /\ sendChan' = Tail(sendChan)
  /\ UNCHANGED <<hpVars, lerr, lreq, state, netVars, requests>>

\* A plausible slip: the flush ends with requests left in the channel.
UnsentMayStay == TRUE

UnsentGone == sendChan = <<>>

\* connect() pauses, or returns when it was called off.
UnsentFlushed ==
  /\ LoopStep("flushUnsent", IF lerr = "ErrClosing" THEN "final" ELSE "wait")
  /\ UnsentGone
  /\ UNCHANGED <<hpVars, lerr, lreq, state, netVars, chanVars>>

\* The pause ends.  When shouldQuit is closed as well the select may take
\* either branch; taking this one is the same as a pause that ended earlier.
RetryTimer ==
  /\ LoopStep("wait", "dial") /\ ~quit
  /\ UNCHANGED <<hpVars, lerr, lreq, state, netVars, chanVars>>

\* A plausible slip: connect() returns without setState.
QuitStateForgotten == state

QuitState == "Disconnected"

QuitWhileWaiting ==
  /\ LoopStep("wait", "flushUnsent") /\ quit
  /\ lerr' = "ErrClosing" /\ state' = QuitState
  /\ UNCHANGED <<hpVars, lreq, netVars, chanVars>>

DialFails ==
  /\ LoopStep("dial", "next")
  /\ UNCHANGED <<hpVars, lerr, lreq, state, netVars, chanVars>>

DialOk ==
  /\ LoopStep("dial", "auth")
  /\ state' = "Connected"
  /\ sock' = "open" /\ toServer' = <<>> /\ toClient' = <<>> /\ authed' = {}
  /\ UNCHANGED <<hpVars, lerr, lreq, served, chanVars>>

-----------------------------------------------------------------------------
(* authenticate(), and the part of loop() that acts on its result. *)

\* A plausible slip: the send loop does not wait for reauthChan.
SenderStartsAtOnce == "select"

\* The send loop's goroutine first waits for reauthChan.
SenderStarts == "waitReauth"

\* hostProvider.Connected(), a fresh closeChan, and both goroutines started.
AuthOk ==
  /\ lpc = "auth" /\ lpc' = "reauth" /\ ri' = 1
  /\ HP!Connected
  /\ state' = "HasSession"
  /\ closeChan' = FALSE
  /\ spc' = SenderStarts /\ rpc' = "read"
  /\ UNCHANGED <<lerr, lreq, sreq, netVars, chanVars, callVars, faults>>

\* The server no longer knows the session; c.conn is left as it is.
AuthExpired ==
  /\ LoopStep("auth", "disc")
  /\ state' = "Expired" /\ lerr' = "ErrSessionExpired"
  /\ UNCHANGED <<hpVars, lreq, netVars, chanVars>>

\* Anything else that goes wrong in the handshake.
AuthFails ==
  /\ LoopStep("auth", "disc")
  /\ CloseSock
  /\ lerr' = "ErrConnectionClosed"
  /\ UNCHANGED <<hpVars, lreq, state, chanVars>>

-----------------------------------------------------------------------------
(* resendZkAuth(): runs in the loop's goroutine, holding credsMu. *)

ReauthAt(here) ==
  /\ lpc = here
  /\ UNCHANGED <<hpVars, lerr, state, rpc, sreq, closeChan, sendChan,
                 callVars, faults>>

\* Go on in the same round, with the next credential, or return: credsMu is
\* released and reauthChan closed, and the loop goes on to wg.Wait.
ReauthGoes(to) == lpc' = to /\ UNCHANGED <<lreq, ri, spc>>
ReauthContinues == lpc' = "reauth" /\ lreq' = NoReq /\ ri' = ri + 1
                                   /\ UNCHANGED spc
ReauthReturns == lpc' = "wg" /\ lreq' = NoReq /\ spc' = "select"
                             /\ UNCHANGED ri

shouldCancel == quit \/ closeChan

ReauthEnds ==
  /\ ReauthAt("reauth") /\ ReauthReturns
  /\ ri > Len(creds) \/ shouldCancel
  /\ UNCHANGED <<netVars, requests, recvChan>>

\* sendRequest makes a request with a channel of its own.
ReauthRequest ==
  /\ ReauthAt("reauth")
  /\ ri <= Len(creds) /\ ~shouldCancel
  /\ lpc' = "reauthReg" /\ lreq' = Reauth(creds[ri])
  /\ recvChan' = [recvChan EXCEPT ![Reauth(creds[ri])] = Empty]
  /\ UNCHANGED <<ri, spc, netVars, requests>>

\* sendData, under requestsLock.
ReauthRefused ==
  /\ ReauthAt("reauthReg") /\ ReauthContinues
  /\ closeChan
  /\ Answer(lreq, "ErrConnectionClosed")
  /\ UNCHANGED <<netVars, requests>>

ReauthRegister ==
  /\ ReauthAt("reauthReg") /\ ReauthGoes("reauthWrite")
  /\ ~closeChan
  /\ requests' = requests \cup {lreq}
  /\ UNCHANGED <<netVars, recvChan>>

ReauthWrite ==
  /\ ReauthAt("reauthWrite") /\ ReauthGoes("reauthWait")
  /\ WriteOk(lreq)
  /\ UNCHANGED <<requests, recvChan>>

\* sendRequest drops the channel sendData has just answered on.
ReauthWriteFails ==
  /\ ReauthAt("reauthWrite") /\ ReauthContinues
  /\ WriteFails(lreq)
  /\ UNCHANGED requests

\* SetWriteDeadline fails on a closed connection, without an answer.
ReauthWriteClosed ==
  /\ ReauthAt("reauthWrite") /\ ReauthContinues
  /\ sock = "closed"
  /\ UNCHANGED <<netVars, requests, recvChan>>

\* A plausible slip: the credentials are pipelined.
ReauthNotAwaited == TRUE

ReauthReplied == recvChan[lreq] # Empty

ReauthAnswered ==
  /\ ReauthAt("reauthWait") /\ ReauthContinues
  /\ ReauthReplied
  /\ recvChan' = [recvChan EXCEPT ![lreq] = Empty]
  /\ UNCHANGED <<netVars, requests>>

ReauthCancelled ==
  /\ ReauthAt("reauthWait") /\ ReauthReturns
  /\ shouldCancel
  /\ UNCHANGED <<netVars, requests, recvChan>>

-----------------------------------------------------------------------------
(* sendLoop() and sendData(). *)

SendStep(from, to) ==
  /\ spc = from /\ spc' = to
  /\ UNCHANGED <<hpVars, loopVars, rpc, closeChan, callVars, faults>>

\* A request that cannot be encoded is answered at once, before it is
\* registered, and the send loop goes on.
SendTooLarge ==
  /\ SendStep("select", "select")
  /\ sendChan # <<>> /\ Head(sendChan) \in Oversized
  /\ sendChan' = Tail(sendChan)
  /\ Answer(Head(sendChan), "ErrShortBuffer")
  /\ UNCHANGED <<sreq, netVars, requests>>

\* A plausible slip: the request stays queued until it has been written.
LeftInQueue == sendChan

TakenFromQueue == Tail(sendChan)

SendTake ==
  /\ SendStep("select", "reg")
  /\ sendChan # <<>> /\ Head(sendChan) \notin Oversized
  /\ sendChan' = TakenFromQueue /\ sreq' = Head(sendChan)
  /\ UNCHANGED <<netVars, requests, recvChan>>

SendRefused ==
  /\ SendStep("reg", "exit") /\ closeChan
  /\ Answer(sreq, "ErrConnectionClosed")
  /\ sreq' = NoReq
  /\ UNCHANGED <<netVars, sendChan, requests>>

\* A plausible slip: the request is not entered into c.requests.
NotRegistered(r) == requests

\* c.requests[req.xid] = req
Registered(r) == requests \cup {r}

SendRegister ==
  /\ SendStep("reg", "write") /\ ~closeChan
  /\ requests' = Registered(sreq)
  /\ UNCHANGED <<sreq, netVars, sendChan, recvChan>>

SendWrite ==
  /\ SendStep("write", "select")
  /\ WriteOk(sreq)
  /\ sreq' = NoReq
  /\ UNCHANGED chanVars

SendWriteFails ==
  /\ SendStep("write", "exit")
  /\ WriteFails(sreq)
  /\ sreq' = NoReq
  /\ UNCHANGED <<sendChan, requests>>

SendWriteClosed ==
  /\ SendStep("write", "exit") /\ sock = "closed"
  /\ sreq' = NoReq
  /\ UNCHANGED <<netVars, chanVars>>

\* A ping that can be written changes nothing.
PingFails ==
  /\ SendStep("select", "exit") /\ sock \in {"broken", "closed"}
  /\ CloseSock
  /\ UNCHANGED <<sreq, chanVars>>

SendStops ==
  /\ SendStep("select", "exit") /\ closeChan
  /\ UNCHANGED <<sreq, netVars, chanVars>>

SendExit ==
  /\ SendStep("exit", "off")
  /\ CloseSock
  /\ UNCHANGED <<sreq, chanVars>>

-----------------------------------------------------------------------------
(* recvLoop(). *)

RecvStep(from) ==
  /\ rpc = from
  /\ UNCHANGED <<hpVars, loopVars, sendVars, sendChan, callVars>>

\* The reply is matched with the pending request, which leaves the map and is
\* answered; a reply nobody waits for is ignored.  The reply to the close
\* request ends the loop.
RecvReply ==
  /\ RecvStep("read")
  /\ sock \in {"open", "broken"} /\ toClient # <<>>
  /\ LET m == Head(toClient)
     IN  IF m.req \in requests
           THEN /\ requests' = requests \ {m.req}
                /\ Answer(m.req, m.ans)
                /\ rpc' = IF m.req = CloseReq THEN "exit" ELSE "read"
           ELSE UNCHANGED <<requests, recvChan, rpc>>
  /\ toClient' = Tail(toClient)
  /\ UNCHANGED <<sock, toServer, authed, served, closeChan, faults>>

\* The connection was lost, or closed by the send loop or resendZkAuth.
RecvFails ==
  /\ RecvStep("read") /\ rpc' = "exit"
  /\ sock \in {"broken", "closed"}
  /\ UNCHANGED <<netVars, closeChan, requests, recvChan, faults>>

\* The read deadline passes, or a packet is too large or cannot be decoded.
RecvGivesUp ==
  /\ RecvStep("read") /\ rpc' = "exit"
  /\ sock = "open" /\ faults < MaxFaults
  /\ faults' = faults + 1
  /\ UNCHANGED <<netVars, closeChan, requests, recvChan>>

RecvExit ==
  /\ RecvStep("exit") /\ rpc' = "off"
  /\ closeChan' = TRUE
  /\ UNCHANGED <<netVars, requests, recvChan, faults>>

-----------------------------------------------------------------------------
(* loop() after the connection is gone: flushRequests and what follows. *)

\* A plausible slip: only the receive loop is waited for.
ReceiverGone == rpc = "off"

\* wg.Wait()
GoroutinesGone == spc = "off" /\ rpc = "off"

\* A plausible slip: requests that were pending on the lost connection get
\* the error of requests that were never sent.
LostAsUnsent == "ErrNoServer"

LostError == "ErrConnectionClosed"

ConnectionGone ==
  /\ LoopStep("wg", "disc") /\ GoroutinesGone
  /\ lerr' = LostError
  /\ UNCHANGED <<hpVars, lreq, state, netVars, chanVars>>

\* setState and the select on shouldQuit.
Disconnected ==
  /\ LoopStep("disc", "flush")
  /\ state' = "Disconnected"
  /\ lerr' = IF quit THEN "ErrClosing" ELSE lerr
  /\ UNCHANGED <<hpVars, lreq, netVars, chanVars>>

\* flushRequests ranges over the map in any order and sends to each recvChan.
FlushPick ==
  /\ lpc \in FlushPCs /\ LoopStep(lpc, lpc)
  /\ lreq = NoReq /\ lreq' \in requests
  /\ UNCHANGED <<hpVars, lerr, state, netVars, chanVars>>

FlushSend ==
  /\ lpc \in FlushPCs /\ LoopStep(lpc, lpc)
  /\ lreq # NoReq /\ lreq' = NoReq
  /\ Answer(lreq, lerr)
  /\ requests' = requests \ {lreq}
  /\ UNCHANGED <<hpVars, lerr, state, netVars, sendChan>>

\* loop() either returns or reconnects.
AfterFlush == IF lerr = "ErrClosing" THEN "final" ELSE "next"

\* After loop() has returned, Connect's goroutine flushes once more and closes
\* eventChan.
FlushEnd ==
  /\ lpc \in FlushPCs
  /\ LoopStep(lpc, IF lpc = "final" THEN "exited" ELSE AfterFlush)
  /\ lreq = NoReq /\ requests = {}
  /\ UNCHANGED <<hpVars, lerr, lreq, state, netVars, chanVars>>

-----------------------------------------------------------------------------
(* The API: request(), AddAuth() and Close(). *)

CallStep(r, from, to) ==
  /\ pc[r] = from /\ pc' = [pc EXCEPT ![r] = to]
  /\ UNCHANGED <<hpVars, loopVars, sendVars, rpc, netVars, closeChan,
                 requests, faults>>

Call(r) ==
  /\ CallStep(r, "idle", "queueing")
  /\ UNCHANGED <<res, quit, creds, sendChan, recvChan>>

\* Close() first closes shouldQuit.
Close ==
  /\ AllowClose /\ CallStep(CloseReq, "idle", "queueing")
  /\ quit' = TRUE
  /\ UNCHANGED <<res, creds, sendChan, recvChan>>

\* A plausible slip: an unbounded queue.
AlwaysRoom == TRUE

SendChanHasRoom == Len(sendChan) < SendChanSize

\* c.sendChan <- rq
Queue(r) ==
  /\ CallStep(r, "queueing", "waiting") /\ SendChanHasRoom
  /\ sendChan' = Append(sendChan, r)
  /\ UNCHANGED <<res, quit, creds, recvChan>>

Receive(r) ==
  /\ CallStep(r, "waiting", IF r \in AuthReqs /\ recvChan[r] = "nil"
                            THEN "remember" ELSE "done")
  /\ recvChan[r] # Empty
  /\ res' = [res EXCEPT ![r] = recvChan[r]]
  /\ recvChan' = [recvChan EXCEPT ![r] = Empty]
  /\ UNCHANGED <<quit, creds, sendChan>>

\* AddAuth appends the credential under credsMu.
Remember(r) ==
  /\ CallStep(r, "remember", "done") /\ lpc \notin ReauthPCs
  /\ creds' = Append(creds, r)
  /\ UNCHANGED <<res, quit, sendChan, recvChan>>

\* Close() stops waiting for its request after a second.
CloseGivesUp ==
  /\ CallStep(CloseReq, "waiting", "timedOut")
  /\ UNCHANGED <<res, quit, creds, sendChan, recvChan>>

-----------------------------------------------------------------------------
(* The network and the server. *)

NetStep ==
  /\ sock = "open"
  /\ UNCHANGED <<hpVars, loopVars, sendVars, rpc, closeChan, chanVars,
                 callVars>>

\* The server takes requests in order.  An authentication request puts its
\* credential in force.  Nothing is carried out after the close request.
Serve ==
  /\ NetStep
  /\ toServer # <<>> /\ CloseReq \notin served
  /\ LET r == Head(toServer)
     IN  \E a \in IF r \in Reqs \ AuthReqs THEN Replies ELSE {"nil"} :
           /\ toClient' = Append(toClient, [req |-> r, ans |-> a])
           /\ authed' = authed \cup {c \in AuthReqs : a = "nil"
                                               /\ r \in {c, Reauth(c)}}
           /\ served' = served \cup {r}
  /\ toServer' = Tail(toServer)
  /\ UNCHANGED <<sock, faults>>

\* The server refuses a credential, given for the first time or submitted
\* again after a reconnect: it says so and hangs up.
RefuseCredential ==
  /\ NetStep
  /\ toServer # <<>> /\ CloseReq \notin served
  /\ LET r == Head(toServer)
     IN  /\ r \in RIDs \ (Calls \ AuthReqs)
         /\ toClient' = Append(toClient, [req |-> r, ans |-> "zkErr"])
         /\ served' = served \cup {r}
  /\ sock' = "broken" /\ toServer' = <<>>
  /\ UNCHANGED <<authed, faults>>

\* The established connection is lost.
Break ==
  /\ NetStep
  /\ lpc \in UpPCs /\ faults < MaxFaults
  /\ ServerGotPrefix
  /\ sock' = "broken" /\ toServer' = <<>>
  /\ faults' = faults + 1
  /\ UNCHANGED <<toClient, authed>>

-----------------------------------------------------------------------------
(* The system. *)

Loop ==
  \/ ConnectNext \/ FlushUnsent \/ UnsentFlushed
  \/ RetryTimer \/ QuitWhileWaiting \/ DialFails \/ DialOk
  \/ AuthOk \/ AuthExpired \/ AuthFails
  \/ ReauthEnds \/ ReauthRequest \/ ReauthRefused \/ ReauthRegister
  \/ ReauthWrite \/ ReauthWriteFails \/ ReauthWriteClosed
  \/ ReauthAnswered \/ ReauthCancelled
  \/ ConnectionGone \/ Disconnected \/ FlushPick \/ FlushSend \/ FlushEnd

SendLoop ==
  \/ SendTooLarge \/ SendTake \/ SendRefused \/ SendRegister
  \/ SendWrite \/ SendWriteFails \/ SendWriteClosed
  \/ PingFails \/ SendStops \/ SendExit

RecvLoop == RecvReply \/ RecvFails \/ RecvExit

Api(r) == Queue(r) \/ Receive(r) \/ Remember(r)

Next ==
  \/ Loop \/ SendLoop \/ RecvLoop \/ RecvGivesUp
  \/ \E r \in Reqs : Call(r)
  \/ \E r \in Calls : Api(r)
  \/ Close \/ CloseGivesUp
  \/ Serve \/ RefuseCredential \/ Break

Spec == Init /\ [][Next]_vars

\* Every goroutine that can take a step eventually takes one, and a server
\* eventually answers on a connection that stays up.  Nothing makes a dial or
\* a handshake succeed, a user call the API, or a failure happen.  That a
\* handshake ends, one way or the other, is guaranteed up to the length of the
\* server's answer only: authenticate clears its deadline before it reads the
\* rest, and a server that stops there without dropping the connection would
\* hold up the loop for ever.  Fairness of Loop leaves such a server out.
Fairness ==
  /\ WF_vars(Loop) /\ WF_vars(SendLoop) /\ WF_vars(RecvLoop)
  /\ \A r \in Calls : WF_vars(Api(r))
  /\ WF_vars(Serve)

FairSpec == Spec /\ Fairness

-----------------------------------------------------------------------------
(* Properties. *)

Queued == {sendChan[i] : i \in 1 .. Len(sendChan)}
InHand == IF spc \in {"reg", "write"} THEN {sreq} ELSE {}

\* request() waits on its recvChan without a timeout, so a request must not
\* fall between the queue, the send loop, the pending map and its answer, in
\* whatever order the loops and a failing connection hand it over.
NoLostRequest ==
  \A r \in Calls : pc[r] = "waiting" =>
    \/ r \in Queued \cup InHand \cup requests
    \/ recvChan[r] # Empty

\* What a call reports about its fate is true: an answer of the server means
\* that the request was carried out, and ErrNoServer, ErrShortBuffer and a
\* failed write mean that it was not (CreateProtectedEphemeralSequential looks
\* for its node after ErrConnectionClosed only, and a caller may safely repeat
\* a request that was never sent).
OutcomeIsTrue ==
  \A r \in Calls :
    /\ res[r] \in Replies => r \in served
    /\ res[r] \in Unsent \cup {"ErrNoServer"} => r \notin served

\* Where a call is, as its caller sees it.
CallStatus ==
  [r \in Calls |-> CASE pc[r] = "idle" -> "idle"
                     [] pc[r] \in {"queueing", "waiting"} -> "pending"
                     [] pc[r] \in {"remember", "done"} -> "returned"
                     [] pc[r] = "timedOut" -> "abandoned"]

CallerView == INSTANCE Rpc
  WITH NotDone <- Unsent \cup {"ErrNoServer"},
       Open <- Flushed \ {"ErrNoServer"},
       status <- CallStatus, outcome <- res, performed <- served \cap Calls

\* The pipeline keeps its promise to callers: each call returns once, with an
\* outcome that is true then and stays true, whatever the server still does
\* with the packets of a connection that is being given up.
ImplementsRpc == CallerView!Spec

\* A request is handed to a server at most once: no request that may already
\* have been carried out is queued, held by the send loop or on the wire
\* again, on this connection or the next one.
NeverResent ==
  /\ \A r \in Calls \cap served :
       /\ r \notin Queued \cup InHand
       /\ \A i \in 1 .. Len(toServer) : toServer[i] # r
  /\ \A i, j \in 1 .. Len(toServer) :
       i # j /\ toServer[i] \in Calls => toServer[i] # toServer[j]

\* c.buf, c.conn's write side and the write deadline belong to one goroutine at
\* a time: the send loop is not past reauthChan while resendZkAuth runs.
OneWriter == lpc \in ReauthPCs => spc = "waitReauth"

\* A new connection starts clean: no goroutine of the old one is left, and no
\* request of the old one is still registered, where the reply to a request
\* of the new connection, or nothing at all, would have to answer it.
ConnectionsDoNotMix ==
  lpc \in DownPCs => spc = "off" /\ rpc = "off" /\ requests = {}

\* The sends to recvChan in sendData, recvLoop and flushUnsentRequests never
\* block: the channel has one slot, and at those places it is empty.  (The
\* send in flushRequests may find it full after a failed write.)
AnswerSlotFree ==
  /\ \A r \in Queued \cup InHand : recvChan[r] = Empty
  /\ toClient # <<>> /\ Head(toClient).req \in requests
       => recvChan[Head(toClient).req] = Empty

\* On a usable connection every credential that resendZkAuth found is in force
\* before the send loop hands over the first request, so that no request runs
\* with fewer rights after a reconnect than before it.
ReauthBeforeRequests ==
  spc \in {"select", "reg", "write"} /\ sock = "open" /\ ~closeChan /\ ~quit
    => \A i \in 1 .. ri - 1 : creds[i] \in authed

\* A credential whose AddAuth has succeeded is in force on every usable
\* connection from then on: "Remember authdata so that it can be re-submitted
\* on reconnect".
AuthSurvivesReconnect ==
  spc \in {"select", "reg", "write"} /\ sock = "open" /\ ~closeChan /\ ~quit
    => \A a \in AuthReqs : pc[a] = "done" /\ res[a] = "nil" => a \in authed

\* When Connect's goroutine closes eventChan, nothing of the connection is
\* left: no loop runs, no request is pending, and State() says so.
CleanExit ==
  lpc = "exited" =>
    spc = "off" /\ rpc = "off" /\ requests = {} /\ state = "Disconnected"

\* Every call returns although servers may be unreachable for ever and the
\* connection fails, as long as nobody calls Close.
CallsReturn == \A r \in Reqs : pc[r] = "queueing" ~> pc[r] = "done" \/ quit

\* Every call returns, also while and after Close is called: "pending requests
\* should be errored out so they don't hang forever".
NoCallHangs == \A r \in Reqs : pc[r] = "queueing" ~> pc[r] = "done"

\* After Close the connection loop ends, and eventChan is closed.  The code
\* does not keep this: when Close has stopped waiting for its answer, or
\* resendZkAuth has moved on, and the write of that request fails, sendData has
\* filled the recvChan that nobody reads any more, and flushRequests, which is
\* to "send error to all pending requests and clear request map", blocks on it.
CloseEndsLoop == quit ~> lpc = "exited"

=============================================================================
