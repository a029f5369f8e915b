------------------------------ MODULE Session -------------------------------
(***************************************************************************)
(* The life of a session (zk/conn.go): the loop takes addresses from the   *)
(* host provider, dials, and presents its session ID, its password and the *)
(* last zxid it has seen to whatever server it reaches; every change of    *)
(* state is announced on the event channel.                                *)
(*                                                                         *)
(* Requests, credentials and watches, which the loop also handles on its   *)
(* way, are in modules Conn and Watches.  The ensemble is as the handshake *)
(* sees it: each server has applied some prefix of the transactions, and a *)
(* session lives until the ensemble expires it or the client closes it.    *)
(***************************************************************************)
EXTENDS HostProvider, Sequences

CONSTANTS
  EventChanSize,    \* cap(c.eventChan)
  MaxSessions,      \* bound on the sessions the ensemble opens
  MaxZxid           \* bound on its transactions

ASSUME SessionAssumption ==
  EventChanSize \in Nat \ {0} /\ MaxSessions \in Nat /\ MaxZxid \in Nat \ {0}

VARIABLES
  lpc,          \* where the loop is
  sessionID,    \* c.sessionID, 0 for none
  passwd,       \* c.passwd: the session it belongs to, 0 for emptyPassword
  lastZxid,     \* c.lastZxid
  state,        \* c.state
  eventChan,    \* the events in c.eventChan
  told,         \* the state in the last session event the user has read
  expiriesTold, \* expiries among the events the user has read
  dropped,      \* has an event been dropped?
  sockets,      \* TCP connections that were opened and not closed
  expiries,     \* sessions the client was told have expired
  alive,        \* ensemble: the sessions that live
  opened,       \* ensemble: sessions opened so far
  applied       \* ensemble: the last transaction each server has applied

clientVars   == <<sessionID, passwd, lastZxid, expiries>>
eventVars    == <<state, eventChan, dropped, told, expiriesTold>>
ensembleVars == <<alive, opened, applied>>
sessionVars  == <<hpVars, lpc, clientVars, eventVars, sockets, ensembleVars>>

States == {"Disconnected", "Connecting", "Connected", "HasSession", "Expired"}
NodeEvent == "node"     \* an event of a watch
Sessions == 1 .. MaxSessions

SessionType ==
  /\ TypeOK
  /\ lpc \in {"next", "wait", "dial", "auth", "up", "disc", "exited"}
  /\ sessionID \in Sessions \cup {0} /\ passwd \in Sessions \cup {0}
  /\ lastZxid \in 0 .. MaxZxid
  /\ state \in States /\ told \in States
  /\ eventChan \in Seq(States \cup {NodeEvent})
  /\ Len(eventChan) <= EventChanSize
  /\ dropped \in BOOLEAN
  /\ sockets \in Nat /\ expiries \in Nat /\ expiriesTold \in Nat
  /\ alive \subseteq Sessions /\ opened \in Sessions \cup {0}
  /\ applied \in [Servers -> 1 .. MaxZxid]

SessionInit ==
  /\ Init
  /\ lpc = "next"
  /\ sessionID = 0 /\ passwd = 0 /\ lastZxid = 0 /\ expiries = 0
  /\ state = "Disconnected" /\ eventChan = <<>> /\ dropped = FALSE
  /\ told = "Disconnected" /\ expiriesTold = 0
  /\ sockets = 0
  /\ alive = {} /\ opened = 0
  /\ applied \in [Servers -> 1 .. MaxZxid]

-----------------------------------------------------------------------------
(* Events. *)

\* A plausible slip: an event more than the channel holds.
OneMoreEvent == Len(eventChan) <= EventChanSize

EventChanHasRoom == Len(eventChan) < EventChanSize

\* The select with a default: the event is lost when the channel is full.
sendEvent(e) ==
  /\ IF EventChanHasRoom
       THEN eventChan' = Append(eventChan, e) /\ UNCHANGED dropped
       ELSE dropped' = TRUE /\ UNCHANGED eventChan
  /\ UNCHANGED <<told, expiriesTold>>

\* A plausible slip: the state changes without an event.
StateStored(s) ==
  state' = s /\ UNCHANGED <<eventChan, dropped, told, expiriesTold>>

\* The store of the state and the event are two statements of one goroutine; they
\* are one step here, so that what is said of events and state holds whenever
\* setState is not in between.
setState(s) == state' = s /\ sendEvent(s)

ReadEvent ==
  /\ eventChan # <<>>
  /\ eventChan' = Tail(eventChan)
  /\ told' = IF Head(eventChan) = NodeEvent THEN told ELSE Head(eventChan)
  /\ expiriesTold' =
       expiriesTold + (IF Head(eventChan) = "Expired" THEN 1 ELSE 0)
  /\ UNCHANGED <<hpVars, lpc, clientVars, state, dropped, sockets,
                 ensembleVars>>

-----------------------------------------------------------------------------
(* connect(). *)

LoopStep(from, to) == lpc = from /\ lpc' = to

ConnectNext ==
  /\ NextServer
  /\ LoopStep("next", IF retryStart' THEN "wait" ELSE "dial")
  /\ setState("Connecting")
  /\ UNCHANGED <<clientVars, sockets, ensembleVars>>

RetryTimer ==
  /\ LoopStep("wait", "dial")
  /\ UNCHANGED <<hpVars, clientVars, eventVars, sockets, ensembleVars>>

\* Close has been called: loop() returns, and eventChan is closed.
QuitWhileWaiting ==
  /\ LoopStep("wait", "exited")
  /\ setState("Disconnected")
  /\ UNCHANGED <<hpVars, clientVars, sockets, ensembleVars>>

DialFails ==
  /\ LoopStep("dial", "next")
  /\ UNCHANGED <<hpVars, clientVars, eventVars, sockets, ensembleVars>>

DialOk ==
  /\ LoopStep("dial", "auth")
  /\ setState("Connected")
  /\ sockets' = sockets + 1
  /\ UNCHANGED <<hpVars, clientVars, ensembleVars>>

-----------------------------------------------------------------------------
(* authenticate(): the connect request, and what the ensemble makes of it. *)

\* A plausible slip: the request does not say what the client has seen.
ZxidOmitted == 0

\* LastZxidSeen
ZxidSent == lastZxid

\* The server closes the connection of a client that has seen more than it.
Behind == ZxidSent > applied[curr]

\* A plausible slip: the password is kept for the life of the Conn.
PasswordKept(p) == passwd

\* c.passwd = r.Passwd
NewPassword(p) == p

\* A response with session ID s.
Welcome(s) ==
  /\ LoopStep("auth", "up")
  /\ Connected
  /\ sessionID' = s /\ passwd' = NewPassword(s)
  /\ setState("HasSession")
  /\ UNCHANGED <<lastZxid, expiries, sockets, applied>>

AuthNew ==
  /\ Welcome(opened + 1)
  /\ ~Behind /\ sessionID = 0 /\ opened < MaxSessions
  /\ opened' = opened + 1 /\ alive' = alive \cup {opened + 1}

\* The ensemble knows the session and its password.
Known == sessionID \in alive /\ passwd = sessionID

AuthKept ==
  /\ Welcome(sessionID)
  /\ ~Behind /\ Known
  /\ UNCHANGED <<alive, opened>>

\* A plausible slip: c.lastZxid survives the session.
ZxidKept == lastZxid

ZxidAfterExpiry == 0

\* A response with session ID 0; c.conn is left as it is.
AuthExpired ==
  /\ LoopStep("auth", "disc")
  /\ ~Behind /\ sessionID # 0 /\ ~Known
  /\ sessionID' = 0 /\ passwd' = 0 /\ lastZxid' = ZxidAfterExpiry
  /\ expiries' = expiries + 1
  /\ setState("Expired")
  /\ UNCHANGED <<hpVars, sockets, ensembleVars>>

\* A plausible slip: the connection is not closed after a failed handshake.
LeftOpen == sockets

SocketClosed == sockets - 1

\* Any other end of the handshake: the server is behind, or the connection is
\* lost, perhaps after a session was opened that the client never hears of.
AuthFails ==
  /\ LoopStep("auth", "disc")
  /\ sockets' = SocketClosed
  /\ \/ UNCHANGED <<alive, opened>>
     \/ /\ ~Behind /\ sessionID = 0 /\ opened < MaxSessions
        /\ opened' = opened + 1 /\ alive' = alive \cup {opened + 1}
  /\ UNCHANGED <<hpVars, clientVars, eventVars, applied>>

-----------------------------------------------------------------------------
(* The established connection, and its end. *)

UpStep ==
  /\ lpc = "up" /\ sessionID \in alive
  /\ UNCHANGED <<hpVars, sockets>>

\* recvLoop gets a reply with the server's last transaction in its header.
RecvReply ==
  /\ UpStep
  /\ lastZxid' = applied[curr]
  /\ UNCHANGED <<lpc, sessionID, passwd, expiries, eventVars, ensembleVars>>

\* recvLoop gets the event of a watch and passes it on to eventChan too.
RecvWatchEvent ==
  /\ UpStep
  /\ sendEvent(NodeEvent)
  /\ UNCHANGED <<lpc, clientVars, state, ensembleVars>>

\* The connection is lost, or ends with the reply to Close's request (which also
\* ends the session: see Expire).
ConnectionGone ==
  /\ LoopStep("up", "disc")
  /\ sockets' = sockets - 1
  /\ UNCHANGED <<hpVars, clientVars, eventVars, ensembleVars>>

\* setState and the select on shouldQuit, which Close may have closed.
Disconnected ==
  /\ LoopStep("disc", "next") \/ LoopStep("disc", "exited")
  /\ setState("Disconnected")
  /\ UNCHANGED <<hpVars, clientVars, sockets, ensembleVars>>

-----------------------------------------------------------------------------
(* The ensemble on its own. *)

EnsembleStep ==
  lpc # "exited" /\ UNCHANGED <<hpVars, lpc, clientVars, eventVars, sockets,
                                opened>>

Expire(s) ==
  /\ s \in alive /\ alive' = alive \ {s}
  /\ EnsembleStep /\ UNCHANGED applied

Apply(s) ==
  /\ applied[s] < MaxZxid
  /\ applied' = [applied EXCEPT ![s] = @ + 1]
  /\ EnsembleStep /\ UNCHANGED alive

SessionNext ==
  \/ ReadEvent
  \/ ConnectNext \/ RetryTimer \/ QuitWhileWaiting \/ DialFails \/ DialOk
  \/ AuthNew \/ AuthKept \/ AuthExpired \/ AuthFails
  \/ RecvReply \/ RecvWatchEvent \/ ConnectionGone \/ Disconnected
  \/ (\E s \in Sessions : Expire(s))
  \/ (\E s \in Servers : Apply(s))

SessionSpec == SessionInit /\ [][SessionNext]_sessionVars

-----------------------------------------------------------------------------
(* Properties. *)

\* Within a session the client never sees an older state of the tree than it
\* has seen, whichever servers it moves between and however far they lag:
\* recvLoop assigns c.lastZxid without comparing, and relies on the handshake.
NeverGoesBack ==
  [][sessionID # 0 /\ sessionID' = sessionID => lastZxid' >= lastZxid]_sessionVars

\* "Within the session timeout it's possible to reestablish a connection to a
\* different server and keep the same session": the client gives up no session
\* that the ensemble still keeps for it.
SessionKept ==
  [][(sessionID \in alive) => sessionID' = sessionID]_sessionVars

\* A client that asks for a new session is turned away by no server, however
\* much its last session has seen.
NewSessionWelcome == lpc = "auth" /\ sessionID = 0 => ~Behind

\* Every connection that was opened is closed before the next one is dialled
\* and before the loop ends, except that each expired session leaves one
\* behind for the garbage collector.
SocketsAccountedFor ==
  sockets = expiries + (IF lpc \in {"auth", "up"} THEN 1 ELSE 0)

\* A user who has read all events, none of which was dropped, knows the state
\* of the connection and has been told of every session that was lost, and
\* with it of the loss of its ephemeral nodes.
EventsTellState ==
  eventChan = <<>> /\ ~dropped => told = state /\ expiriesTold = expiries

=============================================================================
