------------------------------- MODULE Watches -------------------------------
(***************************************************************************)
(* Watches (zk/conn.go): how GetW, ExistsW and ChildrenW register a        *)
(* watcher, how recvLoop fires it, and how sendSetWatches restores the     *)
(* watches on a new connection, relative to c.lastZxid, and how they end   *)
(* with the session or the client.                                         *)
(*                                                                         *)
(* One znode is enough: watches on different paths share nothing but       *)
(* lastZxid, which every reply advances.  The server keeps watches per     *)
(* connection, in a data table (also for exists) and a child table, sends  *)
(* each event once and in order with its replies.                          *)
(***************************************************************************)
EXTENDS Integers, Sequences, FiniteSets

CONSTANTS
  Calls,        \* the watch calls, each made at most once
  Kind,         \* Kind[w]: "data" for GetW, "exist" ExistsW, "child" ChildrenW
  BatchSize,    \* entries that fit into one set-watches request
  MaxZxid,      \* bound on the changes other clients make
  MaxBreaks     \* bound on the lost connections

Types == {"data", "exist", "child"}

ASSUME WatchesAssumption ==
  /\ Kind \in [Calls -> Types]
  /\ BatchSize \in Nat \ {0}
  /\ MaxZxid \in Nat \ {0} /\ MaxBreaks \in Nat

VARIABLES
  zxid, exists, mzxid, pzxid,   \* server: the znode
  srvWatch,     \* server: watch tables of this connection
  up,           \* is there a connection with a session?
  exited,       \* has loop() returned after Close?
  sw,           \* sendSetWatches on this connection: todo, building or done
  toVisit,      \* entries of c.watchers that sendSetWatches has yet to visit
  reqs,         \* per connection: set-watches requests not yet answered
  asking,       \* connections whose goroutine waits for an answer
  sendChan,     \* requests not yet sent
  toClient,     \* replies and events on their way
  watchers,     \* c.watchers: for each type, the calls with a channel there
  ch,           \* each call's channel
  lastZxid,     \* c.lastZxid
  seen,         \* history: the zxid a watch was set at
  breaks        \* lost connections, which number the current one

serverVars == <<zxid, exists, mzxid, pzxid>>
clientVars == <<watchers, ch, lastZxid, seen>>
setVars == <<sw, toVisit, reqs, asking>>
vars == <<serverVars, srvWatch, up, exited, setVars, sendChan, toClient,
          clientVars, breaks>>

Zxids == 0 .. MaxZxid
Events == {"created", "deleted", "changed", "children"}

\* A connection is known by its number.
Conns == 0 .. MaxBreaks
\* A set-watches request: it sets something, and keeps to the packet limit.
Batch == [rel : Zxids,
          types : {ts \in SUBSET Types : ts # {} /\ Cardinality(ts) <= BatchSize}]

TypeOK ==
  /\ zxid \in Zxids /\ mzxid \in Zxids /\ pzxid \in Zxids
  /\ exists \in BOOLEAN /\ up \in BOOLEAN
  /\ srvWatch \subseteq {"data", "child"}
  /\ exited \in BOOLEAN
  /\ sw \in {"todo", "building", "done"}
  /\ toVisit \subseteq Types
  /\ reqs \in [Conns -> Seq(Batch)]
  /\ asking \subseteq Conns
  /\ watchers \in [Types -> SUBSET Calls]
  /\ ch \in [Calls -> {"none", "asked", "failed", "open", "fired", "invalid"}]
  /\ lastZxid \in Zxids
  /\ seen \in [Calls -> Zxids]
  /\ breaks \in Conns

Init ==
  /\ zxid = 1 /\ exists \in BOOLEAN /\ mzxid = 1 /\ pzxid = 1
  /\ srvWatch = {}
  /\ up = TRUE /\ exited = FALSE
  /\ sw = "done" /\ toVisit = {}
  /\ reqs = [k \in Conns |-> <<>>] /\ asking = {}
  /\ sendChan = <<>> /\ toClient = <<>>
  /\ watchers = [t \in Types |-> {}]
  /\ ch = [w \in Calls |-> "none"]
  /\ lastZxid = 0
  /\ seen = [w \in Calls |-> 0]
  /\ breaks = 0

-----------------------------------------------------------------------------
(* The user's requests. *)

\* GetW, ExistsW and ChildrenW.
Watch(w) ==
  /\ ch[w] = "none" /\ ch' = [ch EXCEPT ![w] = "asked"]
  /\ sendChan' = Append(sendChan, [op |-> "watch", call |-> w])
  /\ UNCHANGED <<serverVars, srvWatch, up, exited, setVars, toClient, watchers,
                 lastZxid, seen, breaks>>

-----------------------------------------------------------------------------
(* sendSetWatches. *)

\* The entries of c.watchers that have watchers.
WatchedTypes == {t \in Types : watchers[t] # {}}

\* It holds watchersLock from here to its last batch.
SendSetWatches ==
  /\ up /\ sw = "todo"
  /\ toVisit' = WatchedTypes
  /\ sw' = IF WatchedTypes = {} THEN "done" ELSE "building"
  /\ UNCHANGED <<serverVars, srvWatch, up, exited, reqs, asking, sendChan,
                 toClient, clientVars, breaks>>

\* A plausible slip: only full packets are added to reqs.
TrailingForgotten(b) ==
  IF Cardinality(b.types) < BatchSize THEN reqs[breaks]
  ELSE Append(reqs[breaks], b)

\* reqs = append(reqs, req)
Appended(b) == Append(reqs[breaks], b)

\* A plausible slip: the limit is checked before the entry is counted.
CheckedTooLate(types) == Cardinality(types) <= BatchSize + 1

\* sizeSoFar+addlLen > limit starts a new packet.
FitsPacket(types) == Cardinality(types) <= BatchSize

\* One packet is filled, in the map's random order, until it is full or there
\* is nothing left to visit.  The receive loop advances c.lastZxid meanwhile.
BuildBatch ==
  /\ sw = "building"
  /\ \E types \in SUBSET toVisit :
       /\ types # {} /\ FitsPacket(types)
       /\ types # toVisit => Cardinality(types) = BatchSize
       /\ toVisit' = toVisit \ types
       /\ reqs' = [reqs EXCEPT
            ![breaks] = Appended([rel |-> lastZxid, types |-> types])]
       /\ sw' = IF types = toVisit THEN "done" ELSE "building"
  /\ UNCHANGED <<serverVars, srvWatch, up, exited, asking, sendChan, toClient,
                 clientVars, breaks>>

\* The goroutine that sendSetWatches has started on connection k queues its
\* next packet like any request; it may outlive its connection.
QueueBatch(k) ==
  /\ reqs[k] # <<>> /\ k \notin asking
  /\ k = breaks => sw = "done"
  /\ asking' = asking \cup {k}
  /\ sendChan' = Append(sendChan, [op |-> "setWatches", conn |-> k,
                                   rel |-> Head(reqs[k]).rel,
                                   types |-> Head(reqs[k]).types])
  /\ UNCHANGED <<serverVars, srvWatch, up, exited, sw, toVisit, reqs, toClient,
                 clientVars, breaks>>

\* The goroutines in ks get an error and return.
Abandon(ks) ==
  /\ reqs' = [k \in Conns |-> IF k \in ks THEN <<>> ELSE reqs[k]]
  /\ asking' = asking \ ks

-----------------------------------------------------------------------------
(* The server. *)

Event(e) == [op |-> "event", type |-> e]

\* The event that a watch of type t to be set again has missed since rel, or
\* no event.
Missed(t, rel) ==
  CASE t = "exist" /\ exists -> <<Event("created")>>
    [] t # "exist" /\ ~exists -> <<Event("deleted")>>
    [] t = "data" /\ exists /\ mzxid > rel -> <<Event("changed")>>
    [] t = "child" /\ exists /\ pzxid > rel -> <<Event("children")>>
    [] OTHER -> <<>>

Table(t) == IF t = "child" THEN "child" ELSE "data"

SetAgain(r) == {Table(t) : t \in {u \in r.types : Missed(u, r.rel) = <<>>}}

\* What the server answers to the head of the queue, and the tables after it.
ServeWatch(r) ==
  LET k  == Kind[r.call]
      ok == exists \/ k = "exist"
  IN  /\ srvWatch' = IF ok THEN srvWatch \cup {Table(k)} ELSE srvWatch
      /\ toClient' = Append(toClient, [op |-> "watch", call |-> r.call,
                                       zxid |-> zxid, ok |-> ok,
                                       found |-> exists])

ServeSetWatches(r) ==
  /\ srvWatch' = srvWatch \cup SetAgain(r)
  /\ toClient' =
       toClient \o (IF "data" \in r.types THEN Missed("data", r.rel) ELSE <<>>)
                \o (IF "exist" \in r.types THEN Missed("exist", r.rel) ELSE <<>>)
                \o (IF "child" \in r.types THEN Missed("child", r.rel) ELSE <<>>)
                \o << [op |-> "setWatches", conn |-> r.conn, zxid |-> zxid] >>

\* The send loop hands the next request to the server.
Serve ==
  /\ up /\ sendChan # <<>>
  /\ LET r == Head(sendChan)
     IN  \/ r.op = "watch" /\ ServeWatch(r)
         \/ r.op = "setWatches" /\ ServeSetWatches(r)
  /\ sendChan' = Tail(sendChan)
  /\ UNCHANGED <<serverVars, up, exited, setVars, clientVars, breaks>>

\* Another client changes the znode, and watches in the tables fire.  (What
\* happens after the client has gone is of no interest.)
Change(e, tables) ==
  /\ ~exited /\ zxid < MaxZxid /\ zxid' = zxid + 1
  /\ toClient' = IF srvWatch \cap tables = {} THEN toClient
                 ELSE Append(toClient, Event(e))
  /\ srvWatch' = srvWatch \ tables
  /\ UNCHANGED <<up, exited, setVars, sendChan, clientVars, breaks>>

Create ==
  /\ ~exists /\ exists' = TRUE
  /\ mzxid' = zxid + 1 /\ pzxid' = zxid + 1
  /\ Change("created", {"data"})

Delete ==
  /\ exists /\ exists' = FALSE
  /\ Change("deleted", {"data", "child"})
  /\ UNCHANGED <<mzxid, pzxid>>

SetData ==
  /\ exists /\ mzxid' = zxid + 1
  /\ Change("changed", {"data"})
  /\ UNCHANGED <<exists, pzxid>>

ChangeChildren ==
  /\ exists /\ pzxid' = zxid + 1
  /\ Change("children", {"child"})
  /\ UNCHANGED <<exists, mzxid>>

-----------------------------------------------------------------------------
(* recvLoop. *)

\* A plausible slip: no event is passed on to one type of watchers.
NotForExist(e) == IF e = "children" THEN {"child"} ELSE {"data", "child"}

\* The types of watchers an event is for.
WTypes(e) ==
  CASE e = "created"  -> {"exist"}
    [] e = "children" -> {"child"}
    [] OTHER          -> Types

\* A plausible slip: the watchers stay in the map after they have fired.
KeptAfterEvent(e) == watchers

\* delete(c.watchers, wpt)
WatchersAfter(e) == [t \in Types |-> IF t \in WTypes(e) THEN {} ELSE watchers[t]]

\* The event loop and addWatcher take watchersLock.
WatchersUnlocked == sw # "building"

Fired(e) == UNION {watchers[t] : t \in WTypes(e)}

\* The header of the reply at hand: c.lastZxid is set without a lock, before
\* recvFunc takes watchersLock, and sendSetWatches may read it in between.
RecvHeader ==
  /\ up /\ toClient # <<>>
  /\ Head(toClient).op # "event" /\ lastZxid # Head(toClient).zxid
  /\ lastZxid' = Head(toClient).zxid
  /\ UNCHANGED <<serverVars, srvWatch, up, exited, setVars, sendChan, toClient,
                 watchers, ch, seen, breaks>>

HeaderRead(m) == lastZxid = m.zxid

RecvEvent(m) ==
  /\ m.op = "event" /\ WatchersUnlocked
  /\ ch' = [w \in Calls |-> IF w \in Fired(m.type) THEN "fired" ELSE ch[w]]
  /\ watchers' = WatchersAfter(m.type)
  /\ UNCHANGED <<seen, reqs, asking>>

\* addWatcher, called from recvFunc before the next packet is read.
WatcherType(m) == IF Kind[m.call] # "exist" THEN Kind[m.call]
                  ELSE IF m.found THEN "data" ELSE "exist"

RecvWatch(m) ==
  /\ m.op = "watch" /\ HeaderRead(m) /\ WatchersUnlocked
  /\ IF m.ok
       THEN /\ ch' = [ch EXCEPT ![m.call] = "open"]
            /\ watchers' = [watchers EXCEPT ![WatcherType(m)] = @ \cup {m.call}]
            /\ seen' = [seen EXCEPT ![m.call] = m.zxid]
       ELSE /\ ch' = [ch EXCEPT ![m.call] = "failed"]
            /\ UNCHANGED <<watchers, seen>>
  /\ UNCHANGED <<reqs, asking>>

\* request() returns in the goroutine of sendSetWatches.
RecvSetWatches(m) ==
  /\ m.op = "setWatches" /\ HeaderRead(m)
  /\ reqs' = [reqs EXCEPT ![m.conn] = Tail(@)]
  /\ asking' = asking \ {m.conn}
  /\ UNCHANGED <<watchers, ch, seen>>

Recv ==
  /\ up /\ toClient # <<>>
  /\ LET m == Head(toClient) IN RecvEvent(m) \/ RecvWatch(m) \/ RecvSetWatches(m)
  /\ toClient' = Tail(toClient)
  /\ UNCHANGED <<serverVars, srvWatch, up, exited, sw, toVisit, sendChan, breaks,
                 lastZxid>>

-----------------------------------------------------------------------------
(* Losing and restoring the connection. *)

\* The watch calls and the set-watches goroutines among the messages of q.
CallsIn(q) == {q[i].call : i \in {j \in 1 .. Len(q) : q[j].op = "watch"}}
ConnsIn(q) == {q[i].conn : i \in {j \in 1 .. Len(q) : q[j].op = "setWatches"}}

\* The requests in q are answered with an error.
Fail(q) ==
  /\ ch' = [w \in Calls |-> IF w \in CallsIn(q) THEN "failed" ELSE ch[w]]
  /\ Abandon(ConnsIn(q))

\* wg.Wait() returns, and flushRequests answers what was in flight.  (The
\* receive loop takes no reply by its header only; that the model allows this
\* here adds a lost reply whose lastZxid has been noted.)
Break ==
  /\ up /\ sw = "done" /\ breaks < MaxBreaks
  /\ up' = FALSE /\ breaks' = breaks + 1
  /\ toClient' = <<>> /\ srvWatch' = {}
  /\ Fail(toClient)
  /\ UNCHANGED <<serverVars, exited, sw, toVisit, sendChan, watchers, lastZxid,
                 seen>>

\* connect() finds no server, and flushUnsentRequests answers ErrNoServer.
NoServer ==
  /\ ~up /\ ~exited /\ sendChan # <<>>
  /\ sendChan' = <<>>
  /\ Fail(sendChan)
  /\ UNCHANGED <<serverVars, srvWatch, up, exited, sw, toVisit, toClient,
                 watchers, lastZxid, seen, breaks>>

\* A new connection within the session.
Reconnect ==
  /\ ~up /\ ~exited
  /\ up' = TRUE
  /\ sw' = "todo"
  /\ UNCHANGED <<serverVars, srvWatch, exited, toVisit, reqs, asking, sendChan,
                 toClient, clientVars, breaks>>

\* A plausible slip: the watchers of one type are forgotten.
InvalidateSome == [t \in Types |-> IF t = "exist" THEN {} ELSE watchers[t]]

\* The watchers that invalidateWatches sends its error to.
ToInvalidate == watchers

invalidateWatches ==
  /\ ch' = [w \in Calls |-> IF \E t \in Types : w \in ToInvalidate[t]
                            THEN "invalid" ELSE ch[w]]
  /\ watchers' = [t \in Types |-> {}]

\* The server has dropped the session: authenticate resets lastZxid.
Expired ==
  /\ ~up /\ ~exited
  /\ lastZxid' = 0
  /\ invalidateWatches
  /\ UNCHANGED <<serverVars, srvWatch, up, exited, setVars, sendChan, toClient,
                 seen, breaks>>

\* Close has been called, which nothing but loop() notices; loop() returns to
\* Connect's goroutine.
Exit ==
  /\ ~up /\ ~exited /\ exited' = TRUE
  /\ invalidateWatches
  /\ UNCHANGED <<serverVars, srvWatch, up, setVars, sendChan, toClient,
                 lastZxid, seen, breaks>>

Next ==
  \/ \E w \in Calls : Watch(w)
  \/ SendSetWatches \/ BuildBatch \/ (\E k \in Conns : QueueBatch(k))
  \/ Serve \/ RecvHeader \/ Recv
  \/ Create \/ Delete \/ SetData \/ ChangeChildren
  \/ Break \/ NoServer \/ Reconnect \/ Expired \/ Exit

Spec == Init /\ [][Next]_vars

\* The client's goroutines run, a server answers and delivers its events, and
\* the loop does not look for a connection for ever.  Nothing makes another
\* client change the node, and nothing makes a connection fail.
Fairness ==
  /\ WF_vars(SendSetWatches \/ BuildBatch)
  /\ \A k \in Conns : WF_vars(QueueBatch(k))
  /\ WF_vars(Serve) /\ WF_vars(RecvHeader \/ Recv)
  /\ WF_vars(NoServer \/ Reconnect \/ Expired \/ Exit)

FairSpec == Spec /\ Fairness

-----------------------------------------------------------------------------
(* Properties. *)

\* The watches have been restored and the client has heard all there is.
Settled == up /\ sw = "done" /\ reqs[breaks] = <<>> /\ toClient = <<>>

\* A channel that the user waits on is in the map under exactly one type, and
\* the map holds no other: a channel gets one event and is closed once (the
\* second close, or a second send to a full channel, would stop recvLoop).
OneEventPerChannel ==
  \A w \in Calls :
    /\ ch[w] = "open" <=> \E t \in Types : w \in watchers[t]
    /\ \A t, u \in Types : w \in watchers[t] \cap watchers[u] => t = u

\* When loop() has returned after Close, nobody waits for an event any more:
\* every channel that GetW, ExistsW or ChildrenW returned got one, a watch whose
\* reply was received just before the end included.
NobodyLeftWaiting ==
  exited => \A w \in Calls : ch[w] # "open"

\* Once settled, every watcher has its watch at the server, so that a change to
\* come will reach it, after whatever reconnects, expiries, packets answered in
\* part and races between new watches and sendSetWatches.
WatchesRestored ==
  Settled => \A t \in WatchedTypes : Table(t) \in srvWatch

\* Once settled, nobody waits for the deletion of a node that is gone or for
\* the creation of one that is there (Lock relies on the first).
ExistenceNeverMissed ==
  Settled => /\ watchers["data"] \cup watchers["child"] # {} => exists
             /\ watchers["exist"] # {} => ~exists

\* Those who wait on an existing node that is deleted hear of it (or the node is
\* created again), although the connection may be lost before the event, the
\* packets that set the watch again may be, and the session may end: this is
\* what the wait in Lock rests on.
DeletionHeard ==
  watchers["data"] # {} /\ ~exists ~> watchers["data"] = {} \/ exists

\* Once settled, no watcher has missed a change: watches "are maintained"
\* across reconnects.
NoMissedChange ==
  Settled => /\ \A w \in watchers["data"] : mzxid <= seen[w]
             /\ \A w \in watchers["child"] : pzxid <= seen[w]

=============================================================================
