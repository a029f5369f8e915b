--------------------------- MODULE WatchesProofs ----------------------------
(* TLAPS proofs about watches: any number of watch calls, changes, lost      *)
(* connections and packets of sendSetWatches.                                *)
EXTENDS Watches, SequenceTheorems, TLAPS

-----------------------------------------------------------------------------
(* The inductive invariant, in parts. *)

WatchRequests == [op : {"watch"}, call : Calls]
SetRequests ==
  [op : {"setWatches"}, conn : Conns, rel : Zxids, types : SUBSET Types]
EventMsgs == [op : {"event"}, type : Events]
WatchReplies == [op : {"watch"}, call : Calls, zxid : Zxids, ok : BOOLEAN,
                 found : BOOLEAN]
SetReplies == [op : {"setWatches"}, conn : Conns, zxid : Zxids]
Requests == WatchRequests \cup SetRequests
Messages == EventMsgs \cup WatchReplies \cup SetReplies

QueueType == sendChan \in Seq(Requests) /\ toClient \in Seq(Messages)

\* Without a connection nothing is on its way from a server, which has
\* forgotten its watches; a loop that has returned makes no new connection.
LinkState ==
  /\ exited => ~up /\ \A t \in Types : watchers[t] = {}
  /\ ~up => toClient = <<>> /\ srvWatch = {}

\* No two messages of q are of the same watch call or set-watches goroutine.
Once(q) ==
  \A i, j \in 1 .. Len(q) : i # j =>
    /\ q[i].op = "watch" /\ q[j].op = "watch" => q[i].call # q[j].call
    /\ q[i].op = "setWatches" /\ q[j].op = "setWatches" => q[i].conn # q[j].conn

\* A request is in one of the queues, once, and then its reply is.
QueuesOnce ==
  /\ Once(sendChan) /\ Once(toClient)
  /\ CallsIn(sendChan) \cap CallsIn(toClient) = {}
  /\ ConnsIn(sendChan) \cap ConnsIn(toClient) = {}

CallsWait == \A w \in CallsIn(sendChan) \cup CallsIn(toClient) : ch[w] = "asked"

\* The goroutine of sendSetWatches on a connection waits for the answer to its
\* first packet, and connections to come have no goroutine yet.
GoroutineState ==
  /\ ConnsIn(sendChan) \cup ConnsIn(toClient) \subseteq asking
  /\ \A k \in asking : reqs[k] # <<>>
  /\ \A k \in Conns : k > breaks => reqs[k] = <<>>
  /\ \A i \in 1 .. Len(sendChan) :
       sendChan[i].op = "setWatches" =>
         /\ sendChan[i].types = Head(reqs[sendChan[i].conn]).types
         /\ sendChan[i].rel = Head(reqs[sendChan[i].conn]).rel

\* The server will tell a watcher of type t of the next change that concerns it.
Guarded(t) == Table(t) \in srvWatch /\ (t = "exist" <=> ~exists)

\* A message after the first n fires the watchers of type t.
FiresAfter(n, t) ==
  \E i \in n + 1 .. Len(toClient) :
    toClient[i].op = "event" /\ t \in WTypes(toClient[i].type)

\* sendSetWatches has still to ask for a watch of type t.
ToBeSet(t) ==
  \/ sw = "todo"
  \/ sw = "building" /\ t \in toVisit
  \/ \E i \in 1 .. Len(reqs[breaks]) :
       /\ t \in reqs[breaks][i].types
       /\ i > 1 \/ breaks \notin asking \/ breaks \in ConnsIn(sendChan)

\* A reply that will make its call a watcher of type t.
Promises(m, t) == m.op = "watch" /\ m.ok /\ t = WatcherType(m)

\* Nobody who watches, or will once a reply is received, is forgotten.
Covered ==
  up => /\ \A t \in WatchedTypes : Guarded(t) \/ FiresAfter(0, t) \/ ToBeSet(t)
        /\ \A i \in 1 .. Len(toClient), t \in Types :
             Promises(toClient[i], t) => Guarded(t) \/ FiresAfter(i, t)

WatchesInv ==
  /\ TypeOK /\ QueueType /\ LinkState
  /\ QueuesOnce /\ CallsWait /\ OneEventPerChannel
  /\ GoroutineState /\ Covered

-----------------------------------------------------------------------------
(* What the server sends. *)

USE WatchesAssumption

\* When the server sets a watch again it is one that the node's existence does
\* not contradict, and otherwise the event it sends fires that type.
LEMMA MissedIs ==
  ASSUME NEW t \in Types, NEW rel
  PROVE  \/ Missed(t, rel) = <<>> /\ (t = "exist" <=> ~exists)
         \/ \E e \in Events : Missed(t, rel) = <<Event(e)>> /\ t \in WTypes(e)
<1>1. CASE t = "exist"
  <2>1. CASE exists
    <3>1. Missed(t, rel) = <<Event("created")>>
      BY <1>1, <2>1 DEF Missed
    <3> QED BY <1>1, <3>1 DEF WTypes, Events
  <2>2. CASE ~exists
    BY <1>1, <2>2 DEF Missed
  <2> QED BY <2>1, <2>2
<1>2. CASE t # "exist"
  <2>1. CASE ~exists
    <3>1. Missed(t, rel) = <<Event("deleted")>>
      BY <1>2, <2>1 DEF Missed
    <3> QED BY <3>1 DEF WTypes, Events
  <2>2. CASE exists /\ t = "data"
    BY <1>2, <2>2 DEF Missed, WTypes, Events
  <2>3. CASE exists /\ t = "child"
    BY <1>2, <2>3 DEF Missed, WTypes, Events
  <2> QED BY <1>2, <2>1, <2>2, <2>3 DEF Types
<1> QED BY <1>1, <1>2

Fires(s, t) == \E i \in 1 .. Len(s) : t \in WTypes(s[i].type)

LEMMA FiresConcat ==
  ASSUME NEW a \in Seq(EventMsgs), NEW b \in Seq(EventMsgs), NEW t
  PROVE  /\ a \o b \in Seq(EventMsgs)
         /\ Fires(a, t) \/ Fires(b, t) => Fires(a \o b, t)
<1>1. ASSUME Fires(a, t) PROVE Fires(a \o b, t)
  BY <1>1 DEF Fires
<1>2. ASSUME Fires(b, t) PROVE Fires(a \o b, t)
  <2>1. PICK i \in 1 .. Len(b) : t \in WTypes(b[i].type)
    BY <1>2 DEF Fires
  <2>2. Len(a) + i \in 1 .. Len(a \o b) /\ (a \o b)[Len(a) + i] = b[i]
    OBVIOUS
  <2> QED BY <2>1, <2>2 DEF Fires
<1> QED BY <1>1, <1>2

\* The events for type t with which the server answers a set-watches request.
Answer(r, t) == IF t \in r.types THEN Missed(t, r.rel) ELSE <<>>

LEMMA AnswerIs ==
  ASSUME NEW r, NEW t \in Types
  PROVE  /\ Answer(r, t) \in Seq(EventMsgs)
         /\ t \in r.types => \/ Fires(Answer(r, t), t)
                             \/ Table(t) \in SetAgain(r)
                                /\ (t = "exist" <=> ~exists)
<1>1. CASE t \notin r.types
  BY <1>1 DEF Answer
<1>2. CASE t \in r.types /\ Missed(t, r.rel) = <<>>
                         /\ (t = "exist" <=> ~exists)
  BY <1>2 DEF Answer, SetAgain
<1>3. ASSUME t \in r.types, NEW e \in Events,
             Missed(t, r.rel) = <<Event(e)>>, t \in WTypes(e)
      PROVE  Answer(r, t) \in Seq(EventMsgs) /\ Fires(Answer(r, t), t)
  <2>1. Event(e) \in EventMsgs /\ Event(e).type = e
    BY DEF Event, EventMsgs
  <2>2. Answer(r, t) = <<Event(e)>>
    BY <1>3 DEF Answer
  <2> QED BY <1>3, <2>1, <2>2 DEF Fires
<1> QED BY <1>1, <1>2, <1>3, MissedIs

\* toClient gets the messages evs and then m.
Sent(evs, m) == toClient' = (toClient \o evs) \o <<m>>

SetReply(r) == [op |-> "setWatches", conn |-> r.conn, zxid |-> zxid]

\* Every type in a set-watches request is served: by an event or by a watch.
LEMMA SetWatchesAnswered ==
  ASSUME QueueType, NEW r, ServeSetWatches(r)
  PROVE  \E evs \in Seq(EventMsgs) :
           /\ Sent(evs, SetReply(r))
           /\ \A t \in Types : t \in r.types =>
                \/ Fires(evs, t)
                \/ Table(t) \in SetAgain(r) /\ (t = "exist" <=> ~exists)
<1> DEFINE a == Answer(r, "data")
           b == Answer(r, "exist")
           c == Answer(r, "child")
           m == SetReply(r)
<1>1. {"data", "exist", "child"} = Types
  BY DEF Types
<1>2. a \in Seq(EventMsgs) /\ b \in Seq(EventMsgs) /\ c \in Seq(EventMsgs)
  BY <1>1, AnswerIs
<1>3. toClient' = toClient \o a \o b \o c \o <<m>>
  BY DEF ServeSetWatches, Answer, SetReply
<1>4. ASSUME NEW t \in Types, t \in r.types
      PROVE  \/ Fires((a \o b) \o c, t)
             \/ Table(t) \in SetAgain(r) /\ (t = "exist" <=> ~exists)
  <2>1. \/ Fires(Answer(r, t), t)
        \/ Table(t) \in SetAgain(r) /\ (t = "exist" <=> ~exists)
    BY <1>4, AnswerIs
  <2> HIDE DEF a, b, c
  <2>2. /\ Fires(a, t) \/ Fires(b, t) => Fires(a \o b, t)
        /\ a \o b \in Seq(EventMsgs)
    BY <1>2, FiresConcat
  <2>3. Fires(a \o b, t) \/ Fires(c, t) => Fires((a \o b) \o c, t)
    BY <1>2, <2>2, FiresConcat
  <2>4. Fires(Answer(r, t), t) => Fires(a, t) \/ Fires(b, t) \/ Fires(c, t)
    BY <1>1 DEF a, b, c
  <2> QED BY <2>1, <2>2, <2>3, <2>4
<1>5. Sent((a \o b) \o c, m) /\ (a \o b) \o c \in Seq(EventMsgs)
  <2> HIDE DEF a, b, c, m
  <2>1. a \o b \in Seq(EventMsgs) /\ (a \o b) \o c \in Seq(EventMsgs)
    BY <1>2, ConcatProperties
  <2>2. /\ a \in Seq(Messages) /\ b \in Seq(Messages) /\ c \in Seq(Messages)
        /\ a \o b \in Seq(Messages) /\ EventMsgs \subseteq Messages
    BY <1>2, <2>1, SeqMonotonic DEF Messages
  <2>3. toClient \in Seq(Messages)
    BY DEF QueueType
  <2>4. (toClient \o a) \o b = toClient \o (a \o b)
    BY <2>2, <2>3, ConcatAssociative, SMTT(30)
  <2>5. (toClient \o (a \o b)) \o c = toClient \o ((a \o b) \o c)
    <3> DEFINE ab == a \o b
    <3>1. ab \in Seq(Messages)
      BY <2>2
    <3> HIDE DEF ab
    <3>2. (toClient \o ab) \o c = toClient \o (ab \o c)
      BY <2>2, <2>3, <3>1, ConcatAssociative, SMTT(30)
    <3> QED BY <3>2 DEF ab
  <2> QED BY <1>3, <2>1, <2>4, <2>5 DEF Sent
<1> DEFINE evs == (a \o b) \o c
<1>6. \A t \in Types : t \in r.types =>
        \/ Fires(evs, t)
        \/ Table(t) \in SetAgain(r) /\ (t = "exist" <=> ~exists)
  BY <1>4
<1>7. Sent(evs, SetReply(r)) /\ evs \in Seq(EventMsgs)
  BY <1>5
<1> HIDE DEF evs
<1> QED BY <1>6, <1>7

\* Where the messages are: the old ones first, then the events, then m.
LEMMA SentAt ==
  ASSUME QueueType, NEW evs \in Seq(EventMsgs), NEW m \in Messages, Sent(evs, m)
  PROVE  /\ toClient' \in Seq(Messages)
         /\ Len(toClient') = Len(toClient) + Len(evs) + 1
         /\ \A i \in 1 .. Len(toClient) : toClient'[i] = toClient[i]
         /\ \A i \in 1 .. Len(evs) : toClient'[Len(toClient) + i] = evs[i]
         /\ toClient'[Len(toClient')] = m
<1>1. toClient \in Seq(Messages) /\ evs \in Seq(Messages) /\ <<m>> \in Seq(Messages)
      /\ Len(<<m>>) = 1 /\ <<m>>[1] = m
  BY SeqMonotonic DEF QueueType, Messages
<1> DEFINE s == toClient \o evs
<1>2. /\ s \in Seq(Messages) /\ Len(s) = Len(toClient) + Len(evs)
      /\ \A i \in 1 .. Len(toClient) : s[i] = toClient[i]
      /\ \A i \in 1 .. Len(evs) : s[Len(toClient) + i] = evs[i]
  BY <1>1
<1> HIDE DEF s
<1>3. toClient' = s \o <<m>>
  BY DEF Sent, s
<1>4. /\ toClient' \in Seq(Messages) /\ Len(toClient') = Len(s) + 1
      /\ \A i \in 1 .. Len(s) : toClient'[i] = s[i]
      /\ toClient'[Len(s) + 1] = m
  BY <1>1, <1>2, <1>3, ConcatProperties, SMTT(30)
<1>5. Len(toClient) \in Nat /\ Len(evs) \in Nat
  BY <1>1
<1>6. ASSUME NEW i \in 1 .. Len(evs)
      PROVE  toClient'[Len(toClient) + i] = evs[i]
  BY <1>2, <1>4, <1>5
<1> QED BY <1>2, <1>4, <1>5, <1>6

-----------------------------------------------------------------------------
(* Types. *)

LEMMA WatchRequestType ==
  ASSUME NEW w \in Calls
  PROVE  [op |-> "watch", call |-> w] \in Requests
BY DEF Requests, WatchRequests

\* What the server does with a request keeps the types of what it sends.
LEMMA ServeType ==
  ASSUME TypeOK, QueueType, Serve
  PROVE  /\ toClient' \in Seq(Messages) /\ sendChan' \in Seq(Requests)
         /\ srvWatch' \subseteq {"data", "child"}
<1> DEFINE r == Head(sendChan)
<1>1. r \in Requests /\ sendChan' \in Seq(Requests)
  BY DEF Serve, QueueType
<1>2. CASE r.op = "watch" /\ ServeWatch(r)
  <2>1. r \in WatchRequests
    BY <1>1, <1>2 DEF Requests, WatchRequests, SetRequests
  <2>2. r.call \in Calls
    BY <2>1 DEF WatchRequests
  <2> DEFINE ok == exists \/ Kind[r.call] = "exist"
             m == [op |-> "watch", call |-> r.call, zxid |-> zxid,
                   ok |-> ok, found |-> exists]
  <2>3. toClient' = Append(toClient, m)
        /\ srvWatch' = IF ok THEN srvWatch \cup {Table(Kind[r.call])}
                       ELSE srvWatch
    BY <1>2 DEF ServeWatch
  <2>4. ok \in BOOLEAN
    BY Zenon DEF TypeOK
  <2>5. m \in Messages
    BY <2>2, <2>4 DEF Messages, WatchReplies, TypeOK
  <2> HIDE DEF m, r, ok
  <2>6. toClient' \in Seq(Messages)
    BY <2>3, <2>5 DEF QueueType
  <2> QED BY <1>1, <2>3, <2>6 DEF TypeOK, Table, r
<1>3. CASE r.op = "setWatches" /\ ServeSetWatches(r)
  <2>1. r \in SetRequests
    BY <1>1, <1>3 DEF Requests, WatchRequests, SetRequests
  <2>2. SetReply(r) \in Messages
    BY <2>1 DEF SetReply, Messages, SetReplies, SetRequests, TypeOK
  <2>3. toClient' \in Seq(Messages)
    <3> HIDE DEF r
    <3>1. PICK evs \in Seq(EventMsgs) : Sent(evs, SetReply(r))
      BY <1>3, SetWatchesAnswered
    <3> QED BY <2>2, <3>1, SentAt
  <2> QED BY <1>1, <1>3, <2>3 DEF ServeSetWatches, SetAgain, Table, TypeOK
<1> QED BY <1>2, <1>3 DEF Serve

LEMMA FailType ==
  ASSUME TypeOK, NEW q, Fail(q)
  PROVE  /\ ch' \in [Calls -> {"none", "asked", "failed", "open", "fired",
                              "invalid"}]
         /\ reqs' \in [Conns -> Seq(Batch)] /\ asking' \subseteq Conns
BY DEF TypeOK, Fail, Abandon

LEMMA ChangeType ==
  ASSUME TypeOK, QueueType, NEW e \in Events, NEW tables, Change(e, tables)
  PROVE  /\ zxid' = zxid + 1 /\ zxid' \in Zxids
         /\ srvWatch' \subseteq {"data", "child"}
         /\ toClient' \in Seq(Messages)
<1>1. Event(e) \in Messages
  BY DEF Event, Messages, EventMsgs
<1>2. toClient' \in Seq(Messages)
  BY <1>1 DEF Change, QueueType
<1>3. zxid' = zxid + 1 /\ zxid' \in Zxids
  BY DEF Change, TypeOK, Zxids
<1>4. srvWatch' \subseteq {"data", "child"}
  BY DEF Change, TypeOK
<1> QED BY <1>2, <1>3, <1>4

LEMMA RecvType ==
  ASSUME TypeOK, QueueType, GoroutineState, Recv
  PROVE  TypeOK' /\ QueueType'
<1> DEFINE m == Head(toClient)
<1>1. m \in Messages /\ toClient' \in Seq(Messages)
  BY DEF Recv, QueueType
<1>2. UNCHANGED <<serverVars, srvWatch, up, exited, sw, toVisit, sendChan,
                  breaks, lastZxid>>
  BY DEF Recv
<1> HIDE DEF m
<1>3. CASE RecvEvent(m)
  <2>1. watchers' \in [Types -> SUBSET Calls]
    BY <1>3 DEF RecvEvent, WatchersAfter, TypeOK
  <2>2. ch' \in [Calls -> {"none", "asked", "failed", "open", "fired",
                           "invalid"}]
    BY <1>3 DEF RecvEvent, TypeOK
  <2> QED BY <1>1, <1>2, <1>3, <2>1, <2>2
          DEF RecvEvent, TypeOK, QueueType, serverVars
<1>4. CASE RecvWatch(m)
  <2>1. m \in WatchReplies
    BY <1>1, <1>4 DEF RecvWatch, Messages, EventMsgs, WatchReplies, SetReplies
  <2>2. m.call \in Calls /\ m.zxid \in Zxids /\ WatcherType(m) \in Types
    BY <2>1 DEF WatchReplies, WatcherType, Types
  <2>3. watchers' \in [Types -> SUBSET Calls]
    <3> DEFINE t == WatcherType(m)
    <3>1. \/ watchers' = watchers
          \/ watchers' = [watchers EXCEPT ![t] = watchers[t] \cup {m.call}]
      BY <1>4 DEF RecvWatch
    <3>2. watchers[t] \cup {m.call} \subseteq Calls
      BY <2>2 DEF TypeOK
    <3> HIDE DEF t
    <3> QED BY <3>1, <3>2 DEF TypeOK
  <2>4. ch' \in [Calls -> {"none", "asked", "failed", "open", "fired",
                           "invalid"}]
    BY <1>4, <2>2 DEF RecvWatch, TypeOK
  <2>5. seen' \in [Calls -> Zxids]
    BY <1>4, <2>2 DEF RecvWatch, TypeOK
  <2> QED BY <1>1, <1>2, <1>4, <2>2, <2>3, <2>4, <2>5
          DEF RecvWatch, TypeOK, QueueType, serverVars
<1>5. CASE RecvSetWatches(m)
  <2>1. m \in SetReplies
    BY <1>1, <1>5
       DEF RecvSetWatches, Messages, EventMsgs, WatchReplies, SetReplies
  <2>2. m.conn \in Conns /\ m.zxid \in Zxids
    BY <2>1 DEF SetReplies
  <2>3. reqs' \in [Conns -> Seq(Batch)]
    <3>1. reqs[m.conn] \in Seq(Batch)
      BY <2>2 DEF TypeOK
    <3>2. reqs[m.conn] # <<>>
      <4>1. toClient \in Seq(Messages) /\ toClient # <<>> /\ m = toClient[1]
        BY DEF Recv, QueueType, m
      <4>2. 1 \in 1 .. Len(toClient)
        BY <4>1
      <4> QED BY <1>5, <2>2, <4>1, <4>2 DEF RecvSetWatches, GoroutineState, ConnsIn
    <3>3. Tail(reqs[m.conn]) \in Seq(Batch)
      BY <3>1, <3>2
    <3> QED BY <1>5, <2>2, <3>3 DEF RecvSetWatches, TypeOK
  <2> QED BY <1>1, <1>2, <1>5, <2>2, <2>3
          DEF RecvSetWatches, TypeOK, QueueType, serverVars
<1> QED BY <1>3, <1>4, <1>5 DEF Recv, m

\* A packet of BuildBatch.
LEMMA BatchType ==
  ASSUME TypeOK, NEW types \in SUBSET toVisit, types # {}, FitsPacket(types)
  PROVE  [rel |-> lastZxid, types |-> types] \in Batch
<1>1. types \in SUBSET Types /\ lastZxid \in Zxids
  BY DEF TypeOK
<1> QED BY <1>1 DEF Batch, FitsPacket

\* The header of a reply changes nothing but lastZxid.
LEMMA HeaderChanges ==
  ASSUME QueueType, RecvHeader
  PROVE  /\ toClient # <<>> /\ 1 \in 1 .. Len(toClient) /\ up
         /\ toClient[1] \in Messages /\ toClient[1].op # "event"
         /\ lastZxid' = toClient[1].zxid /\ lastZxid' \in Zxids
         /\ UNCHANGED <<serverVars, srvWatch, up, exited, setVars, sendChan,
                        toClient, watchers, ch, seen, breaks>>
<1>1. toClient \in Seq(Messages) /\ toClient # <<>>
  BY DEF QueueType, RecvHeader
<1>2. Head(toClient) = toClient[1] /\ 1 \in 1 .. Len(toClient)
  BY <1>1
<1>3. toClient[1] \in Messages
  BY <1>1, <1>2
<1>4. toClient[1].op # "event" /\ lastZxid' = toClient[1].zxid
  BY <1>2 DEF RecvHeader
<1>5. toClient[1].zxid \in Zxids
  BY <1>3, <1>4 DEF Messages, EventMsgs, WatchReplies, SetReplies
<1> QED BY <1>1, <1>2, <1>3, <1>4, <1>5 DEF RecvHeader

LEMMA WatchesTypeStep ==
  ASSUME TypeOK, QueueType, GoroutineState, [Next]_vars
  PROVE  TypeOK' /\ QueueType'
<1> USE DEF serverVars, setVars, clientVars
<1>1. ASSUME NEW w \in Calls, Watch(w) PROVE TypeOK' /\ QueueType'
  <2>1. sendChan' \in Seq(Requests)
    BY <1>1, WatchRequestType DEF Watch, QueueType
  <2> QED BY <1>1, <2>1 DEF Watch, TypeOK, QueueType
<1>2. CASE SendSetWatches
  BY <1>2 DEF SendSetWatches, WatchedTypes, TypeOK, QueueType
<1>3. CASE BuildBatch
  <2>1. PICK types \in SUBSET toVisit :
          /\ types # {} /\ FitsPacket(types)
          /\ toVisit' = toVisit \ types
          /\ reqs' = [reqs EXCEPT ![breaks] =
                        Append(@, [rel |-> lastZxid, types |-> types])]
          /\ sw' = IF types = toVisit THEN "done" ELSE "building"
    BY <1>3 DEF BuildBatch, Appended
  <2>2. [rel |-> lastZxid, types |-> types] \in Batch
    BY <2>1, BatchType
  <2>3. reqs' \in [Conns -> Seq(Batch)]
    BY <2>1, <2>2 DEF TypeOK
  <2> QED BY <1>3, <2>1, <2>3 DEF BuildBatch, TypeOK, QueueType
<1>4. ASSUME NEW k \in Conns, QueueBatch(k) PROVE TypeOK' /\ QueueType'
  <2> DEFINE r == [op |-> "setWatches", conn |-> k, rel |-> Head(reqs[k]).rel,
                   types |-> Head(reqs[k]).types]
  <2>1. Head(reqs[k]) \in Batch
    BY <1>4 DEF QueueBatch, TypeOK
  <2>2. r \in Requests
    BY <2>1 DEF Requests, SetRequests, Batch
  <2>3. sendChan' = Append(sendChan, r)
    BY <1>4 DEF QueueBatch
  <2> HIDE DEF r
  <2>4. sendChan' \in Seq(Requests)
    BY <2>2, <2>3 DEF QueueType
  <2> QED BY <1>4, <2>4 DEF QueueBatch, TypeOK, QueueType
<1>5. CASE Serve
  BY <1>5, ServeType DEF Serve, TypeOK, QueueType
<1>6. CASE Recv
  BY <1>6, RecvType
<1>7. CASE Create \/ Delete \/ SetData \/ ChangeChildren
  <2>1. PICK e \in Events, tables \in SUBSET {"data", "child"} :
          Change(e, tables)
    BY <1>7 DEF Create, Delete, SetData, ChangeChildren, Events
  <2>2. /\ zxid' = zxid + 1 /\ zxid' \in Zxids
        /\ srvWatch' \subseteq {"data", "child"} /\ toClient' \in Seq(Messages)
    BY <2>1, ChangeType
  <2>3. mzxid' \in Zxids /\ pzxid' \in Zxids
    BY <1>7, <2>2 DEF Create, Delete, SetData, ChangeChildren, TypeOK
  <2>4. exists' \in BOOLEAN
    <3>1. CASE SetData \/ ChangeChildren
      BY <3>1 DEF SetData, ChangeChildren, TypeOK
    <3>2. CASE Create \/ Delete
      BY <3>2, Zenon DEF Create, Delete
    <3> QED BY <1>7, <3>1, <3>2
  <2>5. UNCHANGED <<up, exited, setVars, sendChan, clientVars, breaks>>
    BY <2>1 DEF Change
  <2> QED BY <2>2, <2>3, <2>4, <2>5 DEF TypeOK, QueueType
<1>8. CASE Break
  <2>1. breaks' \in Conns
    BY <1>8 DEF Break, TypeOK, Conns
  <2>2. up' \in BOOLEAN
    BY <1>8, Zenon DEF Break
  <2>3. /\ ch' \in [Calls -> {"none", "asked", "failed", "open", "fired",
                              "invalid"}]
        /\ reqs' \in [Conns -> Seq(Batch)] /\ asking' \subseteq Conns
    BY <1>8, FailType DEF Break
  <2> QED BY <1>8, <2>1, <2>2, <2>3 DEF Break, TypeOK, QueueType
<1>9. CASE NoServer
  <2>3. /\ ch' \in [Calls -> {"none", "asked", "failed", "open", "fired",
                              "invalid"}]
        /\ reqs' \in [Conns -> Seq(Batch)] /\ asking' \subseteq Conns
    BY <1>9, FailType DEF NoServer
  <2> QED BY <1>9, <2>3 DEF NoServer, TypeOK, QueueType
<1>10. CASE Reconnect
  <2>1. up' \in BOOLEAN
    BY <1>10, Zenon DEF Reconnect
  <2> QED BY <1>10, <2>1 DEF Reconnect, TypeOK, QueueType
<1>11. CASE Expired \/ Exit
  <2>1. exited' \in BOOLEAN
    <3>1. CASE Exit
      BY <3>1, Zenon DEF Exit
    <3>2. CASE Expired
      BY <3>2 DEF Expired, TypeOK
    <3> QED BY <1>11, <3>1, <3>2
  <2>2. lastZxid' \in Zxids
    BY <1>11 DEF Expired, Exit, TypeOK, Zxids
  <2>3. watchers' \in [Types -> SUBSET Calls]
    BY <1>11 DEF Expired, Exit, invalidateWatches
  <2>4. ch' \in [Calls -> {"none", "asked", "failed", "open", "fired",
                           "invalid"}]
    BY <1>11 DEF Expired, Exit, invalidateWatches, TypeOK
  <2> QED BY <1>11, <2>1, <2>2, <2>3, <2>4 DEF Expired, Exit, TypeOK, QueueType
<1>12. CASE UNCHANGED vars
  BY <1>12 DEF vars, TypeOK, QueueType
<1>13. CASE RecvHeader
  BY <1>13, HeaderChanges DEF TypeOK, QueueType
<1> QED BY <1>1, <1>2, <1>3, <1>4, <1>5, <1>6, <1>7, <1>8, <1>9, <1>10, <1>11,
           <1>12, <1>13 DEF Next

-----------------------------------------------------------------------------
(* Queues. *)

\* The call or the goroutine that a message is of.
CallOf(m) == IF m.op = "watch" THEN {m.call} ELSE {}
ConnOf(m) == IF m.op = "setWatches" THEN {m.conn} ELSE {}

LEMMA AppendOnce ==
  ASSUME NEW S, NEW q \in Seq(S), NEW m \in S
  PROVE  /\ CallsIn(Append(q, m)) = CallsIn(q) \cup CallOf(m)
         /\ ConnsIn(Append(q, m)) = ConnsIn(q) \cup ConnOf(m)
         /\ /\ Once(q) /\ CallOf(m) \cap CallsIn(q) = {}
            /\ ConnOf(m) \cap ConnsIn(q) = {}
            => Once(Append(q, m))
<1> DEFINE s == Append(q, m)
<1>1. /\ Len(s) = Len(q) + 1 /\ s[Len(q) + 1] = m /\ Len(q) \in Nat
      /\ \A i \in 1 .. Len(q) : s[i] = q[i]
  OBVIOUS
<1> HIDE DEF s
<1>2. CallsIn(s) = CallsIn(q) \cup CallOf(m)
  BY <1>1 DEF CallsIn, CallOf
<1>3. ConnsIn(s) = ConnsIn(q) \cup ConnOf(m)
  BY <1>1 DEF ConnsIn, ConnOf
<1>4. ASSUME Once(q), CallOf(m) \cap CallsIn(q) = {},
             ConnOf(m) \cap ConnsIn(q) = {}
      PROVE  Once(s)
  <2>1. \A i \in 1 .. Len(q) :
          /\ q[i].op = "watch" /\ m.op = "watch" => q[i].call # m.call
          /\ q[i].op = "setWatches" /\ m.op = "setWatches" => q[i].conn # m.conn
    BY <1>4 DEF CallsIn, CallOf, ConnsIn, ConnOf
  <2> QED BY <1>1, <1>4, <2>1 DEF Once
<1> QED BY <1>2, <1>3, <1>4 DEF s

LEMMA TailOnce ==
  ASSUME NEW S, NEW q \in Seq(S), q # <<>>, Once(q)
  PROVE  /\ CallsIn(Tail(q)) = CallsIn(q) \ CallOf(Head(q))
         /\ ConnsIn(Tail(q)) = ConnsIn(q) \ ConnOf(Head(q))
         /\ CallOf(Head(q)) \subseteq CallsIn(q)
         /\ ConnOf(Head(q)) \subseteq ConnsIn(q)
         /\ Once(Tail(q))
<1> DEFINE s == Tail(q)
           m == Head(q)
<1>1. /\ Len(q) \in Nat \ {0} /\ Len(s) = Len(q) - 1 /\ m = q[1]
      /\ \A i \in 1 .. Len(s) : s[i] = q[i + 1]
      /\ \A i \in 2 .. Len(q) : q[i] = s[i - 1]
  OBVIOUS
<1> HIDE DEF s, m
<1>2. ASSUME NEW i \in 2 .. Len(q)
      PROVE  /\ q[i].op = "watch" /\ m.op = "watch" => q[i].call # m.call
             /\ q[i].op = "setWatches" /\ m.op = "setWatches"
                  => q[i].conn # m.conn
  BY <1>1 DEF Once
<1>3. CallsIn(s) = CallsIn(q) \ CallOf(m)
  <2>1. ASSUME NEW w \in CallsIn(s) PROVE w \in CallsIn(q) \ CallOf(m)
    <3>1. PICK i \in 1 .. Len(s) : s[i].op = "watch" /\ w = s[i].call
      BY <2>1 DEF CallsIn
    <3>2. i + 1 \in 2 .. Len(q) /\ q[i + 1] = s[i]
      BY <1>1
    <3> QED BY <1>2, <3>1, <3>2 DEF CallsIn, CallOf
  <2>2. ASSUME NEW w \in CallsIn(q) \ CallOf(m) PROVE w \in CallsIn(s)
    <3>1. PICK i \in 1 .. Len(q) : q[i].op = "watch" /\ w = q[i].call
      BY <2>2 DEF CallsIn
    <3>2. i \in 2 .. Len(q) /\ q[i] = s[i - 1] /\ i - 1 \in 1 .. Len(s)
      BY <1>1, <2>2, <3>1 DEF CallOf
    <3> QED BY <3>1, <3>2 DEF CallsIn
  <2> QED BY <2>1, <2>2
<1>4. ConnsIn(s) = ConnsIn(q) \ ConnOf(m)
  <2>1. ASSUME NEW k \in ConnsIn(s) PROVE k \in ConnsIn(q) \ ConnOf(m)
    <3>1. PICK i \in 1 .. Len(s) : s[i].op = "setWatches" /\ k = s[i].conn
      BY <2>1 DEF ConnsIn
    <3>2. i + 1 \in 2 .. Len(q) /\ q[i + 1] = s[i]
      BY <1>1
    <3> QED BY <1>2, <3>1, <3>2 DEF ConnsIn, ConnOf
  <2>2. ASSUME NEW k \in ConnsIn(q) \ ConnOf(m) PROVE k \in ConnsIn(s)
    <3>1. PICK i \in 1 .. Len(q) : q[i].op = "setWatches" /\ k = q[i].conn
      BY <2>2 DEF ConnsIn
    <3>2. i \in 2 .. Len(q) /\ q[i] = s[i - 1] /\ i - 1 \in 1 .. Len(s)
      BY <1>1, <2>2, <3>1 DEF ConnOf
    <3> QED BY <3>1, <3>2 DEF ConnsIn
  <2> QED BY <2>1, <2>2
<1>5. CallOf(m) \subseteq CallsIn(q) /\ ConnOf(m) \subseteq ConnsIn(q)
  <2>1. 1 \in 1 .. Len(q)
    BY <1>1
  <2> QED BY <1>1, <2>1 DEF CallOf, ConnOf, CallsIn, ConnsIn
<1>6. Once(s)
  <2> SUFFICES ASSUME NEW i \in 1 .. Len(s), NEW j \in 1 .. Len(s), i # j
               PROVE  /\ s[i].op = "watch" /\ s[j].op = "watch"
                           => s[i].call # s[j].call
                      /\ s[i].op = "setWatches" /\ s[j].op = "setWatches"
                           => s[i].conn # s[j].conn
    BY DEF Once
  <2>1. /\ i + 1 \in 1 .. Len(q) /\ j + 1 \in 1 .. Len(q) /\ i + 1 # j + 1
        /\ s[i] = q[i + 1] /\ s[j] = q[j + 1]
    BY <1>1
  <2> QED BY <2>1 DEF Once
<1> QED BY <1>3, <1>4, <1>5, <1>6 DEF s, m

\* Events in between change nothing.
LEMMA SentOnce ==
  ASSUME QueueType, NEW evs \in Seq(EventMsgs), NEW m \in Messages,
         Sent(evs, m), Once(toClient), CallOf(m) \cap CallsIn(toClient) = {},
         ConnOf(m) \cap ConnsIn(toClient) = {}
  PROVE  /\ CallsIn(toClient') = CallsIn(toClient) \cup CallOf(m)
         /\ ConnsIn(toClient') = ConnsIn(toClient) \cup ConnOf(m)
         /\ Once(toClient')
<1> DEFINE n == Len(toClient)
           l == Len(evs)
<1>a. n \in Nat /\ l \in Nat
  BY LenProperties DEF QueueType
<1>b. /\ Len(toClient') = n + l + 1
      /\ \A i \in 1 .. n : toClient'[i] = toClient[i]
      /\ toClient'[Len(toClient')] = m
  BY SentAt, Zenon
<1>1. /\ Len(toClient') = n + l + 1 /\ n \in Nat /\ l \in Nat
      /\ \A i \in 1 .. n : toClient'[i] = toClient[i]
      /\ toClient'[n + l + 1] = m
  BY <1>a, <1>b, Zenon
<1>2. \A i \in n + 1 .. n + l : toClient'[i].op = "event"
  <2> SUFFICES ASSUME NEW i \in n + 1 .. n + l PROVE toClient'[i].op = "event"
    OBVIOUS
  <2>1. i - n \in 1 .. l /\ n + (i - n) = i
    BY <1>1
  <2>2. toClient'[i] = evs[i - n]
    BY <2>1, SentAt
  <2>3. evs[i - n] \in EventMsgs
    BY <2>1, ElementOfSeq
  <2> QED BY <2>2, <2>3 DEF EventMsgs
<1> HIDE DEF n, l
<1>3. \A i \in 1 .. Len(toClient') :
        toClient'[i].op # "event" => i \in 1 .. n \/ i = n + l + 1
  BY <1>1, <1>2
<1>4. CallsIn(toClient') = CallsIn(toClient) \cup CallOf(m)
  BY <1>1, <1>3 DEF CallsIn, CallOf, n
<1>5. ConnsIn(toClient') = ConnsIn(toClient) \cup ConnOf(m)
  BY <1>1, <1>3 DEF ConnsIn, ConnOf, n
<1>6. Once(toClient')
  <2>1. \A i \in 1 .. n :
          /\ toClient[i].op = "watch" /\ m.op = "watch"
               => toClient[i].call # m.call
          /\ toClient[i].op = "setWatches" /\ m.op = "setWatches"
               => toClient[i].conn # m.conn
    BY DEF CallsIn, CallOf, ConnsIn, ConnOf, n
  <2> QED BY <1>1, <1>3, <2>1 DEF Once, n
<1> QED BY <1>4, <1>5, <1>6

\* The send loop takes a request from one queue, and the server puts its reply
\* into the other, with the missed events before it.
LEMMA ServeMoves ==
  ASSUME TypeOK, QueueType, Serve
  PROVE  \E evs \in Seq(EventMsgs), m \in Messages :
           /\ Sent(evs, m) /\ m.op # "event" /\ m.zxid = zxid
           /\ CallOf(m) = CallOf(Head(sendChan))
           /\ ConnOf(m) = ConnOf(Head(sendChan))
<1> DEFINE r == Head(sendChan)
<1>1. r \in Requests
  BY DEF Serve, QueueType
<1>2. CASE r.op = "watch" /\ ServeWatch(r)
  <2>1. r \in WatchRequests
    BY <1>1, <1>2 DEF Requests, WatchRequests, SetRequests
  <2> DEFINE ok == exists \/ Kind[r.call] = "exist"
             m == [op |-> "watch", call |-> r.call, zxid |-> zxid,
                   ok |-> ok, found |-> exists]
  <2>2. toClient' = Append(toClient, m)
    BY <1>2 DEF ServeWatch
  <2>3. ok \in BOOLEAN
    BY Zenon DEF TypeOK
  <2>4. m \in Messages
    BY <2>1, <2>3 DEF Messages, WatchReplies, WatchRequests, TypeOK
  <2>5. /\ CallOf(m) = CallOf(r) /\ ConnOf(m) = ConnOf(r)
        /\ m.op # "event" /\ m.zxid = zxid
    BY <1>2 DEF CallOf, ConnOf
  <2> HIDE DEF m, r
  <2>6. toClient' = (toClient \o <<>>) \o <<m>>
    BY <2>2, <2>4, AppendIsConcat, ConcatEmptySeq DEF QueueType
  <2>7. <<>> \in Seq(EventMsgs)
    BY EmptySeq
  <2> QED BY <2>4, <2>5, <2>6, <2>7 DEF Sent, r
<1>3. CASE r.op = "setWatches" /\ ServeSetWatches(r)
  <2>1. r \in SetRequests
    BY <1>1, <1>3 DEF Requests, WatchRequests, SetRequests
  <2>2. SetReply(r) \in Messages
    BY <2>1 DEF SetReply, Messages, SetReplies, SetRequests, TypeOK
  <2>3. /\ CallOf(SetReply(r)) = CallOf(r) /\ ConnOf(SetReply(r)) = ConnOf(r)
        /\ SetReply(r).op # "event" /\ SetReply(r).zxid = zxid
    BY <1>3 DEF SetReply, CallOf, ConnOf
  <2> HIDE DEF r
  <2>4. PICK evs \in Seq(EventMsgs) : Sent(evs, SetReply(r))
    BY <1>3, SetWatchesAnswered
  <2> QED BY <2>2, <2>3, <2>4 DEF r
<1> QED BY <1>2, <1>3 DEF Serve

LEMMA EmptyOnce == CallsIn(<<>>) = {} /\ ConnsIn(<<>>) = {} /\ Once(<<>>)
BY DEF CallsIn, ConnsIn, Once

LEMMA EventAppended ==
  ASSUME QueueType, QueuesOnce, NEW e \in Events, NEW tables,
         Change(e, tables)
  PROVE  /\ CallsIn(toClient') = CallsIn(toClient)
         /\ ConnsIn(toClient') = ConnsIn(toClient) /\ Once(toClient')
<1>1. /\ Event(e) \in Messages /\ CallOf(Event(e)) = {}
      /\ ConnOf(Event(e)) = {}
  BY DEF Event, Messages, EventMsgs, CallOf, ConnOf
<1>2. CASE toClient' = toClient
  BY <1>2 DEF QueuesOnce
<1>3. CASE toClient' = Append(toClient, Event(e))
  <2>1. /\ toClient \in Seq(Messages) /\ Event(e) \in Messages
        /\ Once(toClient) /\ CallOf(Event(e)) \cap CallsIn(toClient) = {}
        /\ ConnOf(Event(e)) \cap ConnsIn(toClient) = {}
    BY <1>1 DEF QueuesOnce, QueueType
  <2> DEFINE q == Append(toClient, Event(e))
  <2>2. /\ CallsIn(q) = CallsIn(toClient) \cup CallOf(Event(e))
        /\ ConnsIn(q) = ConnsIn(toClient) \cup ConnOf(Event(e)) /\ Once(q)
    BY <2>1, AppendOnce
  <2> QED BY <1>1, <1>3, <2>2
<1> QED BY <1>2, <1>3 DEF Change

\* invalidateWatches reaches the open channels and no other.
LEMMA InvalidateReaches ==
  ASSUME TypeOK, OneEventPerChannel, invalidateWatches
  PROVE  /\ OneEventPerChannel'
         /\ \A w \in Calls : ch'[w] # "open"
         /\ \A w \in Calls : ch[w] = "asked" => ch'[w] = "asked"
         /\ \A t \in Types : watchers'[t] = {}
<1>1. \A t \in Types : watchers'[t] = {}
  BY DEF invalidateWatches
<1>2. \A w \in Calls :
        ch'[w] = IF ch[w] = "open" THEN "invalid" ELSE ch[w]
  BY DEF invalidateWatches, ToInvalidate, OneEventPerChannel
<1> QED BY <1>1, <1>2 DEF OneEventPerChannel

BookInv ==
  LinkState /\ QueuesOnce /\ CallsWait /\ OneEventPerChannel /\ GoroutineState

\* The calls and goroutines in the queues are calls and connections.
LEMMA InQueues ==
  ASSUME QueueType
  PROVE  /\ CallsIn(sendChan) \subseteq Calls /\ CallsIn(toClient) \subseteq Calls
         /\ ConnsIn(sendChan) \subseteq Conns /\ ConnsIn(toClient) \subseteq Conns
<1>1. /\ \A i \in 1 .. Len(sendChan) : sendChan[i] \in Requests
      /\ \A i \in 1 .. Len(toClient) : toClient[i] \in Messages
  BY ElementOfSeq DEF QueueType
<1>2. /\ \A m \in Requests : m.op = "watch" => m.call \in Calls
      /\ \A m \in Requests : m.op = "setWatches" => m.conn \in Conns
  BY DEF Requests, WatchRequests, SetRequests
<1>3. /\ \A m \in Messages : m.op = "watch" => m.call \in Calls
      /\ \A m \in Messages : m.op = "setWatches" => m.conn \in Conns
  BY DEF Messages, EventMsgs, WatchReplies, SetReplies
<1> QED BY <1>1, <1>2, <1>3 DEF CallsIn, ConnsIn

LEMMA BookRequests ==
  ASSUME TypeOK, QueueType, BookInv,
         \/ \E w \in Calls : Watch(w)
         \/ SendSetWatches \/ BuildBatch
         \/ \E k \in Conns : QueueBatch(k)
  PROVE  BookInv'
<1> USE DEF serverVars, setVars, clientVars
<1>1. ASSUME NEW w \in Calls, Watch(w) PROVE BookInv'
  <2> DEFINE m == [op |-> "watch", call |-> w]
  <2>1. m \in Requests /\ CallOf(m) = {w} /\ ConnOf(m) = {}
    BY WatchRequestType DEF CallOf, ConnOf
  <2>2. /\ sendChan' = Append(sendChan, m) /\ ch[w] = "none"
        /\ ch' = [ch EXCEPT ![w] = "asked"]
        /\ UNCHANGED <<srvWatch, up, exited, setVars, toClient, watchers, breaks>>
    BY <1>1 DEF Watch
  <2> HIDE DEF m
  <2>3. w \notin CallsIn(sendChan) /\ w \notin CallsIn(toClient)
    BY <2>2 DEF BookInv, CallsWait
  <2>4. /\ CallsIn(sendChan') = CallsIn(sendChan) \cup {w}
        /\ ConnsIn(sendChan') = ConnsIn(sendChan)
        /\ Once(sendChan')
    <3>1. /\ sendChan \in Seq(Requests) /\ m \in Requests /\ Once(sendChan)
          /\ CallOf(m) \cap CallsIn(sendChan) = {}
          /\ ConnOf(m) \cap ConnsIn(sendChan) = {}
      BY <2>1, <2>3 DEF BookInv, QueuesOnce, QueueType
    <3>2. /\ CallsIn(Append(sendChan, m)) = CallsIn(sendChan) \cup CallOf(m)
          /\ ConnsIn(Append(sendChan, m)) = ConnsIn(sendChan) \cup ConnOf(m)
          /\ Once(Append(sendChan, m))
      BY <3>1, AppendOnce
    <3> QED BY <2>1, <2>2, <3>2
  <2>5. QueuesOnce'
    BY <2>2, <2>3, <2>4 DEF BookInv, QueuesOnce
  <2>6. CallsWait'
    BY <2>2, <2>4, InQueues DEF BookInv, CallsWait, TypeOK
  <2>7. OneEventPerChannel'
    BY <2>2 DEF BookInv, OneEventPerChannel, TypeOK
  <2>8. ASSUME NEW i \in 1 .. Len(sendChan'), sendChan'[i].op = "setWatches"
        PROVE  /\ sendChan'[i].types = Head(reqs'[sendChan'[i].conn]).types
               /\ sendChan'[i].rel = Head(reqs'[sendChan'[i].conn]).rel
    <3>1. m.op = "watch"
      BY DEF m
    <3>2. i \in 1 .. Len(sendChan) /\ sendChan'[i] = sendChan[i]
      BY <2>1, <2>2, <2>8, <3>1 DEF QueueType
    <3> QED BY <2>2, <2>8, <3>2 DEF BookInv, GoroutineState
  <2>9. GoroutineState'
    BY <2>2, <2>4, <2>8 DEF BookInv, GoroutineState
  <2>10. LinkState'
    BY <2>2 DEF BookInv, LinkState
  <2> QED BY <2>5, <2>6, <2>7, <2>9, <2>10 DEF BookInv
<1>2. CASE SendSetWatches
  BY <1>2 DEF SendSetWatches, BookInv, LinkState, QueuesOnce, CallsWait,
              OneEventPerChannel, GoroutineState
<1>3. CASE BuildBatch
  <2>1. PICK b : reqs' = [reqs EXCEPT ![breaks] = Append(@, b)] /\ b \in Batch
    <3>1. PICK types \in SUBSET toVisit :
            /\ types # {} /\ FitsPacket(types)
            /\ reqs' = [reqs EXCEPT ![breaks] =
                    Append(@, [rel |-> lastZxid, types |-> types])]
      BY <1>3 DEF BuildBatch, Appended
    <3>2. [rel |-> lastZxid, types |-> types] \in Batch
      BY <3>1, BatchType
    <3> QED BY <3>1, <3>2
  <2>2. ASSUME NEW k \in Conns, reqs[k] # <<>>
        PROVE  reqs'[k] # <<>> /\ Head(reqs'[k]) = Head(reqs[k])
    <3>1. CASE k = breaks
      <4>1. reqs'[k] = Append(reqs[k], b) /\ reqs[k] \in Seq(Batch)
        BY <2>1, <3>1 DEF TypeOK
      <4> QED BY <2>1, <2>2, <4>1
    <3>2. CASE k # breaks
      BY <2>1, <2>2, <3>2 DEF TypeOK
    <3> QED BY <3>1, <3>2
  <2>3. UNCHANGED <<srvWatch, up, exited, asking, sendChan, toClient, watchers,
                    ch, breaks>>
    BY <1>3 DEF BuildBatch
  <2>4. \A k \in Conns : k > breaks' => reqs'[k] = <<>>
    <3> SUFFICES ASSUME NEW k \in Conns, k > breaks PROVE reqs'[k] = <<>>
      BY <2>3
    <3>1. k # breaks
      BY DEF TypeOK, Conns
    <3> QED BY <2>1, <3>1 DEF BookInv, GoroutineState, TypeOK
  <2>5. ASSUME NEW i \in 1 .. Len(sendChan'), sendChan'[i].op = "setWatches"
        PROVE  /\ sendChan'[i].types = Head(reqs'[sendChan'[i].conn]).types
               /\ sendChan'[i].rel = Head(reqs'[sendChan'[i].conn]).rel
    <3>1. sendChan[i].conn \in ConnsIn(sendChan) /\ sendChan' = sendChan
      BY <2>3, <2>5 DEF ConnsIn
    <3>2. sendChan[i].conn \in Conns /\ reqs[sendChan[i].conn] # <<>>
      BY <3>1, InQueues DEF BookInv, GoroutineState
    <3> QED BY <2>2, <2>5, <3>1, <3>2 DEF BookInv, GoroutineState
  <2>6. GoroutineState'
    BY <2>2, <2>3, <2>4, <2>5 DEF BookInv, GoroutineState, TypeOK
  <2> QED BY <2>3, <2>6
      DEF BookInv, LinkState, QueuesOnce, CallsWait, OneEventPerChannel
<1>4. ASSUME NEW k \in Conns, QueueBatch(k) PROVE BookInv'
  <2> DEFINE m == [op |-> "setWatches", conn |-> k, rel |-> Head(reqs[k]).rel,
                   types |-> Head(reqs[k]).types]
  <2>1. Head(reqs[k]) \in Batch
    BY <1>4 DEF QueueBatch, TypeOK
  <2>2. /\ m \in Requests /\ CallOf(m) = {} /\ ConnOf(m) = {k}
        /\ m.conn = k /\ m.types = Head(reqs[k]).types /\ m.rel = Head(reqs[k]).rel
    BY <2>1 DEF Requests, SetRequests, Batch, CallOf, ConnOf
  <2>3. /\ sendChan' = Append(sendChan, m) /\ k \notin asking
        /\ asking' = asking \cup {k} /\ reqs[k] # <<>>
        /\ UNCHANGED <<srvWatch, up, exited, reqs, toClient, watchers, ch, breaks>>
    BY <1>4 DEF QueueBatch
  <2> HIDE DEF m
  <2>4. k \notin ConnsIn(sendChan) /\ k \notin ConnsIn(toClient)
    BY <2>3 DEF BookInv, GoroutineState
  <2>5. /\ CallsIn(sendChan') = CallsIn(sendChan)
        /\ ConnsIn(sendChan') = ConnsIn(sendChan) \cup {k}
        /\ Once(sendChan')
    <3>1. /\ sendChan \in Seq(Requests) /\ m \in Requests /\ Once(sendChan)
          /\ CallOf(m) \cap CallsIn(sendChan) = {}
          /\ ConnOf(m) \cap ConnsIn(sendChan) = {}
      BY <2>2, <2>4 DEF BookInv, QueuesOnce, QueueType
    <3>2. /\ CallsIn(Append(sendChan, m)) = CallsIn(sendChan) \cup CallOf(m)
          /\ ConnsIn(Append(sendChan, m)) = ConnsIn(sendChan) \cup ConnOf(m)
          /\ Once(Append(sendChan, m))
      BY <3>1, AppendOnce
    <3> QED BY <2>2, <2>3, <3>2
  <2>6. QueuesOnce'
    BY <2>3, <2>4, <2>5 DEF BookInv, QueuesOnce
  <2>7. CallsWait'
    BY <2>3, <2>5 DEF BookInv, CallsWait
  <2>8. ASSUME NEW i \in 1 .. Len(sendChan'), sendChan'[i].op = "setWatches"
        PROVE  /\ sendChan'[i].types = Head(reqs'[sendChan'[i].conn]).types
               /\ sendChan'[i].rel = Head(reqs'[sendChan'[i].conn]).rel
    <3>1. \/ i \in 1 .. Len(sendChan) /\ sendChan'[i] = sendChan[i]
          \/ sendChan'[i] = m
      BY <2>2, <2>3 DEF QueueType
    <3> QED BY <2>2, <2>3, <2>8, <3>1 DEF BookInv, GoroutineState
  <2>9. GoroutineState'
    BY <2>3, <2>5, <2>8 DEF BookInv, GoroutineState
  <2> QED BY <2>3, <2>6, <2>7, <2>9 DEF BookInv, LinkState, OneEventPerChannel
<1> QED BY <1>1, <1>2, <1>3, <1>4

LEMMA BookServe ==
  ASSUME TypeOK, QueueType, BookInv, Serve
  PROVE  BookInv'
<1> DEFINE r == Head(sendChan)
<1>0. /\ sendChan \in Seq(Requests) /\ sendChan # <<>> /\ Once(sendChan)
      /\ sendChan' = Tail(sendChan)
      /\ UNCHANGED <<up, exited, reqs, asking, watchers, ch, breaks>> /\ up
  BY DEF Serve, QueueType, BookInv, QueuesOnce, setVars, clientVars
<1>1. /\ CallsIn(Tail(sendChan)) = CallsIn(sendChan) \ CallOf(r)
      /\ ConnsIn(Tail(sendChan)) = ConnsIn(sendChan) \ ConnOf(r)
      /\ CallOf(r) \subseteq CallsIn(sendChan)
      /\ ConnOf(r) \subseteq ConnsIn(sendChan) /\ Once(Tail(sendChan))
  BY <1>0, TailOnce
<1>2. PICK evs \in Seq(EventMsgs), m \in Messages :
        Sent(evs, m) /\ CallOf(m) = CallOf(r) /\ ConnOf(m) = ConnOf(r)
  BY ServeMoves
<1> HIDE DEF r
<1>3. /\ Once(toClient) /\ CallOf(m) \cap CallsIn(toClient) = {}
      /\ ConnOf(m) \cap ConnsIn(toClient) = {}
  BY <1>1, <1>2 DEF BookInv, QueuesOnce
<1>4. /\ CallsIn(toClient') = CallsIn(toClient) \cup CallOf(m)
      /\ ConnsIn(toClient') = ConnsIn(toClient) \cup ConnOf(m)
      /\ Once(toClient')
  BY <1>2, <1>3, SentOnce
<1>5. QueuesOnce'
  BY <1>0, <1>1, <1>2, <1>4 DEF BookInv, QueuesOnce
<1>6. CallsWait'
  BY <1>0, <1>1, <1>2, <1>4 DEF BookInv, CallsWait
<1>7. ConnsIn(sendChan') \cup ConnsIn(toClient') \subseteq asking'
  BY <1>0, <1>1, <1>2, <1>4 DEF BookInv, GoroutineState
<1>8. ASSUME NEW i \in 1 .. Len(sendChan'), sendChan'[i].op = "setWatches"
      PROVE  /\ sendChan'[i].types = Head(reqs'[sendChan'[i].conn]).types
             /\ sendChan'[i].rel = Head(reqs'[sendChan'[i].conn]).rel
  <2>1. i + 1 \in 1 .. Len(sendChan) /\ sendChan'[i] = sendChan[i + 1]
    BY <1>0
  <2> QED BY <1>0, <1>8, <2>1 DEF BookInv, GoroutineState
<1>9. GoroutineState'
  BY <1>0, <1>7, <1>8 DEF BookInv, GoroutineState
<1> QED BY <1>0, <1>5, <1>6, <1>9 DEF BookInv, LinkState, OneEventPerChannel

LEMMA BookRecv ==
  ASSUME TypeOK, QueueType, BookInv, Recv
  PROVE  BookInv'
<1> DEFINE m == Head(toClient)
<1>0. /\ toClient \in Seq(Messages) /\ toClient # <<>> /\ Once(toClient)
      /\ toClient' = Tail(toClient) /\ m \in Messages
      /\ UNCHANGED <<srvWatch, up, exited, sendChan, breaks>> /\ up
  BY DEF Recv, QueueType, BookInv, QueuesOnce
<1>1. /\ CallsIn(Tail(toClient)) = CallsIn(toClient) \ CallOf(m)
      /\ ConnsIn(Tail(toClient)) = ConnsIn(toClient) \ ConnOf(m)
      /\ CallOf(m) \subseteq CallsIn(toClient)
      /\ ConnOf(m) \subseteq ConnsIn(toClient) /\ Once(Tail(toClient))
  BY <1>0, TailOnce
<1> HIDE DEF m
<1>2. QueuesOnce'
  BY <1>0, <1>1 DEF BookInv, QueuesOnce
<1>3. LinkState'
  BY <1>0 DEF BookInv, LinkState
<1>4. CASE RecvEvent(m)
  <2>1. \A w \in Calls :
          /\ ch'[w] = IF \E t \in WTypes(m.type) : w \in watchers[t]
                        THEN "fired" ELSE ch[w]
          /\ \A t \in Types :
               w \in watchers'[t] <=> w \in watchers[t] /\ t \notin WTypes(m.type)
    BY <1>4 DEF RecvEvent, Fired, WatchersAfter, TypeOK
  <2>2. WTypes(m.type) \subseteq Types
    BY DEF WTypes, Types
  <2>3. OneEventPerChannel'
    BY <2>1, <2>2 DEF BookInv, OneEventPerChannel
  <2>4. CallsWait'
    <3> SUFFICES ASSUME NEW w \in CallsIn(sendChan') \cup CallsIn(toClient')
                 PROVE  ch'[w] = "asked"
      BY DEF CallsWait
    <3>1. w \in Calls /\ ch[w] = "asked"
      BY <1>0, <1>1, InQueues DEF BookInv, CallsWait
    <3> QED BY <2>1, <2>2, <3>1 DEF BookInv, OneEventPerChannel
  <2>5. GoroutineState'
    BY <1>0, <1>1, <1>4 DEF BookInv, GoroutineState, RecvEvent
  <2> QED BY <1>2, <1>3, <2>3, <2>4, <2>5 DEF BookInv
<1>5. CASE RecvWatch(m)
  <2>1. m \in WatchReplies /\ m.op = "watch"
    BY <1>0, <1>5 DEF RecvWatch, Messages, EventMsgs, WatchReplies, SetReplies
  <2>2. m.call \in Calls /\ WatcherType(m) \in Types /\ CallOf(m) = {m.call}
    BY <2>1 DEF WatchReplies, WatcherType, Types, CallOf
  <2>3. ch[m.call] = "asked"
    BY <1>1, <2>2 DEF BookInv, CallsWait
  <2>4. OneEventPerChannel'
    <3>1. CASE m.ok
      <4>1. ch' = [ch EXCEPT ![m.call] = "open"]
        BY <1>5, <3>1 DEF RecvWatch
      <4>2. \A t \in Types : watchers'[t] =
              IF t = WatcherType(m) THEN watchers[t] \cup {m.call}
              ELSE watchers[t]
        BY <1>5, <3>1, <2>2 DEF RecvWatch, TypeOK
      <4>3. \A t \in Types : m.call \notin watchers[t]
        BY <2>2, <2>3 DEF BookInv, OneEventPerChannel
      <4> SUFFICES ASSUME NEW w \in Calls
                   PROVE  /\ ch'[w] = "open"
                               <=> \E t \in Types : w \in watchers'[t]
                          /\ \A t, u \in Types :
                               w \in watchers'[t] \cap watchers'[u] => t = u
        BY DEF OneEventPerChannel
      <4>4. CASE w = m.call
        BY <2>2, <4>1, <4>2, <4>3, <4>4 DEF TypeOK
      <4>5. CASE w # m.call
        <5>1. ch'[w] = ch[w] /\ \A t \in Types : w \in watchers'[t] <=> w \in watchers[t]
          BY <2>2, <4>1, <4>2, <4>5 DEF TypeOK
        <5> QED BY <5>1 DEF BookInv, OneEventPerChannel
      <4> QED BY <4>4, <4>5
    <3>2. CASE ~m.ok
      BY <1>5, <2>2, <2>3, <3>2
         DEF RecvWatch, BookInv, OneEventPerChannel, TypeOK
    <3> QED BY <3>1, <3>2
  <2>5. CallsWait'
    <3> SUFFICES ASSUME NEW w \in CallsIn(sendChan') \cup CallsIn(toClient')
                 PROVE  ch'[w] = "asked"
      BY DEF CallsWait
    <3>1. w \in Calls /\ ch[w] = "asked" /\ w # m.call
      BY <1>0, <1>1, <2>2, InQueues DEF BookInv, CallsWait, QueuesOnce
    <3> QED BY <1>5, <3>1 DEF RecvWatch, TypeOK
  <2>6. GoroutineState'
    BY <1>0, <1>1, <1>5 DEF BookInv, GoroutineState, RecvWatch
  <2>7. LinkState'
    BY <1>3
  <2> QED BY <1>2, <2>4, <2>5, <2>6, <2>7 DEF BookInv
<1>6. CASE RecvSetWatches(m)
  <2>1. m \in SetReplies /\ m.op = "setWatches"
    BY <1>0, <1>6
       DEF RecvSetWatches, Messages, EventMsgs, WatchReplies, SetReplies
  <2>2. m.conn \in Conns /\ ConnOf(m) = {m.conn} /\ CallOf(m) = {}
    BY <2>1 DEF SetReplies, ConnOf, CallOf
  <2>3. /\ reqs' = [reqs EXCEPT ![m.conn] = Tail(@)]
        /\ asking' = asking \ {m.conn}
        /\ UNCHANGED <<watchers, ch, seen>>
    BY <1>6 DEF RecvSetWatches
  <2>4. m.conn \notin ConnsIn(sendChan)
    BY <1>1, <2>2 DEF BookInv, QueuesOnce
  <2>5. ConnsIn(sendChan') \cup ConnsIn(toClient') \subseteq asking'
    BY <1>0, <1>1, <2>2, <2>3, <2>4 DEF BookInv, GoroutineState
  <2>6. \A k \in asking' : reqs'[k] # <<>>
    BY <2>2, <2>3 DEF BookInv, GoroutineState, TypeOK
  <2>7. \A k \in Conns : k > breaks' => reqs'[k] = <<>>
    <3>1. reqs[m.conn] # <<>>
      BY <1>1, <2>2 DEF BookInv, GoroutineState
    <3> QED BY <1>0, <2>2, <2>3, <3>1 DEF BookInv, GoroutineState, TypeOK
  <2>8. ASSUME NEW i \in 1 .. Len(sendChan'), sendChan'[i].op = "setWatches"
        PROVE  /\ sendChan'[i].types = Head(reqs'[sendChan'[i].conn]).types
               /\ sendChan'[i].rel = Head(reqs'[sendChan'[i].conn]).rel
    <3>1. sendChan[i].conn \in ConnsIn(sendChan) /\ sendChan' = sendChan
      BY <1>0, <2>8 DEF ConnsIn
    <3>2. sendChan[i].conn \in Conns /\ sendChan[i].conn # m.conn
      BY <2>4, <3>1, InQueues
    <3>3. reqs'[sendChan[i].conn] = reqs[sendChan[i].conn]
      BY <2>3, <3>2 DEF TypeOK
    <3> QED BY <2>8, <3>1, <3>3 DEF BookInv, GoroutineState
  <2>9. GoroutineState'
    BY <2>5, <2>6, <2>7, <2>8 DEF GoroutineState
  <2>10. CallsWait'
    BY <1>0, <1>1, <2>2, <2>3 DEF BookInv, CallsWait
  <2> QED BY <1>2, <1>3, <2>3, <2>9, <2>10 DEF BookInv, OneEventPerChannel
<1> QED BY <1>4, <1>5, <1>6 DEF Recv, m

LEMMA BookChange ==
  ASSUME TypeOK, QueueType, BookInv, NEW e \in Events, NEW tables,
         Change(e, tables)
  PROVE  BookInv'
<1>1. UNCHANGED <<up, exited, sendChan, reqs, asking, watchers, ch, breaks>>
  BY DEF Change, setVars, clientVars
<1>2. /\ CallsIn(toClient') = CallsIn(toClient)
      /\ ConnsIn(toClient') = ConnsIn(toClient) /\ Once(toClient')
  BY EventAppended DEF BookInv
<1>3. ~up => toClient' = <<>> /\ srvWatch' = {}
  BY DEF BookInv, LinkState, Change
<1>4. LinkState'
  BY <1>1, <1>3 DEF BookInv, LinkState
<1>5. QueuesOnce' /\ CallsWait'
  BY <1>1, <1>2 DEF BookInv, QueuesOnce, CallsWait
<1>6. GoroutineState'
  BY <1>1, <1>2 DEF BookInv, GoroutineState
<1> QED BY <1>1, <1>4, <1>5, <1>6 DEF BookInv, OneEventPerChannel

\* The requests in q fail, and those in rest go on waiting.
LEMMA FailLeaves ==
  ASSUME TypeOK, OneEventPerChannel, NEW q, NEW rest, Fail(q),
         CallsIn(q) \subseteq Calls, CallsIn(rest) \subseteq Calls,
         CallsIn(q) \cap CallsIn(rest) = {},
         ConnsIn(q) \cap ConnsIn(rest) = {},
         \A w \in CallsIn(q) \cup CallsIn(rest) : ch[w] = "asked",
         UNCHANGED watchers
  PROVE  /\ OneEventPerChannel'
         /\ \A w \in CallsIn(rest) : ch'[w] = "asked"
         /\ asking' = asking \ ConnsIn(q)
         /\ \A k \in Conns :
              reqs'[k] = IF k \in ConnsIn(q) THEN <<>> ELSE reqs[k]
<1>1. \A w \in Calls :
        ch'[w] = IF w \in CallsIn(q) THEN "failed" ELSE ch[w]
  BY DEF Fail
<1>2. OneEventPerChannel'
  BY <1>1 DEF OneEventPerChannel
<1>3. \A w \in CallsIn(rest) : ch'[w] = "asked"
  BY <1>1
<1> QED BY <1>2, <1>3 DEF Fail, Abandon

LEMMA BookConnection ==
  ASSUME TypeOK, QueueType, BookInv,
         Break \/ NoServer \/ Reconnect \/ Expired \/ Exit
  PROVE  BookInv'
<1> USE DEF serverVars, setVars, clientVars
<1>0. /\ CallsIn(sendChan) \subseteq Calls /\ CallsIn(toClient) \subseteq Calls
      /\ ConnsIn(sendChan) \subseteq Conns /\ ConnsIn(toClient) \subseteq Conns
  BY InQueues
<1>1. CASE Break
  <2>1. /\ toClient' = <<>> /\ srvWatch' = {} /\ up /\ up' = FALSE
        /\ breaks' = breaks + 1
        /\ Fail(toClient) /\ UNCHANGED <<exited, sendChan, watchers>>
    BY <1>1 DEF Break
  <2>2. /\ OneEventPerChannel'
        /\ \A w \in CallsIn(sendChan) : ch'[w] = "asked"
        /\ asking' = asking \ ConnsIn(toClient)
        /\ \A k \in Conns :
             reqs'[k] = IF k \in ConnsIn(toClient) THEN <<>> ELSE reqs[k]
    <3>1. /\ OneEventPerChannel
          /\ CallsIn(toClient) \cap CallsIn(sendChan) = {}
          /\ ConnsIn(toClient) \cap ConnsIn(sendChan) = {}
          /\ \A w \in CallsIn(toClient) \cup CallsIn(sendChan) : ch[w] = "asked"
      BY DEF BookInv, QueuesOnce, CallsWait
    <3> QED BY <1>0, <2>1, <3>1, FailLeaves
  <2>3. QueuesOnce' /\ CallsWait'
    BY <2>1, <2>2, EmptyOnce DEF BookInv, QueuesOnce, CallsWait
  <2>4. LinkState'
    BY <2>1 DEF BookInv, LinkState
  <2>5. ConnsIn(sendChan') \cup ConnsIn(toClient') \subseteq asking'
    BY <2>1, <2>2, EmptyOnce DEF BookInv, GoroutineState, QueuesOnce
  <2>6. \A k \in asking' : reqs'[k] # <<>>
    BY <2>2 DEF BookInv, GoroutineState, TypeOK
  <2>7. \A k \in Conns : k > breaks' => reqs'[k] = <<>>
    <3> SUFFICES ASSUME NEW k \in Conns, k > breaks' PROVE reqs'[k] = <<>>
      OBVIOUS
    <3>1. k > breaks
      BY <2>1 DEF TypeOK, Conns
    <3> QED BY <2>2, <3>1 DEF BookInv, GoroutineState
  <2>8. ASSUME NEW i \in 1 .. Len(sendChan'), sendChan'[i].op = "setWatches"
        PROVE  /\ sendChan'[i].types = Head(reqs'[sendChan'[i].conn]).types
               /\ sendChan'[i].rel = Head(reqs'[sendChan'[i].conn]).rel
    <3>1. sendChan[i].conn \in ConnsIn(sendChan) /\ sendChan' = sendChan
      BY <2>1, <2>8 DEF ConnsIn
    <3>2. reqs'[sendChan[i].conn] = reqs[sendChan[i].conn]
      BY <1>0, <2>2, <3>1 DEF BookInv, QueuesOnce
    <3> QED BY <2>8, <3>1, <3>2 DEF BookInv, GoroutineState
  <2> QED BY <2>2, <2>3, <2>4, <2>5, <2>6, <2>7, <2>8
          DEF BookInv, GoroutineState
<1>2. CASE NoServer
  <2>1. /\ sendChan' = <<>> /\ toClient = <<>> /\ Fail(sendChan)
        /\ UNCHANGED <<srvWatch, up, exited, toClient, watchers, breaks>>
    BY <1>2 DEF NoServer, BookInv, LinkState
  <2>2. /\ OneEventPerChannel'
        /\ asking' = asking \ ConnsIn(sendChan)
        /\ \A k \in Conns :
             reqs'[k] = IF k \in ConnsIn(sendChan) THEN <<>> ELSE reqs[k]
    <3>1. /\ OneEventPerChannel
          /\ CallsIn(sendChan) \cap CallsIn(toClient) = {}
          /\ ConnsIn(sendChan) \cap ConnsIn(toClient) = {}
          /\ \A w \in CallsIn(sendChan) \cup CallsIn(toClient) : ch[w] = "asked"
      BY DEF BookInv, QueuesOnce, CallsWait
    <3> QED BY <1>0, <2>1, <3>1, FailLeaves
  <2>3. QueuesOnce' /\ CallsWait' /\ LinkState'
    BY <2>1, EmptyOnce DEF BookInv, QueuesOnce, CallsWait, LinkState
  <2>4. \A k \in asking' : reqs'[k] # <<>>
    BY <2>2 DEF BookInv, GoroutineState, TypeOK
  <2>5. \A k \in Conns : k > breaks' => reqs'[k] = <<>>
    BY <2>1, <2>2 DEF BookInv, GoroutineState
  <2>6. GoroutineState'
    BY <2>1, <2>4, <2>5, EmptyOnce DEF GoroutineState
  <2> QED BY <2>2, <2>3, <2>6 DEF BookInv
<1>3. CASE Reconnect
  BY <1>3 DEF Reconnect, BookInv, LinkState, QueuesOnce, CallsWait,
              OneEventPerChannel, GoroutineState
<1>4. CASE Expired \/ Exit
  <2>1. /\ invalidateWatches /\ ~up
        /\ UNCHANGED <<srvWatch, up, setVars, sendChan, toClient, breaks>>
    BY <1>4 DEF Expired, Exit
  <2>2. /\ OneEventPerChannel'
        /\ \A w \in Calls : ch[w] = "asked" => ch'[w] = "asked"
        /\ \A t \in Types : watchers'[t] = {}
    BY <2>1, InvalidateReaches DEF BookInv
  <2>3. CallsWait'
    BY <1>0, <2>1, <2>2 DEF BookInv, CallsWait
  <2> QED BY <2>1, <2>2, <2>3 DEF BookInv, LinkState, QueuesOnce, GoroutineState
<1> QED BY <1>1, <1>2, <1>3, <1>4

LEMMA BookStep ==
  ASSUME TypeOK, QueueType, BookInv, [Next]_vars
  PROVE  BookInv'
<1>1. CASE Create \/ Delete \/ SetData \/ ChangeChildren
  <2>1. PICK e \in Events, tables \in SUBSET {"data", "child"} :
          Change(e, tables)
    BY <1>1 DEF Create, Delete, SetData, ChangeChildren, Events
  <2> QED BY <2>1, BookChange
<1>2. CASE UNCHANGED vars
  BY <1>2 DEF vars, setVars, clientVars, BookInv, LinkState, QueuesOnce,
              CallsWait, OneEventPerChannel, GoroutineState
<1>3. CASE RecvHeader
  BY <1>3, HeaderChanges
     DEF setVars, BookInv, LinkState, QueuesOnce, CallsWait, OneEventPerChannel,
         GoroutineState
<1> QED BY <1>1, <1>2, <1>3, BookRequests, BookServe, BookRecv, BookConnection
        DEF Next

-----------------------------------------------------------------------------
(* Nobody is forgotten. *)

\* What the server does not see changes nothing but what is still to be asked.
LEMMA CoveredKept ==
  ASSUME Covered, UNCHANGED <<up, toClient, srvWatch, exists, watchers>>,
         \A t \in WatchedTypes : up /\ ToBeSet(t) => ToBeSet(t)'
  PROVE  Covered'
<1>1. WatchedTypes' = WatchedTypes /\ WatchedTypes \subseteq Types
  BY DEF WatchedTypes
<1>2. ASSUME NEW t, Guarded(t) PROVE Guarded(t)'
  BY <1>2 DEF Guarded
<1>3. ASSUME NEW t, NEW n, FiresAfter(n, t) PROVE FiresAfter(n, t)'
  BY <1>3 DEF FiresAfter
<1>4. ASSUME up', NEW t \in WatchedTypes'
      PROVE  Guarded(t)' \/ FiresAfter(0, t)' \/ ToBeSet(t)'
  BY <1>1, <1>2, <1>3, <1>4 DEF Covered
<1>5. ASSUME up', NEW i \in 1 .. Len(toClient'), NEW t \in Types,
             Promises(toClient'[i], t)
      PROVE  Guarded(t)' \/ FiresAfter(i, t)'
  BY <1>2, <1>3, <1>5 DEF Covered
<1> QED BY <1>4, <1>5 DEF Covered

Request ==
  \/ \E w \in Calls : Watch(w)
  \/ SendSetWatches \/ BuildBatch
  \/ \E k \in Conns : QueueBatch(k)

LEMMA RequestChanges ==
  ASSUME Request
  PROVE  UNCHANGED <<serverVars, srvWatch, up, exited, toClient, watchers,
                     lastZxid, seen, breaks>>
BY DEF Request, Watch, SendSetWatches, BuildBatch, QueueBatch, clientVars

\* The client does not forget a watch on the way to its packet.
LEMMA RequestToBeSet ==
  ASSUME TypeOK, QueueType, BookInv, Request, NEW t \in WatchedTypes, ToBeSet(t)
  PROVE  ToBeSet(t)'
<1> USE DEF serverVars, setVars, clientVars
<1>0. UNCHANGED breaks
  BY RequestChanges
<1>1. breaks \in Conns /\ reqs[breaks] \in Seq(Batch)
  BY DEF TypeOK
<1>2. CASE \E w \in Calls : Watch(w)
  <2>1. PICK w \in Calls : Watch(w)
    BY <1>2
  <2>2. ConnsIn(sendChan) \subseteq ConnsIn(sendChan')
    BY <2>1 DEF Watch, ConnsIn, QueueType
  <2>3. UNCHANGED <<sw, toVisit, reqs, asking>>
    BY <2>1 DEF Watch
  <2> QED BY <1>0, <2>2, <2>3 DEF ToBeSet
<1>3. CASE SendSetWatches
  <2>1. sw = "todo" /\ toVisit' = WatchedTypes /\ sw' = "building"
    BY <1>3 DEF SendSetWatches
  <2> QED BY <2>1 DEF ToBeSet
<1>4. CASE BuildBatch
  <2>1. PICK types \in SUBSET toVisit :
          /\ toVisit' = toVisit \ types
          /\ reqs' = [reqs EXCEPT
               ![breaks] = Appended([rel |-> lastZxid, types |-> types])]
          /\ sw' = IF types = toVisit THEN "done" ELSE "building"
    BY <1>4 DEF BuildBatch
  <2> DEFINE b == [rel |-> lastZxid, types |-> types]
             n == Len(reqs[breaks])
  <2>2. reqs'[breaks] = Append(reqs[breaks], b) /\ b.types = types
    BY <1>1, <2>1 DEF Appended, TypeOK
  <2>3. sw = "building" /\ UNCHANGED <<asking, sendChan, breaks>>
    BY <1>4 DEF BuildBatch
  <2> HIDE DEF b
  <2>4. /\ Len(reqs'[breaks]) = n + 1 /\ n \in Nat /\ reqs'[breaks][n + 1] = b
        /\ \A i \in 1 .. n : reqs'[breaks][i] = reqs[breaks][i]
    BY <1>1, <2>2
  <2>5. n = 0 => breaks \notin asking
    BY <1>1 DEF BookInv, GoroutineState
  <2> HIDE DEF n
  <2>6. CASE t \in toVisit /\ t \notin types
    BY <2>1, <2>6 DEF ToBeSet
  <2>7. CASE t \in types
    <3>1. n + 1 \in 1 .. Len(reqs'[breaks])
          /\ (n + 1 > 1 \/ breaks \notin asking)
      BY <2>4, <2>5
    <3> QED BY <2>2, <2>3, <2>4, <2>7, <3>1 DEF ToBeSet
  <2>8. CASE \E i \in 1 .. Len(reqs[breaks]) :
               /\ t \in reqs[breaks][i].types
               /\ i > 1 \/ breaks \notin asking \/ breaks \in ConnsIn(sendChan)
    <3>1. PICK i \in 1 .. n :
               /\ t \in reqs[breaks][i].types
               /\ i > 1 \/ breaks \notin asking \/ breaks \in ConnsIn(sendChan)
      BY <2>8 DEF n
    <3>2. i \in 1 .. Len(reqs'[breaks]) /\ reqs'[breaks][i] = reqs[breaks][i]
      BY <2>4
    <3>3. ConnsIn(sendChan') = ConnsIn(sendChan)
      BY <2>3
    <3> QED BY <2>3, <3>1, <3>2, <3>3 DEF ToBeSet
  <2> QED BY <2>3, <2>6, <2>7, <2>8 DEF ToBeSet
<1>5. CASE \E k \in Conns : QueueBatch(k)
  <2>1. PICK k \in Conns : QueueBatch(k)
    BY <1>5
  <2> DEFINE m == [op |-> "setWatches", conn |-> k, rel |-> Head(reqs[k]).rel,
                   types |-> Head(reqs[k]).types]
  <2>2. /\ sendChan' = Append(sendChan, m) /\ asking' = asking \cup {k}
        /\ m.op = "setWatches" /\ m.conn = k
        /\ UNCHANGED <<sw, toVisit, reqs, breaks>>
    BY <2>1 DEF QueueBatch
  <2> HIDE DEF m
  <2>3. ConnsIn(sendChan) \cup {k} \subseteq ConnsIn(sendChan')
    BY <2>2 DEF ConnsIn, QueueType
  <2> QED BY <2>2, <2>3 DEF ToBeSet
<1> QED BY <1>2, <1>3, <1>4, <1>5 DEF Request

LEMMA CoveredRequests ==
  ASSUME TypeOK, QueueType, BookInv, Covered, Request
  PROVE  Covered'
BY RequestChanges, RequestToBeSet, CoveredKept DEF serverVars

\* The server sends more, and whoever loses its watch is sent an event.
LEMMA CoveredGrows ==
  ASSUME QueueType, Covered, UNCHANGED <<up, watchers>>,
         NEW n \in Nat, n = Len(toClient),
         Len(toClient') \in Nat, Len(toClient') >= Len(toClient),
         \A i \in 1 .. Len(toClient) : toClient'[i] = toClient[i],
         \A t \in Types :
           Guarded(t) => Guarded(t)' \/ FiresAfter(n, t)',
         \A t \in Types :
           ToBeSet(t) => ToBeSet(t)' \/ Guarded(t)' \/ FiresAfter(0, t)',
         \A i \in Len(toClient) + 1 .. Len(toClient'), t \in Types :
           Promises(toClient'[i], t) => Guarded(t)' \/ FiresAfter(i, t)'
  PROVE  Covered'
<1>0. WatchedTypes' = WatchedTypes /\ WatchedTypes \subseteq Types
  BY DEF WatchedTypes, QueueType
<1>1. ASSUME NEW t, NEW k \in 0 .. n,
             FiresAfter(k, t) \/ FiresAfter(n, t)'
      PROVE  FiresAfter(k, t)'
  <2>1. CASE FiresAfter(k, t)
    <3>1. PICK i \in k + 1 .. Len(toClient) :
            toClient[i].op = "event" /\ t \in WTypes(toClient[i].type)
      BY <2>1 DEF FiresAfter
    <3>2. i \in k + 1 .. Len(toClient') /\ toClient'[i] = toClient[i]
      BY <1>0
    <3> QED BY <3>1, <3>2 DEF FiresAfter
  <2>2. CASE FiresAfter(n, t)'
    <3>1. PICK i \in n + 1 .. Len(toClient') :
            toClient'[i].op = "event" /\ t \in WTypes(toClient'[i].type)
      BY <2>2 DEF FiresAfter
    <3>2. i \in k + 1 .. Len(toClient')
      BY <1>0
    <3> QED BY <3>1, <3>2 DEF FiresAfter
  <2> QED BY <1>1, <2>1, <2>2
<1>2. ASSUME up', NEW t \in WatchedTypes'
      PROVE  Guarded(t)' \/ FiresAfter(0, t)' \/ ToBeSet(t)'
  BY <1>0, <1>1, <1>2 DEF Covered
<1>3. ASSUME up', NEW i \in 1 .. Len(toClient'), NEW t \in Types,
             Promises(toClient'[i], t)
      PROVE  Guarded(t)' \/ FiresAfter(i, t)'
  <2>1. CASE i \in 1 .. Len(toClient)
    <3>1. Promises(toClient[i], t) /\ up
      BY <1>3, <2>1
    <3>2. Guarded(t) \/ FiresAfter(i, t)
      BY <2>1, <3>1 DEF Covered
    <3>3. i \in 0 .. n
      BY <1>0, <2>1
    <3> QED BY <1>1, <3>2, <3>3
  <2>2. CASE i \in Len(toClient) + 1 .. Len(toClient')
    BY <1>3, <2>2
  <2> QED BY <1>0, <2>1, <2>2
<1> QED BY <1>2, <1>3 DEF Covered

\* An event that concerns a watch in the server's tables is sent.
LEMMA CoveredChange ==
  ASSUME TypeOK, QueueType, Covered,
         Create \/ Delete \/ SetData \/ ChangeChildren
  PROVE  Covered'
<1>1. PICK e \in Events, tables \in SUBSET {"data", "child"} :
        /\ Change(e, tables)
        /\ \A t \in Types : Guarded(t) /\ ~Guarded(t)' =>
             t \in WTypes(e) /\ srvWatch \cap tables # {}
  <2>1. CASE Create
    BY <2>1 DEF Create, Change, Guarded, Table, WTypes, Events, Types
  <2>2. CASE Delete
    <3>1. Change("deleted", {"data", "child"}) /\ exists
      BY <2>2 DEF Delete
    <3>2. \A t \in Types : Guarded(t) =>
            t \in WTypes("deleted") /\ srvWatch \cap {"data", "child"} # {}
      BY <3>1 DEF Guarded, Table, WTypes, Types
    <3> QED BY <3>1, <3>2 DEF Events
  <2>3. CASE SetData
    BY <2>3 DEF SetData, Change, Guarded, Table, WTypes, Events, Types
  <2>4. CASE ChangeChildren
    BY <2>4 DEF ChangeChildren, Change, Guarded, Table, WTypes, Events, Types
  <2> QED BY <2>1, <2>2, <2>3, <2>4
<1>2. /\ UNCHANGED <<up, watchers, sw, toVisit, reqs, asking, sendChan, breaks>>
      /\ toClient' = IF srvWatch \cap tables = {} THEN toClient
                     ELSE Append(toClient, Event(e))
  BY <1>1 DEF Change, setVars, clientVars
<1>0. PICK n \in Nat : n = Len(toClient)
  BY DEF QueueType
<1>3. /\ Len(toClient') \in Nat /\ Len(toClient') >= n
      /\ \A i \in 1 .. n : toClient'[i] = toClient[i]
      /\ \A i \in n + 1 .. Len(toClient') : toClient'[i] = Event(e)
      /\ srvWatch \cap tables # {} => n + 1 \in n + 1 .. Len(toClient')
  BY <1>0, <1>2 DEF QueueType
<1>4. ASSUME NEW t \in Types, Guarded(t)
      PROVE  Guarded(t)' \/ FiresAfter(n, t)'
  <2>1. Event(e).op = "event" /\ Event(e).type = e
    BY DEF Event
  <2>2. CASE ~Guarded(t)'
    <3>1. t \in WTypes(e) /\ srvWatch \cap tables # {}
      BY <1>1, <1>4, <2>2
    <3>2. n + 1 \in n + 1 .. Len(toClient') /\ toClient'[n + 1] = Event(e)
      BY <1>3, <3>1
    <3> QED BY <2>1, <3>1, <3>2 DEF FiresAfter
  <2> QED BY <2>2
<1>5. \A t \in Types : ToBeSet(t) => ToBeSet(t)'
  BY <1>2 DEF ToBeSet, ConnsIn
<1>6. \A i \in n + 1 .. Len(toClient'), t \in Types : ~Promises(toClient'[i], t)
  BY <1>3 DEF Promises, Event
<1> QED BY <1>0, <1>2, <1>3, <1>4, <1>5, <1>6, CoveredGrows

\* The server sets the watch that its reply promises.
LEMMA CoveredServeWatch ==
  ASSUME TypeOK, QueueType, Covered, Serve, Head(sendChan).op = "watch"
  PROVE  Covered'
<1> DEFINE r == Head(sendChan)
           k == Kind[r.call]
           ok == exists \/ k = "exist"
           m == [op |-> "watch", call |-> r.call, zxid |-> zxid, ok |-> ok,
                 found |-> exists]
<1>0. PICK n \in Nat : n = Len(toClient)
  BY DEF QueueType
<1>1. /\ r \in Requests /\ sendChan \in Seq(Requests) /\ sendChan # <<>>
      /\ UNCHANGED <<up, watchers, exists, sw, toVisit, reqs, asking, breaks>>
      /\ ServeWatch(r) /\ sendChan' = Tail(sendChan)
  BY DEF Serve, QueueType, setVars, clientVars, serverVars
<1>2. r.call \in Calls /\ k \in Types
  BY <1>1 DEF Requests, WatchRequests, SetRequests
<1>3. /\ srvWatch' = IF ok THEN srvWatch \cup {Table(k)} ELSE srvWatch
      /\ toClient' = Append(toClient, m)
  BY <1>1 DEF ServeWatch
<1>4. ASSUME NEW t \in Types, Promises(m, t)
      PROVE  Guarded(t)'
  <2>1. ok /\ t = IF k # "exist" THEN k ELSE IF exists THEN "data" ELSE "exist"
    BY <1>4 DEF Promises, WatcherType
  <2>2. Table(t) = Table(k) /\ (t = "exist" <=> ~exists)
    BY <2>1 DEF Table
  <2> QED BY <1>1, <1>3, <2>1, <2>2 DEF Guarded
<1>5. ConnsIn(sendChan') = ConnsIn(sendChan)
  <2>1. \A i \in 1 .. Len(sendChan) :
          sendChan[i].op = "setWatches" =>
            i - 1 \in 1 .. Len(sendChan') /\ sendChan'[i - 1] = sendChan[i]
    BY <1>1
  <2>2. \A i \in 1 .. Len(sendChan') :
          i + 1 \in 1 .. Len(sendChan) /\ sendChan'[i] = sendChan[i + 1]
    BY <1>1
  <2> QED BY <2>1, <2>2 DEF ConnsIn
<1> HIDE DEF m, ok, k, r
<1>6. \A t \in Types : ToBeSet(t) => ToBeSet(t)'
  BY <1>1, <1>5 DEF ToBeSet
<1>7. \A t \in Types : Guarded(t) => Guarded(t)'
  BY <1>1, <1>3 DEF Guarded
<1>8. /\ Len(toClient') \in Nat /\ Len(toClient') >= n
      /\ \A i \in 1 .. n : toClient'[i] = toClient[i]
      /\ \A i \in n + 1 .. Len(toClient') : toClient'[i] = m
  BY <1>0, <1>3 DEF QueueType
<1> QED BY <1>0, <1>1, <1>4, <1>6, <1>7, <1>8, CoveredGrows

\* The server serves every type that a packet of sendSetWatches asks for.
LEMMA CoveredServeSet ==
  ASSUME TypeOK, QueueType, BookInv, Covered, Serve,
         Head(sendChan).op = "setWatches"
  PROVE  Covered'
<1> DEFINE r == Head(sendChan)
<1>0. PICK n \in Nat : n = Len(toClient)
  BY DEF QueueType
<1>1. /\ r \in Requests /\ sendChan \in Seq(Requests) /\ sendChan # <<>>
      /\ UNCHANGED <<up, watchers, exists, sw, toVisit, reqs, asking, breaks>>
      /\ ServeSetWatches(r) /\ sendChan' = Tail(sendChan)
      /\ r = sendChan[1] /\ 1 \in 1 .. Len(sendChan) /\ r.op = "setWatches"
  BY DEF Serve, QueueType, setVars, clientVars, serverVars
<1>2. SetReply(r) \in Messages
  BY <1>1 DEF SetReply, Messages, SetReplies, Requests, SetRequests,
              WatchRequests, TypeOK
<1>3. r.conn = breaks => r.types = reqs[breaks][1].types
  <2>1. r.types = Head(reqs[r.conn]).types
    BY <1>1 DEF BookInv, GoroutineState
  <2>2. reqs[breaks] \in Seq(Batch)
    BY DEF TypeOK
  <2>3. r.conn = breaks => reqs[breaks] # <<>>
    BY <1>1 DEF BookInv, GoroutineState, ConnsIn
  <2> QED BY <2>1, <2>2, <2>3
<1>4. ConnsIn(sendChan) \subseteq ConnsIn(sendChan') \cup {r.conn}
  <2>1. \A i \in 1 .. Len(sendChan) : i # 1 =>
            i - 1 \in 1 .. Len(sendChan') /\ sendChan'[i - 1] = sendChan[i]
    BY <1>1
  <2> HIDE DEF r
  <2>2. ASSUME NEW i \in 1 .. Len(sendChan), sendChan[i].op = "setWatches"
        PROVE  sendChan[i].conn \in ConnsIn(sendChan') \cup {r.conn}
    <3>1. CASE i # 1
      <4>1. i - 1 \in 1 .. Len(sendChan') /\ sendChan'[i - 1] = sendChan[i]
        BY <2>1, <3>1
      <4> QED BY <2>2, <4>1 DEF ConnsIn
    <3> QED BY <1>1, <3>1
  <2> QED BY <2>2 DEF ConnsIn
<1> HIDE DEF r
<1>5. PICK evs \in Seq(EventMsgs) :
           /\ Sent(evs, SetReply(r))
           /\ \A t \in Types : t \in r.types =>
                \/ Fires(evs, t)
                \/ Table(t) \in SetAgain(r) /\ (t = "exist" <=> ~exists)
  BY <1>1, SetWatchesAnswered
<1>6. /\ toClient' \in Seq(Messages)
      /\ Len(toClient') = n + Len(evs) + 1 /\ Len(evs) \in Nat
      /\ \A i \in 1 .. n : toClient'[i] = toClient[i]
      /\ \A i \in 1 .. Len(evs) : toClient'[n + i] = evs[i]
      /\ toClient'[Len(toClient')] = SetReply(r)
  BY <1>0, <1>2, <1>5, SentAt
<1>7. ASSUME NEW i \in n + 1 .. Len(toClient')
      PROVE  \/ toClient'[i] \in EventMsgs
             \/ toClient'[i] = SetReply(r)
  <2>1. CASE i = Len(toClient')
    BY <1>6, <2>1
  <2>2. CASE i # Len(toClient')
    <3>1. i - n \in 1 .. Len(evs) /\ n + (i - n) = i
      BY <1>6, <2>2
    <3>2. toClient'[i] = evs[i - n] /\ evs[i - n] \in EventMsgs
      BY <1>6, <3>1
    <3> QED BY <3>2
  <2> QED BY <2>1, <2>2
<1>8. \A i \in n + 1 .. Len(toClient'), t \in Types : ~Promises(toClient'[i], t)
  BY <1>7 DEF Promises, EventMsgs, SetReply
<1>9. ASSUME NEW t \in Types, t \in r.types
      PROVE  Guarded(t)' \/ FiresAfter(0, t)'
  <2>1. CASE Fires(evs, t)
    <3>1. PICK i \in 1 .. Len(evs) : t \in WTypes(evs[i].type)
      BY <2>1 DEF Fires
    <3>2. evs[i].op = "event" /\ toClient'[n + i] = evs[i]
          /\ n + i \in 0 + 1 .. Len(toClient')
      <4>1. evs[i] \in EventMsgs
        OBVIOUS
      <4> QED BY <1>6, <4>1 DEF EventMsgs
    <3> QED BY <3>1, <3>2 DEF FiresAfter
  <2>2. CASE Table(t) \in SetAgain(r) /\ (t = "exist" <=> ~exists)
    BY <1>1, <2>2 DEF Guarded, ServeSetWatches
  <2> QED BY <1>5, <1>9, <2>1, <2>2
<1>10. ASSUME NEW t \in Types, ToBeSet(t)
       PROVE  ToBeSet(t)' \/ Guarded(t)' \/ FiresAfter(0, t)'
  <2>1. CASE sw = "todo" \/ (sw = "building" /\ t \in toVisit)
    BY <1>1, <2>1 DEF ToBeSet
  <2>2. CASE \E i \in 1 .. Len(reqs[breaks]) :
               /\ t \in reqs[breaks][i].types
               /\ i > 1 \/ breaks \notin asking \/ breaks \in ConnsIn(sendChan)
    <3>1. PICK i \in 1 .. Len(reqs[breaks]) :
               /\ t \in reqs[breaks][i].types
               /\ i > 1 \/ breaks \notin asking \/ breaks \in ConnsIn(sendChan)
      BY <2>2
    <3>2. CASE i > 1 \/ breaks \notin asking \/ breaks \in ConnsIn(sendChan')
      BY <1>1, <3>1, <3>2 DEF ToBeSet
    <3>3. CASE ~(i > 1) /\ r.conn = breaks
      <4>1. i = 1
        BY <3>3
      <4> QED BY <1>3, <1>9, <3>1, <3>3, <4>1
    <3> QED BY <1>4, <3>1, <3>2, <3>3
  <2> QED BY <1>10, <2>1, <2>2 DEF ToBeSet
<1>11. \A t \in Types : Guarded(t) => Guarded(t)'
  BY <1>1 DEF Guarded, ServeSetWatches
<1>12. Len(toClient') \in Nat /\ Len(toClient') >= Len(toClient)
  BY <1>0, <1>6
<1> QED BY <1>0, <1>1, <1>6, <1>8, <1>10, <1>11, <1>12, CoveredGrows

\* The reply to one packet of sendSetWatches leaves the packets to come.
LEMMA RecvToBeSet ==
  ASSUME TypeOK, QueueType, BookInv, Recv, NEW t, ToBeSet(t)
  PROVE  ToBeSet(t)'
<1> DEFINE m == Head(toClient)
<1>1. /\ m = toClient[1] /\ 1 \in 1 .. Len(toClient)
      /\ UNCHANGED <<sw, toVisit, sendChan, breaks>>
  BY DEF Recv, QueueType
<1>2. CASE RecvEvent(m) \/ RecvWatch(m)
  <2>1. UNCHANGED <<reqs, asking>>
    BY <1>2 DEF RecvEvent, RecvWatch
  <2> QED BY <1>1, <2>1 DEF ToBeSet
<1>3. CASE RecvSetWatches(m)
  <2>1. /\ m.op = "setWatches" /\ reqs' = [reqs EXCEPT ![m.conn] = Tail(@)]
        /\ asking' = asking \ {m.conn}
    BY <1>3 DEF RecvSetWatches
  <2>2. m.conn \in ConnsIn(toClient)
    BY <1>1, <2>1 DEF ConnsIn
  <2>3. m.conn \in Conns /\ m.conn \in asking /\ m.conn \notin ConnsIn(sendChan)
        /\ reqs[m.conn] # <<>>
    BY <2>2, InQueues DEF BookInv, GoroutineState, QueuesOnce
  <2> HIDE DEF m
  <2>4. CASE m.conn # breaks
    <3>1. reqs'[breaks] = reqs[breaks] /\ (breaks \in asking' <=> breaks \in asking)
      BY <2>1, <2>3, <2>4 DEF TypeOK
    <3> QED BY <1>1, <3>1 DEF ToBeSet
  <2>5. CASE m.conn = breaks
    <3>1. reqs[breaks] \in Seq(Batch) /\ reqs[breaks] # <<>>
          /\ reqs'[breaks] = Tail(reqs[breaks]) /\ breaks \notin asking'
      BY <2>1, <2>3, <2>5 DEF TypeOK
    <3>2. CASE sw = "todo" \/ (sw = "building" /\ t \in toVisit)
      BY <1>1, <3>2 DEF ToBeSet
    <3>3. CASE \E i \in 1 .. Len(reqs[breaks]) :
                 t \in reqs[breaks][i].types /\ i > 1
      <4>1. PICK i \in 1 .. Len(reqs[breaks]) :
                 t \in reqs[breaks][i].types /\ i > 1
        BY <3>3
      <4>2. i - 1 \in 1 .. Len(reqs'[breaks])
            /\ reqs'[breaks][i - 1] = reqs[breaks][i]
        BY <3>1, <4>1
      <4> QED BY <1>1, <3>1, <4>1, <4>2 DEF ToBeSet
    <3> QED BY <2>3, <2>5, <3>2, <3>3 DEF ToBeSet
  <2> QED BY <2>4, <2>5
<1> QED BY <1>2, <1>3 DEF Recv

\* A message is received: what it does not settle is settled by a later one.
LEMMA CoveredRecv ==
  ASSUME TypeOK, QueueType, BookInv, Covered, Recv
  PROVE  Covered'
<1> DEFINE m == Head(toClient)
<1>0. /\ toClient \in Seq(Messages) /\ toClient # <<>> /\ m \in Messages
      /\ toClient' = Tail(toClient) /\ m = toClient[1]
      /\ 1 \in 1 .. Len(toClient) /\ up
      /\ UNCHANGED <<exists, srvWatch, up, sw, toVisit, sendChan, breaks>>
  BY DEF Recv, QueueType, serverVars
<1>1. /\ Len(toClient') \in Nat /\ Len(toClient) = Len(toClient') + 1
      /\ \A i \in 1 .. Len(toClient') : toClient'[i] = toClient[i + 1]
  BY <1>0
<1>2. ASSUME NEW t PROVE Guarded(t)' <=> Guarded(t)
  BY <1>0 DEF Guarded
<1> HIDE DEF m
<1>3. ASSUME NEW t, NEW n \in Nat, FiresAfter(n + 1, t)
      PROVE  FiresAfter(n, t)'
  <2>1. PICK i \in (n + 1) + 1 .. Len(toClient) :
          toClient[i].op = "event" /\ t \in WTypes(toClient[i].type)
    BY <1>3 DEF FiresAfter
  <2>2. i - 1 \in n + 1 .. Len(toClient') /\ toClient'[i - 1] = toClient[i]
    BY <1>1
  <2> QED BY <2>1, <2>2 DEF FiresAfter
<1>4. ASSUME NEW t, FiresAfter(0, t), ~(m.op = "event" /\ t \in WTypes(m.type))
      PROVE  FiresAfter(0, t)'
  <2>1. PICK i \in 0 + 1 .. Len(toClient) :
          toClient[i].op = "event" /\ t \in WTypes(toClient[i].type)
    BY <1>4 DEF FiresAfter
  <2>2. i # 1
    BY <1>0, <1>4, <2>1
  <2>3. i - 1 \in 0 + 1 .. Len(toClient') /\ toClient'[i - 1] = toClient[i]
    BY <1>1, <2>2
  <2> QED BY <2>1, <2>3 DEF FiresAfter
<1>5. ASSUME NEW i \in 1 .. Len(toClient'), NEW t \in Types,
             Promises(toClient'[i], t)
      PROVE  Guarded(t)' \/ FiresAfter(i, t)'
  <2>1. i + 1 \in 1 .. Len(toClient) /\ Promises(toClient[i + 1], t) /\ i \in Nat
    BY <1>1, <1>5
  <2>2. Guarded(t) \/ FiresAfter(i + 1, t)
    BY <1>0, <2>1 DEF Covered
  <2> QED BY <1>2, <1>3, <2>1, <2>2
<1>6. \A t : ToBeSet(t) => ToBeSet(t)'
  BY RecvToBeSet
<1>7. ASSUME NEW t \in WatchedTypes'
      PROVE  Guarded(t)' \/ FiresAfter(0, t)' \/ ToBeSet(t)'
  <2>0. t \in Types
    BY DEF WatchedTypes
  <2>1. CASE RecvEvent(m)
    <3>1. watchers' = WatchersAfter(m.type)
      BY <2>1 DEF RecvEvent
    <3>2. t \notin WTypes(m.type) /\ t \in WatchedTypes
      BY <2>0, <3>1 DEF WatchersAfter, WatchedTypes
    <3> QED BY <1>0, <1>2, <1>4, <1>6, <3>2 DEF Covered
  <2>2. CASE RecvWatch(m)
    <3>1. m.op = "watch"
      BY <2>2 DEF RecvWatch
    <3>2. t \in WatchedTypes \/ Promises(m, t)
      BY <2>0, <2>2 DEF RecvWatch, WatchedTypes, Promises, TypeOK
    <3>3. CASE t \in WatchedTypes
      BY <1>0, <1>2, <1>4, <1>6, <3>1, <3>3 DEF Covered
    <3>4. CASE Promises(m, t)
      <4>1. Guarded(t) \/ FiresAfter(1, t)
        BY <1>0, <2>0, <3>4 DEF Covered
      <4>2. 0 \in Nat /\ 0 + 1 = 1
        OBVIOUS
      <4>3. FiresAfter(1, t) => FiresAfter(0, t)'
        BY <1>3, <4>2
      <4> QED BY <1>2, <4>1, <4>3
    <3> QED BY <3>2, <3>3, <3>4
  <2>3. CASE RecvSetWatches(m)
    <3>1. m.op = "setWatches" /\ UNCHANGED watchers
      BY <2>3 DEF RecvSetWatches
    <3>2. t \in WatchedTypes
      BY <3>1 DEF WatchedTypes
    <3> QED BY <1>0, <1>2, <1>4, <1>6, <3>1, <3>2 DEF Covered
  <2> QED BY <2>1, <2>2, <2>3 DEF Recv, m
<1> QED BY <1>5, <1>7 DEF Covered

LEMMA CoveredStep ==
  ASSUME TypeOK, QueueType, BookInv, Covered, [Next]_vars
  PROVE  Covered'
<1>1. CASE Serve
  BY <1>1, CoveredServeWatch, CoveredServeSet DEF Serve
<1>2. CASE Break \/ NoServer \/ Expired \/ Exit
  <2>1. ~up'
    BY <1>2 DEF Break, NoServer, Expired, Exit
  <2> QED BY <2>1 DEF Covered
<1>3. CASE Reconnect
  <2>1. sw' = "todo" /\ Len(toClient') = 0
    BY <1>3 DEF Reconnect, BookInv, LinkState
  <2> QED BY <2>1 DEF Covered, ToBeSet
<1>4. CASE RecvHeader \/ UNCHANGED vars
  <2>1. UNCHANGED <<up, toClient, srvWatch, exists, watchers, sw, toVisit, reqs,
                    asking, sendChan, breaks>>
    BY <1>4, HeaderChanges DEF vars, serverVars, setVars, clientVars
  <2>2. \A t \in WatchedTypes : ToBeSet(t) => ToBeSet(t)'
    BY <2>1 DEF ToBeSet
  <2> QED BY <2>1, <2>2, CoveredKept
<1> QED BY <1>1, <1>2, <1>3, <1>4, CoveredRequests, CoveredChange, CoveredRecv
        DEF Next, Request

-----------------------------------------------------------------------------
(* The theorems. *)

LEMMA WatchesInvariant == Spec => []WatchesInv
<1>1. Init => WatchesInv
  <2> SUFFICES ASSUME Init PROVE WatchesInv
    OBVIOUS
  <2>1. TypeOK
    <3>1. reqs \in [Conns -> Seq(Batch)]
      <4>1. <<>> \in Seq(Batch)
        OBVIOUS
      <4> QED BY <4>1 DEF Init
    <3>2. /\ watchers \in [Types -> SUBSET Calls]
          /\ ch \in [Calls -> {"none", "asked", "failed", "open", "fired",
                               "invalid"}]
      BY DEF Init
    <3>3. 0 \in Zxids /\ 1 \in Zxids /\ 0 \in Conns
      BY DEF Zxids, Conns
    <3>4. seen \in [Calls -> Zxids]
      BY <3>3 DEF Init
    <3>5. exists \in BOOLEAN /\ up \in BOOLEAN /\ exited \in BOOLEAN
      BY Zenon DEF Init
    <3> QED BY <3>1, <3>2, <3>3, <3>4, <3>5 DEF Init, TypeOK
  <2>2. QueueType /\ LinkState /\ CallsWait /\ QueuesOnce
    <3>1. sendChan = <<>> /\ toClient = <<>> /\ up = TRUE /\ exited = FALSE
      BY DEF Init
    <3> QED BY <3>1, EmptyOnce DEF QueueType, LinkState, CallsWait, QueuesOnce
  <2>3. GoroutineState /\ OneEventPerChannel
    BY EmptyOnce DEF Init, GoroutineState, OneEventPerChannel
  <2>4. Covered
    BY DEF Init, Covered, WatchedTypes
  <2> QED BY <2>1, <2>2, <2>3, <2>4 DEF WatchesInv
<1>2. WatchesInv /\ [Next]_vars => WatchesInv'
  BY WatchesTypeStep, BookStep, CoveredStep DEF WatchesInv, BookInv
<1> QED BY <1>1, <1>2, PTL DEF Spec

\* Every reachable state is well typed: what the server sends and what the
\* set-watches goroutines queue included, of which the invariant says the types.
THEOREM WatchesTypeCorrect == Spec => []TypeOK
BY WatchesInvariant, PTL DEF WatchesInv

\* A channel that GetW, ExistsW or ChildrenW returned is in c.watchers once, and
\* nothing else is: recvLoop and invalidateWatches send it one event and close
\* it once, however many events and replies are on their way.
THEOREM ChannelsFireOnce == Spec => []OneEventPerChannel
BY WatchesInvariant, PTL DEF WatchesInv

\* Once loop() has returned after Close, nobody waits on a channel for ever.
THEOREM CloseReleasesWatchers == Spec => []NobodyLeftWaiting
<1>1. WatchesInv => NobodyLeftWaiting
  BY DEF WatchesInv, LinkState, OneEventPerChannel, NobodyLeftWaiting
<1> QED BY <1>1, WatchesInvariant, PTL

\* Once settled, every watcher has its watch at the server, after any number of
\* lost connections, packets of sendSetWatches answered in part, sessions that
\* expired and watches registered meanwhile.
THEOREM WatchesAreRestored == Spec => []WatchesRestored
<1>1. WatchesInv => WatchesRestored
  BY DEF WatchesInv, WatchesRestored, Settled, Covered, ToBeSet, FiresAfter,
         Guarded
<1> QED BY <1>1, WatchesInvariant, PTL

\* Once settled, nobody waits for the deletion of a node that is gone or for the
\* creation of one that is there, which is what the wait in Lock rests on.
THEOREM ExistenceIsSeen == Spec => []ExistenceNeverMissed
<1>1. WatchesInv => ExistenceNeverMissed
  <2> SUFFICES ASSUME WatchesInv, Settled PROVE ExistenceNeverMissed
    BY DEF ExistenceNeverMissed
  <2>1. \A t \in WatchedTypes : Guarded(t)
    BY DEF WatchesInv, Settled, Covered, ToBeSet, FiresAfter
  <2> QED BY <2>1 DEF Guarded, WatchedTypes, Types, ExistenceNeverMissed
<1> QED BY <1>1, WatchesInvariant, PTL

-----------------------------------------------------------------------------
(* When a change can be missed. *)

\* The watchers of these types wait for a change of the node: the last one.
Changing == {"data", "child"}
ChangedAt(t) == IF t = "data" THEN mzxid ELSE pzxid

IsReply(m) == m.op # "event"

\* The replies after the first n and up to k tell of no change for type t.
OldReplies(n, k, t) ==
  \A j \in n + 1 .. k : IsReply(toClient[j]) => toClient[j].zxid < ChangedAt(t)

\* A message after the first n fires the watchers of type t, before lastZxid
\* gets past the change.
HearsAfter(n, t) ==
  \E i \in n + 1 .. Len(toClient) :
    /\ toClient[i].op = "event" /\ t \in WTypes(toClient[i].type)
    /\ OldReplies(n, i - 1, t)

\* Replies carry the zxid of their time in order, lastZxid is that of the last
\* one received, and a packet of sendSetWatches asks for no more than that.
ZxidOrder ==
  /\ mzxid <= zxid /\ pzxid <= zxid /\ lastZxid <= zxid
  /\ \A i \in 1 .. Len(toClient) : IsReply(toClient[i]) =>
       lastZxid <= toClient[i].zxid /\ toClient[i].zxid <= zxid
  /\ \A i, j \in 1 .. Len(toClient) :
       i < j /\ IsReply(toClient[i]) /\ IsReply(toClient[j]) =>
         toClient[i].zxid <= toClient[j].zxid
  /\ \A i \in 1 .. Len(reqs[breaks]) : reqs[breaks][i].rel <= lastZxid
  /\ ~up => reqs[breaks] = <<>> /\ sw # "building"

\* A watcher that has not heard of the last change, or will be one once a reply
\* is received, is about to, and lastZxid does not hide the change.
Informed ==
  /\ \A t \in Changing : \A w \in watchers[t] :
       ChangedAt(t) > seen[w] =>
         /\ ChangedAt(t) > lastZxid
         /\ up => \/ HearsAfter(0, t)
                  \/ ToBeSet(t) /\ OldReplies(0, Len(toClient), t)
  /\ \A i \in 1 .. Len(toClient), t \in Changing :
       Promises(toClient[i], t) /\ ChangedAt(t) > toClient[i].zxid =>
         HearsAfter(i, t)

LEMMA ZxidTypes ==
  ASSUME WatchesInv
  PROVE  /\ zxid \in Nat /\ mzxid \in Nat /\ pzxid \in Nat /\ lastZxid \in Nat
         /\ \A w \in Calls : seen[w] \in Nat
         /\ \A t \in Changing : ChangedAt(t) \in Nat
         /\ Len(toClient) \in Nat /\ toClient \in Seq(Messages)
         /\ \A i \in 1 .. Len(toClient) :
              /\ toClient[i] \in Messages
              /\ IsReply(toClient[i]) => toClient[i].zxid \in Nat
         /\ breaks \in Conns /\ reqs[breaks] \in Seq(Batch)
         /\ \A b \in Batch : b.rel \in Nat
         /\ \A t \in Types : watchers[t] \subseteq Calls
<1> USE DEF WatchesInv, TypeOK, QueueType, Zxids, Changing, ChangedAt
<1>1. /\ zxid \in Nat /\ mzxid \in Nat /\ pzxid \in Nat /\ lastZxid \in Nat
      /\ breaks \in Conns /\ reqs[breaks] \in Seq(Batch)
  OBVIOUS
<1>2. \A m \in Messages : IsReply(m) => m.zxid \in Nat
  BY DEF IsReply, Messages, EventMsgs, WatchReplies, SetReplies
<1>3. Len(toClient) \in Nat /\ \A i \in 1 .. Len(toClient) : toClient[i] \in Messages
  OBVIOUS
<1> QED BY <1>1, <1>2, <1>3 DEF Batch

-----------------------------------------------------------------------------
(* The order of the zxids. *)

\* The server sends: what was on its way stays, and is followed by events and by
\* replies of now.
Sends ==
  /\ Len(toClient') \in Nat /\ Len(toClient') >= Len(toClient)
  /\ \A i \in 1 .. Len(toClient) : toClient'[i] = toClient[i]
  /\ \A i \in Len(toClient) + 1 .. Len(toClient') :
       IsReply(toClient'[i]) => toClient'[i].zxid = zxid

LEMMA ServeSends ==
  ASSUME WatchesInv, Serve
  PROVE  Sends
<1>1. TypeOK /\ QueueType
  BY DEF WatchesInv
<1>2. PICK evs \in Seq(EventMsgs), m \in Messages :
        Sent(evs, m) /\ m.op # "event" /\ m.zxid = zxid
  BY <1>1, ServeMoves
<1>3. PICK n \in Nat, k \in Nat : n = Len(toClient) /\ k = Len(evs)
  BY ZxidTypes
<1>4. /\ Len(toClient') = n + k + 1
      /\ \A i \in 1 .. n : toClient'[i] = toClient[i]
      /\ \A i \in 1 .. k : toClient'[n + i] = evs[i]
      /\ toClient'[n + k + 1] = m
  <2>1. /\ Len(toClient') = n + k + 1
        /\ \A i \in 1 .. n : toClient'[i] = toClient[i]
        /\ \A i \in 1 .. k : toClient'[n + i] = evs[i]
        /\ toClient'[Len(toClient')] = m
    BY <1>1, <1>2, <1>3, SentAt
  <2> QED BY <2>1
<1>5. \A i \in 1 .. k : ~IsReply(evs[i])
  <2>1. \A i \in 1 .. k : evs[i] \in EventMsgs
    BY <1>3, ElementOfSeq
  <2> QED BY <2>1 DEF IsReply, EventMsgs
<1>6. ASSUME NEW i \in n + 1 .. n + k + 1, IsReply(toClient'[i])
      PROVE  toClient'[i].zxid = zxid
  <2>1. CASE i = n + k + 1
    BY <1>2, <1>4, <2>1
  <2>2. CASE i # n + k + 1
    <3>1. i - n \in 1 .. k /\ n + (i - n) = i
      BY <2>2
    <3>2. toClient'[i] = evs[i - n]
      BY <1>4, <3>1
    <3> QED BY <1>5, <1>6, <3>1, <3>2
  <2> QED BY <2>1, <2>2
<1> QED BY <1>3, <1>4, <1>6 DEF Sends

LEMMA ChangeSends ==
  ASSUME WatchesInv, NEW e, NEW tables, Change(e, tables)
  PROVE  Sends
<1>1. toClient' = toClient \/ toClient' = Append(toClient, Event(e))
  BY DEF Change
<1>2. Event(e).op = "event"
  BY DEF Event
<1>3. toClient \in Seq(Messages) /\ Len(toClient) \in Nat
  BY ZxidTypes
<1>4. CASE toClient' = Append(toClient, Event(e))
  <2>1. /\ Len(toClient') = Len(toClient) + 1
        /\ toClient'[Len(toClient) + 1] = Event(e)
        /\ \A i \in 1 .. Len(toClient) : toClient'[i] = toClient[i]
    BY <1>3, <1>4
  <2> QED BY <1>2, <1>3, <2>1 DEF Sends, IsReply
<1>5. CASE toClient' = toClient
  BY <1>3, <1>5 DEF Sends
<1> QED BY <1>1, <1>4, <1>5

LEMMA ZxidSends ==
  ASSUME WatchesInv, WatchesInv', ZxidOrder, Sends,
         UNCHANGED <<lastZxid, reqs, breaks, up, sw>>,
         zxid' >= zxid, mzxid' <= zxid', pzxid' <= zxid'
  PROVE  ZxidOrder'
<1> DEFINE n == Len(toClient)
<1>0. n \in Nat /\ zxid \in Nat /\ zxid' \in Nat /\ lastZxid \in Nat
  <2>1. zxid' \in Nat
    BY DEF WatchesInv, TypeOK, Zxids
  <2> QED BY <2>1, ZxidTypes
<1>1. /\ \A i \in 1 .. n : IsReply(toClient[i]) =>
           /\ toClient[i].zxid \in Nat
           /\ lastZxid <= toClient[i].zxid /\ toClient[i].zxid <= zxid
  BY ZxidTypes DEF ZxidOrder
<1>2. ASSUME NEW i \in 1 .. Len(toClient'), IsReply(toClient'[i])
      PROVE  /\ toClient'[i].zxid \in Nat
             /\ lastZxid <= toClient'[i].zxid /\ toClient'[i].zxid <= zxid
  <2>1. CASE i \in 1 .. n
    BY <1>1, <1>2, <2>1 DEF Sends
  <2>2. CASE i \in n + 1 .. Len(toClient')
    BY <1>0, <1>2, <2>2 DEF Sends, ZxidOrder
  <2> QED BY <1>0, <2>1, <2>2
<1>3. ASSUME NEW i \in 1 .. Len(toClient'), NEW j \in 1 .. Len(toClient'), i < j,
             IsReply(toClient'[i]), IsReply(toClient'[j])
      PROVE  toClient'[i].zxid <= toClient'[j].zxid
  <2>1. CASE j \in 1 .. n
    <3>1. i \in 1 .. n /\ toClient'[i] = toClient[i] /\ toClient'[j] = toClient[j]
      BY <1>0, <1>3, <2>1 DEF Sends
    <3> QED BY <1>3, <2>1, <3>1 DEF ZxidOrder
  <2>2. CASE j \in n + 1 .. Len(toClient')
    <3>1. toClient'[j].zxid = zxid
      BY <1>3, <2>2 DEF Sends
    <3> QED BY <1>2, <1>3, <3>1
  <2> QED BY <1>0, <2>1, <2>2
<1>4. \A i \in 1 .. Len(toClient') : IsReply(toClient'[i]) =>
        lastZxid' <= toClient'[i].zxid /\ toClient'[i].zxid <= zxid'
  BY <1>0, <1>2
<1>5. lastZxid' <= zxid'
  BY <1>0 DEF ZxidOrder
<1> QED BY <1>3, <1>4, <1>5 DEF ZxidOrder, IsReply

LEMMA ZxidRecv ==
  ASSUME WatchesInv, ZxidOrder, Recv
  PROVE  ZxidOrder'
<1> DEFINE m == Head(toClient)
<1>1. /\ toClient # <<>> /\ toClient' = Tail(toClient) /\ m = toClient[1] /\ up
      /\ UNCHANGED <<zxid, mzxid, pzxid, up, sw, breaks>>
  BY ZxidTypes DEF Recv, serverVars
<1>2. /\ Len(toClient') \in Nat /\ Len(toClient) = Len(toClient') + 1
      /\ \A i \in 1 .. Len(toClient') : toClient'[i] = toClient[i + 1]
  BY <1>1, ZxidTypes
<1>3. lastZxid' = IF IsReply(m) THEN m.zxid ELSE lastZxid
  BY DEF Recv, RecvEvent, RecvWatch, RecvSetWatches, HeaderRead, IsReply
<1>4. 1 \in 1 .. Len(toClient) /\ (IsReply(m) => m.zxid \in Nat)
  BY <1>1, <1>2, ZxidTypes
<1> HIDE DEF m
<1>5. lastZxid <= lastZxid' /\ lastZxid' <= zxid /\ lastZxid' \in Nat
  BY <1>1, <1>3, <1>4, ZxidTypes DEF ZxidOrder
<1>6. ASSUME NEW i \in 1 .. Len(toClient'), IsReply(toClient'[i])
      PROVE  lastZxid' <= toClient'[i].zxid /\ toClient'[i].zxid <= zxid
  <2>1. i + 1 \in 1 .. Len(toClient) /\ toClient'[i] = toClient[i + 1] /\ 1 < i + 1
    BY <1>2
  <2>2. lastZxid <= toClient[i + 1].zxid /\ toClient[i + 1].zxid <= zxid
    BY <1>6, <2>1 DEF ZxidOrder
  <2>3. IsReply(m) => m.zxid <= toClient[i + 1].zxid
    BY <1>1, <1>4, <1>6, <2>1 DEF ZxidOrder
  <2> QED BY <1>3, <2>1, <2>2, <2>3
<1>7. ASSUME NEW i \in 1 .. Len(toClient'), NEW j \in 1 .. Len(toClient'), i < j,
             IsReply(toClient'[i]), IsReply(toClient'[j])
      PROVE  toClient'[i].zxid <= toClient'[j].zxid
  <2>1. /\ i + 1 \in 1 .. Len(toClient) /\ toClient'[i] = toClient[i + 1]
        /\ j + 1 \in 1 .. Len(toClient) /\ toClient'[j] = toClient[j + 1]
        /\ i + 1 < j + 1
    BY <1>2, <1>7
  <2> QED BY <1>7, <2>1 DEF ZxidOrder
<1>8. ASSUME NEW i \in 1 .. Len(reqs'[breaks])
      PROVE  reqs'[breaks][i].rel <= lastZxid'
  <2>1. \E j \in 1 .. Len(reqs[breaks]) : reqs'[breaks][i] = reqs[breaks][j]
    <3>1. CASE reqs'[breaks] = reqs[breaks]
      BY <3>1
    <3>2. CASE reqs'[breaks] = Tail(reqs[breaks]) /\ reqs[breaks] # <<>>
      <4>1. i + 1 \in 1 .. Len(reqs[breaks]) /\ reqs'[breaks][i] = reqs[breaks][i + 1]
        BY <3>2, ZxidTypes
      <4> QED BY <4>1
    <3>3. reqs' = reqs \/ (RecvSetWatches(m) /\ reqs' = [reqs EXCEPT ![m.conn] = Tail(@)])
      BY DEF Recv, RecvEvent, RecvWatch, RecvSetWatches, m
    <3>4. ASSUME RecvSetWatches(m), reqs' = [reqs EXCEPT ![m.conn] = Tail(@)]
          PROVE  \/ reqs'[breaks] = reqs[breaks]
                 \/ reqs'[breaks] = Tail(reqs[breaks]) /\ reqs[breaks] # <<>>
      <4>1. m.conn \in ConnsIn(toClient)
        BY <1>1, <1>4, <3>4 DEF RecvSetWatches, ConnsIn
      <4>2. reqs[m.conn] # <<>>
        BY <4>1 DEF WatchesInv, GoroutineState
      <4> QED BY <3>4, <4>2, ZxidTypes DEF WatchesInv, TypeOK
    <3> QED BY <3>1, <3>2, <3>3, <3>4
  <2>2. PICK j \in 1 .. Len(reqs[breaks]) : reqs'[breaks][i] = reqs[breaks][j]
    BY <2>1
  <2>3. reqs[breaks][j].rel <= lastZxid /\ reqs[breaks][j].rel \in Nat
    BY ZxidTypes DEF ZxidOrder
  <2> QED BY <1>5, <2>2, <2>3, ZxidTypes
<1> QED BY <1>1, <1>5, <1>6, <1>7, <1>8 DEF ZxidOrder, IsReply

LEMMA ZxidHeader ==
  ASSUME WatchesInv, ZxidOrder, RecvHeader
  PROVE  ZxidOrder'
<1>1. /\ 1 \in 1 .. Len(toClient) /\ IsReply(toClient[1]) /\ up
      /\ lastZxid' = toClient[1].zxid
      /\ UNCHANGED <<zxid, mzxid, pzxid, toClient, reqs, breaks, up, sw>>
  BY HeaderChanges DEF WatchesInv, IsReply, serverVars, setVars
<1>2. /\ lastZxid <= lastZxid' /\ lastZxid' <= zxid
      /\ lastZxid \in Nat /\ lastZxid' \in Nat
  BY <1>1, ZxidTypes DEF ZxidOrder
<1>3. ASSUME NEW i \in 1 .. Len(toClient), IsReply(toClient[i])
      PROVE  lastZxid' <= toClient[i].zxid
  <2>1. CASE i = 1
    BY <1>1, <1>2, <2>1
  <2>2. CASE i # 1
    <3>1. 1 < i
      BY <2>2, ZxidTypes
    <3> QED BY <1>1, <1>3, <3>1 DEF ZxidOrder
  <2> QED BY <2>1, <2>2
<1>4. \A i \in 1 .. Len(reqs[breaks]) : reqs[breaks][i].rel <= lastZxid'
  BY <1>2, ZxidTypes DEF ZxidOrder
<1> QED BY <1>1, <1>2, <1>3, <1>4 DEF ZxidOrder, IsReply

LEMMA ZxidRequest ==
  ASSUME WatchesInv, ZxidOrder, Request
  PROVE  ZxidOrder'
<1>1. UNCHANGED <<zxid, mzxid, pzxid, lastZxid, toClient, up, breaks>>
  BY RequestChanges DEF serverVars
<1>2. CASE BuildBatch
  <2>1. PICK types : reqs' = [reqs EXCEPT
               ![breaks] = Appended([rel |-> lastZxid, types |-> types])]
    BY <1>2 DEF BuildBatch
  <2> DEFINE b == [rel |-> lastZxid, types |-> types]
             n == Len(reqs[breaks])
  <2>2. reqs'[breaks] = Append(reqs[breaks], b) /\ b.rel = lastZxid
    BY <2>1, ZxidTypes DEF Appended, WatchesInv, TypeOK
  <2> HIDE DEF b
  <2>3. /\ Len(reqs'[breaks]) = n + 1 /\ n \in Nat /\ reqs'[breaks][n + 1] = b
        /\ \A i \in 1 .. n : reqs'[breaks][i] = reqs[breaks][i]
    BY <2>2, ZxidTypes
  <2>4. \A i \in 1 .. Len(reqs'[breaks]) : reqs'[breaks][i].rel <= lastZxid
    BY <2>2, <2>3, ZxidTypes DEF ZxidOrder
  <2>5. up
    BY <1>2 DEF BuildBatch, ZxidOrder
  <2> QED BY <1>1, <2>4, <2>5 DEF ZxidOrder
<1>3. CASE SendSetWatches
  BY <1>1, <1>3 DEF SendSetWatches, ZxidOrder
<1>4. CASE (\E w \in Calls : Watch(w)) \/ (\E k \in Conns : QueueBatch(k))
  <2>1. UNCHANGED <<reqs, sw>>
    BY <1>4 DEF Watch, QueueBatch, setVars
  <2> QED BY <1>1, <2>1 DEF ZxidOrder
<1> QED BY <1>2, <1>3, <1>4 DEF Request

LEMMA ZxidConnection ==
  ASSUME WatchesInv, ZxidOrder,
         Break \/ NoServer \/ Reconnect \/ Expired \/ Exit
  PROVE  ZxidOrder'
<1>1. UNCHANGED <<zxid, mzxid, pzxid>> /\ toClient' = <<>>
  BY DEF Break, NoServer, Reconnect, Expired, Exit, serverVars, WatchesInv, LinkState
<1>2. lastZxid' <= zxid
  BY ZxidTypes DEF Break, NoServer, Reconnect, Expired, Exit, clientVars, ZxidOrder
<1>3. reqs'[breaks'] = <<>>
  <2>1. CASE Break
    <3>1. breaks + 1 \in Conns /\ breaks + 1 > breaks /\ breaks' = breaks + 1
      BY <2>1, ZxidTypes DEF Break, Conns
    <3>2. reqs[breaks + 1] = <<>>
      BY <3>1 DEF WatchesInv, GoroutineState
    <3> QED BY <2>1, <3>1, <3>2 DEF Break, Fail, Abandon
  <2>2. CASE NoServer
    BY <2>2, ZxidTypes DEF NoServer, Fail, Abandon, ZxidOrder
  <2>3. CASE Reconnect \/ Expired \/ Exit
    BY <2>3 DEF Reconnect, Expired, Exit, setVars, ZxidOrder
  <2> QED BY <2>1, <2>2, <2>3
<1>4. ~up' => sw' # "building"
  BY DEF Break, NoServer, Reconnect, Expired, Exit, setVars, ZxidOrder
<1> QED BY <1>1, <1>2, <1>3, <1>4 DEF ZxidOrder

LEMMA ZxidStep ==
  ASSUME WatchesInv, WatchesInv', ZxidOrder, [Next]_vars
  PROVE  ZxidOrder'
<1>1. CASE Serve
  <2>1. UNCHANGED <<zxid, mzxid, pzxid, lastZxid, reqs, breaks, up, sw>>
    BY <1>1 DEF Serve, serverVars, setVars, clientVars
  <2>2. zxid' >= zxid /\ mzxid' <= zxid' /\ pzxid' <= zxid'
    BY <2>1, ZxidTypes DEF ZxidOrder
  <2>3. Sends
    BY <1>1, ServeSends
  <2> QED BY <2>1, <2>2, <2>3, ZxidSends
<1>2. CASE Create \/ Delete \/ SetData \/ ChangeChildren
  <2>1. PICK e, tables : Change(e, tables)
    BY <1>2 DEF Create, Delete, SetData, ChangeChildren
  <2>2. zxid' = zxid + 1 /\ UNCHANGED <<lastZxid, reqs, breaks, up, sw>>
    BY <2>1 DEF Change, setVars, clientVars
  <2>3. /\ mzxid' \in {mzxid, zxid + 1} /\ pzxid' \in {pzxid, zxid + 1}
    BY <1>2 DEF Create, Delete, SetData, ChangeChildren
  <2>4. mzxid' <= zxid' /\ pzxid' <= zxid' /\ zxid' >= zxid
    BY <2>2, <2>3, ZxidTypes DEF ZxidOrder
  <2> QED BY <2>1, <2>2, <2>4, ChangeSends, ZxidSends
<1>3. CASE UNCHANGED vars
  BY <1>3 DEF vars, serverVars, setVars, clientVars, ZxidOrder
<1> QED BY <1>1, <1>2, <1>3, ZxidHeader, ZxidRecv, ZxidRequest, ZxidConnection
        DEF Next, Request

-----------------------------------------------------------------------------
(* Nobody misses a change. *)

\* While sendSetWatches has watches to set again on a connection, the server is
\* sent nothing on it but the one packet that sets them all.
WatchesFirst == Serve => \A t \in WatchedTypes : ~ToBeSet(t)'

\* An event that is on its way stays ahead of the replies that follow it.
LEMMA HearsStill ==
  ASSUME WatchesInv, Sends, NEW t \in Changing, NEW k \in 0 .. Len(toClient),
         ChangedAt(t)' \in Nat, ChangedAt(t) <= ChangedAt(t)', HearsAfter(k, t)
  PROVE  HearsAfter(k, t)'
<1>0. Len(toClient) \in Nat /\ ChangedAt(t) \in Nat
  BY ZxidTypes
<1>1. PICK i \in k + 1 .. Len(toClient) :
        /\ toClient[i].op = "event" /\ t \in WTypes(toClient[i].type)
        /\ OldReplies(k, i - 1, t)
  BY DEF HearsAfter
<1>2. i \in k + 1 .. Len(toClient') /\ toClient'[i] = toClient[i]
  BY <1>0 DEF Sends
<1>3. ASSUME NEW j \in k + 1 .. i - 1, IsReply(toClient'[j])
      PROVE  toClient'[j].zxid < ChangedAt(t)'
  <2>1. j \in 1 .. Len(toClient) /\ toClient'[j] = toClient[j]
    BY <1>0 DEF Sends
  <2>2. toClient[j].zxid \in Nat
    BY <1>3, <2>1, ZxidTypes
  <2>3. toClient[j].zxid < ChangedAt(t)
    BY <1>1, <1>3, <2>1 DEF OldReplies
  <2> QED BY <1>0, <2>1, <2>2, <2>3
<1>4. OldReplies(k, i - 1, t)'
  BY <1>3 DEF OldReplies, IsReply
<1> QED BY <1>1, <1>2, <1>4 DEF HearsAfter

\* An event is ahead of every reply that tells of the change when there is none.
LEMMA HearsFirst ==
  ASSUME NEW t, NEW k \in Nat, FiresAfter(k, t)', OldReplies(0, Len(toClient), t)',
         Len(toClient') \in Nat
  PROVE  HearsAfter(k, t)'
<1>1. PICK i \in k + 1 .. Len(toClient') :
        toClient'[i].op = "event" /\ t \in WTypes(toClient'[i].type)
  BY DEF FiresAfter
<1>2. \A j \in k + 1 .. i - 1 : j \in 0 + 1 .. Len(toClient')
  OBVIOUS
<1>3. OldReplies(k, i - 1, t)'
  BY <1>2 DEF OldReplies
<1> QED BY <1>1, <1>3 DEF HearsAfter

\* A change that concerns a watch in the server's tables is sent as an event,
\* and no reply that is on its way is as new.
LEMMA InformedChange ==
  ASSUME WatchesInv, WatchesInv', ZxidOrder, Informed,
         Create \/ Delete \/ SetData \/ ChangeChildren
  PROVE  Informed'
<1>0. PICK e \in Events, tables \in SUBSET {"data", "child"} :
        /\ Change(e, tables)
        /\ \A t \in Changing :
             \/ ChangedAt(t)' = ChangedAt(t)
             \/ /\ ChangedAt(t)' = zxid + 1
                /\ Guarded(t) => t \in WTypes(e) /\ srvWatch \cap tables # {}
  <2>1. CASE Create
    BY <2>1 DEF Create, Change, Guarded, Changing, ChangedAt, Events
  <2>2. CASE Delete
    BY <2>2 DEF Delete, Changing, ChangedAt, Events
  <2>3. CASE SetData
    BY <2>3 DEF SetData, Guarded, Table, WTypes, Changing, ChangedAt, Events, Types
  <2>4. CASE ChangeChildren
    BY <2>4 DEF ChangeChildren, Guarded, Table, WTypes, Changing, ChangedAt, Events
  <2> QED BY <2>1, <2>2, <2>3, <2>4
<1>1. Sends
  BY <1>0, ChangeSends
<1>2. UNCHANGED <<up, watchers, seen, lastZxid, sw, toVisit, reqs, asking, sendChan, breaks>>
  BY <1>0 DEF Change, setVars, clientVars
<1>3. PICK n \in Nat : n = Len(toClient)
  BY ZxidTypes
<1>4. /\ \A i \in n + 1 .. Len(toClient') : toClient'[i] = Event(e)
      /\ srvWatch \cap tables # {} => n + 1 \in n + 1 .. Len(toClient')
  BY <1>0, <1>3, ZxidTypes DEF Change
<1>5. \A i \in n + 1 .. Len(toClient') :
        ~IsReply(toClient'[i]) /\ toClient'[i].type = e
  BY <1>4 DEF Event, IsReply
<1>6. \A i \in 1 .. Len(toClient') : IsReply(toClient'[i]) =>
        i \in 1 .. n /\ toClient'[i] = toClient[i]
  BY <1>1, <1>3, <1>5 DEF Sends
<1>7. \A t : ToBeSet(t) => ToBeSet(t)'
  BY <1>2 DEF ToBeSet, ConnsIn
<1>8. ASSUME NEW t \in Changing, ChangedAt(t)' = zxid + 1
      PROVE  OldReplies(0, Len(toClient), t)'
  <2>1. \A i \in 1 .. n : IsReply(toClient[i]) => toClient[i].zxid \in Nat
                                             /\ toClient[i].zxid <= zxid
    BY <1>3, ZxidTypes DEF ZxidOrder
  <2>2. \A i \in 1 .. Len(toClient') : IsReply(toClient'[i]) =>
          toClient'[i].zxid < ChangedAt(t)'
    <3>1. zxid \in Nat
      BY ZxidTypes
    <3> QED BY <1>6, <1>8, <2>1, <3>1
  <2> QED BY <2>2 DEF OldReplies, IsReply
<1>9. ASSUME NEW t \in Changing, ChangedAt(t)' = zxid + 1, NEW k \in 0 .. n,
             Guarded(t) \/ FiresAfter(k, t)
      PROVE  HearsAfter(k, t)'
  <2>1. ASSUME FiresAfter(k, t) PROVE FiresAfter(k, t)'
    <3>1. PICK i \in k + 1 .. n :
            toClient[i].op = "event" /\ t \in WTypes(toClient[i].type)
      BY <1>3, <2>1 DEF FiresAfter
    <3>2. i \in k + 1 .. Len(toClient') /\ toClient'[i] = toClient[i]
      BY <1>1, <1>3 DEF Sends
    <3> QED BY <3>1, <3>2 DEF FiresAfter
  <2>2. ASSUME Guarded(t) PROVE FiresAfter(k, t)'
    <3>1. ChangedAt(t)' # ChangedAt(t)
      BY <1>9, ZxidTypes DEF ZxidOrder, Changing, ChangedAt
    <3>2. t \in WTypes(e) /\ srvWatch \cap tables # {}
      BY <1>0, <2>2, <3>1
    <3>3. n + 1 \in k + 1 .. Len(toClient') /\ n + 1 \in n + 1 .. Len(toClient')
      BY <1>4, <3>2
    <3>4. toClient'[n + 1].op = "event" /\ toClient'[n + 1].type = e
      BY <1>5, <3>3 DEF IsReply
    <3> QED BY <3>2, <3>3, <3>4 DEF FiresAfter
  <2>3. FiresAfter(k, t)'
    BY <1>9, <2>1, <2>2
  <2> QED BY <1>1, <1>8, <1>9, <2>3, HearsFirst DEF Sends
<1>10. \A t \in Changing : ChangedAt(t) <= ChangedAt(t)' /\ ChangedAt(t)' \in Nat
  <2>1. \A t \in Changing : ChangedAt(t) \in Nat /\ ChangedAt(t) <= zxid /\ zxid \in Nat
    BY ZxidTypes DEF ZxidOrder, Changing, ChangedAt
  <2> QED BY <1>0, <2>1
<1>11. ASSUME NEW t \in Changing, NEW w \in watchers[t], ChangedAt(t)' > seen[w]
       PROVE  /\ ChangedAt(t)' > lastZxid
              /\ up => \/ HearsAfter(0, t)'
                       \/ ToBeSet(t)' /\ OldReplies(0, Len(toClient), t)'
  <2>1. CASE ChangedAt(t)' = ChangedAt(t)
    <3>1. /\ ChangedAt(t) > lastZxid
          /\ up => \/ HearsAfter(0, t)
                   \/ ToBeSet(t) /\ OldReplies(0, Len(toClient), t)
      BY <1>11, <2>1 DEF Informed
    <3>2. HearsAfter(0, t) => HearsAfter(0, t)'
      BY <1>1, <1>3, <1>10, HearsStill
    <3>3. OldReplies(0, Len(toClient), t) => OldReplies(0, Len(toClient), t)'
      BY <1>3, <1>6, <2>1 DEF OldReplies, IsReply
    <3> QED BY <1>7, <2>1, <3>1, <3>2, <3>3
  <2>2. CASE ChangedAt(t)' = zxid + 1
    <3>1. ChangedAt(t)' > lastZxid
      BY <2>2, ZxidTypes DEF ZxidOrder
    <3>2. up => Guarded(t) \/ FiresAfter(0, t) \/ ToBeSet(t)
      BY <1>11 DEF WatchesInv, Covered, WatchedTypes, Changing, Types
    <3> QED BY <1>3, <1>7, <1>8, <1>9, <2>2, <3>1, <3>2
  <2> QED BY <1>0, <2>1, <2>2
<1>12. ASSUME NEW i \in 1 .. Len(toClient'), NEW t \in Changing,
              Promises(toClient'[i], t), ChangedAt(t)' > toClient'[i].zxid
       PROVE  HearsAfter(i, t)'
  <2>1. i \in 1 .. n /\ toClient'[i] = toClient[i]
    BY <1>6, <1>12 DEF Promises, IsReply
  <2>2. Promises(toClient[i], t)
    BY <1>12, <2>1
  <2>3. CASE ChangedAt(t)' = ChangedAt(t)
    <3>1. HearsAfter(i, t)
      BY <1>3, <1>12, <2>1, <2>2, <2>3 DEF Informed
    <3> QED BY <1>1, <1>3, <1>10, <2>1, <3>1, HearsStill
  <2>4. CASE ChangedAt(t)' = zxid + 1
    <3>1. up
      BY <1>3, <2>1 DEF WatchesInv, LinkState
    <3>2. Guarded(t) \/ FiresAfter(i, t)
      BY <1>3, <2>1, <2>2, <3>1 DEF WatchesInv, Covered, Changing, Types
    <3> QED BY <1>9, <2>1, <2>4, <3>2
  <2> QED BY <1>0, <2>3, <2>4
<1> QED BY <1>2, <1>11, <1>12 DEF Informed, Promises, WatcherType

\* What the packet that sets the last watch again asks for.
LEMMA SetNow ==
  ASSUME WatchesInv, Serve, NEW t, ToBeSet(t), ~ToBeSet(t)',
         NEW r, r = Head(sendChan)
  PROVE  /\ ServeSetWatches(r) /\ r \in SetRequests /\ t \in r.types
         /\ \E b \in 1 .. Len(reqs[breaks]) : r.rel = reqs[breaks][b].rel
<1>1. /\ sendChan \in Seq(Requests) /\ sendChan # <<>> /\ Once(sendChan)
      /\ sendChan' = Tail(sendChan)
      /\ UNCHANGED <<sw, toVisit, reqs, asking, breaks>>
  BY DEF WatchesInv, QueueType, QueuesOnce, Serve, setVars
<1>2. ConnsIn(sendChan') = ConnsIn(sendChan) \ ConnOf(r)
  BY <1>1, TailOnce
<1>3. PICK i \in 1 .. Len(reqs[breaks]) :
           /\ t \in reqs[breaks][i].types
           /\ i > 1 \/ breaks \notin asking \/ breaks \in ConnsIn(sendChan)
  BY <1>1 DEF ToBeSet
<1>4. ~(i > 1) /\ breaks \in asking /\ breaks \in ConnOf(r)
  BY <1>1, <1>2, <1>3 DEF ToBeSet
<1>5. r.op = "setWatches" /\ r.conn = breaks
  BY <1>4 DEF ConnOf
<1>6. r = sendChan[1] /\ 1 \in 1 .. Len(sendChan) /\ r \in Requests
  BY <1>1
<1>7. r.types = Head(reqs[breaks]).types /\ r.rel = Head(reqs[breaks]).rel
  BY <1>5, <1>6 DEF WatchesInv, GoroutineState
<1>8. reqs[breaks] \in Seq(Batch) /\ reqs[breaks] # <<>>
  BY <1>4, ZxidTypes DEF WatchesInv, GoroutineState
<1>9. i = 1 /\ Head(reqs[breaks]) = reqs[breaks][1]
  BY <1>4, <1>8
<1>10. ServeSetWatches(r)
  BY <1>5 DEF Serve
<1> QED BY <1>3, <1>5, <1>6, <1>7, <1>9, <1>10 DEF Requests, SetRequests, WatchRequests

\* A watch is not set again silently when its node has changed since rel.
LEMMA ChangeNotSilent ==
  ASSUME NEW r \in SetRequests, NEW t \in Changing, ChangedAt(t) > r.rel, exists
  PROVE  Table(t) \notin SetAgain(r)
<1> SUFFICES ASSUME NEW u \in Types, Missed(u, r.rel) = <<>>, Table(u) = Table(t)
             PROVE  FALSE
  BY DEF SetAgain, SetRequests
<1>1. u # "exist"
  <2>1. ASSUME u = "exist" PROVE Missed(u, r.rel) = <<Event("created")>>
    BY <2>1 DEF Missed
  <2> QED BY <2>1
<1>2. u = t
  BY <1>1 DEF Table, Types, Changing
<1>3. CASE t = "data"
  <2>1. Missed(u, r.rel) = <<Event("changed")>>
    BY <1>2, <1>3 DEF Missed, ChangedAt
  <2> QED BY <2>1
<1>4. CASE t = "child"
  <2>1. Missed(u, r.rel) = <<Event("children")>>
    BY <1>2, <1>4 DEF Missed, ChangedAt
  <2> QED BY <2>1
<1> QED BY <1>3, <1>4 DEF Changing

\* The packet that sets a watch again is answered with the event it has missed,
\* ahead of the reply.
LEMMA HearsNow ==
  ASSUME WatchesInv, ZxidOrder, Serve, NEW t \in Changing, ToBeSet(t), ~ToBeSet(t)',
         ChangedAt(t) > lastZxid, OldReplies(0, Len(toClient), t)
  PROVE  HearsAfter(0, t)'
<1>1. PICK r : r = Head(sendChan)
  OBVIOUS
<1>2. /\ ServeSetWatches(r) /\ r \in SetRequests /\ t \in r.types
      /\ \E b \in 1 .. Len(reqs[breaks]) : r.rel = reqs[breaks][b].rel
  BY <1>1, SetNow
<1>3. ChangedAt(t) > r.rel
  BY <1>2, ZxidTypes DEF ZxidOrder
<1>4. TypeOK /\ QueueType
  BY DEF WatchesInv
<1>5. PICK evs \in Seq(EventMsgs) :
           /\ Sent(evs, SetReply(r))
           /\ \A u \in Types : u \in r.types =>
                \/ Fires(evs, u)
                \/ Table(u) \in SetAgain(r) /\ (u = "exist" <=> ~exists)
  BY <1>2, <1>4, SetWatchesAnswered
<1>6. Fires(evs, t)
  <2>1. t \in Types /\ t # "exist"
    BY DEF Changing, Types
  <2> QED BY <1>2, <1>3, <1>5, <2>1, ChangeNotSilent
<1>7. PICK n \in Nat, k \in Nat : n = Len(toClient) /\ k = Len(evs)
  BY ZxidTypes
<1>8. SetReply(r) \in Messages
  BY <1>2, <1>4 DEF SetReply, Messages, SetReplies, SetRequests, TypeOK
<1>9. /\ Len(toClient') = n + k + 1
      /\ \A i \in 1 .. n : toClient'[i] = toClient[i]
      /\ \A i \in 1 .. k : toClient'[n + i] = evs[i]
  BY <1>4, <1>5, <1>7, <1>8, SentAt
<1>10. \A i \in 1 .. k : evs[i].op = "event"
  <2>1. \A i \in 1 .. k : evs[i] \in EventMsgs
    BY <1>7, ElementOfSeq
  <2> QED BY <2>1 DEF EventMsgs
<1>11. PICK i \in 1 .. k : t \in WTypes(evs[i].type)
  BY <1>6, <1>7 DEF Fires
<1>12. ASSUME NEW j \in 0 + 1 .. (n + i) - 1, IsReply(toClient'[j])
       PROVE  toClient'[j].zxid < ChangedAt(t)
  <2>1. CASE j \in 1 .. n
    BY <1>7, <1>9, <1>12, <2>1 DEF OldReplies
  <2>2. CASE j \notin 1 .. n
    <3>1. j - n \in 1 .. k /\ n + (j - n) = j
      BY <2>2
    <3>2. toClient'[j] = evs[j - n]
      BY <1>9, <3>1
    <3> QED BY <1>10, <1>12, <3>1, <3>2 DEF IsReply
  <2> QED BY <2>1, <2>2
<1>13. ChangedAt(t)' = ChangedAt(t)
  BY DEF Serve, serverVars, ChangedAt
<1>14. OldReplies(0, (n + i) - 1, t)'
  BY <1>12, <1>13 DEF OldReplies, IsReply
<1>15. /\ n + i \in 0 + 1 .. Len(toClient') /\ toClient'[n + i].op = "event"
       /\ t \in WTypes(toClient'[n + i].type)
  BY <1>9, <1>10, <1>11
<1> QED BY <1>14, <1>15 DEF HearsAfter

LEMMA InformedServe ==
  ASSUME WatchesInv, ZxidOrder, Informed, Serve, WatchesFirst
  PROVE  Informed'
<1>1. Sends
  BY ServeSends
<1>2. /\ UNCHANGED <<watchers, seen, lastZxid, up, mzxid, pzxid>> /\ up
  BY DEF Serve, serverVars, clientVars
<1>3. \A t \in Changing : ChangedAt(t)' = ChangedAt(t) /\ ChangedAt(t) \in Nat
  BY <1>2, ZxidTypes DEF ChangedAt
<1>4. PICK n \in Nat : n = Len(toClient)
  BY ZxidTypes
<1>5. ASSUME NEW t \in Changing, NEW w \in watchers[t], ChangedAt(t) > seen[w]
      PROVE  ChangedAt(t) > lastZxid /\ HearsAfter(0, t)'
  <2>1. /\ ChangedAt(t) > lastZxid
        /\ \/ HearsAfter(0, t)
           \/ ToBeSet(t) /\ OldReplies(0, Len(toClient), t)
    BY <1>2, <1>5 DEF Informed
  <2>2. CASE HearsAfter(0, t)
    BY <1>1, <1>3, <1>4, <2>1, <2>2, HearsStill
  <2>3. CASE ToBeSet(t) /\ OldReplies(0, Len(toClient), t)
    <3>1. t \in WatchedTypes
      BY <1>5 DEF WatchedTypes, Changing, Types
    <3>2. ~ToBeSet(t)'
      BY <3>1 DEF WatchesFirst
    <3> QED BY <2>1, <2>3, <3>2, HearsNow
  <2> QED BY <2>1, <2>2, <2>3
<1>6. ASSUME NEW i \in 1 .. Len(toClient'), NEW t \in Changing,
             Promises(toClient'[i], t), ChangedAt(t) > toClient'[i].zxid
      PROVE  HearsAfter(i, t)'
  <2>1. CASE i \in 1 .. n
    <3>1. HearsAfter(i, t)
      BY <1>1, <1>4, <1>6, <2>1 DEF Sends, Informed
    <3> QED BY <1>1, <1>3, <1>4, <2>1, <3>1, HearsStill
  <2>2. CASE i \in n + 1 .. Len(toClient')
    <3>1. toClient'[i].zxid = zxid
      BY <1>1, <1>4, <1>6, <2>2 DEF Sends, Promises, IsReply
    <3> QED BY <1>6, <3>1, ZxidTypes DEF ZxidOrder, Changing, ChangedAt
  <2> QED BY <1>1, <1>4, <2>1, <2>2 DEF Sends
<1> QED BY <1>2, <1>3, <1>5, <1>6 DEF Informed, Promises, WatcherType

\* The header of a reply does not take lastZxid past a change that a watcher has
\* still to hear of.
LEMMA InformedHeader ==
  ASSUME WatchesInv, Informed, RecvHeader
  PROVE  Informed'
<1>1. /\ 1 \in 1 .. Len(toClient) /\ 1 \in 0 + 1 .. Len(toClient)
      /\ toClient[1].op # "event" /\ IsReply(toClient[1]) /\ up
      /\ lastZxid' = toClient[1].zxid
      /\ UNCHANGED <<mzxid, pzxid, toClient, watchers, seen, up, sw, toVisit, reqs,
                     asking, sendChan, breaks>>
  BY HeaderChanges DEF WatchesInv, IsReply, serverVars, setVars
<1>2. /\ \A t : ChangedAt(t)' = ChangedAt(t)
      /\ \A t : ToBeSet(t) => ToBeSet(t)'
  BY <1>1 DEF ChangedAt, ToBeSet
<1>3. \A n, k, t : OldReplies(n, k, t) => OldReplies(n, k, t)'
  BY <1>1, <1>2 DEF OldReplies
<1>4. \A n, t : HearsAfter(n, t) => HearsAfter(n, t)'
  BY <1>1, <1>3 DEF HearsAfter
<1>5. ASSUME NEW t \in Changing, HearsAfter(0, t)
      PROVE  toClient[1].zxid < ChangedAt(t)
  <2>1. PICK i \in 0 + 1 .. Len(toClient) :
          toClient[i].op = "event" /\ OldReplies(0, i - 1, t)
    BY <1>5 DEF HearsAfter
  <2>2. i # 1
    BY <1>1, <2>1
  <2>3. 1 \in 0 + 1 .. i - 1
    BY <2>2, ZxidTypes
  <2> QED BY <1>1, <2>1, <2>3 DEF OldReplies
<1>6. ASSUME NEW t \in Changing, OldReplies(0, Len(toClient), t)
      PROVE  toClient[1].zxid < ChangedAt(t)
  BY <1>1, <1>6 DEF OldReplies
<1>7. ASSUME NEW t \in Changing, NEW w \in watchers[t], ChangedAt(t) > seen[w]
      PROVE  /\ ChangedAt(t) > lastZxid'
             /\ \/ HearsAfter(0, t)'
                \/ ToBeSet(t)' /\ OldReplies(0, Len(toClient), t)'
  <2>1. HearsAfter(0, t) \/ (ToBeSet(t) /\ OldReplies(0, Len(toClient), t))
    BY <1>1, <1>7 DEF Informed
  <2>2. toClient[1].zxid < ChangedAt(t)
    BY <1>5, <1>6, <2>1
  <2>3. toClient[1].zxid \in Nat /\ ChangedAt(t) \in Nat
    BY <1>1, ZxidTypes
  <2> QED BY <1>1, <1>2, <1>3, <1>4, <2>1, <2>2, <2>3
<1> QED BY <1>1, <1>2, <1>4, <1>7 DEF Informed, Promises, WatcherType

\* A message is received: a reply does not take lastZxid past a change that a
\* watcher has still to hear of.
LEMMA InformedRecv ==
  ASSUME WatchesInv, ZxidOrder, Informed, Recv
  PROVE  Informed'
<1> DEFINE m == Head(toClient)
<1>1. /\ toClient # <<>> /\ toClient' = Tail(toClient) /\ m = toClient[1] /\ up
      /\ UNCHANGED <<mzxid, pzxid, up>>
  BY ZxidTypes DEF Recv, serverVars
<1>2. /\ Len(toClient') \in Nat /\ Len(toClient) = Len(toClient') + 1
      /\ \A i \in 1 .. Len(toClient') : toClient'[i] = toClient[i + 1]
      /\ 1 \in 0 + 1 .. Len(toClient) /\ 1 \in 1 .. Len(toClient)
  BY <1>1, ZxidTypes
<1>3. \A t \in Changing : ChangedAt(t)' = ChangedAt(t) /\ ChangedAt(t) \in Nat
  BY <1>1, ZxidTypes DEF ChangedAt
<1>4. m \in Messages /\ (IsReply(m) => m.zxid \in Nat)
  BY <1>1, <1>2, ZxidTypes
<1> HIDE DEF m
<1>5. ASSUME NEW n \in Nat, NEW k \in Nat, NEW t \in Changing, OldReplies(n, k, t),
             NEW l \in Nat, l + 1 >= n, NEW h \in Nat, h + 1 <= k,
             h <= Len(toClient')
      PROVE  OldReplies(l, h, t)'
  <2>1. ASSUME NEW j \in l + 1 .. h, IsReply(toClient'[j])
        PROVE  toClient'[j].zxid < ChangedAt(t)
    <3>1. j + 1 \in n + 1 .. k /\ toClient'[j] = toClient[j + 1]
      BY <1>2, <1>5
    <3> QED BY <1>5, <2>1, <3>1 DEF OldReplies
  <2> QED BY <1>3, <2>1 DEF OldReplies, IsReply
<1>6. ASSUME NEW n \in Nat, NEW t \in Changing, HearsAfter(n + 1, t)
      PROVE  HearsAfter(n, t)'
  <2>1. PICK i \in (n + 1) + 1 .. Len(toClient) :
          /\ toClient[i].op = "event" /\ t \in WTypes(toClient[i].type)
          /\ OldReplies(n + 1, i - 1, t)
    BY <1>6 DEF HearsAfter
  <2>2. /\ i - 1 \in n + 1 .. Len(toClient') /\ toClient'[i - 1] = toClient[i]
        /\ i - 1 \in Nat /\ (i - 1) - 1 \in Nat /\ ((i - 1) - 1) + 1 <= i - 1
        /\ (i - 1) - 1 <= Len(toClient') /\ n + 1 \in Nat
    BY <1>2
  <2>3. OldReplies(n, (i - 1) - 1, t)'
    BY <1>5, <2>1, <2>2
  <2> QED BY <2>1, <2>2, <2>3 DEF HearsAfter
<1>7. ASSUME NEW t \in Changing, HearsAfter(0, t),
             ~(m.op = "event" /\ t \in WTypes(m.type))
      PROVE  HearsAfter(0, t)' /\ (IsReply(m) => m.zxid < ChangedAt(t))
  <2>1. PICK i \in 0 + 1 .. Len(toClient) :
          /\ toClient[i].op = "event" /\ t \in WTypes(toClient[i].type)
          /\ OldReplies(0, i - 1, t)
    BY <1>7 DEF HearsAfter
  <2>2. i # 1
    BY <1>1, <1>7, <2>1
  <2>3. /\ i - 1 \in 0 + 1 .. Len(toClient') /\ toClient'[i - 1] = toClient[i]
        /\ i - 1 \in Nat /\ (i - 1) - 1 \in Nat /\ ((i - 1) - 1) + 1 <= i - 1
        /\ (i - 1) - 1 <= Len(toClient') /\ 0 + 1 >= 0 /\ 1 \in 0 + 1 .. i - 1
    BY <1>2, <2>2
  <2>4. OldReplies(0, (i - 1) - 1, t)'
    BY <1>5, <2>1, <2>3
  <2>5. IsReply(m) => m.zxid < ChangedAt(t)
    BY <1>1, <2>1, <2>3 DEF OldReplies
  <2> QED BY <2>1, <2>3, <2>4, <2>5 DEF HearsAfter
<1>8. ASSUME NEW t \in Changing, OldReplies(0, Len(toClient), t)
      PROVE  /\ OldReplies(0, Len(toClient), t)'
             /\ IsReply(m) => m.zxid < ChangedAt(t)
  <2>1. OldReplies(0, Len(toClient), t)'
    BY <1>2, <1>5, <1>8
  <2> QED BY <1>1, <1>2, <1>8, <2>1 DEF OldReplies
<1>9. \A t : ToBeSet(t) => ToBeSet(t)'
  BY RecvToBeSet DEF WatchesInv, BookInv
<1>10. ASSUME NEW t \in Changing, NEW w \in watchers[t], ChangedAt(t) > seen[w],
              ~(m.op = "event" /\ t \in WTypes(m.type))
       PROVE  /\ HearsAfter(0, t)' \/ (ToBeSet(t)' /\ OldReplies(0, Len(toClient), t)')
              /\ IsReply(m) => m.zxid < ChangedAt(t)
              /\ lastZxid < ChangedAt(t)
  <2>1. /\ ChangedAt(t) > lastZxid
        /\ HearsAfter(0, t) \/ (ToBeSet(t) /\ OldReplies(0, Len(toClient), t))
    BY <1>1, <1>10 DEF Informed
  <2> QED BY <1>3, <1>7, <1>8, <1>9, <1>10, <2>1, ZxidTypes
<1>11. Changing \subseteq Types /\ TypeOK /\ WatchesInv
  BY DEF Changing, Types, WatchesInv
<1>12. ASSUME NEW t \in Changing, NEW w \in watchers'[t], ChangedAt(t) > seen'[w]
       PROVE  /\ HearsAfter(0, t)' \/ (ToBeSet(t)' /\ OldReplies(0, Len(toClient), t)')
              /\ ChangedAt(t) > lastZxid'
  <2>1. CASE RecvEvent(m)
    <3>1. m.op = "event" /\ watchers' = WatchersAfter(m.type) /\ UNCHANGED <<seen, lastZxid>>
      BY <2>1 DEF RecvEvent, Recv
    <3>2. t \notin WTypes(m.type) /\ w \in watchers[t]
      BY <1>11, <1>12, <3>1 DEF WatchersAfter
    <3> QED BY <1>3, <1>10, <1>12, <3>1, <3>2, ZxidTypes
  <2>2. CASE RecvSetWatches(m)
    <3>1. /\ m.op = "setWatches" /\ UNCHANGED <<watchers, seen>> /\ lastZxid' = m.zxid
      BY <2>2 DEF RecvSetWatches, HeaderRead, Recv
    <3> QED BY <1>3, <1>4, <1>10, <1>12, <3>1 DEF IsReply
  <2>3. CASE RecvWatch(m)
    <3>1. m.op = "watch" /\ lastZxid' = m.zxid /\ m.call \in Calls
      BY <1>4, <2>3 DEF RecvWatch, HeaderRead, Recv, Messages, EventMsgs,
                        WatchReplies, SetReplies
    <3>2. CASE w \in watchers[t] /\ w # m.call
      <4>1. seen'[w] = seen[w]
        BY <1>11, <2>3, <3>1, <3>2 DEF RecvWatch, TypeOK
      <4> QED BY <1>3, <1>4, <1>10, <1>12, <3>1, <3>2, <4>1 DEF IsReply
    <3>3. m.call \notin watchers[t]
      <4>1. ch[m.call] = "asked"
        BY <1>1, <1>2, <3>1 DEF WatchesInv, CallsWait, CallsIn
      <4> QED BY <1>11, <3>1, <4>1 DEF WatchesInv, OneEventPerChannel
    <3>4. CASE w = m.call
      <4>1. Promises(m, t) /\ seen'[w] = m.zxid
        BY <1>11, <1>12, <2>3, <3>1, <3>3, <3>4 DEF RecvWatch, Promises, TypeOK
      <4>2. HearsAfter(1, t)
        BY <1>1, <1>2, <1>12, <4>1 DEF Informed
      <4>3. 0 \in Nat /\ 0 + 1 = 1
        OBVIOUS
      <4>4. HearsAfter(0, t)'
        BY <1>6, <4>2, <4>3
      <4> QED BY <1>12, <3>1, <4>1, <4>4
    <3>5. w \in watchers[t] \/ w = m.call
      BY <1>11, <1>12, <2>3 DEF RecvWatch, TypeOK
    <3> QED BY <3>2, <3>3, <3>4, <3>5
  <2> QED BY <2>1, <2>2, <2>3 DEF Recv, m
<1>13. ASSUME NEW i \in 1 .. Len(toClient'), NEW t \in Changing,
              Promises(toClient'[i], t), ChangedAt(t) > toClient'[i].zxid
       PROVE  HearsAfter(i, t)'
  <2>1. i + 1 \in 1 .. Len(toClient) /\ toClient'[i] = toClient[i + 1] /\ i \in Nat
    BY <1>2
  <2>2. HearsAfter(i + 1, t)
    BY <1>13, <2>1 DEF Informed
  <2> QED BY <1>6, <2>1, <2>2
<1> QED BY <1>1, <1>3, <1>12, <1>13 DEF Informed, Promises, WatcherType

LEMMA InformedRest ==
  ASSUME WatchesInv, ZxidOrder, Informed,
         Request \/ Break \/ NoServer \/ Reconnect \/ Expired \/ Exit \/ UNCHANGED vars
  PROVE  Informed'
<1>0. Changing \subseteq Types
  BY DEF Changing, Types
<1>1. ASSUME UNCHANGED <<mzxid, pzxid, toClient, watchers, seen, lastZxid>>,
             \A t \in WatchedTypes : up' /\ ToBeSet(t) => ToBeSet(t)',
             up' => up
      PROVE  Informed'
  <2>1. \A t : ChangedAt(t)' = ChangedAt(t)
    BY <1>1 DEF ChangedAt
  <2>2. \A n, k, t : OldReplies(n, k, t) => OldReplies(n, k, t)'
    BY <1>1, <2>1 DEF OldReplies
  <2>3. \A n, t : HearsAfter(n, t) => HearsAfter(n, t)'
    BY <1>1, <2>2 DEF HearsAfter
  <2>4. ASSUME NEW t \in Changing, NEW w \in watchers[t], ChangedAt(t) > seen[w]
        PROVE  /\ ChangedAt(t) > lastZxid
               /\ up' => \/ HearsAfter(0, t)'
                         \/ ToBeSet(t)' /\ OldReplies(0, Len(toClient), t)'
    <3>1. t \in WatchedTypes
      BY <1>0, <2>4 DEF WatchedTypes
    <3> QED BY <1>1, <2>2, <2>3, <2>4, <3>1 DEF Informed
  <2> QED BY <1>1, <2>1, <2>3, <2>4 DEF Informed, Promises, WatcherType
<1>2. CASE Request
  <2>1. UNCHANGED <<mzxid, pzxid, toClient, watchers, seen, lastZxid, up>>
    BY <1>2, RequestChanges DEF serverVars
  <2>2. \A t \in WatchedTypes : ToBeSet(t) => ToBeSet(t)'
    BY <1>2, RequestToBeSet DEF WatchesInv, BookInv
  <2> QED BY <1>1, <2>1, <2>2
<1>3. CASE UNCHANGED vars
  BY <1>1, <1>3 DEF vars, serverVars, setVars, clientVars, ToBeSet
<1>4. CASE Break
  <2>1. /\ UNCHANGED <<mzxid, pzxid, watchers, seen, lastZxid>>
        /\ ~up' /\ toClient' = <<>>
    BY <1>4 DEF Break, serverVars
  <2> QED BY <2>1 DEF Informed, ChangedAt
<1>5. CASE NoServer
  <2>1. UNCHANGED <<mzxid, pzxid, toClient, watchers, seen, lastZxid, up>> /\ ~up
    BY <1>5 DEF NoServer, serverVars
  <2> QED BY <1>1, <2>1
<1>6. CASE Reconnect
  <2>1. /\ UNCHANGED <<mzxid, pzxid, watchers, seen, lastZxid>>
        /\ sw' = "todo" /\ toClient' = <<>>
    BY <1>6 DEF Reconnect, serverVars, clientVars, WatchesInv, LinkState
  <2>2. \A t : ToBeSet(t)'
    BY <2>1 DEF ToBeSet
  <2>3. \A t : OldReplies(0, Len(toClient), t)'
    BY <2>1 DEF OldReplies
  <2> QED BY <2>1, <2>2, <2>3 DEF Informed, ChangedAt
<1>7. CASE Expired \/ Exit
  <2>1. /\ \A t \in Types : watchers'[t] = {}
        /\ toClient' = <<>>
    BY <1>7 DEF Expired, Exit, invalidateWatches, WatchesInv, LinkState
  <2> QED BY <1>0, <2>1 DEF Informed
<1> QED BY <1>2, <1>3, <1>4, <1>5, <1>6, <1>7

\* The changes of run watches_missed are missed for one reason only: lastZxid moved
\* on, by a reply to another request or to the first of several packets, before
\* the watch was set again.  When sendSetWatches needs one packet, which is the
\* first request of its connection, no change is missed, however often
\* connections are lost and whatever is lost with them.
THEOREM NothingMissedWhenSetFirst ==
  Spec /\ [][WatchesFirst]_vars => []NoMissedChange
<1>1. Init => ZxidOrder /\ Informed
  <2> SUFFICES ASSUME Init PROVE ZxidOrder /\ Informed
    OBVIOUS
  <2>1. 0 \in Conns /\ Changing \subseteq Types
    BY DEF Conns, Changing, Types
  <2>2. ZxidOrder
    BY <2>1 DEF Init, ZxidOrder
  <2>3. Informed
    BY <2>1 DEF Init, Informed
  <2> QED BY <2>2, <2>3
<1>2. ASSUME WatchesInv, WatchesInv', ZxidOrder, Informed, [Next]_vars,
             [WatchesFirst]_vars
      PROVE  ZxidOrder' /\ Informed'
  <2>1. ZxidOrder'
    BY <1>2, ZxidStep
  <2> SUFFICES Informed'
    BY <2>1
  <2>2. CASE Serve
    <3>1. CASE WatchesFirst
      BY <1>2, <2>2, <3>1, InformedServe
    <3>2. CASE UNCHANGED vars
      BY <1>2, <3>2, InformedRest
    <3> QED BY <1>2, <3>1, <3>2
  <2>3. CASE Recv
    BY <1>2, <2>3, InformedRecv
  <2>4. CASE Create \/ Delete \/ SetData \/ ChangeChildren
    BY <1>2, <2>4, InformedChange
  <2>5. CASE \/ Request \/ Break \/ NoServer \/ Reconnect \/ Expired \/ Exit
             \/ UNCHANGED vars
    BY <1>2, <2>5, InformedRest
  <2>6. CASE RecvHeader
    BY <1>2, <2>6, InformedHeader
  <2> QED BY <1>2, <2>2, <2>3, <2>4, <2>5, <2>6 DEF Next, Request
<1>3. WatchesInv /\ Informed => NoMissedChange
  <2> SUFFICES ASSUME WatchesInv, Informed, Settled,
                      NEW t \in Changing, NEW w \in watchers[t], ~(ChangedAt(t) <= seen[w])
               PROVE  FALSE
    BY DEF NoMissedChange, Changing, ChangedAt
  <2>1. w \in Calls
    BY ZxidTypes DEF Changing, Types
  <2>2. ChangedAt(t) > seen[w]
    BY <2>1, ZxidTypes
  <2>3. ~ToBeSet(t) /\ ~HearsAfter(0, t)
    BY DEF Settled, ToBeSet, HearsAfter
  <2> QED BY <2>2, <2>3 DEF Informed, Settled
<1> QED BY <1>1, <1>2, <1>3, WatchesInvariant, PTL DEF Spec

=============================================================================
