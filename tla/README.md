# A TLA+ model of go-zookeeper

go-zookeeper (`src/zk`) is a ZooKeeper client for Go. A `Conn` keeps one session
with a pool of servers: it reconnects on its own, multiplexes the calls of any
number of goroutines over one TCP connection, resubmits credentials and watches
after a reconnect, and carries a lock recipe on top. This directory models the
parts of it where goroutines, failures and time-outs meet, and the calls that travel
between them, checks the models with
TLC and proves theorems about them with TLAPS.

## 1. Inventory

| Component | State | Operations | What makes it correct |
|---|---|---|---|
| `DNSHostProvider` (`dnshostprovider.go`) | `servers`, `curr`, `last` | `Init`, `Next`, `Connected`, `Len` | a full round without a connection is signalled, neither early nor late |
| connection loop (`conn.go`: `loop`, `connect`, `authenticate`, `resendZkAuth`, `flushRequests`, `flushUnsentRequests`) | `state`, `conn`, `closeChan`, `creds`, session | one goroutine for the life of the `Conn` | connections do not mix; pending requests are answered; it ends after `Close` |
| request pipeline (`queueRequest`, `request`, `sendLoop`, `sendData`, `recvLoop`) | `sendChan`, `requests`, one `recvChan` per request, `buf` | two goroutines per connection, one per caller | no request is lost, sent twice or answered falsely; nobody blocks for ever |
| `AddAuth` | `creds` | append after success; resubmission by the loop | a credential that was accepted stays in force |
| `Close` | `shouldQuit` | close the channel, send a close request, wait a second | the loop ends, everybody is answered |
| watches (`GetW`, `ExistsW`, `ChildrenW`, `addWatcher`, `sendSetWatches`, `invalidateWatches`, events in `recvLoop`) | `watchers`, `lastZxid` | set, fire, restore, invalidate | one event per channel; no watch and no change is lost over a reconnect |
| `CreateProtectedEphemeralSequential` | (local) | create, look for the node after a lost connection, retry | one node per call |
| lock recipe (`lock.go`) | `lockPath`, `seq`; the lock nodes at the server | `Lock`, `Unlock` | mutual exclusion; `Lock` returns |
| session (`connect`, `authenticate`) | `sessionID`, `passwd`, `lastZxid`, `conn` | dial, handshake, expiry | a session is kept as long as the servers keep it; the client never goes back in time within it; sockets are closed |
| session events (`setState`, `sendEvent`) | `eventChan` with six slots | | a reader that keeps up knows the state and every expiry |
| API methods (`Get`, `Set`, `Create`, `Multi`, ...) | none | check the path, fill in a request, make a result of the reply | the server gets what was asked, the caller what was replied |
| codec (`structs.go`) | the buffers `buf` | `encodePacket`, `decodePacket`, multi framing | what is decoded is what was encoded; a short buffer is an error |
| `validatePath` (`util.go`) | none | | it accepts exactly the valid paths |
| four letter words (`flw.go`) | none | `FLWSrvr`, `FLWRuok`, `FLWCons` | a server in trouble is reported, and no other |
| ACL helpers, shuffle, names of constants, example | none | | |

How they interact. Callers put requests into `sendChan` and wait, without a
time-out, on the request's `recvChan`. The send loop moves a request into the
pending map and then onto the wire; the receive loop matches replies with the map.
When either loop fails it makes the other one stop (`conn.Close()` in one
direction, `closeChan` in the other), and the connection loop, after `wg.Wait()`,
answers what is left in the map and connects again, taking the next server from the
host provider. Before the send loop may touch the new connection, `resendZkAuth`
sends the remembered credentials from the loop's own goroutine; after that
`sendSetWatches` starts a goroutine that sends set-watches requests, one after the
other, like any user. `Close` closes
`shouldQuit`, which the loop looks at in three places.

What is hard here: a request can be in five places and every hand-over races with
the end of the connection; `recvChan` has one slot and four senders; the reply to a
request may be lost after the server has carried it out; sessions end without
notice; `lastZxid` is shared by the receive loop and `sendSetWatches`. The list of
hazards, line by line, is in `PROJECT.json`.

## 2. Plan

Done:

1. `HostProvider` with proofs (the smallest component, and used by `Conn`).
2. `Conn`: the pipeline and the life cycle together, since every property of the one
   depends on the other. It takes `HostProvider` in by `INSTANCE`.
3. `ZkLock`, which implements the abstract `Mutex`, with proofs.
4. `Watches`.
5. `ConnProofs`: type correctness and the structural invariants of `Conn`.
6. `Watches`: set-watches requests in several packets, one of which may fail, the
   end of the client, and liveness.
7. `Session`, on top of `HostProvider`: the handshake, expiry, events, sockets.
8. `Rpc`, the abstract contract of a call, which `Conn` implements.
9. `Wire`, `Paths` and `Api`: what the other modules abstract from, the contents of
   requests and replies; and `FourLetter`.
10. `ConnRequestProofs`: what becomes of a request, and that `Conn` implements `Rpc`.
11. `ZkLockProofs`: that the recipe implements `Mutex`, mutual exclusion, and what
    becomes of nodes.
12. `SessionProofs`, `WatchesProofs` and `FourLetterProofs`.
13. `PathsProofs`: `validatePath` for paths of every length.
14. For findings 1 to 5 a theorem that it has no other cause (section 5).

Beyond this plan: theorems about `Wire`, which need induction over data, and about
liveness, which need a prover for ENABLED.

## 3. Modules

`HostProvider` - a server is its position in the shuffled list. `NextServer` is
`Next`, `Connected` is `Connected`; `handedOut` and `streak` are histories.

`Conn` - the connection loop's place is `lpc`:

| `lpc` | code |
|---|---|
| `next`, `flushUnsent`, `wait`, `dial` | `connect()` |
| `auth` | `authenticate()` |
| `reauth`, `reauthReg`, `reauthWrite`, `reauthWait` | `resendZkAuth()` and the `sendData` it calls |
| `wg` | `wg.Wait()` |
| `disc`, `flush` | the end of the body of `loop()`; `flushRequests` |
| `final`, `exited` | Connect's goroutine after `loop()` has returned |

`spc` is the send loop (`waitReauth`: blocked on `reauthChan`; `select`; `reg` and
`write`: inside `sendData`; `exit`: before `conn.Close()`), `rpc` the receive loop,
`pc[r]` the goroutine that makes call `r`. A step ends where another goroutine can
see it or where the goroutine can block. `sock` is the TCP connection: `open`;
`broken` (lost, but not yet noticed by everybody: packets already received can be
read, writes succeed into the void or fail); `closed` by us. When a connection goes
down the server has received some prefix of the packets under way. A request is
named by the call that makes it, `Reauth(a)` being the request that `resendZkAuth`
makes for credential `a`; xids are not represented (2^31 requests would have to be
made while one is pending for two of them to be confused). The set-watches request
is, for this module, one more call. A server may refuse a credential, a resubmitted
one included; it then answers and hangs up (`RefuseCredential`), as ZooKeeper does,
and `resendZkAuth` ignores the error.

Left out of `Conn`: `reconnectLatch` and the debug hooks (`nil` or false outside unit
tests), logging, the packets of the handshake (three outcomes), a ping that succeeds.

`ZkLock` - each API call of a process is one step at the server together with what
the caller learns: success, an error of the server, or a lost connection after which
the server may or may not have done it. `Expire` ends a session and removes its
nodes. The number of a node is printed as a signed integer of width `SeqLimit` and
read back by `parseSeq`. `ErrClosing`, like a lost connection, leaves open
whether a create was carried out (`CreateFails`). A server's answers are up to
date: after a reconnect `Children` shows a node that was created before. A follower
that lags behind could miss it (`conn.go:1103`); the client's session keeps it from
servers behind what it has seen, but a create whose reply was lost it has not seen.
`OneNodePerCall` and what rests on it are claimed for up-to-date reads. `Holder` maps the state to that of `Mutex`: the process that
is between `Lock` and `Unlock` and whose node still exists.

`Rpc` - what a caller may rely on, without queues, connections or goroutines: a call
is carried out at most once; a reply means that it was, some errors that it was not
and will not be, and the others leave it open for ever. `CallerView` in `Conn` maps
the place of each caller's goroutine to the status of its call.

`Watches` - one znode (watches of different paths share only `lastZxid`, which every
reply moves), the server's data and child watch tables for this connection, and the
client's `watchers` map with a set of channels per type. Replies and events come in
order. `sendSetWatches` holds `watchersLock` (`sw = "building"`) while it fills
packets of at most `BatchSize` entries, each with the `lastZxid` of its moment;
`QueueBatch(k)` is the goroutine it has started on connection `k`, which sends a
packet only when the one before is answered, ends at the first error, and may
outlive its connection. `Missed` is what a server does with a watch that is set
again: it compares the node's state and zxids with the request's relative zxid.
A reply is taken in two steps: `RecvHeader` stores its zxid in `lastZxid`, without a
lock, and `Recv` does the rest, so that `sendSetWatches` may read `lastZxid` in
between. `Break` may come between the two as well, which the receive loop does not
allow; this adds behaviours and removes none. `Exit` is the return of `loop()`; `Close` itself is not a step, since nothing else
reads `shouldQuit`.

`Session` - extends `HostProvider` by the rest of `connect()` and by
`authenticate()`. An ensemble of servers that have applied different prefixes of the
transactions turns away a client that has seen more (`Behind`), keeps a session
whose password is right, opens one, or answers that the session is gone. `passwd` is
the session that the password belongs to. `told` and `expiriesTold` are what the
user has read from `eventChan`. `setState` stores the state and sends the event in one
step: `EventsTellState` speaks of the moments after. Requests, credentials and watches are left to the
other modules.

`Wire` - a struct is its list of field types, and a value its list of fields, which
is how the code's reflection sees them. Numbers have their real count of bytes, with
a smaller base `Radix`. Encoding takes the room that is left in the buffer; a slice
out of range is `ErrShortBuffer`, an index out of range (a flag at the end of a buffer)
is a panic, which neither `encodePacket` nor `decodePacket` recovers. Go bounds slices
by their capacity, so that a reply cut short in a larger receive buffer
(`conn.go:926`) may be read on into old bytes; the server of this model sends whole
replies, and this does not occur. `Paths` - `validatePath` rune by rune, and beside it
a reference that says which paths are valid: the root, and lists of names that are
neither empty nor "." nor "..", where the last name of a sequential node may be left to
the server. `Api` - one call: `Refuse`,
`sendData`, `Serve` (the server decodes what is on the wire and replies) and
`recvLoop`. Where a method returns a zero value beside an error the model has `Nil`.

`FourLetter` - `asking` holds the word and what each server would answer; a step
asks one server. Regular expressions are abstracted to what they find.

`MC*` modules and `.cfg` files - the instances. `*Proofs` modules - the theorems.

Definitions marked "A plausible slip" are not part of the model: each is the altered
form of the definition that follows it, and documents a mistake which one of the
properties would catch.

## 4. Runs

| run | result | what it shows |
|---|---|---|
| `session` | holds | sessions kept, no step back in time, sockets, events, the rotation |
| `conn_safety` | holds | the safety of the pipeline and of re-authentication; refinement of `Rpc` |
| `conn_live` | holds | calls return until `Close` |
| `conn_close_hang` | **violated** | finding 1 |
| `conn_stranded` | **violated** | finding 2 |
| `conn_auth_race` | **violated** | finding 3 |
| `lock` | holds | exclusion, refinement of `Mutex`, one node per call, no stray nodes, no herd; `Lock` returns |
| `lock_lost_node` | **violated** | finding 4 |
| `watches` | holds | one event per channel, watches restored, no missed creation or deletion, deletions heard, nobody left waiting |
| `watches_missed` | **violated** | finding 5 |
| `calls` | holds | paths judged, requests sent if they fit, requests and replies carried faithfully, four letter words |
| `short_buffer` | **violated** | finding 6 |

The properties are stated and explained at the end of each module.

### Findings

1. *A failed write hangs the connection loop* (`conn.go:786`, `578`). When a write
   fails, `sendData` answers on the request's one-slot channel and leaves the request in
   the map. Usually the caller takes the answer and the slot is free again. It is not
   when the request is that of a `Close` that has stopped waiting after its second
   (`conn.go:317`), or that of a credential whose resubmission `resendZkAuth` has given
   up (`conn.go:437`): then `flushRequests` blocks for ever with `requestsLock` held, and
   the loop does not end (`CloseEndsLoop`). Either is enough, and for the second no
   `Close` is needed: with `AllowClose = FALSE` calls hang for the same reason.
2. *Requests are stranded by Close* (`conn.go:541`). `loop()` returns without
   emptying `sendChan`.
3. *AddAuth races with a reconnect* (`conn.go:991`). The credential is remembered
   after the reply, and a reconnect in between does not resubmit it.
4. *Lock without a node* (`lock.go:113`). After a session expiry `Lock` may find
   nobody ahead of a node that does not exist any more.
5. *A watch misses a change* (`conn.go:637`, `909`). Replies on the new connection
   advance `lastZxid` before the watches are set again. Creations and deletions are
   not missed, which is what `Lock` needs (`ExistenceNeverMissed`, `DeletionHeard`).
6. *A short buffer ends the program* (`structs.go:541`, against `structs_test.go:60`).
   A request that ends in a flag (`getData`, `exists`, `getChildren2`, multi headers)
   and is one byte too long for `c.buf` panics instead of failing with
   `ErrShortBuffer`.

Met while modelling, and not kept as runs:

- `ErrNoServer` is also given when the rotation comes back to the last good server,
  before that one is tried (`conn.go:26-27` against `369`).
- `Lock` that fails after its node was created leaves the node behind
  (`lock.go:91`); a later `Lock` of the same process waits for it for ever.
  `NodesAccountedFor` counts these nodes. `Unlock` whose reply is lost leaves an
  instance that can neither lock nor unlock (`lock.go:144`).
- After 2^31 nodes `parseSeq` loses the order of the nodes and exclusion with it
  (`lock.go:38`; set `SeqLimit = 2` and `MaxNodes = 4` in `Lock.cfg` to see it).
- The socket of an expired session is never closed, only dropped (`conn.go:486`);
  `SocketsAccountedFor` counts them.
- `validatePath` accepts a first component "." ("/./x", `util.go:102`), against
  `util_test.go:30`, which holds such a component invalid elsewhere in a path.
  `PathsJudged` leaves these paths out, and theorem `ValidatePathJudges` says that they
  are the only ones on which the code is wrong.
- `CreateProtectedEphemeralSequential` for a child of the root looks for its node
  among the children of the empty path, which `Children` refuses: after a lost
  connection such a call fails with `ErrInvalidPath`, its node perhaps created
  (`conn.go:1093`, `1103`).
- `Exists` answers true together with an error other than "no node" (`conn.go:1140`).
- `FLWCons` drops the error it notes for lines that do not parse (`flw.go:233`,
  against `flw.go:151-152`; theorem `ConsErrorIsLost`), so that only the flag tells that
  some server was in trouble. `TroubleFlagged` claims nothing of these entries. It also reports a session ID above 2^63 as the
  largest int64 (`flw.go:203`).

### Bounds

- `session`: three servers, so that the rotation passes one between the last good
  server and itself, two transactions, so that servers lag, two sessions, and two
  slots for events, so that some are dropped. The loop itself is not bounded.
- `conn_safety`: two `AddAuth` calls, which are also the plain requests of the run,
  the request of `Close`, a queue of two, three servers and two failures of an
  established connection. Two failures are needed for one to happen while the
  credentials of the previous connection are resubmitted, two credentials for a
  write to a connection the first one's failure has closed; several servers for
  reconnects that do and that do not flush the queue. Dials and handshakes may
  fail any number of times. Credentials are interchangeable, hence the symmetry.
- `conn_live`: two calls, one of them too large to encode, and a queue of one, so
  that callers and `Close` block on it. There is no `AddAuth`: with one, a call can hang
  without `Close` (finding 1).
- `conn_close_hang`: one credential, one server and two failures, with which either cause of
  finding 1 can occur.
- `lock`: three processes (a holder, a waiter, and a waiter behind the waiter), three
  calls, which all three or one process again may make, four nodes, so that a repeated
  create makes one more than there are calls, two lost calls, so that the search after a
  lost create can fail as well, and one expiry. What more calls and losses may do is
  left to the theorems, which do not bound them. `LockReturns` is about the time before
  the first lost call: a failing `Lock` leaves its node behind (see above). No symmetry,
  since liveness is checked.
- `watches`: one call of each kind, two further changes, two lost connections, so
  that the packets of one connection can reach the server on the next, and packets
  of two entries, so that three need two of them.
- `calls`: `Radix = 4`, which gives an int32 the range of error codes and opcodes;
  paths of up to six runes, enough for two components of two dots; buffers of every
  size up to one byte more than a request needs; multis of four operations, one of
  each kind, that succeed or fail at each of them; two servers, one of which may
  hide the other's trouble. `short_buffer` is the same with paths of one rune.

`CHECK_DEADLOCK FALSE` where all calls may have been made and answered, and in the
lock after the last permitted call.

### Fairness

`Conn`: weak fairness for the loop, the two per-connection goroutines and each
caller, because the Go scheduler runs every runnable goroutine; for the loop as a
whole, so that no particular outcome of a dial or handshake is assumed. Weak fairness
of the server on an open connection: one that stays silent is a `RecvGivesUp` (read
deadline), which the model bounds. A handshake is taken to end one way or the other,
which the code guarantees only up to the length of the server's answer: `authenticate`
clears its deadline (`conn.go:717`) before it reads the rest (`726`), and a server that
falls silent there with its connection up would hold the loop for ever. Calling the API, `Close` and failures are not fair.
`Watches`: weak fairness of `sendSetWatches` and its goroutines, of the receive loop
and of a server on a connection that is up, and of the connection loop while there is
none, which may reconnect, find the session expired or return: it does not look for
a server for ever. Changes by others and lost connections are not fair.
`ZkLock`: weak fairness of each process's calls, and of `Unlock`: a lock is only ever
passed on if its holders release it. Nothing forces a loss or an expiry.

## 5. Proofs

Every safety property that a passing run checks is also a theorem, except the four of
`Api`; what one of these (`PathsJudged`) says of paths is. A theorem holds for every value of the constants that
satisfies the named assumptions of its module. The specifications of the
runs imply the ones the theorems are about; `calls` does so in the behaviours that
begin with a four letter word.

| module | assumptions beyond types | inductive invariant | properties proved from it |
|---|---|---|---|
| `HostProviderProofs` | there is a server | `RotationInv` | `RoundIsBounded`, `RetryStartAfterFullRound` |
| `SessionProofs` | the same | `SessionInv` | `SessionType`, `SocketsAccountedFor`, `NewSessionWelcome`, `EventsTellState`, `NeverGoesBack`, `SessionKept` |
| `ConnProofs` | how the sets of calls relate | `ConnInv` | `TypeOK`, `OneWriter`, `ConnectionsDoNotMix`, `CleanExit`, and the host provider's properties |
| `ConnRequestProofs` | the same; a resubmitted credential's request is not a user's | `RequestInv` | `NoLostRequest`, `OutcomeIsTrue`, `NeverResent`, `AnswerSlotFree`, `ReauthBeforeRequests`, `ImplementsRpc`; with invariants of their own `FlushBlocksOn`, `PendingUnderWay`, `StrandedInQueue` and, under a condition, `AuthSurvivesReconnect` |
| `ZkLockProofs` | `MaxNodes <= SeqLimit`, in each theorem but type correctness | `LockInv`, `CallInv` | `OneLiveHolder`, `MutualExclusion`, `OneNodePerCall`, `NoHerd`, `NodesAccountedFor`, `ImplementsMutex`, `NobodyStuck` |
| `WatchesProofs` | `MaxZxid > 0` (the znode starts at zxid 1) | `WatchesInv` | `TypeOK`, `OneEventPerChannel`, `NobodyLeftWaiting`, `WatchesRestored`, `ExistenceNeverMissed`; under a condition `NoMissedChange` |
| `FourLetterProofs` | errors are not nil, numbers have no sign | `FlwInv` | `TroubleFlagged`, `StatsTold`, `ConsErrorLost` |
| `PathsProofs` | none | (no state) | where `validatePath` agrees with its reference and where not |

`HostProviderProofs`. Beside the types `RotationInv` says that `curr` and `last` leave
-1 together, that all positions from `last` to `curr` have been handed out, and that
the calls since the last signal are no more than that distance plus one. The
properties do not relate the histories to `curr` and `last`, and are not inductive.

`SessionProofs`. `SessionDrivesHostProvider` shows that `Session` implements
`HostProvider`, so that the theorems about the latter hold in the connection loop.
`SessionInv` adds what the steps of the handshake leave behind for each other: on an
established connection the server has applied what the client has seen (which makes
the unconditional assignment of `lastZxid` monotonic), the password is the session's,
and without a session `lastZxid` is zero. `EventsInFlight` generalises
`EventsTellState` from an empty event channel to any: what the events in the channel
will tell, added to what has been read.

`ConnProofs`. `TypeOK` alone is not inductive: registering or writing a request, in
the send loop or in `resendZkAuth`, is well typed only if there is a request in hand,
and only an `AddAuth` call may get to remember a credential. `Structure` adds these,
that the goroutines run only while the loop is past the handshake, that the send loop
is not in `sendData` while `resendZkAuth` is, that the pending map is empty while the
loop looks for a connection, and that the state is `Disconnected` from the moment the
loop starts to flush. `ConnRotates` shows that `Conn`, like `Session`, implements
`HostProvider`, and takes its theorems over.

`ConnRequestProofs`. `RequestInv` follows a request through its places. `CallsSound`
says, for each place of the caller's goroutine, where the request may be: the places
before the wire exclude each other and a request that a server has taken is in none of
them, which is what `NeverResent` and the truth of the outcomes rest on. `SlotsFree`
says when the slot of a `recvChan` may be full; `WireInv` that nothing is on the wire
twice or without a connection; `FlushInv` that `flushRequests` never uses the error
that means "not sent"; `ReauthInv` and `AuthInv` where `resendZkAuth` is in its list of
credentials, and which of them are in force; the latter only while the connection is
open, since a server that refuses a credential has hung up. For `PipelineIsRpc` every step of
`Conn` is shown to be a step of `Rpc` or to leave every caller's view alone. The
delicate one is a server that takes packets of a connection being given up, after
their callers have been told: only calls whose outcome is open have packets there.
`PendingIsAnswerable` is what `CallsReturn` needs besides fairness: on an open
connection every request in the map is being written, on the wire, or answered by a
reply that is coming.

`ZkLockProofs`. Lemma `ParseSeqExact` (`parseSeq(n) = n`) is where overflow is
excluded. `OneLiveHolder` alone is not inductive: `LockInv` adds that all nodes are
below the counter, that what a process takes for its own node was created by it, and
that a live holder's node is the lowest. Two live holders would each have the lowest
node, hence the same, with one creator. `CallInv` adds, for each process, what its
current call has done so far: which node it has created or may have created without
knowing, and that the node it waits for is the one right before its own. For
`RecipeIsMutex` the steps that give `Holder` a new value are those of `Lock` that find
no lower node; by `LockInv` the old holder is then gone. `WaitsEndSomewhere` is what
`LockReturns` needs besides fairness: the wait-for relation has no cycle, since every
process waits for a lower node, and the owner of the lowest can go on.

`WatchesProofs`. `WatchesRestored` and `ExistenceNeverMissed` speak of settled states,
and say nothing of the way there. `Covered` does: at any moment a type that is
watched has its watch at the server, or an event on its way that will fire it, or is
in a packet that is yet to be built, queued or served; and a reply on its way that will
register a watcher is in the same position. `LinkState`, `QueuesOnce`, `CallsWait` and
`GoroutineState` say which requests and replies can be under way: each call and
each packet is in one place, and nothing remains of an old connection but goroutines
that will send their packets on the new one.

`FourLetterProofs`. `FlwInv`: the reports are those of the servers asked so far, and
the flag the verdict on these. Lemma `HalvesAreWhole` does the arithmetic of the zxid.

`PathsProofs`. `Paths` has no recursion, and the reference and the code can be compared
by cases. `Nameless(p, i)` brings the reference down to the runes behind a slash at
`i`; each of its three forms is one of the errors of the loop in `validatePath`, found
at the slash or dot that ends the component. Where the code looks at the wrong rune (the
second one) the cases differ by the one shape of `ValidatePathJudges`: a first component
"." in a path that would be valid with a name in its place (`Undotted`).
`ProtectedPathAccepted` and `ProtectedParentJudged` are about the paths a protected
create makes of one that was accepted: the one with the prefix always passes, the parent
unless it is empty, which is what the code makes of the root, or "/.".

What the findings need. For each finding but the last a theorem says which steps it takes, and
that nothing else leads there (for 1 and 2, whose property is liveness, it is the
blocked state that the theorem describes):

| finding | theorem | what it says |
|---|---|---|
| 1 | `FlushBlocksRarely` | `flushRequests` finds a full channel only for a request of `resendZkAuth`, for a `Close` that has given up, or for a caller who is about to receive |
| 2 | `StrandedByCloseOnly` | the loop returns after `Close` only, and a call without an answer is then in `sendChan` |
| 3 | `CredentialsSurvive` | `AuthSurvivesReconnect` holds in every behaviour in which no `AddAuth` is between its reply and its append when a new connection is authenticated |
| 4 | `AcquiresWithNode` | as long as no session has expired, `Lock` returns nil only with a node |
| 5 | `NothingMissedWhenSetFirst` | `NoMissedChange` holds in every behaviour in which, whenever a server has taken a request, no watch is still to be set again |

The conditions of 3 and 5 restrict steps of the specification, not constants
(`RememberedInTime`, `WatchesFirst`); reconnects with accepted credentials and with
watches to restore remain possible under them.

Model-checked only:

- liveness, since fairness and ENABLED are out of this prover's reach: `CallsReturn`,
  `LockReturns`, `DeletionHeard`;
- `SentIfItFits`, `RequestFaithful` and `ReplyFaithful`: `Wire` is recursive over the
  structure of the data, and the prover neither handles RECURSIVE operators nor does
  induction over data. `PathsJudged` itself stands in `Api`, which extends `Wire`; what
  it says about paths is proved in `PathsProofs`;
- the violated properties of the findings, which are false.

## 6. Not modelled

The ACL helpers and the shuffle, which only build values; names that are only printed;
the example. DNS look-ups. The arithmetic of time-outs (`setTimeouts`): a time-out is
a step that may be taken at any moment. Packets that a correct server does not send,
and the bytes of the handshake. The xid counter, a second `Close` (which panics), the
debug hooks. Between the modules: `Conn` treats the set-watches requests as calls
among others, `Watches` and `Session` treat the pipeline as a queue that answers or
fails, and `Api` assumes that the connection holds. One consequence is not covered: with
`WithMaxConnBufferSize` below the 128 kB of a set-watches packet, `sendData` refuses
the packet and the goroutine that restores the watches ends with no further attempt on
that connection. The server is modelled only as far as this client uses it, and
marked external in the map.
