---------------------------- MODULE HostProvider ----------------------------
(***************************************************************************)
(* DNSHostProvider (zk/dnshostprovider.go): the rotation through the       *)
(* resolved server addresses.  Connect() calls Init once, the connection   *)
(* loop calls Next before every dial and Connected after every successful  *)
(* session handshake.                                                      *)
(*                                                                         *)
(* hp.servers is shuffled once, in Init, and never changes afterwards; a   *)
(* server is therefore represented by its position 0 .. NumServers-1 in    *)
(* the shuffled slice.  Every method holds hp.mu for its whole body, so    *)
(* each one is a single step.                                              *)
(***************************************************************************)
EXTENDS Integers

CONSTANT NumServers     \* len(hp.servers)

\* Init returns an error when no address was found, so Next and Connected
\* only ever run with at least one server.
ASSUME NumServersAssumption == NumServers \in Nat \ {0}

VARIABLES
  curr,         \* hp.curr: position handed out last, -1 before the first Next
  last,         \* hp.last: position of the last good server, -1 at first
  retryStart,   \* the second result of the most recent Next
  handedOut,    \* history: positions returned by Next since the last Connected
  streak        \* history: calls of Next since the last Connected or retryStart

hpVars == <<curr, last, retryStart, handedOut, streak>>

Servers == 0 .. NumServers - 1

TypeOK ==
  /\ curr \in {-1} \cup Servers
  /\ last \in {-1} \cup Servers
  /\ retryStart \in BOOLEAN
  /\ handedOut \subseteq Servers
  /\ streak \in Nat

-----------------------------------------------------------------------------

Init ==
  /\ curr = -1
  /\ last = -1
  /\ retryStart = FALSE
  /\ handedOut = {}
  /\ streak = 0

\* The position Next moves to.
Following == (curr + 1) % NumServers

\* A plausible slip: hp.last is left at -1 by Next, so that nothing is ever
\* recognised as the end of a round until a connection has succeeded once.
LastNeverSet == last

\* hp.last after Next: the first call makes position 0 the reference point.
LastAfterNext == IF last = -1 THEN 0 ELSE last

\* A plausible slip: the comparison is made after hp.last got its new value.
ComparedAfterUpdate(pos) == pos = LastAfterNext

\* The retryStart result for a move to position pos.
RetryStartAt(pos) == pos = last

NextServer ==
  /\ curr' = Following
  /\ retryStart' = RetryStartAt(Following)
  /\ last' = LastAfterNext
  /\ handedOut' = handedOut \cup {Following}
  /\ streak' = IF RetryStartAt(Following) THEN 0 ELSE streak + 1

\* Connected is only called for a server that Next has handed out.
Connected ==
  /\ curr # -1
  /\ last' = curr
  /\ handedOut' = {}
  /\ streak' = 0
  /\ UNCHANGED <<curr, retryStart>>

Next == NextServer \/ Connected

Spec == Init /\ [][Next]_hpVars

-----------------------------------------------------------------------------
(* Properties. *)

\* Next reports retryStart only when a whole round is complete: every server
\* has been handed out since the last call of Connected (connect() answers
\* all unsent requests with ErrNoServer and sleeps on that signal).
RetryStartAfterFullRound ==
  [][NextServer /\ retryStart' => handedOut' = Servers]_hpVars

\* Next never lets the connection loop go through more than NumServers dials
\* in a row without a retryStart: while servers cannot be dialled, connect()
\* pauses and looks at shouldQuit nowhere else, so a round that is never
\* recognised is a busy loop that Close cannot stop.
RoundIsBounded == streak <= NumServers

-----------------------------------------------------------------------------
(* The inductive invariant behind both. *)

\* How many positions curr is ahead of last, going round.
Distance == IF curr >= last THEN curr - last ELSE curr - last + NumServers

\* The positions after last, up to and including curr, going round.
Passed ==
  IF curr >= last
    THEN {s \in Servers : last < s /\ s <= curr}
    ELSE {s \in Servers : last < s \/ s <= curr}

RotationInv ==
  /\ TypeOK
  /\ curr = -1 <=> last = -1
  /\ curr = -1 => streak = 0
  /\ curr # -1 => Passed \subseteq handedOut /\ streak <= Distance + 1

=============================================================================
