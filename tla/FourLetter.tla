----------------------------- MODULE FourLetter -----------------------------
(***************************************************************************)
(* The four letter words (zk/flw.go): FLWSrvr, FLWRuok and FLWCons ask one *)
(* server after the other and report what each has answered.               *)
(*                                                                         *)
(* An answer is what the regular expressions find in it.  Its numbers keep *)
(* their widths: an int64 is two halves of base HalfRange (2^32 in the     *)
(* code), printed by the server as an unsigned hexadecimal number.         *)
(***************************************************************************)
EXTENDS Integers, Sequences

CONSTANTS
  Askings,      \* sets of [word, servers, answers]: the call, and what each
                \*   server has to say
  HalfRange,    \* the values of an int32
  NoError

ASSUME HalfRangeAssumption == HalfRange \in Nat \ {0} /\ HalfRange % 2 = 0

\* Fields that an answer has: an error that is one, and a number without a sign.
AnswerAssumed(word, a) ==
  \/ a.kind = "fails" /\ a.error # NoError
  \/ word = "srvr" /\ a.kind = "garbled"
  \/ word = "srvr" /\ a.kind = "stats" /\ a.buildTimeParses \in BOOLEAN /\ a.zxid \in Nat
  \/ word = "ruok" /\ a.kind \in {"imok", "short"}
  \/ word = "cons" /\ a.kind = "lines"

ASSUME AskingsAssumption ==
  /\ NoError \notin {"noMatch", "badBuildTime", "zxidTooLarge"}
  /\ \A c \in Askings :
       /\ c.word \in {"srvr", "ruok", "cons"} /\ Len(c.servers) \in Nat
       /\ \A i \in 1 .. Len(c.servers) : AnswerAssumed(c.word, c.answers[i])

VARIABLES
  asking,       \* the call
  servers,      \* the slice of addresses, which FormatServers changes in place
  reports,      \* ss, oks or sc: what has been found out so far
  imOk,
  flwStage      \* "none", "called", "asking", "returned"

flwVars == <<asking, servers, reports, imOk, flwStage>>

FlwInit ==
  /\ asking \in Askings
  /\ servers = asking.servers
  /\ reports = <<>> /\ imOk = TRUE /\ flwStage = "called"

-----------------------------------------------------------------------------
(* Addresses and numbers. *)

DefaultPort == 2181

\* An address without a port gets the default one.
FormatServers(ss) ==
  [i \in 1 .. Len(ss) |->
     IF ss[i].port = 0 THEN [ss[i] EXCEPT !.port = DefaultPort] ELSE ss[i]]

Int64Limit == HalfRange * (HalfRange \div 2)

\* The number that an int64, or an int32, makes of the bits of n.
AsInt64(n) == IF n < Int64Limit THEN n ELSE n - 2 * Int64Limit
AsInt32(n) == IF n < HalfRange \div 2 THEN n ELSE n - HalfRange

\* A plausible slip: the error of ParseInt is ignored, as it is for most fields.
ErrorIgnored(n) == FALSE

\* strconv.ParseInt of an unsigned number: it fails when the number is too large,
\* and gives the largest int64.
ParseIntFails(n) == n >= Int64Limit
ParseInt(n)      == IF ParseIntFails(n) THEN Int64Limit - 1 ELSE n

\* parseInt64, which the "cons" fields lcxid and lzxid are read with.
parseInt64(n) == AsInt64(n)

-----------------------------------------------------------------------------
(* One server. *)

Problem(err) == [error |-> err]

\* The leader's epoch and the counter, packed into a zxid.
EpochAndCounter(zxid) == [epoch |-> AsInt32(zxid \div HalfRange), counter |-> AsInt32(zxid % HalfRange)]

SrvrReport(a) ==
  CASE a.kind = "fails"                       -> Problem(a.error)
    [] a.kind = "garbled"                     -> Problem("noMatch")
    [] a.kind = "stats" /\ ~a.buildTimeParses -> Problem("badBuildTime")
    [] a.kind = "stats" /\ a.buildTimeParses  ->
         IF ParseIntFails(a.zxid) THEN Problem("zxidTooLarge")
         ELSE [error |-> NoError, zxid |-> EpochAndCounter(ParseInt(a.zxid))]

\* Only an answer that starts with "imok" counts; a shorter one does not.
RuokReport(a) == a.kind = "imok"

ConsClient(l) == [sid |-> ParseInt(l.sid), lzxid |-> parseInt64(l.lzxid)]

\* Empty lines are skipped, and so are those that do not match.  The error that
\* is noted for them is overwritten when the lines have all been read.
ConsReport(a) ==
  IF a.kind = "fails" THEN Problem(a.error)
  ELSE LET matching == SelectSeq(a.lines, LAMBDA l : l.kind = "client")
       IN  [error   |-> NoError,
            clients |-> [i \in 1 .. Len(matching) |-> ConsClient(matching[i])]]

ConsGarbled(a) ==
  a.kind = "lines" /\ \E i \in 1 .. Len(a.lines) : a.lines[i].kind = "garbled"

\* A plausible slip: a server that is fine makes up for the ones before.
LastServerDecides(ok, fine) == fine

\* imOk is only ever cleared.
OkAfter(ok, fine) == ok /\ fine

-----------------------------------------------------------------------------
(* The loop over the servers. *)

Start ==
  /\ flwStage = "called" /\ flwStage' = "asking"
  /\ servers' = FormatServers(servers)
  /\ UNCHANGED <<asking, reports, imOk>>

Answer == asking.answers[Len(reports) + 1]

AskNext(word, report, fine) ==
  /\ flwStage = "asking" /\ asking.word = word
  /\ Len(reports) < Len(servers)
  /\ reports' = Append(reports, report)
  /\ imOk' = OkAfter(imOk, fine)
  /\ UNCHANGED <<asking, servers, flwStage>>

FLWSrvr == AskNext("srvr", SrvrReport(Answer), SrvrReport(Answer).error = NoError)

\* FLWRuok has no flag of its own.
FLWRuok == AskNext("ruok", RuokReport(Answer), TRUE)

FLWCons ==
  AskNext("cons", ConsReport(Answer), Answer.kind # "fails" /\ ~ConsGarbled(Answer))

Finish ==
  /\ flwStage = "asking" /\ Len(reports) = Len(servers)
  /\ flwStage' = "returned"
  /\ UNCHANGED <<asking, servers, reports, imOk>>

FlwNext == Start \/ FLWSrvr \/ FLWRuok \/ FLWCons \/ Finish

FlwSpec == FlwInit /\ [][FlwNext]_flwVars

-----------------------------------------------------------------------------
(* Properties. *)

\* The word has been asked of this server in vain, or its answer makes no sense.
Trouble(word, a) ==
  \/ a.kind \in {"fails", "garbled"}
  \/ word = "srvr" /\ a.kind = "stats" /\ ~(a.buildTimeParses /\ a.zxid < Int64Limit)
  \/ word = "cons" /\ ConsGarbled(a)

\* When FLWSrvr or FLWCons returns, the flag is cleared exactly if one of the
\* servers was in trouble, whichever it was and whatever the others said, and the
\* entry of a server that could not be asked says why.  (Of the entry of a server
\* whose answer to "cons" makes no sense nothing is claimed: FLWCons promises an
\* error there, and loses it.)
TroubleFlagged ==
  flwStage = "returned" /\ asking.word # "ruok" =>
    /\ imOk <=> \A i \in 1 .. Len(servers) : ~Trouble(asking.word, asking.answers[i])
    /\ Len(reports) = Len(servers)
    /\ \A i \in 1 .. Len(servers) :
         asking.answers[i].kind = "fails" => reports[i].error = asking.answers[i].error

\* FLWSrvr's entry of a server has an error exactly if that server was in trouble;
\* if it has none, the zxid put together again from the epoch and the counter,
\* which are read as signed numbers, is the server's.
StatsTold ==
  flwStage = "returned" /\ asking.word = "srvr" =>
    \A i \in 1 .. Len(servers) :
      LET a == asking.answers[i]
      IN  /\ reports[i].error # NoError <=> Trouble("srvr", a)
          /\ reports[i].error = NoError =>
               reports[i].zxid.epoch * HalfRange
                 + (reports[i].zxid.counter % HalfRange) = a.zxid
=============================================================================
