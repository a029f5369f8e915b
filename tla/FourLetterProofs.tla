-------------------------- MODULE FourLetterProofs ---------------------------
(***************************************************************************)
(* What FLWSrvr and FLWCons report of servers in trouble, and what they    *)
(* lose, for any servers, any answers and any width of the numbers.        *)
(***************************************************************************)
EXTENDS FourLetter, TLAPS

-----------------------------------------------------------------------------
(* Numbers. *)

LEMMA TimesMonotone ==
  ASSUME NEW a \in Nat, NEW b \in Nat, NEW h \in Nat, a <= b
  PROVE  a * h <= b * h
OBVIOUS

\* The remainder is the only number below h that differs from x by a multiple of h.
LEMMA ModUnique ==
  ASSUME NEW h \in Nat \ {0}, NEW q \in Int, NEW r \in 0 .. h - 1
  PROVE  (q * h + r) % h = r
OBVIOUS

LEMMA DivMod ==
  ASSUME NEW h \in Nat \ {0}, NEW z \in Nat
  PROVE  /\ z \div h \in Nat /\ z % h \in 0 .. h - 1
         /\ z = (z \div h) * h + (z % h)
OBVIOUS

\* A zxid that an int64 can hold has an epoch that an int32 can hold.
LEMMA EpochFits ==
  ASSUME NEW z \in Nat, z < Int64Limit
  PROVE  z \div HalfRange < HalfRange \div 2
<1> DEFINE q == z \div HalfRange
           m == HalfRange \div 2
<1>0. HalfRange \in Nat \ {0}
  BY HalfRangeAssumption
<1>1. HalfRange \in Nat \ {0} /\ m \in Nat
  BY <1>0, DivMod
<1>2. q \in Nat /\ z % HalfRange \in Nat /\ z = q * HalfRange + (z % HalfRange)
  BY <1>0
<1>3. m * HalfRange = Int64Limit
  BY <1>1 DEF Int64Limit
<1> HIDE DEF q, m
<1>4. q * HalfRange \in Nat /\ m * HalfRange \in Nat
  BY <1>1, <1>2
<1>5. q * HalfRange < m * HalfRange
  BY <1>2, <1>3, <1>4
<1>6. ~(m <= q)
  BY <1>1, <1>2, <1>4, <1>5, TimesMonotone
<1> QED
  BY <1>1, <1>2, <1>6 DEF q, m

\* The two halves of a zxid, put together again, are the zxid.
LEMMA HalvesAreWhole ==
  ASSUME NEW z \in Nat, z < Int64Limit
  PROVE  EpochAndCounter(z).epoch * HalfRange + (EpochAndCounter(z).counter % HalfRange) = z
<1> DEFINE r == z % HalfRange
<1>1. HalfRange \in Nat \ {0}
  BY HalfRangeAssumption
<1>2. r \in 0 .. HalfRange - 1 /\ z = (z \div HalfRange) * HalfRange + r
  BY <1>1, DivMod
<1>3. EpochAndCounter(z).epoch = z \div HalfRange
  BY EpochFits DEF EpochAndCounter, AsInt32
<1>4. EpochAndCounter(z).counter = AsInt32(r)
  BY DEF EpochAndCounter
<1> HIDE DEF r
<1>5. (0 * HalfRange + r) % HalfRange = r /\ ((-1) * HalfRange + r) % HalfRange = r
  BY <1>1, <1>2, ModUnique
<1>6. 0 * HalfRange + r = r /\ (-1) * HalfRange + r = r - HalfRange
  BY <1>1, <1>2
<1>7. AsInt32(r) % HalfRange = r
  BY <1>5, <1>6 DEF AsInt32
<1> QED
  BY <1>2, <1>3, <1>4, <1>7

-----------------------------------------------------------------------------
(* The loop. *)

\* What the loop appends for a server, and whether it leaves the flag alone.
Report(word, a) ==
  CASE word = "srvr" -> SrvrReport(a)
    [] word = "ruok" -> RuokReport(a)
    [] word = "cons" -> ConsReport(a)

Fine(word, a) ==
  CASE word = "srvr" -> SrvrReport(a).error = NoError
    [] word = "ruok" -> TRUE
    [] word = "cons" -> a.kind # "fails" /\ ~ConsGarbled(a)

AllReports(c) == {Report(c.word, c.answers[i]) : i \in 1 .. Len(c.servers)}

\* At any moment the reports are those of the servers asked so far, in their
\* order, and the flag is the verdict on these.
FlwInv ==
  /\ asking \in Askings /\ imOk \in BOOLEAN
  /\ Len(servers) = Len(asking.servers)
  /\ reports \in Seq(AllReports(asking)) /\ Len(reports) <= Len(servers)
  /\ flwStage = "returned" => Len(reports) = Len(servers)
  /\ \A i \in 1 .. Len(reports) : reports[i] = Report(asking.word, asking.answers[i])
  /\ imOk <=> \A i \in 1 .. Len(reports) : Fine(asking.word, asking.answers[i])

LEMMA FormatKeepsLength ==
  ASSUME NEW ss, Len(ss) \in Nat
  PROVE  Len(FormatServers(ss)) = Len(ss)
BY DEF FormatServers

LEMMA FlwInitial == FlwInit => FlwInv
<1> SUFFICES ASSUME FlwInit PROVE FlwInv
  OBVIOUS
<1>1. Len(asking.servers) \in Nat
  BY AskingsAssumption DEF FlwInit
<1> QED
  BY <1>1 DEF FlwInit, FlwInv

\* Asking one more server, whatever the word.
LEMMA AskingKeepsInv ==
  ASSUME FlwInv, NEW word \in {"srvr", "ruok", "cons"},
         AskNext(word, Report(word, Answer), Fine(word, Answer))
  PROVE  FlwInv'
<1> DEFINE n == Len(reports)
           S == AllReports(asking)
           e == Report(word, Answer)
<1>1. /\ asking' = asking /\ servers' = servers /\ flwStage' = "asking"
      /\ asking.word = word /\ n < Len(servers)
      /\ reports' = Append(reports, e)
      /\ imOk' = (imOk /\ Fine(word, Answer))
  BY DEF AskNext, OkAfter
<1>2. Len(asking.servers) \in Nat /\ n \in Nat /\ reports \in Seq(S)
  BY AskingsAssumption DEF FlwInv
<1>3. e \in S
  BY <1>1, <1>2 DEF AllReports, Answer, FlwInv
<1>4. Answer = asking.answers[n + 1]
  BY DEF Answer
<1> HIDE DEF S, e
<1>5. /\ reports' \in Seq(S) /\ Len(reports') = n + 1
      /\ reports'[n + 1] = e
      /\ \A i \in 1 .. n : reports'[i] = reports[i]
  BY <1>1, <1>2, <1>3
<1>6. \A i \in 1 .. n + 1 : reports'[i] = Report(asking.word, asking.answers[i])
  BY <1>1, <1>2, <1>4, <1>5 DEF FlwInv, e
<1>7. imOk' <=> \A i \in 1 .. n + 1 : Fine(asking.word, asking.answers[i])
  <2>1. 1 .. n + 1 = (1 .. n) \cup {n + 1}
    BY <1>2
  <2>2. imOk <=> \A i \in 1 .. n : Fine(asking.word, asking.answers[i])
    BY DEF FlwInv
  <2> HIDE DEF n
  <2> QED
    BY <1>1, <1>4, <2>1, <2>2
<1>8. asking \in Askings /\ Len(servers) = Len(asking.servers) /\ imOk \in BOOLEAN
  BY DEF FlwInv
<1>9. imOk' \in BOOLEAN
  BY <1>1
<1> QED
  BY <1>1, <1>2, <1>5, <1>6, <1>7, <1>8, <1>9 DEF FlwInv, S

LEMMA FlwStep == FlwInv /\ [FlwNext]_flwVars => FlwInv'
<1> SUFFICES ASSUME FlwInv, [FlwNext]_flwVars PROVE FlwInv'
  OBVIOUS
<1>0. Len(asking.servers) \in Nat
  BY AskingsAssumption DEF FlwInv
<1>1. CASE Start
  <2>1. Len(servers') = Len(servers)
    BY <1>0, <1>1, FormatKeepsLength DEF Start, FlwInv
  <2> QED
    BY <1>1, <2>1 DEF Start, FlwInv
<1>2. CASE FLWSrvr
  BY <1>2, AskingKeepsInv DEF FLWSrvr, Report, Fine
<1>3. CASE FLWRuok
  BY <1>3, AskingKeepsInv DEF FLWRuok, Report, Fine
<1>4. CASE FLWCons
  BY <1>4, AskingKeepsInv DEF FLWCons, Report, Fine
<1>5. CASE Finish
  BY <1>5 DEF Finish, FlwInv
<1>6. CASE UNCHANGED flwVars
  BY <1>6 DEF flwVars, FlwInv
<1> QED
  BY <1>1, <1>2, <1>3, <1>4, <1>5, <1>6 DEF FlwNext

-----------------------------------------------------------------------------
(* One server's report. *)

LEMMA SrvrTells ==
  ASSUME NEW a, AnswerAssumed("srvr", a)
  PROVE  /\ SrvrReport(a).error # NoError <=> Trouble("srvr", a)
         /\ SrvrReport(a).error = NoError =>
              LET z == SrvrReport(a).zxid
              IN  z.epoch * HalfRange + (z.counter % HalfRange) = a.zxid
<1>0. Int64Limit \in Int
  BY HalfRangeAssumption DEF Int64Limit
<1>1. CASE a.kind = "fails" /\ a.error # NoError
  BY <1>1 DEF SrvrReport, Problem, Trouble
<1>2. CASE a.kind = "garbled"
  BY <1>2, AskingsAssumption DEF SrvrReport, Problem, Trouble
<1>3. CASE a.kind = "stats" /\ a.buildTimeParses \in BOOLEAN /\ a.zxid \in Nat
  <2>1. CASE ~a.buildTimeParses
    BY <1>3, <2>1, AskingsAssumption DEF SrvrReport, Problem, Trouble
  <2>2. CASE a.buildTimeParses /\ a.zxid >= Int64Limit
    <3>1. SrvrReport(a) = Problem("zxidTooLarge")
      BY <1>3, <2>2 DEF SrvrReport, ParseIntFails
    <3> QED
      BY <1>0, <1>3, <2>2, <3>1, AskingsAssumption DEF Problem, Trouble
  <2>3. CASE a.buildTimeParses /\ a.zxid < Int64Limit
    <3>0. ~(a.zxid >= Int64Limit)
      BY <1>0, <1>3, <2>3
    <3>1. SrvrReport(a) = [error |-> NoError, zxid |-> EpochAndCounter(a.zxid)]
      BY <1>3, <2>3, <3>0 DEF SrvrReport, ParseIntFails, ParseInt
    <3>2. ~Trouble("srvr", a)
      BY <1>3, <2>3 DEF Trouble
    <3> QED
      BY <1>3, <2>3, <3>1, <3>2, HalvesAreWhole
  <2> QED
    BY <1>0, <1>3, <2>1, <2>2, <2>3
<1> QED
  BY <1>1, <1>2, <1>3 DEF AnswerAssumed

LEMMA ConsTells ==
  ASSUME NEW a, AnswerAssumed("cons", a)
  PROVE  /\ Fine("cons", a) <=> ~Trouble("cons", a)
         /\ ConsReport(a).error = IF a.kind = "fails" THEN a.error ELSE NoError
BY DEF AnswerAssumed, ConsReport, Problem, Fine, Trouble, ConsGarbled

\* At the end there is one report for every server.
LEMMA AllReported ==
  ASSUME FlwInv, flwStage = "returned", asking.word # "ruok"
  PROVE  /\ Len(reports) = Len(servers)
         /\ \A i \in 1 .. Len(servers) :
              /\ reports[i] = Report(asking.word, asking.answers[i])
              /\ AnswerAssumed(asking.word, asking.answers[i])
         /\ imOk <=> \A i \in 1 .. Len(servers) :
                       Fine(asking.word, asking.answers[i])
         /\ asking.word \in {"srvr", "cons"}
BY AskingsAssumption DEF FlwInv

\* The flag of FLWSrvr and FLWCons (zk/flw.go) is cleared exactly if a server was
\* in trouble, and the entry of a server that could not be asked has its error:
\* for any number of servers and any answers.
THEOREM TroubleIsFlagged == FlwSpec => []TroubleFlagged
<1>1. FlwInv => TroubleFlagged
  <2> SUFFICES ASSUME FlwInv, flwStage = "returned", asking.word # "ruok"
               PROVE  TroubleFlagged
    BY DEF TroubleFlagged
  <2>1. CASE asking.word = "srvr"
    <3>1. \A i \in 1 .. Len(servers) :
            Fine("srvr", asking.answers[i]) <=> ~Trouble("srvr", asking.answers[i])
      BY <2>1, AllReported, SrvrTells DEF Fine
    <3>2. \A i \in 1 .. Len(servers) : reports[i] = SrvrReport(asking.answers[i])
      BY <2>1, AllReported DEF Report
    <3>3. \A a : a.kind = "fails" => SrvrReport(a).error = a.error
      BY DEF SrvrReport, Problem
    <3> QED BY <2>1, <3>1, <3>2, <3>3, AllReported DEF TroubleFlagged
  <2>2. CASE asking.word = "cons"
    <3>1. \A i \in 1 .. Len(servers) :
            Fine("cons", asking.answers[i]) <=> ~Trouble("cons", asking.answers[i])
      BY <2>2, AllReported, ConsTells
    <3>2. \A i \in 1 .. Len(servers) : reports[i] = ConsReport(asking.answers[i])
      BY <2>2, AllReported DEF Report
    <3>3. \A i \in 1 .. Len(servers) : asking.answers[i].kind = "fails" =>
            ConsReport(asking.answers[i]).error = asking.answers[i].error
      BY <2>2, AllReported, ConsTells
    <3> QED BY <2>2, <3>1, <3>2, <3>3, AllReported DEF TroubleFlagged
  <2> QED BY <2>1, <2>2, AllReported
<1> QED BY <1>1, FlwInitial, FlwStep, PTL DEF FlwSpec

\* FLWSrvr's entries (zk/flw.go) have an error exactly for the servers in trouble,
\* and otherwise a zxid that is put together rightly from its signed halves: for
\* any number of servers, any answers and any width of the numbers.
THEOREM StatsAreTold == FlwSpec => []StatsTold
<1>1. FlwInv => StatsTold
  <2> SUFFICES ASSUME FlwInv, flwStage = "returned", asking.word = "srvr"
               PROVE  StatsTold
    BY DEF StatsTold
  <2>1. \A i \in 1 .. Len(servers) : /\ reports[i] = SrvrReport(asking.answers[i])
                                     /\ AnswerAssumed("srvr", asking.answers[i])
    BY AllReported DEF Report
  <2> QED BY <2>1, SrvrTells DEF StatsTold
<1> QED BY <1>1, FlwInitial, FlwStep, PTL DEF FlwSpec

\* A server that has answered "cons" has no error in its entry, whatever it has
\* said.
ConsErrorLost ==
  flwStage = "returned" /\ asking.word = "cons" =>
    \A i \in 1 .. Len(servers) :
      asking.answers[i].kind # "fails" => reports[i].error = NoError

\* The error that FLWCons (zk/flw.go) notes for a line that does not match never
\* reaches its caller, although "the Clients struct has an Error value that can be
\* checked": the entry is overwritten when the lines have been read, and the flag
\* for all servers together is all that tells.
THEOREM ConsErrorIsLost == FlwSpec => []ConsErrorLost
<1>1. FlwInv => ConsErrorLost
  <2> SUFFICES ASSUME FlwInv, flwStage = "returned", asking.word = "cons"
               PROVE  ConsErrorLost
    BY DEF ConsErrorLost
  <2>1. \A i \in 1 .. Len(servers) : /\ reports[i] = ConsReport(asking.answers[i])
                                     /\ AnswerAssumed("cons", asking.answers[i])
    BY AllReported DEF Report
  <2> QED BY <2>1, ConsTells DEF ConsErrorLost
<1> QED BY <1>1, FlwInitial, FlwStep, PTL DEF FlwSpec
=============================================================================
