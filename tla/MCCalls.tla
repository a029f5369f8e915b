------------------------------ MODULE MCCalls -------------------------------
(***************************************************************************)
(* Calls for model checking.  Of the API: every path up to a length, and   *)
(* every method with arguments at the edges, in buffers of every size up   *)
(* to one that suffices.  And the four letter words, asked of two servers  *)
(* with every pair of answers.  A behaviour is one call.                   *)
(***************************************************************************)
EXTENDS Api, FourLetter

CONSTANTS MaxPath, NoCall

Paths(n) == UNION {[1 .. k -> Runes] : k \in 0 .. n}

Name  == <<Slash, Letter>>
Datas == {Nil, <<>>, <<0, 3>>}
Acls  == {<<>>, << <<31, <<3, 2>>, <<>>>>, <<1, <<1>>, <<2>>>> >>}

\* One stat whose fields all differ, with numbers wider than 32 bits.
AStat == <<300, 301, -7, 1000, -1, 2, 127, -128, 3, 0, 30000>>

PathCalls ==
  {[m |-> "Create", path |-> p, flags |-> f, data |-> <<>>, acl |-> <<>>] :
     p \in Paths(MaxPath), f \in {1, 2}}
  \cup {[m |-> "CreateProtectedEphemeralSequential", path |-> p, data |-> <<>>,
         acl |-> <<>>] : p \in Paths(MaxPath)}

Ops ==
  { << >>, << <<99, <<Name, 0>>>> >>,
    << <<1, <<Name, Nil, <<>>, 3>>>>, <<5, <<Name, <<1>>, -1>>>>,
       <<2, <<Name, 7>>>>, <<13, <<Name, 0>>>> >> }

MethodCalls ==
  {[m |-> m, path |-> Name] :
     m \in {"Exists", "ExistsW", "Get", "GetW", "GetACL", "Sync", "Children", "ChildrenW"}}
  \cup {[m |-> "Create", path |-> Name, flags |-> 3, data |-> d, acl |-> a] :
          d \in Datas, a \in Acls}
  \cup {[m |-> "Set", path |-> Name, data |-> d, version |-> -1] : d \in Datas}
  \cup {[m |-> "Delete", path |-> Name, version |-> v] : v \in {-1, 127}}
  \cup {[m |-> "SetACL", path |-> Name, acl |-> a, version |-> 2] : a \in Acls}
  \cup {[m |-> "AddAuth", scheme |-> <<3>>, auth |-> d] : d \in Datas}
  \cup {[m |-> "Multi", ops |-> o] : o \in Ops}
  \cup {[m |-> "IncrementalReconfig", joining |-> j, leaving |-> l, version |-> -1] :
          j \in {<<>>, << <<3>>, <<1>> >>}, l \in {<<>>, << <<0>> >>}}
  \cup {[m |-> "Reconfig", members |-> << <<3>> >>, version |-> 1000]}

SizeOf(c) == IF Refused(c) THEN 12 ELSE PacketSize(c)

Calls ==
  {[call |-> c, bufLen |-> Ample, maxBufferSize |-> 0] : c \in PathCalls}
  \cup UNION {{[call |-> c, bufLen |-> n, maxBufferSize |-> 0] :
                 n \in 4 .. SizeOf(c) + 1} : c \in MethodCalls}
  \cup {[call |-> c, bufLen |-> Ample, maxBufferSize |-> n] :
          c \in MethodCalls, n \in {16, 60}}

Failed(code) == [code |-> code, v |-> Nil]

ResponseValues(op) ==
  CASE op \in {3, 5, 7} -> {AStat}
    [] op \in {1, 9}    -> {<<Name>>}
    [] op = 6           -> {<<a, AStat>> : a \in Acls}
    [] op = 12          -> {<<k, AStat>> : k \in {<<>>, << <<3>>, <<2, 3>> >>}}
    [] op \in {4, 16}   -> {<<d, AStat>> : d \in Datas}
    [] OTHER            -> {<<>>}

\* A multi succeeds, or fails at one operation: those before it are reported as
\* fine and those behind it as not tried.
Successes(ops) ==
  [i \in 1 .. Len(ops) |->
     [type |-> ops[i][1][1], code |-> 0,
      v    |-> CASE ops[i][1][1] = 1 -> <<Name>>
                 [] ops[i][1][1] = 5 -> AStat
                 [] OTHER -> <<>>]]

FailsAt(ops, k, code) ==
  [i \in 1 .. Len(ops) |->
     [type |-> -1, v |-> <<>>,
      code |-> CASE i < k -> 0 [] i = k -> code [] OTHER -> -2]]

ServerReplies(req) ==
  {Failed(code) : code \in {-101, -110, -3}}
  \cup {[code |-> 0, v |-> v] :
          v \in IF req.op # 14 THEN ResponseValues(req.op)
                ELSE {Successes(req.v)}
                     \cup {FailsAt(req.v, k, code) :
                             k \in 1 .. Len(req.v), code \in {-101, -9}}}

Failure == [kind |-> "fails", error |-> "time-out"]

SrvrAnswers ==
  {Failure, [kind |-> "garbled"]}
  \cup {[kind |-> "stats", buildTimeParses |-> b, zxid |-> z] :
          b \in BOOLEAN, z \in 0 .. 2 * Int64Limit - 1}

RuokAnswers == {Failure, [kind |-> "imok"], [kind |-> "short"]}

Lines ==
  {[kind |-> "empty"], [kind |-> "garbled"]}
  \cup {[kind |-> "client", sid |-> n, lzxid |-> n] : n \in {0, 2 * Int64Limit - 1}}

ConsAnswers ==
  {Failure} \cup {[kind |-> "lines", lines |-> l] : l \in UNION {[1 .. k -> Lines] : k \in 0 .. 2}}

TwoServers == <<[host |-> "a", port |-> 0], [host |-> "b", port |-> 2182]>>

Asked(word, answers) ==
  {[word |-> word, servers |-> TwoServers, answers |-> <<a, b>>] : a \in answers, b \in answers}

WordsAsked == Asked("srvr", SrvrAnswers) \cup Asked("ruok", RuokAnswers) \cup Asked("cons", ConsAnswers)

\* The variables of the module whose call is not made.
NoApiCall ==
  /\ call = NoCall /\ bufLen = 0 /\ maxBufferSize = 0 /\ stage = "none"
  /\ wire = <<>> /\ served = Nil /\ reply = Nil /\ result = Nil

NoFlwCall ==
  asking = NoCall /\ servers = <<>> /\ reports = <<>> /\ imOk = TRUE /\ flwStage = "none"

Init == (ApiInit /\ NoFlwCall) \/ (FlwInit /\ NoApiCall)

Next == (ApiNext /\ UNCHANGED flwVars) \/ (FlwNext /\ UNCHANGED apiVars)

Spec == Init /\ [][Next]_<<apiVars, flwVars>>
=============================================================================
