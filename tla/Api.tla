-------------------------------- MODULE Api ---------------------------------
(***************************************************************************)
(* One call of the client's API from its arguments to its result: the      *)
(* methods of Conn (zk/conn.go) check the path and fill in a request,      *)
(* sendData encodes it into c.buf, the server decodes it and replies, and  *)
(* recvLoop decodes the reply, from which the method makes its result.     *)
(* The connection holds meanwhile, unless the reply is too large: module   *)
(* Conn is about its failures, and module Watches about the watches.       *)
(***************************************************************************)
EXTENDS Wire, Paths, TLC

CONSTANTS
  Setups,       \* calls, each with the sizes of the buffers: len(c.buf), and
                \*   maxBufferSize, which is 0 when there is no limit
  Replies(_)    \* what the server may reply to a request that it has decoded

VARIABLES
  call,     \* the method m and its arguments
  bufLen, maxBufferSize,
  stage,    \* "none", "called", "sent", "served", "returned", "crashed"
  wire,     \* the bytes that are sent, and those that come back
  served,   \* the request as the server has decoded it
  reply,    \* the server's choice: an error code, or 0 and a value
  result    \* what the method returns

apiVars == <<call, bufLen, maxBufferSize, stage, wire, served, reply, result>>

ApiInit ==
  /\ \E s \in Setups :
       call = s.call /\ bufLen = s.bufLen /\ maxBufferSize = s.maxBufferSize
  /\ stage = "called"
  /\ wire = <<>> /\ served = Nil /\ reply = Nil /\ result = Nil

-----------------------------------------------------------------------------
(* The methods. *)

errCodeToError ==
  (0 :> Nil) @@ (-8 :> "ErrBadArguments") @@ (-100 :> "ErrAPIError")
  @@ (-101 :> "ErrNoNode") @@ (-102 :> "ErrNoAuth") @@ (-103 :> "ErrBadVersion")
  @@ (-108 :> "ErrNoChildrenForEphemerals") @@ (-110 :> "ErrNodeExists")
  @@ (-111 :> "ErrNotEmpty") @@ (-112 :> "ErrSessionExpired")
  @@ (-114 :> "ErrInvalidACL") @@ (-115 :> "ErrAuthFailed")
  @@ (-116 :> "ErrClosing") @@ (-117 :> "ErrNothing")
  @@ (-118 :> "ErrSessionMoved") @@ (-123 :> "ErrReconfigDisabled")

toError(e) ==
  IF e \in DOMAIN errCodeToError THEN errCodeToError[e]
  ELSE "unknown error: " \o ToString(e)

FlagSequence == 2

IsSequential(c) ==
  \/ c.m = "CreateProtectedEphemeralSequential"
  \/ c.m = "Create" /\ c.flags % (2 * FlagSequence) >= FlagSequence

HasPath(c) == "path" \in DOMAIN c

\* The operations of a Multi, as pairs of an opcode and a request.
MultiOps == {1, 2, 5, 13}

\* A protected create ends in a Create, which checks its path again.
Refused(c) ==
  \/ HasPath(c) /\ ~validatePath(c.path, IsSequential(c))
  \/ /\ c.m = "CreateProtectedEphemeralSequential"
     /\ validatePath(c.path, TRUE) /\ ~validatePath(protectedPath(c.path), TRUE)
  \/ c.m = "Multi" /\ \E i \in 1 .. Len(c.ops) : c.ops[i][1] \notin MultiOps

\* strings.Join with a comma, which is a byte like any other.
Comma == 2

RECURSIVE Join(_)
Join(s) ==
  IF s = <<>> THEN <<>>
  ELSE IF Len(s) = 1 THEN s[1] ELSE s[1] \o <<Comma>> \o Join(Tail(s))

Request(op, v) == [op |-> op, v |-> v]

\* The request of each method, its fields in the order of the struct.
RequestOf(c) ==
  CASE c.m = "Create"    -> Request(1, <<c.path, c.data, c.acl, c.flags>>)
    [] c.m = "CreateProtectedEphemeralSequential" ->
         Request(1, <<protectedPath(c.path), c.data, c.acl, 1 + FlagSequence>>)
    [] c.m = "Delete"    -> Request(2, <<c.path, c.version>>)
    [] c.m = "Exists"    -> Request(3, <<c.path, FALSE>>)
    [] c.m = "ExistsW"   -> Request(3, <<c.path, TRUE>>)
    [] c.m = "Get"       -> Request(4, <<c.path, FALSE>>)
    [] c.m = "GetW"      -> Request(4, <<c.path, TRUE>>)
    [] c.m = "Set"       -> Request(5, <<c.path, c.data, c.version>>)
    [] c.m = "GetACL"    -> Request(6, <<c.path>>)
    [] c.m = "SetACL"    -> Request(7, <<c.path, c.acl, c.version>>)
    [] c.m = "Sync"      -> Request(9, <<c.path>>)
    [] c.m = "Children"  -> Request(12, <<c.path, FALSE>>)
    [] c.m = "ChildrenW" -> Request(12, <<c.path, TRUE>>)
    [] c.m = "AddAuth"   -> Request(100, <<0, c.scheme, c.auth>>)
    [] c.m = "Multi"     ->
         Request(14, [i \in 1 .. Len(c.ops) |-> << <<c.ops[i][1], FALSE, -1>>, c.ops[i][2] >>])
    [] c.m = "IncrementalReconfig" ->
         Request(16, <<Join(c.joining), Join(c.leaving), Nil, c.version>>)
    [] c.m = "Reconfig"  ->
         Request(16, <<Nil, Nil, Join(c.members), c.version>>)

\* Exists takes "no such node" for an answer, and answers TRUE with any other
\* error; ExistsW answers FALSE with it.  Elsewhere there is no such answer.
ExistsAnswer(c, err) ==
  CASE c.m = "Exists"  -> err # "ErrNoNode"
    [] c.m = "ExistsW" -> err = Nil
    [] OTHER           -> Nil

ErrorReturned(c, err) ==
  IF c.m \in {"Exists", "ExistsW"} /\ err = "ErrNoNode" THEN Nil ELSE err

Result(c, err, v) ==
  [err |-> ErrorReturned(c, err), exists |-> ExistsAnswer(c, err), v |-> v]

-----------------------------------------------------------------------------
(* The steps of a call. *)

Return(err, v) == stage' = "returned" /\ result' = Result(call, err, v)

\* Before anything is sent; Exists and ExistsW answer FALSE with the error.
Refuse ==
  /\ stage = "called" /\ Refused(call)
  /\ stage' = "returned"
  /\ result' = [err    |-> IF HasPath(call) THEN "ErrInvalidPath"
                           ELSE "unknown operation type",
                exists |-> IF call.m \in {"Exists", "ExistsW"} THEN FALSE ELSE Nil,
                v      |-> Nil]
  /\ UNCHANGED <<call, bufLen, maxBufferSize, wire, served, reply>>

\* The header, then the request behind it, then the length before both.
Xid == 1

Packet ==
  LET req    == RequestOf(call)
      header == encodePacketValue(bufLen - 4, requestHeader, <<Xid, req.op>>)
      body   == encodePacketValue(bufLen - 4 - Len(header.bytes),
                                  RequestType(req.op), req.v)
      bytes  == header.bytes \o body.bytes
  IN  IF header.out # Nil THEN header
      ELSE IF body.out # Nil THEN body
      ELSE Encoded(Nil, Digits(Len(bytes), 4) \o bytes)

\* An error goes to the caller, a panic takes the program down.
sendData ==
  /\ stage = "called" /\ ~Refused(call)
  /\ LET p == Packet
     IN  CASE p.out = Nil ->
                stage' = "sent" /\ wire' = p.bytes /\ UNCHANGED result
           [] p.out = "panic" ->
                stage' = "crashed" /\ UNCHANGED <<wire, result>>
           [] OTHER -> Return(p.out, Nil) /\ UNCHANGED wire
  /\ UNCHANGED <<call, bufLen, maxBufferSize, served, reply>>

\* A packet without its length.
Frame(bytes) == SubSeq(bytes, 5, 4 + Unsigned(SubSeq(bytes, 1, 4)))

\* Room enough: the server's buffers are its own affair.
Ample == 10000

\* The results of a Multi, as the server encodes them.
MultiResults(v) ==
  EncodeAll(Ample,
    [i \in 1 .. Len(v) |-> Struct(<<multiHeader, ResultType(v[i].type)>>)]
      \o <<multiHeader>>,
    [i \in 1 .. Len(v) |->
       << <<v[i].type, FALSE, 0>>, IF v[i].type = -1 THEN <<v[i].code>> ELSE v[i].v >>]
      \o <<DoneHeader>>)

ReplyPacket(op, r) ==
  LET header == encodePacketValue(Ample, responseHeader, <<Xid, 0, r.code>>).bytes
      body   == IF r.code # 0 THEN <<>>
                ELSE IF op = 14 THEN MultiResults(r.v).bytes
                ELSE encodePacketValue(Ample, ResponseType(op), r.v).bytes
  IN  Digits(Len(header \o body), 4) \o header \o body

Serve ==
  /\ stage = "sent" /\ stage' = "served"
  /\ LET frame == Frame(wire)
         h     == decodePacketValue(requestHeader, frame)
         req   == decodePacketValue(RequestType(h.v[2]), h.rest)
     IN  /\ served' = Request(h.v[2], IF req.out = Nil THEN req.v ELSE req.out)
         /\ reply' \in Replies(served')
         /\ wire' = ReplyPacket(h.v[2], reply')
  /\ UNCHANGED <<call, bufLen, maxBufferSize, result>>

\* The header of the reply, its code or its value.  A multi that has failed has
\* results, and an error that is found in them.
Received(op, frame) ==
  LET h   == decodePacketValue(responseHeader, SubSeq(frame, 1, 16))
      res == decodePacketValue(ResponseType(op), From(frame, 16))
  IN  IF h.v[3] # 0 THEN [err |-> toError(h.v[3]), v |-> Nil]
      ELSE IF res.out # Nil THEN [err |-> res.out, v |-> Nil]
      ELSE IF op # 14 THEN [err |-> Nil, v |-> res.v]
      ELSE [err |-> toError(res.v.code),
            v   |-> [i \in 1 .. Len(res.v.ops) |->
                       [v |-> res.v.ops[i].v, err |-> toError(res.v.ops[i].code)]]]

\* A plausible slip: the length of a reply is not looked at.
SizeNotChecked(frame) == FALSE

\* A reply that exceeds maxBufferSize ends the connection instead.
ExceedsMax(frame) == maxBufferSize > 0 /\ Len(frame) > maxBufferSize

\* A flag missing at the end of a reply takes the program down.
recvLoop ==
  /\ stage = "served"
  /\ LET frame == Frame(wire)
         r     == Received(RequestOf(call).op, frame)
     IN  IF ExceedsMax(frame) THEN Return("ErrConnectionClosed", Nil)
         ELSE IF r.err = "panic" THEN stage' = "crashed" /\ UNCHANGED result
         ELSE Return(r.err, r.v)
  /\ UNCHANGED <<call, bufLen, maxBufferSize, wire, served, reply>>

ApiNext == Refuse \/ sendData \/ Serve \/ recvLoop

-----------------------------------------------------------------------------
(* Properties. *)

\* A valid path is never refused with ErrInvalidPath, nor is what a protected
\* create makes of it, nor the parent where it looks for its node after a lost
\* connection; and an accepted path is valid.  Two cases are left out, in which
\* the code disagrees: a first component "." is let through (module PathsProofs
\* says how far), and for a node below the root the empty path is looked in.
PathsJudged ==
  stage \notin {"none", "called"} /\ HasPath(call) =>
    LET path    == call.path
        refused == result # Nil /\ result.err = "ErrInvalidPath"
    IN  /\ Valid(path, IsSequential(call)) => ~refused
        /\ ~refused => Valid(path, IsSequential(call)) \/ FirstIsDot(path)
        /\ IsSequential(call) /\ Valid(path, TRUE) /\ rootPath(path) # <<>> =>
             validatePath(rootPath(path), FALSE)

\* How many bytes a value of type t has on the wire.
RECURSIVE Size(_, _), SizeOfAll(_, _)

SizeOfAll(ts, vs) ==
  IF ts = <<>> THEN 0 ELSE Size(Head(ts), Head(vs)) + SizeOfAll(Tail(ts), Tail(vs))

Size(t, v) ==
  CASE t.kind = "bool"   -> 1
    [] t.kind = "int"    -> t.width
    [] t.kind \in {"string", "bytes"} -> 4 + IF v = Nil THEN 0 ELSE Len(v)
    [] t.kind = "vector" -> 4 + SizeOfAll([i \in 1 .. Len(v) |-> t.elem], v)
    [] t.kind = "struct" -> SizeOfAll(t.fields, v)
    [] t.kind = "multi"  -> SizeOfAll(OpTypes(v), v) + Size(multiHeader, DoneHeader)

\* The packet: its length, its header and the request.
PacketSize(c) ==
  LET req == RequestOf(c) IN 4 + 8 + Size(RequestType(req.op), req.v)

\* A request is sent exactly if it fits into c.buf with its header and length,
\* to the last byte; if the call returns without having sent it, its error is
\* ErrShortBuffer.
SentIfItFits ==
  stage \notin {"none", "called"} /\ ~Refused(call) =>
    /\ wire # <<>> <=> PacketSize(call) <= bufLen
    /\ wire = <<>> /\ result # Nil => result.err = "ErrShortBuffer"

\* A request that does not fit into c.buf comes back to its caller as
\* ErrShortBuffer, wherever in the request the buffer ends, and the program goes
\* on.  (encodePacket turns slices out of range into this error; a flag is put at
\* an index.)
ShortBufferIsError ==
  stage \notin {"none", "called"} /\ ~Refused(call) /\ PacketSize(call) > bufLen =>
    stage = "returned" /\ result.err = "ErrShortBuffer"

\* The server sees the request that the method was called with: negative
\* numbers, nil slices, empty lists and the requests of a multi included.
RequestFaithful == served # Nil => served = RequestOf(call)

FirstFailed(results) ==
  LET failed == {i \in 1 .. Len(results) : results[i].code # 0}
  IN  IF failed = {} THEN 0
      ELSE results[CHOOSE i \in failed : \A j \in failed : i <= j].code

\* The caller gets the server's reply, if it is not too large: then the connection
\* ends.  A code becomes its error, except that Exists and ExistsW take "no such
\* node" for an answer; a multi that has failed returns the error of the operation
\* that failed, not those of the operations that were not tried.
ReplyFaithful ==
  reply # Nil /\ stage # "served" =>
    LET tooLarge == maxBufferSize > 0 /\ Len(Frame(wire)) > maxBufferSize
        asked    == call.m \in {"Exists", "ExistsW"}
        answered ==
          \/ /\ reply.code = -101 /\ asked
             /\ result.err = Nil /\ ~result.exists
          \/ /\ reply.code # 0 /\ ~(reply.code = -101 /\ asked)
             /\ result.err = toError(reply.code)
          \/ /\ reply.code = 0 /\ call.m # "Multi"
             /\ result.err = Nil /\ result.v = reply.v
             /\ asked => result.exists
          \/ /\ reply.code = 0 /\ call.m = "Multi"
             /\ result.err = toError(FirstFailed(reply.v))
             /\ result.v = [i \in 1 .. Len(reply.v) |->
                              [v |-> reply.v[i].v, err |-> toError(reply.v[i].code)]]
    IN  /\ stage = "returned"
        /\ IF tooLarge THEN result.err = "ErrConnectionClosed" ELSE answered

=============================================================================
