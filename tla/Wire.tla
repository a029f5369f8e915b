-------------------------------- MODULE Wire --------------------------------
(***************************************************************************)
(* The codec (zk/structs.go): encodePacket and decodePacket, driven by the *)
(* type of what they encode, and the framing of multi requests.            *)
(*                                                                         *)
(* Every number has as many bytes as in the code, and a byte is a digit of *)
(* base Radix instead of 256.  A string is the sequence of its bytes; a    *)
(* []byte can also be nil; a vector or a struct is the sequence of its     *)
(* elements or fields.                                                     *)
(***************************************************************************)
EXTENDS Integers, Sequences

CONSTANTS
  Radix,    \* the values of a byte: 256 in the code
  Nil       \* a nil []byte, and no error

ASSUME RadixAssumption == Radix \in {2 * k : k \in 1 .. 128}

-----------------------------------------------------------------------------
(* Types. *)

Bool   == [kind |-> "bool"]
Int32  == [kind |-> "int", width |-> 4]
Int64  == [kind |-> "int", width |-> 8]
String == [kind |-> "string"]
Bytes  == [kind |-> "bytes"]
Multi  == [kind |-> "multi"]      \* multiRequest, which encodes itself
MultiR == [kind |-> "multiR"]     \* multiResponse, which decodes itself
Vector(t)  == [kind |-> "vector", elem |-> t]
Struct(ts) == [kind |-> "struct", fields |-> ts]

ACL  == Struct(<<Int32, String, String>>)
Stat == Struct(<<Int64, Int64, Int64, Int64, Int32, Int32, Int32, Int64, Int32, Int32, Int64>>)

multiHeader == Struct(<<Int32, Bool, Int32>>)

Opcodes == {-11, 100, 101} \cup (1 .. 16 \ {10, 15})

\* requestStructForOp, for the opcodes it knows.
RequestType(op) ==
  CASE op \in {-11, 11}   -> Struct(<<>>)                  \* close, ping
    [] op \in {6, 8, 9}   -> Struct(<<String>>)            \* getAcl, sync, ...
    [] op \in {3, 4, 12}  -> Struct(<<String, Bool>>)      \* getData, exists, ...
    [] op \in {2, 13}     -> Struct(<<String, Int32>>)     \* delete, check
    [] op = 1   -> Struct(<<String, Bytes, Vector(ACL), Int32>>)    \* create
    [] op = 5   -> Struct(<<String, Bytes, Int32>>)                 \* setData
    [] op = 7   -> Struct(<<String, Vector(ACL), Int32>>)           \* setAcl
    [] op = 14  -> Multi
    [] op = 16  -> Struct(<<Bytes, Bytes, Bytes, Int64>>)           \* reconfig
    [] op = 100 -> Struct(<<Int32, String, Bytes>>)                 \* setAuth
    [] op = 101 -> Struct(<<Int64, Vector(String), Vector(String),
                            Vector(String)>>)                    \* setWatches

\* The struct that each method of Conn passes for the response.
ResponseType(op) ==
  CASE op \in {3, 5, 7}  -> Stat
    [] op \in {1, 9}     -> Struct(<<String>>)
    [] op = 6            -> Struct(<<Vector(ACL), Stat>>)
    [] op = 12           -> Struct(<<Vector(String), Stat>>)
    [] op \in {4, 16}    -> Struct(<<Bytes, Stat>>)
    [] op = 14           -> MultiR
    [] OTHER             -> Struct(<<>>)

requestHeader  == Struct(<<Int32, Int32>>)
responseHeader == Struct(<<Int32, Int64, Int32>>)

-----------------------------------------------------------------------------
(* Numbers: big-endian, two's complement. *)

Digits(v, width) ==
  [i \in 1 .. width |-> (v \div Radix ^ (width - i)) % Radix]

RECURSIVE Unsigned(_)
Unsigned(b) ==
  IF b = <<>> THEN 0
  ELSE Unsigned(SubSeq(b, 1, Len(b) - 1)) * Radix + b[Len(b)]

Signed(b) ==
  IF b[1] < Radix \div 2 THEN Unsigned(b) ELSE Unsigned(b) - Radix ^ Len(b)

-----------------------------------------------------------------------------
(* Encoding into a buffer with room for so many bytes. *)

Encoded(out, bytes) == [out |-> out, bytes |-> bytes]

\* A plausible slip: the last byte of the buffer is never used.
LastByteUnused(room, bytes) ==
  IF Len(bytes) < room THEN Encoded(Nil, bytes)
  ELSE Encoded("ErrShortBuffer", <<>>)

\* A slice of the buffer is filled, or does not exist.
Fill(room, bytes) ==
  IF Len(bytes) <= room THEN Encoded(Nil, bytes)
  ELSE Encoded("ErrShortBuffer", <<>>)

\* A flag is put at an index of the buffer: right behind the end that is not a
\* slice out of range, which encodePacket would turn into an error.
PutBool(room, v) ==
  IF room = 0 THEN Encoded("panic", <<>>)
  ELSE Fill(room, <<IF v THEN 1 ELSE 0>>)

\* A plausible slip: nil is sent like no bytes at all.
NilAsEmpty(v) == IF v = Nil THEN Digits(0, 4) ELSE Digits(Len(v), 4) \o v

\* The length and the bytes of a []byte.
WithLength(v) == IF v = Nil THEN Digits(-1, 4) ELSE Digits(Len(v), 4) \o v

RECURSIVE encodePacketValue(_, _, _), EncodeAll(_, _, _)

\* The values one after the other, until one does not fit.
EncodeAll(room, ts, vs) ==
  IF ts = <<>> THEN Encoded(Nil, <<>>)
  ELSE LET a == encodePacketValue(room, Head(ts), Head(vs))
           b == EncodeAll(room - Len(a.bytes), Tail(ts), Tail(vs))
       IN  IF a.out # Nil THEN a
           ELSE IF b.out # Nil THEN b
           ELSE Encoded(Nil, a.bytes \o b.bytes)

\* The count of a vector is filled in after its elements.
EncodeVector(room, t, v) ==
  LET all == EncodeAll(room - 4, [i \in 1 .. Len(v) |-> t], v)
      n   == Fill(room, Digits(Len(v), 4))
  IN  IF all.out # Nil THEN all ELSE Encoded(n.out, n.bytes \o all.bytes)

\* multiRequest.Encode: a header and a request for every op, and a last header.
OpTypes(v) ==
  [i \in 1 .. Len(v) |-> Struct(<<multiHeader, RequestType(v[i][1][1])>>)]

MultiTypes(v) == OpTypes(v) \o <<multiHeader>>

DoneHeader == <<-1, TRUE, -1>>

encodePacketValue(room, t, v) ==
  CASE t.kind = "bool"   -> PutBool(room, v)
    [] t.kind = "int"    -> Fill(room, Digits(v, t.width))
    [] t.kind \in {"string", "bytes"} -> Fill(room, WithLength(v))
    [] t.kind = "vector" -> EncodeVector(room, t.elem, v)
    [] t.kind = "struct" -> EncodeAll(room, t.fields, v)
    [] t.kind = "multi"  -> EncodeAll(room, MultiTypes(v), v \o <<DoneHeader>>)

-----------------------------------------------------------------------------
(* Decoding. *)

Decoded(out, v, rest) == [out |-> out, v |-> v, rest |-> rest]

From(buf, n) == SubSeq(buf, n + 1, Len(buf))

\* What f makes of the first n bytes, if there are so many.  (buf is all that was
\* received.  A slice in Go goes up to its capacity: of a reply that ends early
\* the code reads on into what an earlier one has left in the buffer.)
Take(n, buf, f(_)) ==
  IF n > Len(buf) THEN Decoded("ErrShortBuffer", <<>>, buf)
  ELSE Decoded(Nil, f(SubSeq(buf, 1, n)), From(buf, n))

\* A string's length has no sign, so that no string is nil.
DecodeString(buf) ==
  LET ln == Take(4, buf, Unsigned)
  IN  IF ln.out # Nil THEN ln ELSE Take(ln.v, ln.rest, LAMBDA b : b)

DecodeBytes(buf) ==
  LET ln == Take(4, buf, Signed)
  IN  IF ln.out # Nil THEN ln
      ELSE IF ln.v < 0 THEN Decoded(Nil, Nil, ln.rest)
      ELSE Take(ln.v, ln.rest, LAMBDA b : b)

RECURSIVE decodePacketValue(_, _), DecodeAll(_, _), DecodeMulti(_),
          DecodeMultiResponse(_)

DecodeAll(ts, buf) ==
  IF ts = <<>> THEN Decoded(Nil, <<>>, buf)
  ELSE LET a == decodePacketValue(Head(ts), buf)
           b == DecodeAll(Tail(ts), a.rest)
       IN  IF a.out # Nil THEN a
           ELSE IF b.out # Nil THEN b
           ELSE Decoded(Nil, <<a.v>> \o b.v, b.rest)

DecodeVector(t, buf) ==
  LET n == Take(4, buf, Unsigned)
  IN  IF n.out # Nil THEN n
      ELSE DecodeAll([i \in 1 .. n.v |-> t], n.rest)

\* multiRequest.Decode
DecodeMulti(buf) ==
  LET h    == decodePacketValue(multiHeader, buf)
      req  == decodePacketValue(RequestType(h.v[1]), h.rest)
      more == DecodeMulti(req.rest)
  IN  IF h.out # Nil THEN h
      ELSE IF h.v[2] THEN Decoded(Nil, <<>>, h.rest)
      ELSE IF h.v[1] \notin Opcodes THEN Decoded("ErrAPIError", <<>>, h.rest)
      ELSE IF req.out # Nil THEN req
      ELSE IF more.out # Nil THEN more
      ELSE Decoded(Nil, << <<h.v, req.v>> >> \o more.v, more.rest)

\* What follows the header of one result: the code, the path, the stat, nothing.
ResultType(type) ==
  CASE type = -1 -> Struct(<<Int32>>)
    [] type = 1  -> Struct(<<String>>)
    [] type = 5  -> Stat
    [] OTHER     -> Struct(<<>>)

\* A plausible slip: the last error of a multi is the one reported.
LastError(code, later) == IF later # 0 THEN later ELSE code

\* The first error is the one reported.
FirstError(code, later) == IF code # 0 THEN code ELSE later

\* multiResponse.Decode: the results, and the code reported for the whole.
DecodeMultiResponse(buf) ==
  LET h    == decodePacketValue(multiHeader, buf)
      res  == decodePacketValue(ResultType(h.v[1]), h.rest)
      code == IF h.v[1] = -1 THEN res.v[1] ELSE 0
      more == DecodeMultiResponse(res.rest)
  IN  IF h.out # Nil THEN h
      ELSE IF h.v[2] THEN Decoded(Nil, [ops |-> <<>>, code |-> 0], h.rest)
      ELSE IF h.v[1] \notin {-1, 1, 2, 5, 13}
             THEN Decoded("ErrAPIError", <<>>, h.rest)
      ELSE IF res.out # Nil THEN res
      ELSE IF more.out # Nil THEN more
      ELSE Decoded(Nil,
                   [ops  |-> << [v |-> IF h.v[1] = -1 THEN <<>> ELSE res.v,
                                 code |-> code] >> \o more.v.ops,
                    code |-> FirstError(code, more.v.code)],
                   more.rest)

\* A flag is read at an index, like it is put.
DecodeBool(buf) ==
  IF buf = <<>> THEN Decoded("panic", <<>>, buf)
  ELSE Take(1, buf, LAMBDA b : b[1] # 0)

decodePacketValue(t, buf) ==
  CASE t.kind = "bool"   -> DecodeBool(buf)
    [] t.kind = "int"    -> Take(t.width, buf, Signed)
    [] t.kind = "string" -> DecodeString(buf)
    [] t.kind = "bytes"  -> DecodeBytes(buf)
    [] t.kind = "vector" -> DecodeVector(t.elem, buf)
    [] t.kind = "struct" -> DecodeAll(t.fields, buf)
    [] t.kind = "multi"  -> DecodeMulti(buf)
    [] t.kind = "multiR" -> DecodeMultiResponse(buf)
=============================================================================
