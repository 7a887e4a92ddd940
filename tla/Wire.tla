--------------------------------- MODULE Wire ---------------------------------
(***************************************************************************)
(* Messages as bytes (crates/proto: codec.rs, message.rs; crates/cluster:  *)
(* frame.rs).  What is written and what is read are two tables, each from  *)
(* its own code: the fields of a kind, in order, each with its encoding.   *)
(*                                                                         *)
(* A byte carries the low digit of a number to the base Digit, and whether *)
(* more follow; a u64 is below Numbers and has at most Digits of them, a   *)
(* u32 is below ShortNumbers.  A float is FloatBytes cells, a character    *)
(* one.                                                                    *)
(***************************************************************************)
EXTENDS Integers, Sequences, SequencesExt, FiniteSetsExt, TLC

CONSTANTS Digit, Digits, Numbers, ShortNumbers, FloatBytes, MaxCollection, MaxString, MaxFrame

ASSUME WireAssumption ==
  /\ {Digit, Digits, Numbers, ShortNumbers, FloatBytes, MaxCollection, MaxString, MaxFrame} \subseteq Nat \ {0}
  /\ ShortNumbers <= Numbers /\ Numbers <= Digit ^ Digits

Corrupt == [kind |-> "corrupt"]

\* Encodings.
U8 == [is |-> "u8"]
Varint == [is |-> "varint"]
U32 == [is |-> "u32"]
F32 == [is |-> "f32"]
Str == [is |-> "str"]
Raw == [is |-> "raw"]
List(fields) == [is |-> "list", of |-> fields]
Shares == List(<<Str, F32>>)

(***************************************************************************)
(* Writer                                                                  *)
(***************************************************************************)

WriteVarint(n) ==
  LET digits == Max({1} \cup {k \in 1..Digits : n >= Digit ^ (k - 1)})
  IN [k \in 1..digits |->
        ((n \div Digit ^ (k - 1)) % Digit) + (IF k < digits THEN Digit ELSE 0)]

\* What has no parts.
WriteOne(encoding, value) ==
  CASE encoding.is = "u8" -> <<value>>
    [] encoding.is \in {"varint", "u32"} -> WriteVarint(value)
    [] encoding.is = "f32" -> [i \in 1..FloatBytes |-> value]
    [] encoding.is \in {"str", "raw"} -> WriteVarint(Len(value)) \o value

\* One field after another, each put as what it may be.
WriteAll(Put(_, _), encodings, values) ==
  FlattenSeq([i \in DOMAIN encodings |-> Put(encodings[i], values[i])])
WriteList(Put(_, _), encoding, value) ==
  IF encoding.is # "list" THEN WriteOne(encoding, value)
  ELSE WriteVarint(Len(value)) \o FlattenSeq([i \in DOMAIN value |-> WriteAll(Put, encoding.of, value[i])])

\* A list, or a list of lists: messages go no deeper.
WriteFlat(encoding, value) == WriteList(WriteOne, encoding, value)
Write(encoding, value) == WriteList(WriteFlat, encoding, value)

(***************************************************************************)
(* Reader: what is left after reading, or nothing any more.                *)
(***************************************************************************)

Failed == [ok |-> FALSE, value |-> << >>, rest |-> << >>]
Got(value, rest) == [ok |-> TRUE, value |-> value, rest |-> rest]

TakeBytes(bytes, n) ==
  IF n > Len(bytes) THEN Failed ELSE Got(SubSeq(bytes, 1, n), SubSeq(bytes, n + 1, Len(bytes)))

\* A number's last byte, or the first that is one too many.
ReadVarint(bytes) ==
  LET ends == {i \in DOMAIN bytes : bytes[i] < Digit}
      size == Min(ends)
  IN IF ends = {} \/ size > Digits THEN Failed
     ELSE Got(MapThenSumSet(LAMBDA i : (bytes[i] % Digit) * Digit ^ (i - 1), 1..size) % Numbers,
              SubSeq(bytes, size + 1, Len(bytes)))

\* count, string, a u32: what is too large is refused before anything is made
\* of it.
ReadLength(bytes, limit) ==
  LET n == ReadVarint(bytes)
  IN IF n.ok /\ n.value <= limit THEN n ELSE Failed

ReadOne(encoding, bytes) ==
  CASE encoding.is = "u8" ->
         LET b == TakeBytes(bytes, 1) IN IF b.ok THEN Got(b.value[1], b.rest) ELSE Failed
    [] encoding.is = "varint" -> ReadVarint(bytes)
    [] encoding.is = "u32" -> ReadLength(bytes, ShortNumbers - 1)
    [] encoding.is = "f32" ->
         LET b == TakeBytes(bytes, FloatBytes) IN IF b.ok THEN Got(b.value[1], b.rest) ELSE Failed
    [] encoding.is \in {"str", "raw"} ->
         LET n == ReadLength(bytes, IF encoding.is = "str" THEN MaxString ELSE MaxCollection)
         IN IF n.ok THEN TakeBytes(n.rest, n.value) ELSE Failed

\* What was read so far, and the next.
Then(so, next) == IF so.ok /\ next.ok THEN Got(Append(so.value, next.value), next.rest) ELSE Failed

ReadAll(Take(_, _), encodings, bytes) ==
  LET so[i \in 0..Len(encodings)] ==
        IF i = 0 THEN Got(<< >>, bytes) ELSE Then(so[i - 1], Take(encodings[i], so[i - 1].rest))
  IN so[Len(encodings)]
ReadList(Take(_, _), encoding, bytes) ==
  IF encoding.is # "list" THEN ReadOne(encoding, bytes)
  ELSE LET n == ReadLength(bytes, MaxCollection)
           so[i \in 0..n.value] ==
             IF i = 0 THEN Got(<< >>, n.rest) ELSE Then(so[i - 1], ReadAll(Take, encoding.of, so[i - 1].rest))
       IN IF n.ok THEN so[n.value] ELSE Failed

ReadFlat(encoding, bytes) == ReadList(ReadOne, encoding, bytes)
Read(encoding, bytes) == ReadList(ReadFlat, encoding, bytes)

(***************************************************************************)
(* Requests and responses: name of the kind, tag, fields in order.         *)
(***************************************************************************)

Kind(tag, names, encodings) == [tag |-> tag, names |-> names, encodings |-> encodings]

RequestWritten == [
  TermStats |-> Kind(1, <<"terms">>, <<List(<<Str>>)>>),
  Search |-> Kind(2, <<"query", "limit", "doc_count", "total_length", "doc_freq">>,
                  <<Str, Varint, Varint, Varint, List(<<Str, Varint>>)>>),
  Stats |-> Kind(3, << >>, << >>),
  Lease |-> Kind(4, <<"host", "delay", "permits">>, <<Str, Varint, Varint>>),
  RankInit |-> Kind(5, <<"nodes", "shards", "damping", "tolerance">>, <<Varint, Varint, F32, F32>>),
  RankDangling |-> Kind(6, << >>, << >>),
  RankEmit |-> Kind(7, << >>, << >>),
  RankAbsorb |-> Kind(8, <<"contributions">>, <<Shares>>),
  RankApply |-> Kind(9, <<"dangling">>, <<F32>>),
  RankResults |-> Kind(10, << >>, << >>),
  SegmentInfo |-> Kind(11, <<"name">>, <<Str>>),
  SegmentChunk |-> Kind(12, <<"name", "offset", "len">>, <<Str, Varint, U32>>),
  Robots |-> Kind(13, <<"host", "learned", "state", "text">>, <<Str, U8, U8, Str>>),
  Manifest |-> Kind(14, << >>, << >>),
  Refresh |-> Kind(15, << >>, << >>)]

\* A lease is read with its delay and its permits the wrong way round.
BugRequestRead ==
  [RequestWritten EXCEPT !.Lease = Kind(4, <<"host", "permits", "delay">>, <<Str, Varint, Varint>>)]

RequestRead == [
  TermStats |-> Kind(1, <<"terms">>, <<List(<<Str>>)>>),
  Search |-> Kind(2, <<"query", "limit", "doc_count", "total_length", "doc_freq">>,
                  <<Str, Varint, Varint, Varint, List(<<Str, Varint>>)>>),
  Stats |-> Kind(3, << >>, << >>),
  Lease |-> Kind(4, <<"host", "delay", "permits">>, <<Str, Varint, Varint>>),
  RankInit |-> Kind(5, <<"nodes", "shards", "damping", "tolerance">>, <<Varint, Varint, F32, F32>>),
  RankDangling |-> Kind(6, << >>, << >>),
  RankEmit |-> Kind(7, << >>, << >>),
  RankAbsorb |-> Kind(8, <<"contributions">>, <<Shares>>),
  RankApply |-> Kind(9, <<"dangling">>, <<F32>>),
  RankResults |-> Kind(10, << >>, << >>),
  SegmentInfo |-> Kind(11, <<"name">>, <<Str>>),
  SegmentChunk |-> Kind(12, <<"name", "offset", "len">>, <<Str, Varint, U32>>),
  Robots |-> Kind(13, <<"host", "learned", "state", "text">>, <<Str, U8, U8, Str>>),
  Manifest |-> Kind(14, << >>, << >>),
  Refresh |-> Kind(15, << >>, << >>)]

ResponseWritten == [
  TermStats |-> Kind(1, <<"doc_count", "total_length", "doc_freq", "k1", "b", "authority">>,
                     <<Varint, Varint, List(<<Varint>>), F32, F32, F32>>),
  Hits |-> Kind(2, <<"hits">>, <<Shares>>),
  Stats |-> Kind(3, <<"documents", "terms", "average", "segments">>, <<Varint, Varint, F32, Varint>>),
  Error |-> Kind(4, <<"message">>, <<Str>>),
  Lease |-> Kind(5, <<"wait", "permits", "spacing">>, <<Varint, Varint, Varint>>),
  RankDangling |-> Kind(6, <<"dangling">>, <<F32>>),
  RankBoundaries |-> Kind(7, <<"per_shard">>, <<List(<<Shares>>)>>),
  RankRound |-> Kind(8, <<"dangling", "residual">>, <<F32, F32>>),
  RankResults |-> Kind(9, <<"ranks">>, <<Shares>>),
  Ok |-> Kind(10, << >>, << >>),
  SegmentInfo |-> Kind(11, <<"digest", "len">>, <<Varint, Varint>>),
  SegmentChunk |-> Kind(12, <<"bytes">>, <<Raw>>),
  Robots |-> Kind(13, <<"state", "text">>, <<U8, Str>>),
  Manifest |-> Kind(14, <<"text">>, <<Str>>),
  Refreshed |-> Kind(15, <<"fetched", "segments", "documents">>, <<Varint, Varint, Varint>>)]

ResponseRead == [
  TermStats |-> Kind(1, <<"doc_count", "total_length", "doc_freq", "k1", "b", "authority">>,
                     <<Varint, Varint, List(<<Varint>>), F32, F32, F32>>),
  Hits |-> Kind(2, <<"hits">>, <<Shares>>),
  Stats |-> Kind(3, <<"documents", "terms", "average", "segments">>, <<Varint, Varint, F32, Varint>>),
  Error |-> Kind(4, <<"message">>, <<Str>>),
  Lease |-> Kind(5, <<"wait", "permits", "spacing">>, <<Varint, Varint, Varint>>),
  RankDangling |-> Kind(6, <<"dangling">>, <<F32>>),
  RankBoundaries |-> Kind(7, <<"per_shard">>, <<List(<<Shares>>)>>),
  RankRound |-> Kind(8, <<"dangling", "residual">>, <<F32, F32>>),
  RankResults |-> Kind(9, <<"ranks">>, <<Shares>>),
  Ok |-> Kind(10, << >>, << >>),
  SegmentInfo |-> Kind(11, <<"digest", "len">>, <<Varint, Varint>>),
  SegmentChunk |-> Kind(12, <<"bytes">>, <<Raw>>),
  Robots |-> Kind(13, <<"state", "text">>, <<U8, Str>>),
  Manifest |-> Kind(14, <<"text">>, <<Str>>),
  Refreshed |-> Kind(15, <<"fetched", "segments", "documents">>, <<Varint, Varint, Varint>>)]

\* A message is its kind and the values of its fields by name.
Encode(written, message) ==
  LET k == written[message.kind]
  IN <<k.tag>> \o WriteAll(Write, k.encodings, [i \in DOMAIN k.names |-> message.fields[k.names[i]]])

\* Nothing may be left over.
Decode(read, bytes) ==
  LET kinds == {kind \in DOMAIN read : bytes # << >> /\ read[kind].tag = bytes[1]}
      kind == CHOOSE name \in kinds : TRUE
      k == read[kind]
      body == ReadAll(Read, k.encodings, Tail(bytes))
      at(name) == CHOOSE i \in DOMAIN k.names : k.names[i] = name
  IN IF kinds = {} THEN Corrupt
     ELSE IF ~body.ok \/ body.rest # << >> THEN Corrupt
     ELSE [kind |-> kind, fields |-> [name \in ToSet(k.names) |-> body.value[at(name)]]]

(***************************************************************************)
(* Frames on a connection: a length, then that many bytes.                 *)
(***************************************************************************)

WriteFrame(payload) == IF Len(payload) > MaxFrame THEN Failed ELSE Got(<<Len(payload)>> \o payload, << >>)
ReadFrame(stream) ==
  IF stream = << >> \/ stream[1] > MaxFrame THEN Failed ELSE TakeBytes(Tail(stream), stream[1])
=============================================================================
