------------------------------ MODULE Postings ------------------------------
(***************************************************************************)
(* Postings lists (crates/index: builder.rs, segment.rs): documents become *)
(* occurrences, occurrences become lists of postings in blocks with a skip *)
(* index, and a cursor walks such a list, jumping over blocks.             *)
(*                                                                         *)
(* A document is what tokenising leaves of it: a sequence of words for its *)
(* title and its body, and one for each link to it.  Byte offsets are      *)
(* numbers of postings, and the skip index keeps what they are for: the    *)
(* gap to the previous document is only meaningful inside a block.         *)
(* Documents are numbered from one.                                        *)
(***************************************************************************)
EXTENDS Scoring, Sequences, SequencesExt, FiniteSetsExt

CONSTANTS
  Documents,
  Uri,            \* the uri of the document that is added first, second, ...
  Terms,          \* words
  SkipInterval,   \* postings in a block
  Params          \* what bounds and scores are computed with

ASSUME PostingsAssumption ==
  /\ SkipInterval \in Nat \ {0} /\ Params \in Nat /\ Uri \in Seq(Nat)
  /\ \A d \in Documents : /\ d.title \in Seq(Terms) /\ d.body \in Seq(Terms)
                          /\ d.anchors \in Seq(Seq(Terms)) /\ d.rank \in Nat

\* The members of a set in the order of a relation that is total on them.
Sorted(S, Less(_, _)) ==
  [i \in 1..Cardinality(S) |-> CHOOSE x \in S : Cardinality({y \in S : Less(y, x)}) = i - 1]

Ascending(numbers) == Sorted(numbers, <)

Fields == {"title", "body", "anchor"}
Weight == [title |-> 3, body |-> 1, anchor |-> 2]

(***************************************************************************)
(* SegmentBuilder                                                          *)
(***************************************************************************)

\* The texts of all links share one numbering of positions.
Words(document, field) ==
  IF field = "anchor" THEN FlattenSeq(document.anchors) ELSE document[field]
Occurrences ==
  [d \in Documents |-> [t \in Terms |-> [f \in Fields |->
     {p \in DOMAIN Words(d, f) : Words(d, f)[p] = t}]]]
Tokens == [d \in Documents |-> SumFunction([f \in Fields |-> Len(Words(d, f))])]
Has(d, t) == \E f \in Fields : Occurrences[d][t][f] # {}

\* add, one document after another: numbers are handed out in that order, and
\* ranks are set on what was added.
BuilderOf(documents, uris) ==
  [docs |-> [id \in DOMAIN documents |->
      [uri |-> uris[id], length |-> Tokens[documents[id]], rank |-> documents[id].rank]],
   terms |-> [t \in Terms |->
     [id \in {d \in DOMAIN documents : Has(documents[d], t)} |-> Occurrences[documents[id]][t]]]]

\* absorb: the other's documents follow these ones.
Absorbed(builder, other) ==
  LET shift == Len(builder.docs)
      moved(t) == {id + shift : id \in DOMAIN other.terms[t]}
  IN [docs |-> builder.docs \o other.docs,
      terms |-> [t \in Terms |-> [id \in DOMAIN builder.terms[t] \cup moved(t) |->
        IF id > shift THEN other.terms[t][id - shift] ELSE builder.terms[t][id]]]]

TotalLength(docs) == SumFunction([id \in DOMAIN docs |-> docs[id].length])
Weighted(occurrences) == SumFunction([f \in Fields |-> Weight[f] * Cardinality(occurrences[f])])

\* posting_bound: the most a posting adds to a score, but for its word's idf.
PostingBound(occurrences, meta, totalLength, docs) ==
  Saturation(Weighted(occurrences), LengthNorm(meta.length, totalLength, docs), Params)
    * Authority(meta.rank, docs)

\* encode: a list of postings, each a gap to the one before, each block's
\* first an absolute number.
EncodedList(docs, totalLength, list) ==
  LET ids == Ascending(DOMAIN list)
      blocks == (Len(ids) + SkipInterval - 1) \div SkipInterval
      first(k) == (k - 1) * SkipInterval + 1
      members(k) == {i \in DOMAIN ids : i \in first(k)..(k * SkipInterval)}
  IN [count |-> Len(ids),
      cells |-> [i \in DOMAIN ids |->
        [value |-> IF (i - 1) % SkipInterval = 0 THEN ids[i] ELSE ids[i] - ids[i - 1],
         fields |-> list[ids[i]]]],
      blocks |-> [k \in 1..blocks |->
        [first |-> ids[first(k)], at |-> first(k) - 1,
         bound |-> Max({PostingBound(list[ids[i]], docs[ids[i]], totalLength, Len(docs)) : i \in members(k)})]]]

Encoded(builder) ==
  LET totalLength == TotalLength(builder.docs)
  IN [docs |-> builder.docs,
      lists |-> [t \in Terms |-> EncodedList(builder.docs, totalLength, builder.terms[t])]]

(***************************************************************************)
(* Segment                                                                 *)
(***************************************************************************)

\* decode_postings: every block restarts from an absolute number.
DecodedDocs(list) ==
  [i \in 1..list.count |->
     LET first == ((i - 1) \div SkipInterval) * SkipInterval + 1
     IN SumFunction([j \in first..i |-> list.cells[j].value])]
Decoded(list) ==
  [id \in {DecodedDocs(list)[i] : i \in 1..list.count} |->
     list.cells[CHOOSE i \in 1..list.count : DecodedDocs(list)[i] = id].fields]

\* from_segments, of two: what each segment knows, one after the other.
FromSegments(one, other) ==
  LET known(segment) == [docs |-> segment.docs,
                         terms |-> [t \in Terms |-> Decoded(segment.lists[t])]]
  IN Absorbed(known(one), known(other))

(***************************************************************************)
(* PostingsCursor: "at" is where the next posting is read from, "index"    *)
(* the number of the one read last.                                        *)
(***************************************************************************)

NoOccurrences == [f \in Fields |-> {}]

\* read_here
Read(c, absolute) ==
  LET cell == c.list.cells[c.at + 1]
  IN [c EXCEPT !.doc = IF absolute THEN cell.value ELSE @ + cell.value,
               !.fields = cell.fields, !.at = @ + 1]

Cursor(list) ==
  LET start == [list |-> list, at |-> 0, index |-> 0, doc |-> 0,
                fields |-> NoOccurrences, exhausted |-> list.count = 0]
  IN IF list.count = 0 THEN start ELSE Read(start, TRUE)

CurrentBlock(c) == c.index \div SkipInterval
On(c, id) == ~c.exhausted /\ c.doc = id

\* The gap of a block's first posting is taken for a gap.
BugAdvanced(c) ==
  IF c.exhausted THEN c
  ELSE IF c.index + 1 >= c.list.count THEN [c EXCEPT !.index = @ + 1, !.exhausted = TRUE]
  ELSE Read([c EXCEPT !.index = @ + 1], FALSE)

Advanced(c) ==
  IF c.exhausted THEN c
  ELSE IF c.index + 1 >= c.list.count THEN [c EXCEPT !.index = @ + 1, !.exhausted = TRUE]
  ELSE Read([c EXCEPT !.index = @ + 1], (c.index + 1) % SkipInterval = 0)

\* Jumps to the start of a block, counted from zero.
Jumped(c, block) ==
  Read([c EXCEPT !.at = c.list.blocks[block + 1].at, !.index = block * SkipInterval,
                 !.doc = c.list.blocks[block + 1].first], TRUE)

\* To the start of the block it is in.
BugSkippedBlock(c) == IF c.exhausted THEN c ELSE Jumped(c, CurrentBlock(c))

SkippedBlock(c) ==
  IF c.exhausted THEN c
  ELSE IF CurrentBlock(c) + 1 < Len(c.list.blocks) THEN Jumped(c, CurrentBlock(c) + 1)
  ELSE [c EXCEPT !.exhausted = TRUE]

\* seek: to the last block that starts at or before the target if that is
\* ahead, and on from there, posting by posting.
Nearer(c, target) == IF ~c.exhausted /\ c.doc < target THEN Advanced(c) ELSE c
Sought(c, target) ==
  LET starts == Cardinality({k \in DOMAIN c.list.blocks : c.list.blocks[k].first <= target})
      block == IF starts = 0 THEN 0 ELSE starts - 1
      near == IF block * SkipInterval > c.index THEN Jumped(c, block) ELSE c
      after[n \in 0..c.list.count] == IF n = 0 THEN near ELSE Nearer(after[n - 1], target)
  IN IF c.exhausted \/ c.doc >= target THEN c ELSE after[c.list.count]
=============================================================================
