------------------------------- MODULE Corpus -------------------------------
(***************************************************************************)
(* What an index answers (crates/index: scoring.rs, search.rs, index.rs):  *)
(* an index is a list of segments, a segment a list of documents and the   *)
(* scoring parameters it was written with.  How rare a word is and how     *)
(* long a document is are properties of the whole corpus, so segments are  *)
(* scored with statistics that were summed over all of them.               *)
(*                                                                         *)
(* Queries here have no phrases, and documents no rank.                    *)
(***************************************************************************)
EXTENDS Scoring, Sequences, SequencesExt, FiniteSetsExt

CONSTANTS
  Terms,
  Frequency,     \* how often a document has a term: [documents -> [Terms -> Nat]]
  Length,        \* of a document in tokens
  DefaultParams

\* Documents are numbers: their order is that of their uris.
Docs == DOMAIN Length

ASSUME CorpusAssumption ==
  /\ Docs \subseteq Nat /\ Length \in [Docs -> Nat]
  /\ Frequency \in [Docs -> [Terms -> Nat]]
  /\ DefaultParams \in Nat \ {0}

\* What a segment is: documents, each once, and the parameters they were
\* written with.
Segments == [docs : {docs \in Seq(Docs) : IsInjective(docs)}, params : Nat \ {0}]

\* GlobalStats, summed part by part over a family of them.
NoStats == [docs |-> 0, length |-> 0, freq |-> [t \in Terms |-> 0]]
Together(parts) ==
  [docs |-> SumFunction([p \in DOMAIN parts |-> parts[p].docs]),
   length |-> SumFunction([p \in DOMAIN parts |-> parts[p].length]),
   freq |-> [t \in Terms |-> SumFunction([p \in DOMAIN parts |-> parts[p].freq[t]])]]

SegmentDocs(segment) == ToSet(segment.docs)
SegmentStats(segment) ==
  [docs |-> Len(segment.docs),
   length |-> SumFunctionOnSet(Length, SegmentDocs(segment)),
   freq |-> [t \in Terms |-> Cardinality({d \in SegmentDocs(segment) : Frequency[d][t] > 0})]]
IndexStats(index) == Together([i \in DOMAIN index |-> SegmentStats(index[i])])

\* Index::params: what all segments agree on, or nothing.
ParamsOf(index) == {segment.params : segment \in ToSet(index)}
Agreed(index) == Cardinality(ParamsOf(index)) <= 1
IndexParams(index) == IF index = << >> THEN DefaultParams ELSE index[1].params

Score(d, query, stats, params) ==
  LET norm == LengthNorm(Length[d], stats.length, stats.docs)
  IN SumFunction([t \in {u \in query.terms : Frequency[d][u] > 0} |->
                    Idf(stats.docs, stats.freq[t]) * Saturation(Frequency[d][t], norm, params)])

\* Any term qualifies a document, any excluded one disqualifies it.
Matches(d, query) == /\ \E t \in query.terms : Frequency[d][t] > 0
                     /\ \A t \in query.excluded : Frequency[d][t] = 0

\* Best first, ties by uri (sort_hits).
Before(h, g) == h.score > g.score \/ (h.score = g.score /\ h.uri < g.uri)
Ordered(hits) ==
  [i \in 1..Cardinality(hits) |->
     CHOOSE h \in hits : Cardinality({g \in hits : Before(g, h)}) = i - 1]
Truncated(hits, limit) == SubSeq(hits, 1, IF Len(hits) < limit THEN Len(hits) ELSE limit)

\* search_with_stats: the heap breaks ties by document id, which is where a
\* document landed in its segment; statistics of nothing mean "score locally".
Top(segment, query, supplied) ==
  LET stats == IF supplied.docs = 0 THEN SegmentStats(segment) ELSE supplied
      score == [i \in DOMAIN segment.docs |-> Score(segment.docs[i], query, stats, segment.params)]
      matching == {i \in DOMAIN segment.docs : Matches(segment.docs[i], query)}
      ahead(i) == {j \in matching : score[j] > score[i] \/ (score[j] = score[i] /\ j < i)}
  IN {[uri |-> segment.docs[i], score |-> score[i]] :
        i \in {k \in matching : Cardinality(ahead(k)) < query.limit}}

\* Each segment's own top is enough to ask for: the top of all is among them.
AllTop(index, query, stats) == UNION {Top(segment, query, stats) : segment \in ToSet(index)}

\* Index::search, of an index whose segments agree: a family of segments, for
\* the answer does not ask which comes first.
IndexSearch(index, query) ==
  LET stats == IF Cardinality(DOMAIN index) = 1 THEN NoStats ELSE IndexStats(index)
  IN Truncated(Ordered(AllTop(index, query, stats)), query.limit)
=============================================================================
