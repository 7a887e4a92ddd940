-------------------------------- MODULE Scan --------------------------------
(***************************************************************************)
(* A query against one segment (crates/index/src/search.rs): MaxScore over *)
(* the union of the words' postings, and the positional path of a query    *)
(* with phrases.  The segment is built from documents in one pass, from    *)
(* two builders, or by merging two segments.                               *)
(*                                                                         *)
(* What the walk leaves out must not be missed: its answer is that of an   *)
(* exhaustive ranking, computed here from the documents and not from the   *)
(* segment.                                                                *)
(***************************************************************************)
EXTENDS Postings

CONSTANTS
  Corpora,   \* sequences of documents
  Queries,   \* [terms, byCeiling, prefix, excluded: sets; phrases: set of sequences of two and more]
  Limits,
  Globals,   \* corpus-wide statistics, or None: score with the segment's own
  None

(* Documents have a uri each.  Statistics are sums of which this segment is *)
(* a part: no word is in more documents than there are.                     *)
ASSUME ScanAssumption ==
  /\ Corpora \subseteq Seq(Documents) /\ \A c \in Corpora : Len(c) <= Len(Uri)
  /\ Limits \subseteq Nat
  /\ \A q \in Queries : /\ q.terms \subseteq Terms /\ q.excluded \subseteq Terms
                        /\ q.phrases \subseteq Seq(Terms) \ {<< >>}
                        /\ IsFiniteSet(q.terms) /\ IsFiniteSet(q.excluded) /\ IsFiniteSet(q.phrases)
  /\ \A g \in Globals \ {None} :
       /\ g.docs \in Nat \ {0} /\ g.length \in Nat
       /\ \A t \in Terms : IF t \in DOMAIN g.freq THEN g.freq[t] \in 0..g.docs
                                                   ELSE \A c \in Corpora : Len(c) <= g.docs

VARIABLES
  corpus, query, limit, global,
  builders,   \* what is being indexed, not yet written
  segments,   \* what is written
  terms,      \* Scan.terms: [idf, ceiling, cursor], in the order of the words
  byCeiling,  \* Scan.by_ceiling: their indexes, those that can add least first
  prefix,     \* Scan.prefix: the most the first n of those could add together
  excluded,   \* cursors of the excluded words
  postings,   \* decoded whole, with positions, for a query with phrases
  heap,       \* the best so far: [score, doc]
  answer,     \* hits, best first, or None
  pc
scanVars == <<corpus, query, limit, global, builders, segments, terms, byCeiling, prefix, excluded, postings, heap, answer, pc>>
input == <<corpus, query, limit, global>>

\* The one that is searched.
segment == segments[1]

\* scoring_terms, in the order a search sums them
ScoringTerms(q) == q.terms \cup UNION {ToSet(p) : p \in q.phrases}

TotalDocs == IF global = None THEN Len(segment.docs) ELSE global.docs
DocFreq(t, local) == IF global # None /\ t \in DOMAIN global.freq THEN global.freq[t] ELSE local
NormOf(id) ==
  IF global = None THEN LengthNorm(segment.docs[id].length, TotalLength(segment.docs), TotalDocs)
                   ELSE LengthNorm(segment.docs[id].length, global.length, TotalDocs)

Init ==
  /\ corpus \in Corpora
  /\ query = None /\ limit = 0 /\ global = None
  /\ builders = << >> /\ segments = << >>
  /\ terms = << >> /\ byCeiling = << >> /\ prefix = << >> /\ excluded = << >> /\ postings = << >> /\ heap = {} /\ answer = None
  /\ pc = "index"

(***************************************************************************)
(* The segment                                                             *)
(***************************************************************************)

Half == Len(corpus) \div 2
Part(first, last) == BuilderOf(SubSeq(corpus, first, last), SubSeq(Uri, first, last))

\* One thread adds every document, or two do, or two segments are written.
Index ==
  /\ pc = "index"
  /\ \/ builders' = <<Part(1, Len(corpus))>> /\ pc' = "encode"
     \/ builders' = <<Part(1, Half), Part(Half + 1, Len(corpus))>> /\ pc' \in {"absorb", "encode"}
  /\ UNCHANGED <<input, segments, terms, byCeiling, prefix, excluded, postings, heap, answer>>

Absorb ==
  /\ pc = "absorb"
  /\ builders' = <<Absorbed(builders[1], builders[2])>> /\ pc' = "encode"
  /\ UNCHANGED <<input, segments, terms, byCeiling, prefix, excluded, postings, heap, answer>>

Encode ==
  /\ pc = "encode"
  /\ segments' = [i \in DOMAIN builders |-> Encoded(builders[i])]
  /\ builders' = << >>
  /\ pc' = IF Len(builders) = 1 THEN "ask" ELSE "merge"
  /\ UNCHANGED <<input, terms, byCeiling, prefix, excluded, postings, heap, answer>>

Merge ==
  /\ pc = "merge"
  /\ builders' = <<FromSegments(segments[1], segments[2])>> /\ pc' = "encode"
  /\ UNCHANGED <<input, segments, terms, byCeiling, prefix, excluded, postings, heap, answer>>

(***************************************************************************)
(* MaxScore                                                                *)
(***************************************************************************)

\* A query comes in, with statistics or without.
Ask ==
  /\ pc = "ask"
  /\ query' \in Queries /\ limit' \in Limits /\ global' \in Globals
  /\ pc' = "open"
  /\ UNCHANGED <<corpus, builders, segments, terms, byCeiling, prefix, excluded, postings, heap, answer>>

EmptyQuery == query.terms = {} /\ query.phrases = {}
NothingToSearch == EmptyQuery \/ limit = 0 \/ segment.docs = << >>

Opened(t) ==
  LET list == segment.lists[t]
      idf == Idf(TotalDocs, DocFreq(t, list.count))
  IN [idf |-> idf,
      ceiling |-> idf * Max({b.bound : b \in ToSet(list.blocks)}),
      cursor |-> Cursor(list)]

\* Words this segment has never seen are left out.
Present == SetToSeq({t \in ScoringTerms(query) : segment.lists[t].count > 0})

ByCeiling(list) ==
  Sorted(DOMAIN list, LAMBDA i, j : \/ list[i].ceiling < list[j].ceiling
                                    \/ list[i].ceiling = list[j].ceiling /\ i < j)

Open ==
  /\ pc = "open" /\ ~NothingToSearch /\ query.phrases = {}
  /\ terms' = [i \in DOMAIN Present |-> Opened(Present[i])]
  /\ byCeiling' = ByCeiling(terms')
  /\ prefix' = [n \in 0..Len(terms') |->
                  SumFunction([k \in 1..n |-> terms'[byCeiling'[k]].ceiling])]
  /\ LET dropped == SetToSeq(query.excluded)
     IN excluded' = [i \in DOMAIN dropped |-> Cursor(segment.lists[dropped[i]])]
  /\ pc' = IF Present = << >> THEN "finish" ELSE "walk"
  /\ UNCHANGED <<input, builders, segments, postings, heap, answer>>

OpenNothing ==
  /\ pc = "open" /\ NothingToSearch
  /\ answer' = << >> /\ pc' = "done"
  /\ UNCHANGED <<input, builders, segments, terms, byCeiling, prefix, excluded, postings, heap>>

\* Bounds were written with the segment's own averages.
BugBoundsHold == TRUE
BoundsHold == global = None

Threshold == IF Cardinality(heap) < limit THEN 0 ELSE Min({r.score : r \in heap})

NonEssential ==
  IF ~BoundsHold THEN 0 ELSE Max({n \in 0..Len(terms) : prefix[n] <= Threshold})

Essential(split) == {byCeiling[k] : k \in (split + 1)..Len(terms)}
Walking(split) == {i \in Essential(split) : ~terms[i].cursor.exhausted}
Current(split) == Min({terms[i].cursor.doc : i \in Walking(split)})

Stop ==
  /\ pc = "walk" /\ Walking(NonEssential) = {}
  /\ pc' = "finish"
  /\ UNCHANGED <<input, builders, segments, terms, byCeiling, prefix, excluded, postings, heap, answer>>

\* The first cursor on the document, in the order of the ceilings.
At(split, doc) ==
  byCeiling[Min({k \in (split + 1)..Len(terms) : On(terms[byCeiling[k]].cursor, doc)})]

BlockBound(c) == c.list.blocks[CurrentBlock(c) + 1].bound
\* This block's best and the most all other words could add.
Hopeless(i) ==
  BoundsHold /\ terms[i].idf * BlockBound(terms[i].cursor)
                  + (prefix[Len(terms)] - terms[i].ceiling) <= Threshold

\* Where there is no next block the cursor is spent, and the document it was
\* on is considered without it.
Moves(i) == CurrentBlock(SkippedBlock(terms[i].cursor)) # CurrentBlock(terms[i].cursor)

Contribution(term, doc) ==
  IF On(term.cursor, doc)
  THEN term.idf * Saturation(Weighted(term.cursor.fields), NormOf(doc), Params) ELSE 0
Summed(list, chosen, doc) == SumFunction([i \in chosen |-> Contribution(list[i], doc)])
AuthorityOf(doc) == Authority(segment.docs[doc].rank, TotalDocs)

\* push, and pop the worst when there are too many: of two that tie, the later.
Worse(r, s) == r.score < s.score \/ (r.score = s.score /\ r.doc > s.doc)
Pushed(h, r) ==
  LET all == h \cup {r}
  IN IF Cardinality(all) <= limit THEN all
     ELSE all \ {CHOOSE w \in all : \A o \in all \ {w} : Worse(w, o)}

\* Excluded cursors are sought one after another, up to the first that is on it.
Dropping(doc) == {i \in DOMAIN excluded : On(Sought(excluded[i], doc), doc)}
SoughtExcluded(doc) ==
  [i \in DOMAIN excluded |-> IF \E j \in Dropping(doc) : j < i THEN excluded[i]
                                                               ELSE Sought(excluded[i], doc)]

\* consider: what the essential words give and the others could add decides
\* whether the others are looked up and the document is scored.
Scored(split, list, doc) ==
  /\ Dropping(doc) = {}
  /\ (prefix[split] + Summed(list, Essential(split), doc)) * AuthorityOf(doc) > Threshold
LookedUp(split, list, doc) ==
  [i \in DOMAIN list |-> IF i \in Essential(split) THEN list[i]
                                                   ELSE [list[i] EXCEPT !.cursor = Sought(@, doc)]]
Considered(split, list, doc) ==
  IF ~Scored(split, list, doc) THEN [list |-> list, heap |-> heap]
  ELSE LET looked == LookedUp(split, list, doc)
           score == Summed(looked, DOMAIN looked, doc) * AuthorityOf(doc)
       IN [list |-> looked, heap |-> Pushed(heap, [score |-> score, doc |-> doc])]
\* Every essential cursor on the document goes on.
GoneOn(split, list, doc) ==
  [i \in DOMAIN list |-> IF i \in Essential(split) /\ On(list[i].cursor, doc)
                         THEN [list[i] EXCEPT !.cursor = Advanced(@)] ELSE list[i]]

\* One turn of the loop.
Turn ==
  /\ pc = "walk" /\ Walking(NonEssential) # {}
  /\ \E split \in {NonEssential} : \E doc \in {Current(split)} : \E i \in {At(split, doc)} :
       \E here \in {IF Hopeless(i) THEN [terms EXCEPT ![i].cursor = SkippedBlock(@)] ELSE terms} :
         IF Hopeless(i) /\ Moves(i)
         THEN terms' = here /\ UNCHANGED <<excluded, heap>>
         ELSE \E after \in {Considered(split, here, doc)} :
                /\ terms' = GoneOn(split, after.list, doc)
                /\ heap' = after.heap
                /\ excluded' = SoughtExcluded(doc)
  /\ UNCHANGED <<input, builders, segments, byCeiling, prefix, postings, answer, pc>>

\* Best first, ties by uri (sort_hits).
Before(h, g) == h.score > g.score \/ (h.score = g.score /\ h.uri < g.uri)
Ordered(hits) == Sorted(hits, Before)
Hits(ranked) == Ordered({[uri |-> segment.docs[r.doc].uri, score |-> r.score] : r \in ranked})

Finish ==
  /\ pc = "finish"
  /\ answer' = Hits(heap) /\ pc' = "done"
  /\ UNCHANGED <<input, builders, segments, terms, byCeiling, prefix, excluded, postings, heap>>

(***************************************************************************)
(* Phrases                                                                 *)
(***************************************************************************)

DecodeWords ==
  /\ pc = "open" /\ ~NothingToSearch /\ query.phrases # {}
  /\ postings' = [t \in ScoringTerms(query) \cup query.excluded |-> Decoded(segment.lists[t])]
  /\ pc' = "phrases"
  /\ UNCHANGED <<input, builders, segments, terms, byCeiling, prefix, excluded, heap, answer>>

\* Adjacent and in order, within one field.
PhraseMatches(phrase, id) ==
  \E f \in Fields : \E start \in postings[phrase[1]][id][f] :
    \A i \in DOMAIN phrase : start + i - 1 \in postings[phrase[i]][id][f]

\* select_candidates: phrases intersect, exclusions drop, positions decide.
Candidates ==
  {id \in DOMAIN segment.docs :
     /\ \A p \in query.phrases : \A t \in ToSet(p) : id \in DOMAIN postings[t]
     /\ \A t \in query.excluded : id \notin DOMAIN postings[t]
     /\ \A p \in query.phrases : PhraseMatches(p, id)}

CandidateScore(id) ==
  AuthorityOf(id) *
    SumFunction([t \in {u \in ScoringTerms(query) : id \in DOMAIN postings[u]} |->
      Idf(TotalDocs, DocFreq(t, segment.lists[t].count))
        * Saturation(Weighted(postings[t][id]), NormOf(id), Params)])

\* What pushing them one after another leaves: the best.
Best(ranked) == {r \in ranked : Cardinality({s \in ranked : Worse(r, s)}) < limit}

ScoreCandidates ==
  /\ pc = "phrases"
  /\ heap' = Best({[score |-> CandidateScore(id), doc |-> id] : id \in Candidates})
  /\ postings' = << >>
  /\ pc' = "finish"
  /\ UNCHANGED <<input, builders, segments, terms, byCeiling, prefix, excluded, answer>>

Next == Index \/ Absorb \/ Encode \/ Merge \/ Ask \/ Open \/ OpenNothing \/ Stop \/ Turn \/ Finish \/ DecodeWords \/ ScoreCandidates
          \/ (pc = "done" /\ UNCHANGED scanVars)

Spec == Init /\ [][Next]_scanVars

(***************************************************************************)
(* Properties                                                              *)
(***************************************************************************)

Says(id, t) == Has(corpus[id], t)
Freq(t) == Cardinality({id \in DOMAIN corpus : Says(id, t)})
AllTokens == SumFunction([id \in DOMAIN corpus |-> Tokens[corpus[id]]])
Stats == IF global # None THEN global
         ELSE [docs |-> Len(corpus), length |-> AllTokens, freq |-> [t \in Terms |-> Freq(t)]]
TrueScore(id) ==
  Authority(corpus[id].rank, Stats.docs) *
    SumFunction([t \in {u \in ScoringTerms(query) : Says(id, u)} |->
      Idf(Stats.docs, IF t \in DOMAIN Stats.freq THEN Stats.freq[t] ELSE Freq(t))
        * Saturation(Weighted(Occurrences[corpus[id]][t]),
                     LengthNorm(Tokens[corpus[id]], Stats.length, Stats.docs), Params)])

ReadsIn(text, phrase) ==
  \E s \in DOMAIN text : /\ s + Len(phrase) - 1 \in DOMAIN text
                         /\ SubSeq(text, s, s + Len(phrase) - 1) = phrase
Wanted(id) ==
  /\ IF query.phrases = {}
     THEN \E t \in query.terms : Says(id, t)
     ELSE \A p \in query.phrases : \E f \in Fields : ReadsIn(Words(corpus[id], f), p)
  /\ \A t \in query.excluded : ~Says(id, t)

Ranking ==
  {[uri |-> Uri[r.doc], score |-> r.score] :
     r \in Best({[score |-> TrueScore(id), doc |-> id] : id \in {d \in DOMAIN corpus : Wanted(d)}})}

(* However many blocks and words the walk leaves unread, however the        *)
(* segment came to be, and whichever statistics it is scored with, the      *)
(* answer is the exhaustive ranking of the documents: the same documents,   *)
(* scores and order (search.rs:285-287, builder.rs:203-206, 265-273).       *)
AnswerIsExhaustive == pc = "done" => answer = Ordered(Ranking)

(* A cursor that has skipped, sought or advanced reads the posting a plain  *)
(* decode would have found at its index: no gap is taken for a number, no   *)
(* number for a gap, and what it reads next is what follows.                *)
CursorsReadTheList ==
  \A c \in {terms[i].cursor : i \in DOMAIN terms} \cup ToSet(excluded) :
    ~c.exhausted => /\ c.doc = DecodedDocs(c.list)[c.index + 1]
                    /\ c.at = c.index + 1
                    /\ c.fields = c.list.cells[c.index + 1].fields

Passed(c) == IF c.exhausted THEN c.list.count ELSE c.index
PassedBy(list) == SumFunction([i \in DOMAIN list |-> Passed(list[i].cursor)])

(* The walk ends: every turn leaves postings behind for good, whether it    *)
(* skipped a block, the last one too, or considered a document              *)
(* (search.rs:522-525).                                                     *)
TurnsAdvance == [][pc = "walk" /\ pc' = "walk" => PassedBy(terms') > PassedBy(terms)]_scanVars

-----------------------------------------------------------------------------
(* What the documents say and the code does not do.                         *)

(* "All anchor texts share one position space, so a phrase cannot           *)
(* accidentally straddle two different links" (builder.rs:150-151): a hit   *)
(* of a phrase has it in its title, its body or in the text of one link.    *)
PhrasesKeepToOneLink ==
  pc = "done" =>
    \A h \in ToSet(answer), p \in query.phrases, id \in DOMAIN corpus :
      h.uri = Uri[id] => \E text \in {corpus[id].title, corpus[id].body} \cup ToSet(corpus[id].anchors) :
                            ReadsIn(text, p)
=============================================================================
