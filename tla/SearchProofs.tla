---------------------------- MODULE SearchProofs ----------------------------
(***************************************************************************)
(* What Search guarantees for any shards, copies, indexes and queries: no  *)
(* task is given the answer to another's request, a round is made of       *)
(* answers to that round, the answer to a query is the best of what the    *)
(* shards held, and it is what one index of all their segments answers.    *)
(***************************************************************************)
EXTENDS Search, Sums

-----------------------------------------------------------------------------
(* Hits in order.                                                           *)

Hits == [uri : Docs, score : Int]
AheadOf(hits) == [h \in hits |-> {g \in hits : Before(g, h)}]

LEMMA HitsAreRanked == ASSUME NEW S \in SUBSET Hits PROVE IsAhead(S, AheadOf(S))
<1>0. Docs \subseteq Nat
  BY CorpusAssumption
<1>1. /\ \A x \in S : x.score \in Int /\ x.uri \in Nat
      /\ \A x, y \in S : x.score = y.score /\ x.uri = y.uri => x = y
  <2>1. \A x \in Hits : x.score \in Int /\ x.uri \in Docs
    BY DEF Hits
  <2>2. \A x, y \in Hits : x.score = y.score /\ x.uri = y.uri => x = y
    <3>1. ASSUME NEW x \in Hits, NEW y \in Hits, x.score = y.score, x.uri = y.uri PROVE x = y
      <4>1. x = [uri |-> x.uri, score |-> x.score] /\ y = [uri |-> y.uri, score |-> y.score]
        BY DEF Hits
      <4>. QED  BY <3>1, <4>1
    <3>. QED  BY <3>1
  <2>. QED  BY <2>1, <2>2, <1>0
<1>2. \A x, y \in S : x = y \/ Before(x, y) \/ Before(y, x)
  BY <1>1 DEF Before
<1>3. \A x \in S : ~Before(x, x)
  BY <1>1 DEF Before
<1>4. \A x, y, z \in S : Before(x, y) /\ Before(y, z) => Before(x, z)
  BY <1>1 DEF Before
<1>5. \A x \in S : AheadOf(S)[x] = {g \in S : Before(g, x)}
  BY DEF AheadOf
<1>. QED  BY <1>2, <1>3, <1>4, <1>5 DEF IsAhead

(* The i-th of them is the one that i - 1 come before.                      *)
LEMMA OrderedByRank ==
  ASSUME NEW S \in SUBSET Hits, IsFiniteSet(S)
  PROVE  /\ Ordered(S) \in [1..Cardinality(S) -> S]
         /\ \A i \in 1..Cardinality(S) : Cardinality(AheadOf(S)[Ordered(S)[i]]) = i - 1
<1>. SUFFICES ASSUME NEW i \in 1..Cardinality(S)
              PROVE  /\ Ordered(S)[i] \in S
                     /\ Cardinality(AheadOf(S)[Ordered(S)[i]]) = i - 1
  BY DEF Ordered
<1>1. Cardinality(S) \in Nat
  BY FS_CardinalityType
<1>2. i - 1 \in 0..Cardinality(S) - 1
  BY <1>1
<1>3. \E h \in S : Cardinality(AheadOf(S)[h]) = i - 1
  BY <1>2, HitsAreRanked, RanksFill
<1>4. \E h \in S : Cardinality({g \in S : Before(g, h)}) = i - 1
  BY <1>3 DEF AheadOf
<1>5. /\ Ordered(S)[i] \in S
      /\ Cardinality({g \in S : Before(g, Ordered(S)[i])}) = i - 1
  BY <1>4 DEF Ordered
<1>. QED  BY <1>5 DEF AheadOf

(* What is left of them when they are cut: those of the lowest ranks.       *)
LEMMA TruncatedByRank ==
  ASSUME NEW S \in SUBSET Hits, IsFiniteSet(S), NEW k \in Nat,
         NEW t, t = Truncated(Ordered(S), k)
  PROVE  /\ t \in Seq(S)
         /\ Len(t) = IF Cardinality(S) < k THEN Cardinality(S) ELSE k
         /\ \A i \in 1..Len(t) : Cardinality(AheadOf(S)[t[i]]) = i - 1
         /\ ToSet(t) = {h \in S : Cardinality(AheadOf(S)[h]) < k}
<1>. DEFINE n == Cardinality(S)
            m == IF n < k THEN n ELSE k
<1>1. n \in Nat /\ m \in 0..n
  BY FS_CardinalityType
<1>2. Ordered(S) \in [1..n -> S] /\ \A i \in 1..n : Cardinality(AheadOf(S)[Ordered(S)[i]]) = i - 1
  BY OrderedByRank
<1>. HIDE DEF n
<1>3. Ordered(S) \in Seq(S) /\ Len(Ordered(S)) = n
  BY <1>1, <1>2
<1>4. t = SubSeq(Ordered(S), 1, m)
  BY <1>3 DEF Truncated
<1>. HIDE DEF m
<1>5. t \in Seq(S) /\ Len(t) = m /\ \A i \in 1..m : t[i] = Ordered(S)[i]
  BY <1>1, <1>3, <1>4
<1>6. \A i \in 1..m : Cardinality(AheadOf(S)[t[i]]) = i - 1 /\ t[i] \in S
  BY <1>1, <1>2, <1>5
<1>7. ASSUME NEW h \in S, Cardinality(AheadOf(S)[h]) < k PROVE h \in ToSet(t)
  <2>1. Cardinality(AheadOf(S)[h]) \in 0..n - 1
    BY HitsAreRanked, RanksFill DEF n
  <2>2. PICK i \in 1..m : i = Cardinality(AheadOf(S)[h]) + 1
    BY <1>1, <1>7, <2>1 DEF m
  <2>3. Cardinality(AheadOf(S)[t[i]]) = Cardinality(AheadOf(S)[h])
    BY <1>6, <2>1, <2>2
  <2>4. t[i] = h
    BY <1>6, <2>3, HitsAreRanked, RanksDiffer
  <2>. QED  BY <1>5, <2>4 DEF ToSet
<1>8. \A i \in 1..m : Cardinality(AheadOf(S)[t[i]]) < k
  BY <1>1, <1>6 DEF m
<1>9. ToSet(t) = {t[i] : i \in 1..m}
  BY <1>5 DEF ToSet
<1>. QED  BY <1>5, <1>6, <1>7, <1>8, <1>9 DEF n, m

(* They are all different, and the better ones come first.                  *)
LEMMA TruncatedDescends ==
  ASSUME NEW S \in SUBSET Hits, IsFiniteSet(S), NEW k \in Nat,
         NEW t, t = Truncated(Ordered(S), k)
  PROVE  /\ IsFiniteSet(ToSet(t)) /\ Cardinality(ToSet(t)) = Len(t)
         /\ \A i, j \in 1..Len(t) : i <= j => t[i].score >= t[j].score
<1>1. /\ t \in Seq(S)
      /\ Len(t) = IF Cardinality(S) < k THEN Cardinality(S) ELSE k
      /\ \A i \in 1..Len(t) : Cardinality(AheadOf(S)[t[i]]) = i - 1
      /\ ToSet(t) = {h \in S : Cardinality(AheadOf(S)[h]) < k}
  BY TruncatedByRank
<1>2. IsFiniteSet(ToSet(t)) /\ Cardinality(ToSet(t)) = Len(t)
  <2>1. PICK ahead : ahead = AheadOf(S)
    OBVIOUS
  <2>2. PICK B : B = {h \in S : Cardinality(ahead[h]) < k}
    OBVIOUS
  <2>3. IsAhead(S, ahead)
    BY <2>1, HitsAreRanked
  <2>4. IsFiniteSet(B) /\ Cardinality(B) = IF Cardinality(S) < k THEN Cardinality(S) ELSE k
    BY <2>2, <2>3, LowestRanks
  <2>. QED  BY <1>1, <2>1, <2>2, <2>4
<1>3. ASSUME NEW i \in 1..Len(t), NEW j \in 1..Len(t), i < j PROVE t[i].score >= t[j].score
  <2>1. t[i] \in S /\ t[j] \in S
    BY <1>1
  <2>2. ~(Cardinality(AheadOf(S)[t[j]]) < Cardinality(AheadOf(S)[t[i]]))
    BY <1>1, <1>3
  <2>3. Cardinality(AheadOf(S)[t[i]]) # Cardinality(AheadOf(S)[t[j]])
    BY <1>1, <1>3
  <2>4. IsAhead(S, AheadOf(S))
    BY HitsAreRanked
  <2>5. t[j] \notin AheadOf(S)[t[i]]
    BY <2>1, <2>2, <2>4, AheadRanksLower
  <2>6. t[i] \in AheadOf(S)[t[j]]
    BY <2>1, <2>3, <2>4, <2>5 DEF IsAhead
  <2>7. Before(t[i], t[j])
    BY <2>1, <2>6 DEF AheadOf
  <2>8. t[i].score \in Int /\ t[j].score \in Int
    BY <2>1 DEF Hits
  <2>. QED  BY <2>7, <2>8 DEF Before
<1>4. \A i \in 1..Len(t) : t[i].score \in Int
  BY <1>1 DEF Hits
<1>5. Len(t) \in Nat
  BY <1>1
<1>. QED  BY <1>2, <1>3, <1>4, <1>5

(* A cut, seen from outside.                                                *)
IsCut(t, k) ==
  /\ t \in Seq(Hits) /\ Len(t) \in Nat /\ Len(t) <= k
  /\ IsFiniteSet(ToSet(t)) /\ Cardinality(ToSet(t)) = Len(t)
  /\ \A i, j \in 1..Len(t) : i <= j => t[i].score >= t[j].score
  /\ \A i, j \in 1..Len(t) : t[i] = t[j] => i = j

LEMMA TruncatedIsCut ==
  ASSUME NEW S \in SUBSET Hits, IsFiniteSet(S), NEW k \in Nat
  PROVE  IsCut(Truncated(Ordered(S), k), k)
<1>. DEFINE t == Truncated(Ordered(S), k)
<1>. HIDE DEF t
<1>1. /\ t \in Seq(S) /\ Len(t) = IF Cardinality(S) < k THEN Cardinality(S) ELSE k
      /\ \A i \in 1..Len(t) : Cardinality(AheadOf(S)[t[i]]) = i - 1
  BY TruncatedByRank DEF t
<1>2. /\ IsFiniteSet(ToSet(t)) /\ Cardinality(ToSet(t)) = Len(t)
      /\ \A i, j \in 1..Len(t) : i <= j => t[i].score >= t[j].score
  BY TruncatedDescends DEF t
<1>3. Cardinality(S) \in Nat
  BY FS_CardinalityType
<1>4. t \in Seq(Hits) /\ Len(t) \in Nat /\ Len(t) <= k
  BY <1>1, <1>3
<1>5. ASSUME NEW i \in 1..Len(t), NEW j \in 1..Len(t), t[i] = t[j] PROVE i = j
  <2>1. i - 1 = j - 1
    BY <1>1, <1>5
  <2>. QED  BY <2>1, <1>4
<1>6. IsCut(t, k)
  BY <1>2, <1>4, <1>5 DEF IsCut
<1>. QED  BY <1>6 DEF t

-----------------------------------------------------------------------------
(* Cuts.  A part of the hits stands for all of them, as long as no more     *)
(* than k are wanted: what it leaves out is outdone by k of those it keeps. *)

NoWorse(A, h) == {g \in A : g.score >= h.score}
Covers(A, H, k) == A \subseteq H /\ \A h \in H \ A : Cardinality(NoWorse(A, h)) >= k

LEMMA NoWorseIsFinite ==
  ASSUME NEW A, IsFiniteSet(A), NEW h
  PROVE  IsFiniteSet(NoWorse(A, h)) /\ Cardinality(NoWorse(A, h)) \in Nat
BY FS_Subset, FS_CardinalityType DEF NoWorse

LEMMA NoWorseGrows ==
  ASSUME NEW A, NEW B, IsFiniteSet(B), NEW h, NEW g, NoWorse(A, h) \subseteq NoWorse(B, g),
         NEW k \in Nat, Cardinality(NoWorse(A, h)) >= k
  PROVE  Cardinality(NoWorse(B, g)) >= k
<1>1. IsFiniteSet(NoWorse(B, g)) /\ Cardinality(NoWorse(B, g)) \in Nat
  BY NoWorseIsFinite
<1>2. /\ IsFiniteSet(NoWorse(A, h)) 
      /\ Cardinality(NoWorse(A, h)) <= Cardinality(NoWorse(B, g))
  BY <1>1, FS_Subset
<1>3. Cardinality(NoWorse(A, h)) \in Nat
  BY <1>2, FS_CardinalityType
<1>. QED  BY <1>1, <1>2, <1>3

(* A part that stands for a part that stands for all.                       *)
LEMMA CoversThrough ==
  ASSUME NEW H \in SUBSET Hits, NEW B, IsFiniteSet(B), NEW A, NEW k \in Nat,
         Covers(A, B, k), Covers(B, H, k)
  PROVE  Covers(A, H, k)
<1>1. A \subseteq B /\ B \subseteq H /\ IsFiniteSet(A)
  BY FS_Subset DEF Covers
<1>2. \A h \in H : h.score \in Int
  BY DEF Hits
<1>3. ASSUME NEW h \in H \ A PROVE Cardinality(NoWorse(A, h)) >= k
  <2>1. CASE h \in B
    BY <2>1 DEF Covers
  <2>2. CASE h \notin B /\ NoWorse(B, h) \subseteq A
    <3>1. Cardinality(NoWorse(B, h)) >= k
      BY <2>2 DEF Covers
    <3>2. NoWorse(B, h) \subseteq NoWorse(A, h)
      BY <2>2 DEF NoWorse
    <3>. QED  BY <1>1, <3>1, <3>2, NoWorseGrows
  <2>3. CASE ~(NoWorse(B, h) \subseteq A)
    <3>1. PICK g \in B \ A : g.score >= h.score
      BY <2>3 DEF NoWorse
    <3>2. Cardinality(NoWorse(A, g)) >= k
      BY <3>1 DEF Covers
    <3>3. NoWorse(A, g) \subseteq NoWorse(A, h)
      BY <1>1, <1>2, <3>1 DEF NoWorse
    <3>. QED  BY <1>1, <3>2, <3>3, NoWorseGrows
  <2>. QED  BY <2>1, <2>2, <2>3
<1>. QED  BY <1>1, <1>3 DEF Covers

(* Parts that stand for theirs stand, all of them, for all.                 *)
LEMMA CoversTogether ==
  ASSUME NEW I, NEW A, NEW H, NEW k \in Nat, \A i \in I : Covers(A[i], H[i], k),
         NEW U, IsFiniteSet(U), \A h : h \in U <=> \E i \in I : h \in A[i],
         NEW V, \A h : h \in V <=> \E i \in I : h \in H[i]
  PROVE  Covers(U, V, k)
<1>1. ASSUME NEW i \in I, NEW h \in H[i], h \notin U PROVE Cardinality(NoWorse(U, h)) >= k
  <2>1. Cardinality(NoWorse(A[i], h)) >= k
    BY <1>1 DEF Covers
  <2>2. NoWorse(A[i], h) \subseteq NoWorse(U, h)
    BY DEF NoWorse
  <2>. QED  BY <2>1, <2>2, NoWorseGrows
<1>2. U \subseteq V
  BY DEF Covers
<1>. QED  BY <1>1, <1>2 DEF Covers

(* The lowest ranks stand for all, if who comes before is no worse.         *)
LEMMA LowestRanksCover ==
  ASSUME NEW S, IsFiniteSet(S), NEW ahead, IsAhead(S, ahead), NEW k \in Nat,
         NEW hit, \A x \in S : \A y \in ahead[x] : hit[y].score >= hit[x].score,
         \A x, y \in S : hit[x] = hit[y] => x = y,
         NEW B \in SUBSET S, \A x \in S : x \in B <=> Cardinality(ahead[x]) < k
  PROVE  Covers({hit[x] : x \in B}, {hit[x] : x \in S}, k)
<1>1. /\ IsFiniteSet(B)
      /\ Cardinality(B) = IF Cardinality(S) < k THEN Cardinality(S) ELSE k
      /\ \A x \in S \ B : B \subseteq ahead[x]
  BY LowestRanks
<1>. DEFINE A == {hit[x] : x \in B}
<1>2. IsFiniteSet(A)
  BY <1>1, FiniteImage
<1>3. Cardinality(A) = Cardinality(B)
  <2>. DEFINE f == [x \in B |-> hit[x]]
  <2>1. f \in Bijection(B, A)
    BY DEF Bijection, Injection, Surjection, IsInjective
  <2>2. ExistsBijection(B, A)
    BY <2>1 DEF ExistsBijection
  <2>. HIDE DEF A
  <2>. QED  BY <1>1, <2>2, FS_Bijection
<1>4. ASSUME NEW x \in S, hit[x] \notin A PROVE Cardinality(NoWorse(A, hit[x])) >= k
  <2>1. x \in S \ B
    BY <1>4
  <2>2. NoWorse(A, hit[x]) = A
    BY <1>1, <2>1 DEF NoWorse
  <2>3. Cardinality(B) = k
    <3>1. Cardinality(S) \in Nat
      BY FS_CardinalityType
    <3>2. B \in SUBSET S /\ B # S
      BY <2>1
    <3>3. Cardinality(B) # Cardinality(S)
      BY <3>2, FS_Subset
    <3>. QED  BY <1>1, <3>1, <3>3
  <2>. HIDE DEF A
  <2>. QED  BY <1>3, <2>2, <2>3
<1>. QED  BY <1>4 DEF Covers

LEMMA TruncatedCovers ==
  ASSUME NEW S \in SUBSET Hits, IsFiniteSet(S), NEW k \in Nat
  PROVE  Covers(ToSet(Truncated(Ordered(S), k)), S, k)
<1>. DEFINE B == {h \in S : Cardinality(AheadOf(S)[h]) < k}
            hit == [h \in S |-> h]
<1>1. ToSet(Truncated(Ordered(S), k)) = B
  BY TruncatedByRank
<1>2. \A x \in S : \A y \in AheadOf(S)[x] : hit[y].score >= hit[x].score
  <2>1. \A x \in S : x.score \in Int
    BY DEF Hits
  <2>. QED  BY <2>1 DEF AheadOf, Before
<1>3. Covers({hit[x] : x \in B}, {hit[x] : x \in S}, k)
  <2>1. \A x, y \in S : hit[x] = hit[y] => x = y
    OBVIOUS
  <2>2. IsAhead(S, AheadOf(S))
    BY HitsAreRanked
  <2>. HIDE DEF hit, B
  <2>3. B \in SUBSET S /\ \A h \in S : h \in B <=> Cardinality(AheadOf(S)[h]) < k
    BY DEF B
  <2>. QED  BY <1>2, <2>1, <2>2, <2>3, LowestRanksCover
<1>4. {hit[x] : x \in B} = B /\ {hit[x] : x \in S} = S
  OBVIOUS
<1>. QED  BY <1>1, <1>3, <1>4

-----------------------------------------------------------------------------
(* Statistics and scores are numbers.                                       *)

Statistics == [docs : Nat, length : Nat, freq : [Terms -> Nat]]

LEMMA NothingIsStatistics == NoStats \in Statistics
BY DEF NoStats, Statistics

LEMMA TogetherIsStatistics ==
  ASSUME NEW I, IsFiniteSet(I), NEW parts, DOMAIN parts = I, \A i \in I : parts[i] \in Statistics
  PROVE  Together(parts) \in Statistics
<1>. DEFINE docs == [i \in I |-> parts[i].docs]
            length == [i \in I |-> parts[i].length]
            freq(t) == [i \in I |-> parts[i].freq[t]]
<1>1. SumFunctionOnSet(docs, I) \in Nat
  <2>1. \A i \in I : docs[i] \in Nat
    BY DEF Statistics
  <2>. HIDE DEF docs
  <2>. QED  BY <2>1, SumIsNatural
<1>2. SumFunctionOnSet(length, I) \in Nat
  <2>1. \A i \in I : length[i] \in Nat
    BY DEF Statistics
  <2>. HIDE DEF length
  <2>. QED  BY <2>1, SumIsNatural
<1>3. ASSUME NEW t \in Terms PROVE SumFunctionOnSet(freq(t), I) \in Nat
  <2>. DEFINE f == freq(t)
  <2>1. \A i \in I : f[i] \in Nat
    BY DEF Statistics
  <2>. HIDE DEF f
  <2>2. SumFunctionOnSet(f, I) \in Nat
    BY <2>1, SumIsNatural
  <2>. QED  BY <2>2 DEF f
<1>4. /\ SumFunction(docs) = SumFunctionOnSet(docs, I)
      /\ SumFunction(length) = SumFunctionOnSet(length, I)
      /\ \A t \in Terms : SumFunction(freq(t)) = SumFunctionOnSet(freq(t), I)
  BY DEF SumFunction
<1>5. Together(parts) = [docs |-> SumFunction(docs), length |-> SumFunction(length),
                         freq |-> [t \in Terms |-> SumFunction(freq(t))]]
  BY DEF Together
<1>. HIDE DEF docs, length, freq
<1>. QED  BY <1>1, <1>2, <1>3, <1>4, <1>5 DEF Statistics

LEMMA SegmentIsFinite ==
  ASSUME NEW segment \in Segments
  PROVE  /\ segment.docs \in Seq(Docs) /\ segment.params \in Nat \ {0}
         /\ \A i, j \in DOMAIN segment.docs : segment.docs[i] = segment.docs[j] => i = j
         /\ SegmentDocs(segment) \subseteq Docs /\ IsFiniteSet(SegmentDocs(segment))
         /\ IsFiniteSet(DOMAIN segment.docs)
<1>1. segment.docs \in Seq(Docs) /\ IsInjective(segment.docs) /\ segment.params \in Nat \ {0}
  BY DEF Segments
<1>. DEFINE n == Len(segment.docs)
<1>2. n \in Nat /\ DOMAIN segment.docs = 1..n /\ \A i \in 1..n : segment.docs[i] \in Docs
  BY <1>1
<1>3. IsFiniteSet(1..n)
  <2>. HIDE DEF n
  <2>. QED  BY <1>2, FS_Interval
<1>4. IsFiniteSet({segment.docs[i] : i \in 1..n})
  <2>. HIDE DEF n
  <2>. QED  BY <1>3, FiniteImage
<1>5. SegmentDocs(segment) = {segment.docs[i] : i \in 1..n}
  BY <1>2 DEF SegmentDocs, ToSet
<1>. QED  BY <1>1, <1>2, <1>3, <1>4, <1>5 DEF IsInjective

LEMMA SegmentIsStatistics ==
  ASSUME NEW segment \in Segments PROVE SegmentStats(segment) \in Statistics
<1>1. /\ SegmentDocs(segment) \subseteq Docs /\ IsFiniteSet(SegmentDocs(segment))
      /\ segment.docs \in Seq(Docs)
  BY SegmentIsFinite
<1>2. SumFunctionOnSet(Length, SegmentDocs(segment)) \in Nat
  <2>1. \A d \in SegmentDocs(segment) : Length[d] \in Nat
    BY <1>1, CorpusAssumption
  <2>. QED  BY <1>1, <2>1, SumIsNatural
<1>3. ASSUME NEW t \in Terms PROVE Cardinality({d \in SegmentDocs(segment) : Frequency[d][t] > 0}) \in Nat
  <2>1. IsFiniteSet({d \in SegmentDocs(segment) : Frequency[d][t] > 0})
    BY <1>1, FS_Subset
  <2>. QED  BY <2>1, FS_CardinalityType
<1>4. Len(segment.docs) \in Nat
  BY <1>1
<1>. QED  BY <1>2, <1>3, <1>4 DEF SegmentStats, Statistics

(* The text of a query, and the number of hits it asks for.                 *)
IsText(text) ==
  /\ text.terms \subseteq Terms /\ IsFiniteSet(text.terms) /\ text.excluded \subseteq Terms
  /\ text.limit \in Nat

LEMMA ScoreIsNumber ==
  ASSUME NEW d \in Docs, NEW text, IsText(text), NEW stats \in Statistics, stats.docs > 0,
         NEW params \in Nat \ {0}
  PROVE  Score(d, text, stats, params) \in Int
<1>. DEFINE norm == LengthNorm(Length[d], stats.length, stats.docs)
            found == {u \in text.terms : Frequency[d][u] > 0}
            part == [t \in found |-> Idf(stats.docs, stats.freq[t]) * Saturation(Frequency[d][t], norm, params)]
<1>1. norm \in Nat
  <2>1. PICK l, m, n \in Nat : l = Length[d] /\ m = stats.length /\ n = stats.docs
    BY CorpusAssumption DEF Statistics
  <2>2. n > 0 /\ 10 * l * n \in Nat
    BY <2>1
  <2>3. (10 * l * n) \div n \in Nat
    BY <2>2
  <2>4. m > 0 => (10 * l * n) \div m \in Nat
    BY <2>2
  <2>. QED  BY <2>1, <2>2, <2>3, <2>4 DEF LengthNorm
<1>2. ASSUME NEW t \in found PROVE part[t] \in Int
  <2>1. PICK n, f, tf \in Nat : n = stats.docs /\ f = stats.freq[t] /\ tf = Frequency[d][t]
    BY CorpusAssumption DEF Statistics, IsText
  <2>2. tf > 0
    BY <2>1
  <2>. HIDE DEF norm
  <2>3. 100 * tf * (params + 1) \in Nat /\ 10 * tf + params * norm \in Nat \ {0}
    <3>1. params * norm \in Nat /\ tf * (params + 1) \in Nat
      BY <1>1
    <3>. QED  BY <2>2, <3>1
  <2>4. \A a \in Nat, b \in Nat \ {0} : a \div b \in Nat
    OBVIOUS
  <2>5. Saturation(tf, norm, params) \in Nat
    BY <2>2, <2>3, <2>4 DEF Saturation
  <2>6. Idf(n, f) \in Int
    BY DEF Idf
  <2>7. \A a, b \in Int : a * b \in Int
    OBVIOUS
  <2>. QED  BY <2>1, <2>5, <2>6, <2>7
<1>3. IsFiniteSet(found)
  BY FS_Subset DEF IsText
<1>4. SumFunctionOnSet(part, found) \in Int
  <2>. HIDE DEF part, found
  <2>. QED  BY <1>2, <1>3, SumIsInteger
<1>5. Score(d, text, stats, params) = SumFunctionOnSet(part, found)
  BY DEF Score, SumFunction
<1>. QED  BY <1>4, <1>5

-----------------------------------------------------------------------------
(* What a segment answers.                                                  *)

(* The statistics a segment is scored with: its own if none were supplied.  *)
StatsOf(segment, supplied) == IF supplied.docs = 0 THEN SegmentStats(segment) ELSE supplied

(* Every hit a segment has for a text, on the scale of these statistics.   *)
HitsIn(segment, text, stats) ==
  {[uri |-> d, score |-> Score(d, text, stats, segment.params)] :
     d \in {e \in SegmentDocs(segment) : Matches(e, text)}}

LEMMA StatsOfIsUsable ==
  ASSUME NEW segment \in Segments, NEW supplied \in Statistics, segment.docs # << >>
  PROVE  StatsOf(segment, supplied) \in Statistics /\ StatsOf(segment, supplied).docs > 0
<1>1. SegmentStats(segment) \in Statistics
  BY SegmentIsStatistics
<1>2. SegmentStats(segment).docs = Len(segment.docs)
  BY DEF SegmentStats
<1>3. Len(segment.docs) > 0
  BY SegmentIsFinite
<1>4. supplied.docs \in Nat
  BY DEF Statistics
<1>. QED  BY <1>1, <1>2, <1>3, <1>4 DEF StatsOf

LEMMA HitsInAreHits ==
  ASSUME NEW segment \in Segments, NEW text, IsText(text),
         NEW stats \in Statistics, stats.docs > 0
  PROVE  HitsIn(segment, text, stats) \in SUBSET Hits
<1>1. segment.params \in Nat \ {0} /\ SegmentDocs(segment) \subseteq Docs
  BY SegmentIsFinite
<1>2. ASSUME NEW d \in SegmentDocs(segment)
      PROVE  [uri |-> d, score |-> Score(d, text, stats, segment.params)] \in Hits
  <2>1. Score(d, text, stats, segment.params) \in Int
    BY <1>1, ScoreIsNumber
  <2>. QED  BY <1>1, <2>1 DEF Hits
<1>. QED  BY <1>2 DEF HitsIn

LEMMA TopCovers ==
  ASSUME NEW segment \in Segments, NEW text, IsText(text), NEW supplied \in Statistics
  PROVE  LET all == HitsIn(segment, text, StatsOf(segment, supplied))
         IN /\ Covers(Top(segment, text, supplied), all, text.limit)
            /\ IsFiniteSet(Top(segment, text, supplied))
            /\ all \in SUBSET Hits
<1>. DEFINE stats == StatsOf(segment, supplied)
            docs == segment.docs
            score == [i \in DOMAIN docs |-> Score(docs[i], text, stats, segment.params)]
            matching == {i \in DOMAIN docs : Matches(docs[i], text)}
            ahead == [i \in matching |-> {j \in matching : score[j] > score[i] \/ (score[j] = score[i] /\ j < i)}]
            hit == [i \in matching |-> [uri |-> docs[i], score |-> score[i]]]
            B == {i \in matching : Cardinality(ahead[i]) < text.limit}
<1>1. /\ docs \in Seq(Docs) /\ IsFiniteSet(DOMAIN docs)
      /\ \A i, j \in DOMAIN docs : docs[i] = docs[j] => i = j
  BY SegmentIsFinite
<1>2. ASSUME NEW i \in DOMAIN docs PROVE score[i] \in Int /\ i \in Nat
  <2>1. docs # << >> /\ docs[i] \in Docs /\ i \in Nat
    BY <1>1
  <2>2. stats \in Statistics /\ stats.docs > 0
    BY <2>1, StatsOfIsUsable
  <2>3. segment.params \in Nat \ {0}
    BY SegmentIsFinite
  <2>. HIDE DEF stats
  <2>4. Score(docs[i], text, stats, segment.params) \in Int
    BY <2>1, <2>2, <2>3, ScoreIsNumber
  <2>. QED  BY <2>1, <2>4
<1>3. Top(segment, text, supplied) = {hit[i] : i \in B}
  BY DEF Top, StatsOf
<1>4. HitsIn(segment, text, stats) = {hit[i] : i \in matching}
  <2>1. SegmentDocs(segment) = {docs[i] : i \in DOMAIN docs}
    BY DEF SegmentDocs, ToSet
  <2>2. \A i \in matching : hit[i] = [uri |-> docs[i], score |-> Score(docs[i], text, stats, segment.params)]
    OBVIOUS
  <2>3. \A i : i \in matching <=> i \in DOMAIN docs /\ Matches(docs[i], text)
    OBVIOUS
  <2>. HIDE DEF stats, score, hit, matching
  <2>4. ASSUME NEW h \in HitsIn(segment, text, stats) PROVE \E i \in matching : h = hit[i]
    BY <2>1, <2>2, <2>3 DEF HitsIn
  <2>5. ASSUME NEW i \in matching PROVE hit[i] \in HitsIn(segment, text, stats)
    <3>1. docs[i] \in {e \in SegmentDocs(segment) : Matches(e, text)}
      BY <2>1, <2>3
    <3>. QED  BY <2>2, <3>1 DEF HitsIn
  <2>. QED  BY <2>4, <2>5
<1>5. \A i \in matching : score[i] \in Int /\ i \in Nat
  BY <1>2
<1>6. \A i \in matching : /\ ahead[i] \subseteq matching
                          /\ \A j \in matching : j \in ahead[i] <=> score[j] > score[i] \/ (score[j] = score[i] /\ j < i)
  OBVIOUS
<1>7. \A i \in matching : hit[i].score = score[i] /\ hit[i].uri = docs[i]
  OBVIOUS
<1>8. IsFiniteSet(matching) /\ matching \in SUBSET DOMAIN docs
  BY <1>1, FS_Subset
<1>9. B \in SUBSET matching /\ \A i \in matching : i \in B <=> Cardinality(ahead[i]) < text.limit
  OBVIOUS
<1>. HIDE DEF stats, score, matching, ahead, hit, B
<1>10. IsAhead(matching, ahead)
  BY <1>5, <1>6 DEF IsAhead
<1>11. \A x \in matching : \A y \in ahead[x] : hit[y].score >= hit[x].score
  BY <1>5, <1>6, <1>7
<1>12. \A x, y \in matching : hit[x] = hit[y] => x = y
  <2>1. \A x, y \in matching : hit[x] = hit[y] => docs[x] = docs[y]
    BY <1>7
  <2>. QED  BY <1>1, <1>8, <2>1
<1>13. text.limit \in Nat
  BY DEF IsText
<1>14. Covers({hit[x] : x \in B}, {hit[x] : x \in matching}, text.limit)
  BY <1>8, <1>9, <1>10, <1>11, <1>12, <1>13, LowestRanksCover
<1>15. IsFiniteSet({hit[i] : i \in B})
  <2>1. IsFiniteSet(B)
    BY <1>8, <1>9, FS_Subset
  <2>. QED  BY <2>1, FiniteImage
<1>16. HitsIn(segment, text, stats) \in SUBSET Hits
  <2>1. CASE docs = << >>
    <3>1. SegmentDocs(segment) = {}
      BY <2>1 DEF SegmentDocs, ToSet
    <3>2. HitsIn(segment, text, stats) = {}
      BY <3>1 DEF HitsIn
    <3>. QED  BY <3>2
  <2>2. CASE docs # << >>
    BY <2>2, StatsOfIsUsable, HitsInAreHits DEF stats
  <2>. QED  BY <2>1, <2>2
<1>. QED  BY <1>3, <1>4, <1>14, <1>15, <1>16 DEF stats

(* What several segments answer, each with its own best: the best of all    *)
(* are among them.                                                          *)
EveryHit(index, text, supplied) ==
  UNION {HitsIn(segment, text, StatsOf(segment, supplied)) : segment \in ToSet(index)}

LEMMA AllTopCovers ==
  ASSUME NEW index, IsFiniteSet(DOMAIN index), \A i \in DOMAIN index : index[i] \in Segments,
         NEW text, IsText(text), NEW supplied \in Statistics
  PROVE  /\ Covers(AllTop(index, text, supplied), EveryHit(index, text, supplied), text.limit)
         /\ IsFiniteSet(AllTop(index, text, supplied))
         /\ EveryHit(index, text, supplied) \in SUBSET Hits
<1>. DEFINE I == DOMAIN index
            A == [i \in I |-> Top(index[i], text, supplied)]
            H == [i \in I |-> HitsIn(index[i], text, StatsOf(index[i], supplied))]
<1>1. ToSet(index) = {index[i] : i \in I}
  BY DEF ToSet
<1>2. AllTop(index, text, supplied) = UNION {A[i] : i \in I}
  BY <1>1 DEF AllTop
<1>3. EveryHit(index, text, supplied) = UNION {H[i] : i \in I}
  BY <1>1 DEF EveryHit
<1>4. \A i \in I : Covers(A[i], H[i], text.limit) /\ IsFiniteSet(A[i]) /\ H[i] \in SUBSET Hits
  BY TopCovers
<1>5. IsFiniteSet(I) /\ text.limit \in Nat
  BY DEF IsText
<1>. HIDE DEF I, A, H
<1>6. IsFiniteSet({A[i] : i \in I})
  BY <1>5, FiniteImage
<1>7. IsFiniteSet(UNION {A[i] : i \in I})
  BY <1>4, <1>6, FS_UNION
<1>8. Covers(UNION {A[i] : i \in I}, UNION {H[i] : i \in I}, text.limit)
  <2>. DEFINE U == UNION {A[i] : i \in I}
              V == UNION {H[i] : i \in I}
  <2>1. (\A h : h \in U <=> \E i \in I : h \in A[i]) /\ (\A h : h \in V <=> \E i \in I : h \in H[i])
    OBVIOUS
  <2>2. \A i \in I : Covers(A[i], H[i], text.limit)
    BY <1>4
  <2>3. IsFiniteSet(U)
    BY <1>7
  <2>. HIDE DEF U, V
  <2>4. Covers(U, V, text.limit)
    BY <1>5, <2>1, <2>2, <2>3, CoversTogether
  <2>. QED  BY <2>4 DEF U, V
<1>9. UNION {H[i] : i \in I} \in SUBSET Hits
  BY <1>4
<1>. QED  BY <1>2, <1>3, <1>7, <1>8, <1>9

-----------------------------------------------------------------------------
(* The invariant: a connection that nobody holds is empty; one that a task  *)
(* holds carries that task's request or the answer to it, and nothing else; *)
(* a query waits for no call when it begins, and between its rounds.        *)

IsQuery(r) ==
  r = [pc |-> r.pc, stats |-> r.stats, hits |-> r.hits, total |-> r.total,
       counted |-> r.counted, served |-> r.served]

(* Variables are functions on shards and on queries, and a query a record.  *)
Shaped ==
  /\ holder \in [Shards -> Queries \cup {None}]
  /\ wire = [s \in Shards |-> wire[s]]
  /\ task = [q \in Queries |-> [s \in Shards |-> task[q][s]]]
  /\ reply = [q \in Queries |-> [s \in Shards |-> reply[q][s]]]
  /\ query = [q \in Queries |-> query[q]]
  /\ \A q \in Queries : IsQuery(query[q])

CallsHold == \A q \in Queries, s \in Shards : task[q][s] = "calling" <=> holder[s] = q

Carries(s, m) ==
  /\ wire[s] = <<m>> /\ m.by = holder[s]
  /\ Round(query[holder[s]].pc) => m.kind = query[holder[s]].pc

OneCallEach ==
  \A s \in Shards : IF holder[s] = None THEN wire[s] = << >> ELSE \E m : Carries(s, m)

RoundsAreTheirOwn ==
  \A q \in Queries, s \in Shards :
    Round(query[q].pc) /\ task[q][s] = "answered" =>
      reply[q][s].by = q /\ reply[q][s].kind = query[q].pc

BeginsFree == \A q \in Queries : query[q].pc = "idle" => \A s \in Shards : task[q][s] = "none"

SearchInv == Shaped /\ CallsHold /\ OneCallEach /\ RoundsAreTheirOwn /\ BeginsFree

(* A cell of a table of every query and shard, or a row of it, changes.      *)
IsTable(f) == f = [q \in Queries |-> [s \in Shards |-> f[q][s]]]

CellPut(f, q, s, v) == [f EXCEPT ![q][s] = v]

LEMMA CellChanges ==
  ASSUME NEW f, IsTable(f), NEW q \in Queries, NEW s \in Shards, NEW v, NEW g, g = CellPut(f, q, s, v)
  PROVE  /\ IsTable(g)
         /\ \A p \in Queries, u \in Shards : g[p][u] = IF p = q /\ u = s THEN v ELSE f[p][u]
<1>1. f = [p \in Queries |-> [u \in Shards |-> f[p][u]]]
  BY DEF IsTable
<1>2. \A p \in Queries : f[p] = [u \in Shards |-> f[p][u]]
  BY <1>1
<1>3. g = [p \in Queries |-> IF p = q THEN [f[q] EXCEPT ![s] = v] ELSE f[p]]
  BY <1>1 DEF CellPut
<1>5. [f[q] EXCEPT ![s] = v] = [u \in Shards |-> IF u = s THEN v ELSE f[q][u]]
  BY <1>2
<1>4. ASSUME NEW p \in Queries, NEW u \in Shards
      PROVE  g[p][u] = IF p = q /\ u = s THEN v ELSE f[p][u]
  <2>1. CASE p = q
    BY <1>3, <1>5, <2>1
  <2>2. CASE p # q
    BY <1>3, <2>2
  <2>. QED  BY <2>1, <2>2
<1>6. \A p \in Queries : g[p] = [u \in Shards |-> g[p][u]]
  <2>. SUFFICES ASSUME NEW p \in Queries PROVE g[p] = [u \in Shards |-> g[p][u]]
    OBVIOUS
  <2>1. CASE p = q
    BY <1>3, <1>5, <2>1
  <2>2. CASE p # q
    BY <1>2, <1>3, <2>2
  <2>. QED  BY <2>1, <2>2
<1>7. g = [p \in Queries |-> [u \in Shards |-> g[p][u]]]
  BY <1>3, <1>6
<1>. QED  BY <1>4, <1>7 DEF IsTable

RowPut(f, q, v) == [f EXCEPT ![q] = [s \in Shards |-> v]]

LEMMA RowChanges ==
  ASSUME NEW f, IsTable(f), NEW q \in Queries, NEW v, NEW g, g = RowPut(f, q, v)
  PROVE  IsTable(g)
<1>1. f = [p \in Queries |-> [u \in Shards |-> f[p][u]]]
  BY DEF IsTable
<1>2. g = [p \in Queries |-> IF p = q THEN [s \in Shards |-> v] ELSE f[p]]
  BY <1>1 DEF RowPut
<1>3. \A p \in Queries : g[p] = [u \in Shards |-> g[p][u]]
  <2>. SUFFICES ASSUME NEW p \in Queries PROVE g[p] = [u \in Shards |-> g[p][u]]
    OBVIOUS
  <2>1. CASE p = q
    BY <1>2, <2>1
  <2>2. CASE p # q
    BY <1>1, <1>2, <2>2
  <2>. QED  BY <2>1, <2>2
<1>4. g = [p \in Queries |-> [u \in Shards |-> g[p][u]]]
  BY <1>2, <1>3
<1>. QED  BY <1>4 DEF IsTable

IsLine(f) == f = [s \in Shards |-> f[s]]

PlacePut(f, s, v) == [f EXCEPT ![s] = v]

LEMMA PlaceChanges ==
  ASSUME NEW f, IsLine(f), NEW s \in Shards, NEW v, NEW g, g = PlacePut(f, s, v)
  PROVE  IsLine(g) /\ \A u \in Shards : g[u] = IF u = s THEN v ELSE f[u]
<1>1. g = [u \in Shards |-> IF u = s THEN v ELSE f[u]]
  BY DEF IsLine, PlacePut
<1>2. \A u \in Shards : g[u] = IF u = s THEN v ELSE f[u]
  BY <1>1
<1>3. g = [u \in Shards |-> g[u]]
  BY <1>1
<1>. QED  BY <1>2, <1>3 DEF IsLine

LEMMA ShapedParts ==
  Shaped <=> /\ IsLine(holder) /\ \A s \in Shards : holder[s] \in Queries \cup {None}
             /\ IsLine(wire) /\ IsTable(task) /\ IsTable(reply)
             /\ query = [q \in Queries |-> query[q]]
             /\ \A q \in Queries : IsQuery(query[q])
<1>1. holder \in [Shards -> Queries \cup {None}]
        <=> IsLine(holder) /\ \A s \in Shards : holder[s] \in Queries \cup {None}
  BY DEF IsLine
<1>. QED  BY <1>1 DEF Shaped, IsLine, IsTable

LEMMA ShapedPartsNext ==
  Shaped' <=> /\ IsLine(holder') /\ \A s \in Shards : holder'[s] \in Queries \cup {None}
              /\ IsLine(wire') /\ IsTable(task') /\ IsTable(reply')
              /\ query' = [q \in Queries |-> query'[q]]
              /\ \A q \in Queries : IsQuery(query'[q])
<1>1. holder' \in [Shards -> Queries \cup {None}]
        <=> IsLine(holder') /\ \A s \in Shards : holder'[s] \in Queries \cup {None}
  BY DEF IsLine
<1>. QED  BY <1>1 DEF Shaped, IsLine, IsTable

LEMMA TableCleared ==
  ASSUME IsTable(reply), NEW q \in Queries, reply' = reply \/ NoReplies(q)
  PROVE  IsTable(reply')
BY RowChanges DEF NoReplies, RowPut

LEMMA NoneIsNoQuery == None \notin Queries
BY SearchAssumption

(* What a message is, for any that reads a request.                         *)
LEMMA HandledKeeps == ASSUME NEW c, NEW r PROVE Handled(c, r).by = r.by /\ Handled(c, r).kind = r.kind
BY DEF Handled

LEMMA InvHolds == SearchInv => RepliesMatch
<1>. SUFFICES ASSUME SearchInv PROVE RepliesMatch
  OBVIOUS
<1>1. ASSUME NEW s \in Shards, wire[s] # << >> PROVE Head(wire[s]).by = holder[s]
  <2>1. PICK m : Carries(s, m)
    BY <1>1 DEF SearchInv, OneCallEach
  <2>. QED  BY <2>1 DEF Carries
<1>. QED  BY <1>1 DEF SearchInv, RoundsAreTheirOwn, RepliesMatch

LEMMA InvBegins == Init => SearchInv
<1>. SUFFICES ASSUME Init PROVE SearchInv
  OBVIOUS
<1>1. Shaped
  BY DEF Init, Shaped, Idle, IsQuery
<1>2. CallsHold /\ OneCallEach /\ BeginsFree
  BY SearchAssumption DEF Init, CallsHold, OneCallEach, BeginsFree
<1>3. RoundsAreTheirOwn
  BY DEF Init, RoundsAreTheirOwn
<1>. QED  BY <1>1, <1>2, <1>3 DEF SearchInv

-----------------------------------------------------------------------------
(* Every step keeps it.                                                      *)

Untouched == <<holder, wire, task, reply, query>>

(* The calls in flight stay as they are where no round of their query began. *)
LEMMA CallsStay ==
  ASSUME OneCallEach, holder' = holder, wire' = wire,
         \A s \in Shards : holder[s] # None /\ Round(query'[holder[s]].pc)
                            => query'[holder[s]].pc = query[holder[s]].pc
  PROVE  OneCallEach'
<1>. SUFFICES ASSUME NEW s \in Shards
              PROVE  IF holder'[s] = None THEN wire'[s] = << >> ELSE \E m : Carries(s, m)'
  BY DEF OneCallEach
<1>1. CASE holder[s] = None
  BY <1>1 DEF OneCallEach
<1>2. CASE holder[s] # None
  <2>1. PICK m : Carries(s, m)
    BY <1>2 DEF OneCallEach
  <2>2. /\ wire'[s] = <<m>> /\ m.by = holder'[s]
        /\ Round(query[holder[s]].pc) => m.kind = query[holder[s]].pc
    BY <2>1 DEF Carries
  <2>3. Round(query'[holder[s]].pc) => m.kind = query'[holder[s]].pc
    BY <1>2, <2>2
  <2>4. Carries(s, m)'
    BY <2>2, <2>3 DEF Carries
  <2>. QED  BY <1>2, <2>4
<1>. QED  BY <1>1, <1>2

LEMMA KeepsUntouched == ASSUME SearchInv, UNCHANGED Untouched PROVE SearchInv'
<1>1. /\ holder' = holder /\ wire' = wire /\ task' = task /\ reply' = reply /\ query' = query
  BY DEF Untouched
<1>2. Shaped' /\ CallsHold' /\ BeginsFree' /\ RoundsAreTheirOwn'
  BY <1>1 DEF SearchInv, Shaped, CallsHold, BeginsFree, RoundsAreTheirOwn
<1>3. OneCallEach'
  BY <1>1, CallsStay DEF SearchInv
<1>. QED  BY <1>2, <1>3 DEF SearchInv

LEMMA CallStays ==
  ASSUME OneCallEach, NEW u \in Shards, holder'[u] = holder[u], wire'[u] = wire[u], query' = query
  PROVE  IF holder'[u] = None THEN wire'[u] = << >> ELSE \E m : Carries(u, m)'
<1>1. \A m : Carries(u, m) => Carries(u, m)'
  BY DEF Carries
<1>. QED  BY <1>1 DEF OneCallEach

(* A query that waits for nothing, and starts a round: every task anew.      *)
LEMMA BroadcastKeeps ==
  ASSUME SearchInv, NEW q \in Queries, NEW pc, NEW r,
         \A s \in Shards : task[q][s] # "calling",
         r.pc = pc, pc # "idle",
         IsQuery(r),
         query' = [query EXCEPT ![q] = r], Broadcast(q),
         reply' = reply \/ NoReplies(q), UNCHANGED <<holder, wire>>
  PROVE  SearchInv'
<1>1. \A p \in Queries : p # q => query'[p] = query[p] /\ task'[p] = task[p] /\ reply'[p] = reply[p]
  BY DEF SearchInv, Shaped, Broadcast, NoReplies
<1>2. query'[q] = r /\ \A s \in Shards : task'[q][s] = "waiting"
  BY DEF SearchInv, Shaped, Broadcast
<1>3. Shaped'
  <2>1. query' = [p \in Queries |-> query'[p]] /\ \A p \in Queries : IsQuery(query'[p])
    BY <1>1, <1>2 DEF SearchInv, Shaped
  <2>2. IsTable(task')
    BY ShapedParts, RowChanges DEF SearchInv, Broadcast, RowPut
  <2>3. IsTable(reply')
    BY TableCleared DEF SearchInv, Shaped, IsTable
  <2>. QED  BY <2>1, <2>2, <2>3 DEF SearchInv, Shaped, IsTable
<1>4. \A s \in Shards : holder[s] # q
  BY DEF SearchInv, CallsHold
<1>5. CallsHold'
  BY <1>1, <1>2, <1>4 DEF SearchInv, CallsHold
<1>6. OneCallEach'
  <2>1. \A s \in Shards : holder[s] # None => query'[holder[s]] = query[holder[s]]
    <3>1. \A s \in Shards : holder[s] # None => holder[s] \in Queries
      BY DEF SearchInv, Shaped
    <3>. QED  BY <1>1, <1>4, <3>1
  <2>. QED  BY <2>1, CallsStay DEF SearchInv
<1>7. RoundsAreTheirOwn'
  BY <1>1, <1>2 DEF SearchInv, RoundsAreTheirOwn
<1>8. BeginsFree'
  BY <1>1, <1>2 DEF SearchInv, BeginsFree
<1>. QED  BY <1>3, <1>5, <1>6, <1>7, <1>8 DEF SearchInv

(* A query that ends: its tasks go on.                                       *)
LEMMA EndKeeps ==
  ASSUME SearchInv, NEW q \in Queries, NEW r, r.pc = "done" \/ r.pc = "failed",
         IsQuery(r),
         query' = [query EXCEPT ![q] = r], reply' = reply \/ NoReplies(q),
         UNCHANGED <<holder, wire, task>>
  PROVE  SearchInv'
<1>1. \A p \in Queries : p # q => query'[p] = query[p] /\ reply'[p] = reply[p]
  BY DEF SearchInv, Shaped, NoReplies
<1>2. query'[q] = r /\ ~Round(query'[q].pc) /\ query'[q].pc # "idle"
  BY DEF SearchInv, Shaped, Round
<1>3. Shaped'
  <2>1. query' = [p \in Queries |-> query'[p]] /\ \A p \in Queries : IsQuery(query'[p])
    BY <1>1, <1>2 DEF SearchInv, Shaped
  <2>2. IsTable(reply')
    BY TableCleared DEF SearchInv, Shaped, IsTable
  <2>. QED  BY <2>1, <2>2 DEF SearchInv, Shaped, IsTable
<1>4. CallsHold' /\ BeginsFree'
  BY <1>1, <1>2 DEF SearchInv, CallsHold, BeginsFree
<1>5. OneCallEach'
  <2>1. \A s \in Shards : holder[s] # None => holder[s] \in Queries
    BY DEF SearchInv, Shaped
  <2>2. \A s \in Shards : holder[s] # None /\ Round(query'[holder[s]].pc)
                           => query'[holder[s]].pc = query[holder[s]].pc
    BY <1>1, <1>2, <2>1
  <2>. QED  BY <2>2, CallsStay DEF SearchInv
<1>6. RoundsAreTheirOwn'
  BY <1>1, <1>2 DEF SearchInv, RoundsAreTheirOwn
<1>. QED  BY <1>3, <1>4, <1>5, <1>6 DEF SearchInv

LEMMA SendKeeps == ASSUME SearchInv, NEW q \in Queries, NEW s \in Shards, Send(q, s) PROVE SearchInv'
<1>1. CASE Broken(s)
  <2>1. /\ task[q][s] = "waiting" /\ UNCHANGED <<holder, wire, reply, query>>
        /\ task' = CellPut(task, q, s, "failed")
    BY <1>1 DEF Send, CellPut
  <2>2. \A p \in Queries, u \in Shards : task'[p][u] = IF p = q /\ u = s THEN "failed" ELSE task[p][u]
    BY <2>1, ShapedParts, CellChanges DEF SearchInv
  <2>3. Shaped'
    BY <2>1, CellChanges, ShapedParts, ShapedPartsNext DEF SearchInv
  <2>4. CallsHold' /\ BeginsFree' /\ RoundsAreTheirOwn'
    BY <2>1, <2>2 DEF SearchInv, CallsHold, BeginsFree, RoundsAreTheirOwn
  <2>5. OneCallEach'
    BY <2>1, CallsStay DEF SearchInv
  <2>. QED  BY <2>3, <2>4, <2>5 DEF SearchInv
<1>2. CASE ~Broken(s)
  <2>1. /\ task[q][s] = "waiting" /\ holder[s] = None /\ UNCHANGED <<reply, query>>
        /\ task' = CellPut(task, q, s, "calling")
        /\ holder' = PlacePut(holder, s, q)
        /\ wire' = PlacePut(wire, s, Append(wire[s], Request(q)))
    BY <1>2 DEF Send, CellPut, PlacePut
  <2>2. \A p \in Queries, u \in Shards : task'[p][u] = IF p = q /\ u = s THEN "calling" ELSE task[p][u]
    BY <2>1, ShapedParts, CellChanges DEF SearchInv
  <2>3. \A u \in Shards : holder'[u] = IF u = s THEN q ELSE holder[u]
    BY <2>1, ShapedParts, PlaceChanges DEF SearchInv
  <2>4. wire[s] = << >>
    BY <2>1 DEF SearchInv, OneCallEach
  <2>5. \A u \in Shards : wire'[u] = IF u = s THEN <<Request(q)>> ELSE wire[u]
    BY <2>1, <2>4, ShapedParts, PlaceChanges DEF SearchInv
  <2>6. Shaped'
    <3>1. IsTable(task')
      BY <2>1, ShapedParts, CellChanges DEF SearchInv
    <3>2. IsLine(wire')
      BY <2>1, ShapedParts, PlaceChanges DEF SearchInv
    <3>3. IsLine(holder') /\ \A u \in Shards : holder'[u] \in Queries \cup {None}
      BY <2>1, ShapedParts, PlaceChanges DEF SearchInv
    <3>. QED  BY <2>1, <3>1, <3>2, <3>3, ShapedParts, ShapedPartsNext DEF SearchInv
  <2>7. CallsHold'
    <3>. SUFFICES ASSUME NEW p \in Queries, NEW u \in Shards
                  PROVE  task'[p][u] = "calling" <=> holder'[u] = p
      BY DEF CallsHold
    <3>1. CASE u = s
      <4>1. task[p][s] # "calling"
        BY <2>1, NoneIsNoQuery DEF SearchInv, CallsHold
      <4>. QED  BY <3>1, <4>1, <2>2, <2>3
    <3>2. CASE u # s
      BY <3>2, <2>2, <2>3 DEF SearchInv, CallsHold
    <3>. QED  BY <3>1, <3>2
  <2>8. BeginsFree' /\ RoundsAreTheirOwn'
    BY <2>1, <2>2 DEF SearchInv, BeginsFree, RoundsAreTheirOwn
  <2>9. OneCallEach'
    <3>. SUFFICES ASSUME NEW u \in Shards
                  PROVE  IF holder'[u] = None THEN wire'[u] = << >> ELSE \E m : Carries(u, m)'
      BY DEF OneCallEach
    <3>1. CASE u = s
      <4>1. PICK m : m = Request(q)
        OBVIOUS
      <4>2. Carries(s, m)'
        BY <4>1, <2>1, <2>3, <2>5 DEF Carries, Request
      <4>3. holder'[s] # None
        BY <2>3, SearchAssumption
      <4>. QED  BY <3>1, <4>2, <4>3
    <3>2. CASE u # s
      <4>1. holder'[u] = holder[u] /\ wire'[u] = wire[u] /\ query' = query
        BY <3>2, <2>1, <2>3, <2>5
      <4>. QED  BY <4>1, CallStays DEF SearchInv
    <3>. QED  BY <3>1, <3>2
  <2>. QED  BY <2>6, <2>7, <2>8, <2>9 DEF SearchInv
<1>. QED  BY <1>1, <1>2

LEMMA ReceiveKeeps == ASSUME SearchInv, NEW s \in Shards, Receive(s) PROVE SearchInv'
<1>. DEFINE h == holder[s]
<1>1. /\ h # None /\ UNCHANGED query
      /\ task' = CellPut(task, h, s, "answered")
      /\ reply' = CellPut(reply, h, s, Head(wire[s]))
      /\ holder' = PlacePut(holder, s, None)
      /\ wire' = PlacePut(wire, s, Tail(wire[s]))
  BY DEF Receive, CellPut, PlacePut
<1>2. h \in Queries
  BY <1>1 DEF SearchInv, Shaped
<1>3. PICK m : Carries(s, m)
  BY <1>1 DEF SearchInv, OneCallEach
<1>4. Head(wire[s]) = m /\ Tail(wire[s]) = << >>
  BY <1>3 DEF Carries
<1>5. \A p \in Queries, u \in Shards :
        /\ task'[p][u] = IF p = h /\ u = s THEN "answered" ELSE task[p][u]
        /\ reply'[p][u] = IF p = h /\ u = s THEN m ELSE reply[p][u]
  BY <1>1, <1>2, <1>4, ShapedParts, CellChanges DEF SearchInv
<1>6. \A u \in Shards : /\ holder'[u] = IF u = s THEN None ELSE holder[u]
                        /\ wire'[u] = IF u = s THEN << >> ELSE wire[u]
  <2>1. wire' = PlacePut(wire, s, << >>)
    BY <1>1, <1>4
  <2>2. \A u \in Shards : wire'[u] = IF u = s THEN << >> ELSE wire[u]
    BY <2>1, ShapedParts, PlaceChanges DEF SearchInv
  <2>3. None \in Queries \cup {None}
    OBVIOUS
  <2>4. \A u \in Shards : holder'[u] = IF u = s THEN None ELSE holder[u]
    BY <1>1, <2>3, ShapedParts, PlaceChanges DEF SearchInv
  <2>. QED  BY <2>2, <2>4
<1>7. Shaped'
  <2>1. IsTable(task') /\ IsTable(reply')
    BY <1>1, <1>2, ShapedParts, CellChanges DEF SearchInv
  <2>2. IsLine(holder') /\ IsLine(wire')
    BY <1>1, ShapedParts, PlaceChanges DEF SearchInv
  <2>3. \A u \in Shards : holder'[u] \in Queries \cup {None}
    BY <1>1, ShapedParts, PlaceChanges DEF SearchInv
  <2>. QED  BY <1>1, <2>1, <2>2, <2>3, ShapedParts, ShapedPartsNext DEF SearchInv
<1>8. CallsHold'
  BY <1>2, <1>5, <1>6, NoneIsNoQuery DEF SearchInv, CallsHold
<1>9. OneCallEach'
  <2>. SUFFICES ASSUME NEW u \in Shards
                PROVE  IF holder'[u] = None THEN wire'[u] = << >> ELSE \E n : Carries(u, n)'
    BY DEF OneCallEach
  <2>1. CASE u = s
    BY <2>1, <1>6
  <2>2. CASE u # s
    BY <2>2, <1>1, <1>6, CallStays DEF SearchInv
  <2>. QED  BY <2>1, <2>2
<1>10. RoundsAreTheirOwn'
  BY <1>1, <1>3, <1>5 DEF SearchInv, RoundsAreTheirOwn, Carries
<1>11. task[h][s] = "calling"
  BY <1>2 DEF SearchInv, CallsHold
<1>12. BeginsFree'
  BY <1>1, <1>2, <1>5, <1>11 DEF SearchInv, BeginsFree
<1>. QED  BY <1>7, <1>8, <1>9, <1>10, <1>12 DEF SearchInv

LEMMA HangupKeeps == ASSUME SearchInv, NEW s \in Shards, Hangup(s) PROVE SearchInv'
<1>. DEFINE h == holder[s]
<1>1. /\ h # None /\ UNCHANGED <<query, reply>>
      /\ task' = CellPut(task, h, s, "failed")
      /\ holder' = PlacePut(holder, s, None)
      /\ wire' = PlacePut(wire, s, << >>)
  BY DEF Hangup, CellPut, PlacePut
<1>2. h \in Queries /\ task[h][s] = "calling"
  BY <1>1 DEF SearchInv, Shaped, CallsHold
<1>3. \A p \in Queries, u \in Shards :
        task'[p][u] = IF p = h /\ u = s THEN "failed" ELSE task[p][u]
  BY <1>1, <1>2, ShapedParts, CellChanges DEF SearchInv
<1>4. \A u \in Shards : /\ holder'[u] = IF u = s THEN None ELSE holder[u]
                        /\ wire'[u] = IF u = s THEN << >> ELSE wire[u]
  <2>1. \A u \in Shards : wire'[u] = IF u = s THEN << >> ELSE wire[u]
    BY <1>1, ShapedParts, PlaceChanges DEF SearchInv
  <2>2. None \in Queries \cup {None}
    OBVIOUS
  <2>3. \A u \in Shards : holder'[u] = IF u = s THEN None ELSE holder[u]
    BY <1>1, <2>2, ShapedParts, PlaceChanges DEF SearchInv
  <2>. QED  BY <2>1, <2>3
<1>5. Shaped'
  <2>1. IsTable(task')
    BY <1>1, <1>2, ShapedParts, CellChanges DEF SearchInv
  <2>2. IsLine(holder') /\ IsLine(wire')
    BY <1>1, ShapedParts, PlaceChanges DEF SearchInv
  <2>3. \A u \in Shards : holder'[u] \in Queries \cup {None}
    BY <1>1, ShapedParts, PlaceChanges DEF SearchInv
  <2>. QED  BY <1>1, <2>1, <2>2, <2>3, ShapedParts, ShapedPartsNext DEF SearchInv
<1>6. CallsHold'
  BY <1>2, <1>3, <1>4, NoneIsNoQuery DEF SearchInv, CallsHold
<1>7. OneCallEach'
  <2>. SUFFICES ASSUME NEW u \in Shards
                PROVE  IF holder'[u] = None THEN wire'[u] = << >> ELSE \E n : Carries(u, n)'
    BY DEF OneCallEach
  <2>1. CASE u = s
    BY <2>1, <1>4
  <2>2. CASE u # s
    BY <2>2, <1>1, <1>4, CallStays DEF SearchInv
  <2>. QED  BY <2>1, <2>2
<1>8. RoundsAreTheirOwn' /\ BeginsFree'
  BY <1>1, <1>2, <1>3 DEF SearchInv, RoundsAreTheirOwn, BeginsFree
<1>. QED  BY <1>5, <1>6, <1>7, <1>8 DEF SearchInv

LEMMA AnswerKeeps == ASSUME SearchInv, NEW s \in Shards, Answer(s) PROVE SearchInv'
<1>1. UNCHANGED <<holder, task, reply, query>>
  BY DEF Answer
<1>2. PICK i \in DOMAIN wire[s] : wire' = [wire EXCEPT ![s] = [wire[s] EXCEPT ![i] = Handled(conn[s], wire[s][i])]]
  BY DEF Answer
<1>3. PICK m : Carries(s, m)
  BY <1>2 DEF SearchInv, OneCallEach
<1>4. i = 1 /\ wire[s] = <<m>>
  BY <1>2, <1>3 DEF Carries
<1>5. PICK a : a = Handled(conn[s], m)
  OBVIOUS
<1>6. \A u \in Shards : wire'[u] = IF u = s THEN [wire[s] EXCEPT ![i] = Handled(conn[s], wire[s][i])] ELSE wire[u]
  BY <1>2 DEF SearchInv, Shaped
<1>7. wire'[s] = <<a>>
  BY <1>4, <1>5, <1>6
<1>8. Carries(s, a)'
  BY <1>1, <1>3, <1>5, <1>7, HandledKeeps DEF Carries
<1>9. Shaped'
  <2>1. wire' = PlacePut(wire, s, [wire[s] EXCEPT ![i] = Handled(conn[s], wire[s][i])])
    BY <1>2 DEF PlacePut
  <2>2. IsLine(wire')
    BY <2>1, ShapedParts, PlaceChanges DEF SearchInv
  <2>. QED  BY <1>1, <2>2, ShapedParts, ShapedPartsNext DEF SearchInv
<1>10. OneCallEach'
  <2>. SUFFICES ASSUME NEW u \in Shards
                PROVE  IF holder'[u] = None THEN wire'[u] = << >> ELSE \E n : Carries(u, n)'
    BY DEF OneCallEach
  <2>1. CASE u = s
    <3>1. holder[s] # None
      BY <1>4 DEF SearchInv, OneCallEach
    <3>. QED  BY <2>1, <3>1, <1>1, <1>8
  <2>2. CASE u # s
    BY <2>2, <1>1, <1>6, CallStays DEF SearchInv
  <2>. QED  BY <2>1, <2>2
<1>. QED  BY <1>1, <1>9, <1>10 DEF SearchInv, CallsHold, RoundsAreTheirOwn, BeginsFree

LEMMA AskKeeps == ASSUME SearchInv, NEW q \in Queries, Ask(q) PROVE SearchInv'
<1>1. /\ query[q].pc = "idle" /\ UNCHANGED <<holder, wire, reply>>
      /\ \/ query' = [query EXCEPT ![q].pc = "done"] /\ UNCHANGED task
         \/ query' = [query EXCEPT ![q].pc = "statistics"] /\ Broadcast(q)
  BY DEF Ask
<1>2. IsQuery(query[q])
  BY DEF SearchInv, Shaped
<1>3. CASE query' = [query EXCEPT ![q].pc = "done"] /\ UNCHANGED task
  <2>0. PICK r : r = [query[q] EXCEPT !.pc = "done"]
    OBVIOUS
  <2>1. IsQuery(r) /\ r.pc = "done"
    BY <2>0, <1>2 DEF IsQuery
  <2>2. query' = [query EXCEPT ![q] = r]
    BY <2>0, <1>3
  <2>. QED  BY <1>1, <1>3, <2>1, <2>2, EndKeeps
<1>4. CASE query' = [query EXCEPT ![q].pc = "statistics"] /\ Broadcast(q)
  <2>0. PICK r : r = [query[q] EXCEPT !.pc = "statistics"]
    OBVIOUS
  <2>1. IsQuery(r) /\ r.pc = "statistics"
    BY <2>0, <1>2 DEF IsQuery
  <2>2. query' = [query EXCEPT ![q] = r]
    BY <2>0, <1>4
  <2>3. \A s \in Shards : task[q][s] # "calling"
    BY <1>1 DEF SearchInv, BeginsFree
  <2>. QED  BY <1>1, <1>4, <2>1, <2>2, <2>3, BroadcastKeeps
<1>. QED  BY <1>1, <1>3, <1>4

LEMMA AgreeKeeps == ASSUME SearchInv, NEW q \in Queries, Agree(q) PROVE SearchInv'
<1>1. /\ \A s \in Shards : task[q][s] # "calling"
      /\ NoReplies(q) /\ UNCHANGED <<holder, wire>>
  BY DEF Agree, AllIn
<1>2. IsQuery(query[q])
  BY DEF SearchInv, Shaped
<1>3. CASE OneFormulaIn(q)
  <2>0. PICK r : r = [query[q] EXCEPT !.pc = "search", !.stats = Summed(q), !.counted = VersionsIn(q)]
    OBVIOUS
  <2>1. IsQuery(r) /\ r.pc = "search"
    BY <2>0, <1>2 DEF IsQuery
  <2>2. query' = [query EXCEPT ![q] = r] /\ Broadcast(q)
    BY <2>0, <1>3 DEF Agree
  <2>. QED  BY <1>1, <2>1, <2>2, BroadcastKeeps
<1>4. CASE ~OneFormulaIn(q)
  <2>0. PICK r : r = [query[q] EXCEPT !.pc = "failed"]
    OBVIOUS
  <2>1. IsQuery(r) /\ r.pc = "failed"
    BY <2>0, <1>2 DEF IsQuery
  <2>2. query' = [query EXCEPT ![q] = r] /\ UNCHANGED task
    BY <2>0, <1>4 DEF Agree
  <2>. QED  BY <1>1, <2>1, <2>2, EndKeeps
<1>. QED  BY <1>3, <1>4

LEMMA MergeKeeps == ASSUME SearchInv, NEW q \in Queries, Merge(q) PROVE SearchInv'
<1>1. /\ \A s \in Shards : task[q][s] # "calling"
      /\ NoReplies(q) /\ UNCHANGED <<holder, wire>>
  BY DEF Merge, AllIn
<1>2. IsQuery(query[q])
  BY DEF SearchInv, Shaped
<1>3. PICK hits : /\ query' = [query EXCEPT ![q].pc = IF hits = << >> THEN "done" ELSE "totals",
                                             ![q].hits = hits, ![q].served = VersionsIn(q)]
                  /\ IF hits = << >> THEN UNCHANGED task ELSE Broadcast(q)
  BY DEF Merge
<1>4. CASE hits = << >>
  <2>0. PICK r : r = [query[q] EXCEPT !.pc = "done", !.hits = hits, !.served = VersionsIn(q)]
    OBVIOUS
  <2>1. IsQuery(r) /\ r.pc = "done"
    BY <2>0, <1>2 DEF IsQuery
  <2>2. query' = [query EXCEPT ![q] = r] /\ UNCHANGED task
    BY <2>0, <1>3, <1>4
  <2>. QED  BY <1>1, <2>1, <2>2, EndKeeps
<1>5. CASE hits # << >>
  <2>0. PICK r : r = [query[q] EXCEPT !.pc = "totals", !.hits = hits, !.served = VersionsIn(q)]
    OBVIOUS
  <2>1. IsQuery(r) /\ r.pc = "totals"
    BY <2>0, <1>2 DEF IsQuery
  <2>2. query' = [query EXCEPT ![q] = r] /\ Broadcast(q)
    BY <2>0, <1>3, <1>5
  <2>. QED  BY <1>1, <2>1, <2>2, BroadcastKeeps
<1>. QED  BY <1>4, <1>5

LEMMA TotalKeeps == ASSUME SearchInv, NEW q \in Queries, Total(q) PROVE SearchInv'
<1>1. /\ \E sum : query' = [query EXCEPT ![q].pc = "done", ![q].total = sum]
      /\ UNCHANGED <<serving, alive, attempt, conn, holder, wire, task, reply, deaths, refreshes>>
  BY Zenon DEF Total
<1>2. UNCHANGED <<holder, wire, task, reply>>
  BY <1>1, SMT
<1>3. PICK sum : query' = [query EXCEPT ![q].pc = "done", ![q].total = sum]
  BY <1>1
<1>4. PICK r : r = [query[q] EXCEPT !.pc = "done", !.total = sum]
  OBVIOUS
<1>5. query' = [query EXCEPT ![q] = r]
  BY <1>3, <1>4
<1>6. IsQuery(query[q])
  BY DEF SearchInv, Shaped
<1>7. IsQuery(r) /\ r.pc = "done"
  BY <1>4, <1>6 DEF IsQuery
<1>. QED  BY <1>2, <1>5, <1>7, EndKeeps

LEMMA FailKeeps == ASSUME SearchInv, NEW q \in Queries, Fail(q) PROVE SearchInv'
<1>1. PICK r : r = [query[q] EXCEPT !.pc = "failed"]
  OBVIOUS
<1>2. query' = [query EXCEPT ![q] = r] /\ UNCHANGED <<holder, wire, task, reply>>
  BY <1>1 DEF Fail
<1>3. IsQuery(r) /\ r.pc = "failed"
  BY <1>1 DEF SearchInv, Shaped, IsQuery
<1>. QED  BY <1>2, <1>3, EndKeeps

-----------------------------------------------------------------------------

LEMMA InvKept == SearchInv /\ [Next]_searchVars => SearchInv'
<1>. SUFFICES ASSUME SearchInv, [Next]_searchVars PROVE SearchInv'
  OBVIOUS
<1>1. CASE UNCHANGED searchVars
  BY <1>1, KeepsUntouched DEF searchVars, Untouched
<1>2. ASSUME NEW s \in Shards, TryNext(s) PROVE SearchInv'
  BY <1>2, KeepsUntouched DEF TryNext, Untouched
<1>3. ASSUME NEW s \in Shards, Receive(s) \/ Hangup(s) \/ Answer(s) PROVE SearchInv'
  BY <1>3, ReceiveKeeps, HangupKeeps, AnswerKeeps
<1>4. ASSUME NEW q \in Queries, NEW s \in Shards, Send(q, s) PROVE SearchInv'
  BY <1>4, SendKeeps
<1>5. ASSUME NEW q \in Queries, Fail(q) \/ Total(q) \/ Agree(q) \/ Merge(q) \/ Ask(q) PROVE SearchInv'
  BY <1>5, FailKeeps, TotalKeeps, AgreeKeeps, MergeKeeps, AskKeeps
<1>6. ASSUME NEW c \in Copies, Refresh(c) \/ Die(c) PROVE SearchInv'
  BY <1>6, KeepsUntouched DEF Refresh, Die, Untouched
<1>. QED  BY <1>1, <1>2, <1>3, <1>4, <1>5, <1>6 DEF Next, Working

(* Whatever queries run at once, whichever fail with calls under way,       *)
(* whatever dies or is refreshed: every reply a query holds is the answer   *)
(* to its own request of its present round (ShardConnection::call and       *)
(* broadcast, coordinator.rs).                                              *)
THEOREM RepliesAlwaysMatch == Spec => []RepliesMatch
<1>1. Init => SearchInv
  BY InvBegins
<1>2. SearchInv /\ [Next]_searchVars => SearchInv'
  BY InvKept
<1>3. SearchInv => RepliesMatch
  BY InvHolds
<1>. QED  BY <1>1, <1>2, <1>3, PTL DEF Spec

-----------------------------------------------------------------------------
(* The second invariant: what every message and every query holds is what   *)
(* some version of the shards gave.                                         *)

(* What a shard answers a search with, at a version of its index.           *)
Found(s, version, q, stats) ==
  Truncated(Ordered(AllTop(Versions[s][version], Text[q], stats)), Text[q].limit)

(* An answer is that of one version; of a search, on the scale it was sent. *)
AnswerOf(s, m, q) ==
  /\ m.version \in DOMAIN Versions[s]
  /\ IF m.kind = "search" THEN m.hits = Found(s, m.version, q, query[q].stats)
                          ELSE m.stats = IndexStats(Versions[s][m.version])

Genuine(s, m) ==
  Round(query[m.by].pc) =>
    IF m.answer THEN AnswerOf(s, m, m.by) ELSE m.stats = query[m.by].stats

CopiesServe ==
  /\ serving \in [Copies -> Nat] /\ alive \in [Copies -> BOOLEAN]
  /\ \A c \in Copies : serving[c] \in DOMAIN Versions[ShardOf(c)]
  /\ attempt = [s \in Shards |-> attempt[s]] /\ conn = [s \in Shards |-> conn[s]]
  /\ \A s \in Shards : /\ attempt[s] \in 0..Len(Group[s])
                       /\ conn[s] \in ToSet(Group[s]) \cup {None}
  /\ deaths \in 0..MaxDeaths /\ refreshes \in 0..MaxRefreshes

WireIsGenuine == \A s \in Shards : \A m : wire[s] = <<m>> => Genuine(s, m)

RepliesAreGenuine ==
  \A q \in Queries, s \in Shards :
    Round(query[q].pc) /\ task[q][s] = "answered" => AnswerOf(s, reply[q][s], q)

TasksTyped == \A q \in Queries, s \in Shards :
                task[q][s] \in {"none", "waiting", "calling", "answered", "failed"}

(* A version of every shard.                                                *)
AreVersions(version) == \A s \in Shards : version[s] \in DOMAIN Versions[s]

StatsAt(version) == Together([s \in Shards |-> IndexStats(Versions[s][version[s]])])
FoundAt(q, version, stats) ==
  Truncated(Ordered(UNION {ToSet(Found(s, version[s], q, stats)) : s \in Shards}), Text[q].limit)

Counted(x) == AreVersions(x.counted) /\ x.stats = StatsAt(x.counted)

QueryHolds(q, x) ==
  /\ x.pc \in {"idle", "statistics", "search", "totals", "done", "failed"}
  /\ x.stats \in Statistics /\ x.total \in Nat
  /\ x.counted \in VersionType /\ x.served \in VersionType
  /\ x.pc \in {"idle", "statistics"} => x.served = Unmoved
  /\ x.pc \in {"search", "totals"} => Counted(x)
  /\ x.pc \in {"totals", "done"} /\ x.served # Unmoved =>
       Counted(x) /\ AreVersions(x.served) /\ x.hits = FoundAt(q, x.served, x.stats)

QueriesHold == \A q \in Queries : QueryHolds(q, query[q])

AnswerInv == CopiesServe /\ WireIsGenuine /\ RepliesAreGenuine /\ TasksTyped /\ QueriesHold

Standing == <<serving, alive, attempt, conn, deaths, refreshes>>

LEMMA CopyOfShard ==
  /\ \A s \in Shards : \A c \in ToSet(Group[s]) : c \in Copies /\ c # None /\ ShardOf(c) = s
  /\ \A c \in Copies : ShardOf(c) \in Shards
<1>1. ASSUME NEW s \in Shards, NEW c \in ToSet(Group[s]) PROVE c \in Copies /\ c # None /\ ShardOf(c) = s
  <2>1. c \in Copies
    BY DEF Copies
  <2>2. \A u \in Shards : c \in ToSet(Group[u]) => u = s
    BY SearchAssumption
  <2>. QED  BY <2>1, <2>2, SearchAssumption DEF ShardOf
<1>2. ASSUME NEW c \in Copies PROVE ShardOf(c) \in Shards
  <2>1. \E s \in Shards : c \in ToSet(Group[s])
    BY DEF Copies
  <2>. QED  BY <2>1 DEF ShardOf
<1>. QED  BY <1>1, <1>2

LEMMA IndexIsFinite ==
  ASSUME NEW s \in Shards, NEW v \in DOMAIN Versions[s]
  PROVE  /\ Versions[s][v] \in Seq(Segments) /\ IsFiniteSet(DOMAIN Versions[s][v])
         /\ \A i \in DOMAIN Versions[s][v] : Versions[s][v][i] \in Segments
<1>1. Versions[s] \in Seq(Seq(Segments))
  BY SearchAssumption
<1>2. Versions[s][v] \in Seq(Segments)
  BY <1>1
<1>. DEFINE n == Len(Versions[s][v])
<1>3. n \in Nat /\ DOMAIN Versions[s][v] = 1..n
  BY <1>2
<1>4. IsFiniteSet(1..n)
  <2>. HIDE DEF n
  <2>. QED  BY <1>3, FS_Interval
<1>. QED  BY <1>2, <1>3, <1>4

LEMMA IndexIsStatistics ==
  ASSUME NEW s \in Shards, NEW v \in DOMAIN Versions[s]
  PROVE  IndexStats(Versions[s][v]) \in Statistics
<1>. DEFINE index == Versions[s][v]
            parts == [i \in DOMAIN index |-> SegmentStats(index[i])]
<1>1. IsFiniteSet(DOMAIN index) /\ \A i \in DOMAIN index : index[i] \in Segments
  BY IndexIsFinite
<1>2. DOMAIN parts = DOMAIN index /\ \A i \in DOMAIN index : parts[i] \in Statistics
  BY <1>1, SegmentIsStatistics
<1>. HIDE DEF parts, index
<1>3. Together(parts) \in Statistics
  BY <1>1, <1>2, TogetherIsStatistics
<1>. QED  BY <1>3 DEF IndexStats, parts, index

LEMMA ShardsAreFinite == IsFiniteSet(Shards) /\ Shards # {} /\ Shards \subseteq Nat /\ 1 \in Shards
<1>1. ShardCount \in Nat \ {0}
  BY SearchAssumption
<1>2. IsFiniteSet(1..ShardCount)
  BY <1>1, FS_Interval
<1>. QED  BY <1>1, <1>2 DEF Shards

LEMMA StatsAtAreStatistics ==
  ASSUME NEW version, AreVersions(version) PROVE StatsAt(version) \in Statistics
<1>. DEFINE parts == [s \in Shards |-> IndexStats(Versions[s][version[s]])]
<1>1. \A s \in Shards : parts[s] \in Statistics
  BY IndexIsStatistics DEF AreVersions
<1>2. DOMAIN parts = Shards
  OBVIOUS
<1>. HIDE DEF parts
<1>3. Together(parts) \in Statistics
  BY <1>1, <1>2, ShardsAreFinite, TogetherIsStatistics
<1>. QED  BY <1>3 DEF StatsAt, parts

LEMMA AnswerBegins == Init => AnswerInv
<1>. SUFFICES ASSUME Init PROVE AnswerInv
  OBVIOUS
<1>1. CopiesServe
  <2>1. \A c \in Copies : 1 \in DOMAIN Versions[ShardOf(c)]
    BY CopyOfShard, SearchAssumption
  <2>2. \A s \in Shards : 0 \in 0..Len(Group[s])
    BY SearchAssumption
  <2>3. 0 \in 0..MaxDeaths /\ 0 \in 0..MaxRefreshes
    BY SearchAssumption
  <2>. QED  BY <2>1, <2>2, <2>3 DEF Init, CopiesServe
<1>2. WireIsGenuine /\ RepliesAreGenuine /\ TasksTyped
  BY DEF Init, WireIsGenuine, RepliesAreGenuine, TasksTyped
<1>3. QueriesHold
  BY NothingIsStatistics DEF Init, Idle, QueriesHold, QueryHolds, VersionType, Unmoved
<1>. QED  BY <1>1, <1>2, <1>3 DEF AnswerInv

-----------------------------------------------------------------------------
(* Every step keeps it.                                                      *)

LEMMA CopiesKeep ==
  ASSUME AnswerInv, CopiesServe', UNCHANGED Untouched PROVE AnswerInv'
<1>1. wire' = wire /\ task' = task /\ reply' = reply /\ query' = query
  BY DEF Untouched
<1>2. WireIsGenuine'
  BY <1>1 DEF AnswerInv, WireIsGenuine, Genuine, AnswerOf
<1>3. RepliesAreGenuine' /\ TasksTyped' /\ QueriesHold'
  BY <1>1 DEF AnswerInv, RepliesAreGenuine, TasksTyped, QueriesHold, AnswerOf
<1>. QED  BY <1>2, <1>3 DEF AnswerInv

LEMMA StandingKeeps == ASSUME CopiesServe, UNCHANGED Standing PROVE CopiesServe'
BY DEF Standing, CopiesServe

LEMMA TryNextKeeps == ASSUME AnswerInv, NEW s \in Shards, TryNext(s) PROVE CopiesServe'
<1>1. /\ attempt' = [attempt EXCEPT ![s] = attempt[s] + 1] /\ attempt[s] # Len(Group[s])
      /\ UNCHANGED <<serving, alive, deaths, refreshes>>
  BY DEF TryNext, Exhausted
<1>2. PICK c : c = Group[s][attempt[s] + 1]
  OBVIOUS
<1>3. conn' = [conn EXCEPT ![s] = IF alive[c] THEN c ELSE conn[s]]
  BY <1>2 DEF TryNext
<1>4. attempt[s] \in 0..Len(Group[s]) /\ Group[s] \in Seq(Copies) /\ Len(Group[s]) \in Nat
  BY SearchAssumption DEF AnswerInv, CopiesServe
<1>5. attempt[s] + 1 \in 1..Len(Group[s])
  BY <1>1, <1>4
<1>6. c \in ToSet(Group[s])
  BY <1>2, <1>4, <1>5 DEF ToSet
<1>7. \A u \in Shards : /\ attempt'[u] = IF u = s THEN attempt[s] + 1 ELSE attempt[u]
                        /\ conn'[u] = IF u = s /\ alive[c] THEN c ELSE conn[u]
  BY <1>1, <1>3 DEF AnswerInv, CopiesServe
<1>8. attempt' = [u \in Shards |-> attempt'[u]] /\ conn' = [u \in Shards |-> conn'[u]]
  BY <1>1, <1>3 DEF AnswerInv, CopiesServe
<1>9. \A u \in Shards : attempt'[u] \in 0..Len(Group[u]) /\ conn'[u] \in ToSet(Group[u]) \cup {None}
  <2>1. attempt[s] + 1 \in 0..Len(Group[s])
    BY <1>4, <1>5
  <2>. QED  BY <1>6, <1>7, <2>1 DEF AnswerInv, CopiesServe
<1>. QED  BY <1>1, <1>8, <1>9 DEF AnswerInv, CopiesServe

LEMMA RefreshKeeps == ASSUME AnswerInv, NEW c \in Copies, Refresh(c) PROVE CopiesServe'
<1>1. /\ serving[c] < Len(Versions[ShardOf(c)]) /\ serving' = [serving EXCEPT ![c] = serving[c] + 1]
      /\ refreshes < MaxRefreshes /\ refreshes' = refreshes + 1
      /\ UNCHANGED <<alive, attempt, conn, deaths>>
  BY DEF Refresh
<1>2. /\ serving \in [Copies -> Nat] /\ serving[c] \in DOMAIN Versions[ShardOf(c)]
      /\ refreshes \in 0..MaxRefreshes
  BY DEF AnswerInv, CopiesServe
<1>3. Versions[ShardOf(c)] \in Seq(Seq(Segments))
  BY CopyOfShard, SearchAssumption
<1>4. serving[c] + 1 \in DOMAIN Versions[ShardOf(c)] /\ serving[c] + 1 \in Nat
  BY <1>1, <1>2, <1>3
<1>5. refreshes' \in 0..MaxRefreshes
  BY <1>1, <1>2, SearchAssumption
<1>6. serving' \in [Copies -> Nat] /\ \A b \in Copies : serving'[b] \in DOMAIN Versions[ShardOf(b)]
  BY <1>1, <1>2, <1>4 DEF AnswerInv, CopiesServe
<1>. QED  BY <1>1, <1>5, <1>6 DEF AnswerInv, CopiesServe

LEMMA DieKeeps == ASSUME AnswerInv, NEW c \in Copies, Die(c) PROVE CopiesServe'
<1>1. /\ deaths < MaxDeaths /\ deaths' = deaths + 1
      /\ alive' = [alive EXCEPT ![c] = FALSE]
      /\ UNCHANGED <<serving, attempt, conn, refreshes>>
  BY DEF Die
<1>2. deaths' \in 0..MaxDeaths
  BY <1>1, SearchAssumption DEF AnswerInv, CopiesServe
<1>3. alive' \in [Copies -> BOOLEAN]
  BY <1>1 DEF AnswerInv, CopiesServe
<1>. QED  BY <1>1, <1>2, <1>3 DEF AnswerInv, CopiesServe

(* A query moves on, whose calls are all over, or are nobody's any more.    *)
LEMMA QueryMoves ==
  ASSUME SearchInv, AnswerInv, NEW q \in Queries, NEW r,
         query' = [query EXCEPT ![q] = r], QueryHolds(q, r),
         \/ ~Round(r.pc) /\ UNCHANGED task
         \/ (\A s \in Shards : task[q][s] # "calling") /\ Broadcast(q),
         reply' = reply \/ NoReplies(q), UNCHANGED <<holder, wire>>, UNCHANGED Standing
  PROVE  AnswerInv'
<1>1. \A p \in Queries : p # q => query'[p] = query[p] /\ task'[p] = task[p] /\ reply'[p] = reply[p]
  BY DEF SearchInv, Shaped, Broadcast, NoReplies
<1>2. query'[q] = r
  BY DEF SearchInv, Shaped
<1>3. CopiesServe'
  BY StandingKeeps DEF AnswerInv
<1>4. \A s \in Shards : task'[q][s] = "waiting" \/ (task'[q][s] = task[q][s] /\ ~Round(r.pc))
  BY DEF SearchInv, Shaped, Broadcast
<1>5. TasksTyped'
  BY <1>1, <1>4 DEF AnswerInv, TasksTyped
<1>6. QueriesHold'
  BY <1>1, <1>2 DEF AnswerInv, QueriesHold
<1>7. RepliesAreGenuine'
  BY <1>1, <1>2, <1>4 DEF AnswerInv, RepliesAreGenuine, AnswerOf
<1>8. WireIsGenuine'
  <2>. SUFFICES ASSUME NEW s \in Shards, NEW m, wire[s] = <<m>> PROVE Genuine(s, m)'
    BY DEF WireIsGenuine
  <2>1. Genuine(s, m)
    BY DEF AnswerInv, WireIsGenuine
  <2>2. m.by = holder[s] /\ holder[s] \in Queries
    <3>0. wire[s] # << >>
      <4>1. Len(wire[s]) = 1
        OBVIOUS
      <4>. QED  BY <4>1
    <3>1. holder[s] # None
      BY <3>0 DEF SearchInv, OneCallEach
    <3>2. PICK n : Carries(s, n)
      BY <3>1 DEF SearchInv, OneCallEach
    <3>3. n = m
      BY <3>2 DEF Carries
    <3>. QED  BY <3>1, <3>2, <3>3 DEF Carries, SearchInv, Shaped
  <2>3. CASE m.by = q
    <3>1. task[q][s] = "calling"
      BY <2>2, <2>3 DEF SearchInv, CallsHold
    <3>2. ~Round(r.pc)
      BY <3>1
    <3>. QED  BY <1>2, <2>3, <3>2 DEF Genuine
  <2>4. CASE m.by # q
    <3>1. query'[m.by] = query[m.by]
      BY <1>1, <2>2, <2>4
    <3>. QED  BY <2>1, <3>1 DEF Genuine, AnswerOf
  <2>. QED  BY <2>3, <2>4
<1>. QED  BY <1>3, <1>5, <1>6, <1>7, <1>8 DEF AnswerInv

LEMMA SendGenuine ==
  ASSUME SearchInv, AnswerInv, NEW q \in Queries, NEW s \in Shards, Send(q, s) PROVE AnswerInv'
<1>1. UNCHANGED Standing /\ UNCHANGED <<reply, query>>
  BY DEF Send, Standing
<1>2. PICK o \in {"failed", "calling"} :
        /\ task' = [task EXCEPT ![q][s] = o]
        /\ \/ wire' = wire
           \/ wire' = [wire EXCEPT ![s] = Append(wire[s], Request(q))] /\ holder[s] = None
  BY DEF Send
<1>3. \A p \in Queries, u \in Shards : task'[p][u] = IF p = q /\ u = s THEN o ELSE task[p][u]
  BY <1>2 DEF SearchInv, Shaped
<1>4. CopiesServe'
  BY <1>1, StandingKeeps DEF AnswerInv
<1>5. TasksTyped' /\ QueriesHold'
  BY <1>1, <1>3 DEF AnswerInv, TasksTyped, QueriesHold
<1>6. RepliesAreGenuine'
  BY <1>1, <1>3 DEF AnswerInv, RepliesAreGenuine, AnswerOf
<1>7. WireIsGenuine'
  <2>. SUFFICES ASSUME NEW u \in Shards, NEW m, wire'[u] = <<m>> PROVE Genuine(u, m)'
    BY DEF WireIsGenuine
  <2>1. CASE wire'[u] = wire[u]
    BY <1>1, <2>1 DEF AnswerInv, WireIsGenuine, Genuine, AnswerOf
  <2>2. CASE wire'[u] # wire[u]
    <3>1. u = s /\ holder[s] = None /\ wire'[s] = Append(wire[s], Request(q))
      BY <1>2, <2>2 DEF SearchInv, Shaped
    <3>2. wire[s] = << >>
      BY <3>1 DEF SearchInv, OneCallEach
    <3>3. m = Request(q)
      BY <3>1, <3>2
    <3>4. m.by = q /\ ~m.answer /\ m.stats = query[q].stats
      BY <3>3 DEF Request
    <3>. QED  BY <1>1, <3>4 DEF Genuine
  <2>. QED  BY <2>1, <2>2
<1>. QED  BY <1>4, <1>5, <1>6, <1>7 DEF AnswerInv

LEMMA ReceiveGenuine ==
  ASSUME SearchInv, AnswerInv, NEW s \in Shards, Receive(s) PROVE AnswerInv'
<1>. DEFINE h == holder[s]
<1>1. /\ h # None /\ UNCHANGED query /\ UNCHANGED Standing /\ Head(wire[s]).answer
      /\ task' = CellPut(task, h, s, "answered")
      /\ reply' = CellPut(reply, h, s, Head(wire[s]))
      /\ wire' = PlacePut(wire, s, Tail(wire[s]))
  BY DEF Receive, Standing, CellPut, PlacePut
<1>2. h \in Queries
  BY <1>1 DEF SearchInv, Shaped
<1>3. PICK m : Carries(s, m)
  BY <1>1 DEF SearchInv, OneCallEach
<1>4. Head(wire[s]) = m /\ Tail(wire[s]) = << >> /\ m.answer /\ m.by = h
  BY <1>1, <1>3 DEF Carries
<1>5. \A p \in Queries, u \in Shards :
        /\ task'[p][u] = IF p = h /\ u = s THEN "answered" ELSE task[p][u]
        /\ reply'[p][u] = IF p = h /\ u = s THEN m ELSE reply[p][u]
  BY <1>1, <1>2, <1>4, ShapedParts, CellChanges DEF SearchInv
<1>6. CopiesServe'
  BY <1>1, StandingKeeps DEF AnswerInv
<1>7. TasksTyped' /\ QueriesHold'
  BY <1>1, <1>5 DEF AnswerInv, TasksTyped, QueriesHold
<1>8. Genuine(s, m)
  BY <1>3 DEF AnswerInv, WireIsGenuine, Carries
<1>9. RepliesAreGenuine'
  BY <1>1, <1>4, <1>5, <1>8 DEF AnswerInv, RepliesAreGenuine, AnswerOf, Genuine
<1>11. \A u \in Shards : wire'[u] = IF u = s THEN << >> ELSE wire[u]
  <2>1. wire' = PlacePut(wire, s, << >>) /\ IsLine(wire)
    BY <1>1, <1>4, ShapedParts DEF SearchInv
  <2>. QED  BY <2>1, PlaceChanges
<1>10. WireIsGenuine'
  <2>. SUFFICES ASSUME NEW u \in Shards, NEW n, wire'[u] = <<n>> PROVE Genuine(u, n)'
    BY DEF WireIsGenuine
  <2>1. u # s
    <3>1. << >> # <<n>>
      OBVIOUS
    <3>. QED  BY <1>11, <3>1
  <2>2. wire'[u] = wire[u]
    BY <1>11, <2>1
  <2>3. Genuine(u, n)
    BY <2>2 DEF AnswerInv, WireIsGenuine
  <2>4. query' = query
    BY <1>1
  <2>. QED  BY <2>3, <2>4 DEF Genuine, AnswerOf
<1>. QED  BY <1>6, <1>7, <1>9, <1>10 DEF AnswerInv

LEMMA HangupGenuine ==
  ASSUME SearchInv, AnswerInv, NEW s \in Shards, Hangup(s) PROVE AnswerInv'
<1>. DEFINE h == holder[s]
<1>1. /\ h # None /\ UNCHANGED <<query, reply>> /\ UNCHANGED Standing
      /\ task' = [task EXCEPT ![h][s] = "failed"]
      /\ wire' = [wire EXCEPT ![s] = << >>]
  BY DEF Hangup, Standing
<1>2. h \in Queries
  BY <1>1 DEF SearchInv, Shaped
<1>3. \A p \in Queries, u \in Shards :
        task'[p][u] = IF p = h /\ u = s THEN "failed" ELSE task[p][u]
  BY <1>1, <1>2 DEF SearchInv, Shaped
<1>4. CopiesServe'
  BY <1>1, StandingKeeps DEF AnswerInv
<1>5. TasksTyped' /\ QueriesHold'
  BY <1>1, <1>3 DEF AnswerInv, TasksTyped, QueriesHold
<1>6. RepliesAreGenuine'
  BY <1>1, <1>3 DEF AnswerInv, RepliesAreGenuine, AnswerOf
<1>7. WireIsGenuine'
  <2>. SUFFICES ASSUME NEW u \in Shards, NEW n, wire'[u] = <<n>> PROVE Genuine(u, n)'
    BY DEF WireIsGenuine
  <2>1. u # s
    <3>1. Len(wire'[u]) = 1
      OBVIOUS
    <3>. QED  BY <1>1, <3>1 DEF SearchInv, Shaped
  <2>2. wire'[u] = wire[u]
    BY <1>1, <2>1 DEF SearchInv, Shaped
  <2>3. Genuine(u, n)
    BY <2>2 DEF AnswerInv, WireIsGenuine
  <2>4. query' = query
    BY <1>1
  <2>. QED  BY <2>3, <2>4 DEF Genuine, AnswerOf
<1>. QED  BY <1>4, <1>5, <1>6, <1>7 DEF AnswerInv

(* A copy answers a request: what it says is of the version it serves.      *)
LEMMA HandledIsGenuine ==
  ASSUME SearchInv, AnswerInv, NEW s \in Shards, NEW c \in ToSet(Group[s]), NEW r,
         Genuine(s, r), ~r.answer, r.by \in Queries
  PROVE  Genuine(s, Handled(c, r))
<1>1. c \in Copies /\ ShardOf(c) = s
  BY CopyOfShard
<1>2. PICK v \in DOMAIN Versions[s] : v = serving[c]
  BY <1>1 DEF AnswerInv, CopiesServe
<1>3. IndexOf(c) = Versions[s][v]
  BY <1>1, <1>2 DEF IndexOf
<1>4. PICK stats : stats = IndexStats(IndexOf(c))
  OBVIOUS
<1>5. PICK hits : hits = ShardHits(c, r.by, r.stats)
  OBVIOUS
<1>6. PICK params : params = ShardParams(c)
  OBVIOUS
<1>7. Handled(c, r) = [by |-> r.by, kind |-> r.kind, answer |-> TRUE, version |-> v,
                       stats |-> IF r.kind = "search" THEN NoStats ELSE stats,
                       params |-> IF r.kind = "statistics" THEN params ELSE DefaultParams,
                       hits |-> IF r.kind = "search" THEN hits ELSE << >>]
  BY <1>2, <1>4, <1>5, <1>6 DEF Handled
<1>8. PICK m : m = Handled(c, r)
  OBVIOUS
<1>9. /\ m.by = r.by /\ m.kind = r.kind /\ m.answer /\ m.version = v
      /\ r.kind = "search" => m.hits = hits
      /\ r.kind # "search" => m.stats = stats
  BY <1>7, <1>8
<1>10. hits = Found(s, v, r.by, r.stats)
  BY <1>3, <1>5 DEF ShardHits, Found
<1>11. Round(query[r.by].pc) => r.stats = query[r.by].stats
  BY DEF Genuine
<1>. QED  BY <1>3, <1>4, <1>8, <1>9, <1>10, <1>11 DEF Genuine, AnswerOf

LEMMA AnswerGenuine ==
  ASSUME SearchInv, AnswerInv, NEW s \in Shards, Answer(s) PROVE AnswerInv'
<1>1. /\ UNCHANGED <<task, reply, query>> /\ UNCHANGED Standing /\ ~Broken(s)
  BY DEF Answer, Standing
<1>2. PICK i \in DOMAIN wire[s] :
        /\ ~wire[s][i].answer
        /\ wire' = [wire EXCEPT ![s] = [wire[s] EXCEPT ![i] = Handled(conn[s], wire[s][i])]]
  BY DEF Answer
<1>3. holder[s] # None
  <2>1. wire[s] # << >>
    BY <1>2
  <2>. QED  BY <2>1 DEF SearchInv, OneCallEach
<1>4. PICK m : Carries(s, m)
  BY <1>3 DEF SearchInv, OneCallEach
<1>5. i = 1 /\ wire[s] = <<m>> /\ ~m.answer /\ m.by \in Queries
  BY <1>2, <1>3, <1>4 DEF Carries, SearchInv, Shaped
<1>6. PICK a : a = Handled(conn[s], m)
  OBVIOUS
<1>7. \A u \in Shards : wire'[u] = IF u = s THEN [wire[s] EXCEPT ![i] = Handled(conn[s], wire[s][i])] ELSE wire[u]
  BY <1>2 DEF SearchInv, Shaped
<1>8. wire'[s] = <<a>>
  BY <1>5, <1>6, <1>7
<1>9. conn[s] \in ToSet(Group[s])
  <2>1. conn[s] \in Copies
    BY <1>1 DEF Broken
  <2>2. None \notin Copies
    BY SearchAssumption
  <2>. QED  BY <2>1, <2>2 DEF AnswerInv, CopiesServe
<1>10. Genuine(s, a)
  <2>1. Genuine(s, m)
    BY <1>5 DEF AnswerInv, WireIsGenuine
  <2>. QED  BY <1>5, <1>6, <1>9, <2>1, HandledIsGenuine
<1>11. WireIsGenuine'
  <2>. SUFFICES ASSUME NEW u \in Shards, NEW n, wire'[u] = <<n>> PROVE Genuine(u, n)'
    BY DEF WireIsGenuine
  <2>1. CASE u = s
    <3>1. n = a
      BY <1>8, <2>1
    <3>. QED  BY <1>1, <1>10, <2>1, <3>1 DEF Genuine, AnswerOf
  <2>2. CASE u # s
    BY <1>1, <1>7, <2>2 DEF AnswerInv, WireIsGenuine, Genuine, AnswerOf
  <2>. QED  BY <2>1, <2>2
<1>12. CopiesServe'
  BY <1>1, StandingKeeps DEF AnswerInv
<1>13. RepliesAreGenuine' /\ TasksTyped' /\ QueriesHold'
  BY <1>1 DEF AnswerInv, RepliesAreGenuine, TasksTyped, QueriesHold, AnswerOf
<1>. QED  BY <1>11, <1>12, <1>13 DEF AnswerInv

-----------------------------------------------------------------------------
(* The rounds of a query.                                                   *)

LEMMA AskGenuine ==
  ASSUME SearchInv, AnswerInv, NEW q \in Queries, Ask(q) PROVE AnswerInv'
<1>1. /\ query[q].pc = "idle" /\ UNCHANGED <<holder, wire, reply>> /\ UNCHANGED Standing
      /\ \/ query' = [query EXCEPT ![q].pc = "done"] /\ UNCHANGED task
         \/ query' = [query EXCEPT ![q].pc = "statistics"] /\ Broadcast(q)
  BY DEF Ask, Standing
<1>2. IsQuery(query[q]) /\ QueryHolds(q, query[q])
  BY DEF SearchInv, Shaped, AnswerInv, QueriesHold
<1>3. \A s \in Shards : task[q][s] # "calling"
  BY <1>1 DEF SearchInv, BeginsFree
<1>4. PICK pc \in {"done", "statistics"} :
        /\ query' = [query EXCEPT ![q].pc = pc]
        /\ (pc = "done" /\ UNCHANGED task) \/ Broadcast(q)
  BY <1>1
<1>5. PICK r : r = [query[q] EXCEPT !.pc = pc]
  OBVIOUS
<1>6. /\ r.pc = pc /\ r.stats = query[q].stats /\ r.total = query[q].total
      /\ r.counted = query[q].counted /\ r.served = query[q].served
  BY <1>2, <1>5 DEF IsQuery
<1>7. QueryHolds(q, r)
  BY <1>1, <1>2, <1>6 DEF QueryHolds
<1>8. query' = [query EXCEPT ![q] = r]
  BY <1>4, <1>5
<1>. QED  BY <1>1, <1>3, <1>4, <1>6, <1>7, <1>8, QueryMoves DEF Round

LEMMA FailGenuine ==
  ASSUME SearchInv, AnswerInv, NEW q \in Queries, Fail(q) PROVE AnswerInv'
<1>1. /\ UNCHANGED <<holder, wire, reply, task>> /\ UNCHANGED Standing
      /\ query' = [query EXCEPT ![q].pc = "failed"]
  BY DEF Fail, Standing
<1>2. IsQuery(query[q]) /\ QueryHolds(q, query[q])
  BY DEF SearchInv, Shaped, AnswerInv, QueriesHold
<1>3. PICK r : r = [query[q] EXCEPT !.pc = "failed"]
  OBVIOUS
<1>4. /\ r.pc = "failed" /\ r.stats = query[q].stats /\ r.total = query[q].total
      /\ r.counted = query[q].counted /\ r.served = query[q].served
  BY <1>2, <1>3 DEF IsQuery
<1>5. QueryHolds(q, r)
  BY <1>2, <1>4 DEF QueryHolds
<1>6. query' = [query EXCEPT ![q] = r] /\ ~Round(r.pc)
  BY <1>1, <1>3, <1>4 DEF Round
<1>. QED  BY <1>1, <1>5, <1>6, QueryMoves

(* The statistics of a round that is in are those of the versions that gave *)
(* them.                                                                    *)
LEMMA RoundIsIn ==
  ASSUME SearchInv, AnswerInv, NEW q \in Queries, Round(query[q].pc), AllIn(q)
  PROVE  /\ AreVersions(VersionsIn(q)) /\ VersionsIn(q) \in VersionType
         /\ VersionsIn(q) # Unmoved
         /\ \A s \in Shards : task[q][s] # "calling"
         /\ \A s \in Shards : AnswerOf(s, reply[q][s], q) /\ reply[q][s].kind = query[q].pc
         /\ \A s \in Shards : VersionsIn(q)[s] = reply[q][s].version
<1>1. \A s \in Shards : task[q][s] = "answered"
  BY DEF AllIn
<1>2. \A s \in Shards : AnswerOf(s, reply[q][s], q) /\ reply[q][s].kind = query[q].pc
  BY <1>1 DEF AnswerInv, RepliesAreGenuine, SearchInv, RoundsAreTheirOwn
<1>3. \A s \in Shards : VersionsIn(q)[s] = reply[q][s].version
  BY DEF VersionsIn
<1>4. ASSUME NEW s \in Shards PROVE DOMAIN Versions[s] \subseteq Nat \ {0}
  <2>1. Versions[s] \in Seq(Seq(Segments))
    BY SearchAssumption
  <2>. QED  BY <2>1
<1>5. AreVersions(VersionsIn(q))
  BY <1>2, <1>3 DEF AreVersions, AnswerOf
<1>6. VersionsIn(q) \in VersionType
  BY <1>2, <1>4 DEF VersionsIn, VersionType, AnswerOf
<1>7. VersionsIn(q)[1] # Unmoved[1]
  BY <1>2, <1>3, <1>4, ShardsAreFinite DEF AnswerOf, Unmoved
<1>. QED  BY <1>1, <1>2, <1>3, <1>5, <1>6, <1>7

LEMMA AgreeGenuine ==
  ASSUME SearchInv, AnswerInv, NEW q \in Queries, Agree(q) PROVE AnswerInv'
<1>1. /\ query[q].pc = "statistics" /\ AllIn(q) /\ NoReplies(q)
      /\ UNCHANGED <<holder, wire>> /\ UNCHANGED Standing
  BY DEF Agree, Standing
<1>2. IsQuery(query[q]) /\ QueryHolds(q, query[q])
  BY DEF SearchInv, Shaped, AnswerInv, QueriesHold
<1>3. PICK stats, counted : stats = Summed(q) /\ counted = VersionsIn(q)
  OBVIOUS
<1>4. /\ AreVersions(counted) /\ counted \in VersionType
      /\ \A s \in Shards : task[q][s] # "calling"
      /\ \A s \in Shards : AnswerOf(s, reply[q][s], q) /\ reply[q][s].kind = query[q].pc
      /\ \A s \in Shards : counted[s] = reply[q][s].version
  BY <1>1, <1>3, RoundIsIn DEF Round
<1>5. stats = StatsAt(counted)
  <2>1. \A s \in Shards : reply[q][s].stats = IndexStats(Versions[s][counted[s]])
    BY <1>1, <1>4 DEF AnswerOf
  <2>2. [s \in Shards |-> reply[q][s].stats] = [s \in Shards |-> IndexStats(Versions[s][counted[s]])]
    BY <2>1
  <2>. QED  BY <1>3, <2>2 DEF Summed, StatsAt
<1>6. stats \in Statistics
  BY <1>4, <1>5, StatsAtAreStatistics
<1>7. CASE OneFormulaIn(q)
  <2>1. PICK r : r = [query[q] EXCEPT !.pc = "search", !.stats = stats, !.counted = counted]
    OBVIOUS
  <2>2. /\ r.pc = "search" /\ r.stats = stats /\ r.total = query[q].total
        /\ r.counted = counted /\ r.served = query[q].served
    BY <1>2, <2>1 DEF IsQuery
  <2>3. query' = [query EXCEPT ![q] = r] /\ Broadcast(q)
    BY <1>3, <1>7, <2>1 DEF Agree
  <2>4. QueryHolds(q, r)
    BY <1>2, <1>4, <1>5, <1>6, <2>2 DEF QueryHolds, Counted
  <2>. QED  BY <1>1, <1>4, <2>3, <2>4, QueryMoves
<1>8. CASE ~OneFormulaIn(q)
  <2>1. PICK r : r = [query[q] EXCEPT !.pc = "failed"]
    OBVIOUS
  <2>2. /\ r.pc = "failed" /\ r.stats = query[q].stats /\ r.total = query[q].total
        /\ r.counted = query[q].counted /\ r.served = query[q].served
    BY <1>2, <2>1 DEF IsQuery
  <2>3. query' = [query EXCEPT ![q] = r] /\ UNCHANGED task
    BY <1>8, <2>1 DEF Agree
  <2>4. QueryHolds(q, r) /\ ~Round(r.pc)
    BY <1>2, <2>2 DEF QueryHolds, Round
  <2>. QED  BY <1>1, <2>3, <2>4, QueryMoves
<1>. QED  BY <1>7, <1>8

LEMMA MergeGenuine ==
  ASSUME SearchInv, AnswerInv, NEW q \in Queries, Merge(q) PROVE AnswerInv'
<1>1. /\ query[q].pc = "search" /\ AllIn(q) /\ NoReplies(q)
      /\ UNCHANGED <<holder, wire>> /\ UNCHANGED Standing
  BY DEF Merge, Standing
<1>2. IsQuery(query[q]) /\ QueryHolds(q, query[q])
  BY DEF SearchInv, Shaped, AnswerInv, QueriesHold
<1>3. PICK served : served = VersionsIn(q)
  OBVIOUS
<1>4. PICK hits : hits = Merged(q)
  OBVIOUS
<1>5. PICK pc \in {"done", "totals"} :
        /\ query' = [query EXCEPT ![q].pc = pc, ![q].hits = hits, ![q].served = served]
        /\ (pc = "done" /\ UNCHANGED task) \/ Broadcast(q)
  BY <1>3, <1>4 DEF Merge
<1>6. /\ AreVersions(served) /\ served \in VersionType
      /\ \A s \in Shards : task[q][s] # "calling"
      /\ \A s \in Shards : AnswerOf(s, reply[q][s], q) /\ reply[q][s].kind = query[q].pc
      /\ \A s \in Shards : served[s] = reply[q][s].version
  BY <1>1, <1>3, RoundIsIn DEF Round
<1>7. hits = FoundAt(q, served, query[q].stats)
  <2>1. \A s \in Shards : reply[q][s].hits = Found(s, served[s], q, query[q].stats)
    BY <1>1, <1>6 DEF AnswerOf
  <2>2. {ToSet(reply[q][s].hits) : s \in Shards} = {ToSet(Found(s, served[s], q, query[q].stats)) : s \in Shards}
    BY <2>1
  <2>. QED  BY <1>4, <2>2 DEF Merged, FoundAt
<1>8. PICK r : r = [query[q] EXCEPT !.pc = pc, !.hits = hits, !.served = served]
  OBVIOUS
<1>9. /\ r.pc = pc /\ r.stats = query[q].stats /\ r.total = query[q].total
      /\ r.counted = query[q].counted /\ r.served = served /\ r.hits = hits
  BY <1>2, <1>8 DEF IsQuery
<1>10. QueryHolds(q, r)
  BY <1>1, <1>2, <1>6, <1>7, <1>9 DEF QueryHolds, Counted
<1>11. query' = [query EXCEPT ![q] = r]
  BY <1>5, <1>8
<1>. QED  BY <1>1, <1>5, <1>6, <1>9, <1>10, <1>11, QueryMoves DEF Round

LEMMA TotalGenuine ==
  ASSUME SearchInv, AnswerInv, NEW q \in Queries, Total(q) PROVE AnswerInv'
<1>. DEFINE docs == [s \in Shards |-> reply[q][s].stats.docs]
<1>1. PICK total : total = SumFunction(docs)
  OBVIOUS
<1>2. /\ query[q].pc = "totals" /\ AllIn(q) /\ UNCHANGED <<holder, wire, task, reply>> /\ UNCHANGED Standing
      /\ query' = [query EXCEPT ![q].pc = "done", ![q].total = total]
  BY <1>1 DEF Total, Standing
<1>3. IsQuery(query[q]) /\ QueryHolds(q, query[q])
  BY DEF SearchInv, Shaped, AnswerInv, QueriesHold
<1>4. \A s \in Shards : reply[q][s].version \in DOMAIN Versions[s] /\ reply[q][s].stats = IndexStats(Versions[s][reply[q][s].version])
  BY <1>2, RoundIsIn DEF Round, AnswerOf
<1>5. \A s \in Shards : docs[s] \in Nat
  BY <1>4, IndexIsStatistics DEF Statistics
<1>6. total \in Nat
  <2>1. DOMAIN docs = Shards
    OBVIOUS
  <2>. HIDE DEF docs
  <2>. QED  BY <1>1, <1>5, <2>1, ShardsAreFinite, SumIsNatural DEF SumFunction
<1>7. PICK r : r = [query[q] EXCEPT !.pc = "done", !.total = total]
  OBVIOUS
<1>8. /\ r.pc = "done" /\ r.stats = query[q].stats /\ r.total = total /\ r.hits = query[q].hits
      /\ r.counted = query[q].counted /\ r.served = query[q].served
  BY <1>3, <1>7 DEF IsQuery
<1>9. QueryHolds(q, r) /\ ~Round(r.pc)
  BY <1>2, <1>3, <1>6, <1>8 DEF QueryHolds, Counted, Round
<1>10. query' = [query EXCEPT ![q] = r]
  BY <1>2, <1>7
<1>. QED  BY <1>2, <1>9, <1>10, QueryMoves

LEMMA AnswersKept == SearchInv /\ AnswerInv /\ [Next]_searchVars => AnswerInv'
<1>. SUFFICES ASSUME SearchInv, AnswerInv, [Next]_searchVars PROVE AnswerInv'
  OBVIOUS
<1>1. CASE UNCHANGED searchVars
  BY <1>1, StandingKeeps, CopiesKeep DEF searchVars, Untouched, Standing, AnswerInv
<1>2. ASSUME NEW s \in Shards, TryNext(s) PROVE AnswerInv'
  BY <1>2, TryNextKeeps, CopiesKeep DEF TryNext, Untouched
<1>3. ASSUME NEW s \in Shards, Receive(s) \/ Hangup(s) \/ Answer(s) PROVE AnswerInv'
  BY <1>3, ReceiveGenuine, HangupGenuine, AnswerGenuine
<1>4. ASSUME NEW q \in Queries, NEW s \in Shards, Send(q, s) PROVE AnswerInv'
  BY <1>4, SendGenuine
<1>5. ASSUME NEW q \in Queries, Fail(q) \/ Total(q) \/ Agree(q) \/ Merge(q) \/ Ask(q) PROVE AnswerInv'
  BY <1>5, FailGenuine, TotalGenuine, AgreeGenuine, MergeGenuine, AskGenuine
<1>6. ASSUME NEW c \in Copies, Refresh(c) PROVE AnswerInv'
  BY <1>6, RefreshKeeps, CopiesKeep DEF Refresh, Untouched
<1>7. ASSUME NEW c \in Copies, Die(c) PROVE AnswerInv'
  BY <1>7, DieKeeps, CopiesKeep DEF Die, Untouched
<1>. QED  BY <1>1, <1>2, <1>3, <1>4, <1>5, <1>6, <1>7 DEF Next, Working

-----------------------------------------------------------------------------
(* What the second invariant says of the types.                             *)

LEMMA InvsAreTyped == SearchInv /\ AnswerInv => TypeOK
<1>. SUFFICES ASSUME SearchInv, AnswerInv PROVE TypeOK
  OBVIOUS
<1>1. task \in [Queries -> [Shards -> {"none", "waiting", "calling", "answered", "failed"}]]
  <2>1. task = [q \in Queries |-> [s \in Shards |-> task[q][s]]]
    BY DEF SearchInv, Shaped
  <2>2. \A q \in Queries : [s \in Shards |-> task[q][s]] \in [Shards -> {"none", "waiting", "calling", "answered", "failed"}]
    BY DEF AnswerInv, TasksTyped
  <2>. QED  BY <2>1, <2>2, Zenon
<1>2. ASSUME NEW s \in Shards PROVE Len(wire[s]) = (IF holder[s] = None THEN 0 ELSE 1)
  <2>1. CASE holder[s] = None
    <3>1. wire[s] = << >>
      BY <2>1 DEF SearchInv, OneCallEach
    <3>. QED  BY <2>1, <3>1
  <2>2. CASE holder[s] # None
    <3>1. \E m : Carries(s, m)
      BY <2>2 DEF SearchInv, OneCallEach
    <3>2. PICK m : wire[s] = <<m>>
      BY <3>1 DEF Carries
    <3>. QED  BY <2>2, <3>2
  <2>. QED  BY <2>1, <2>2
<1>3. \A s \in Shards, q \in Queries : (task[q][s] = "calling") = (holder[s] = q)
  BY DEF SearchInv, CallsHold
<1>4. \A s \in Shards : holder[s] \in Queries \cup {None}
  BY DEF SearchInv, Shaped
<1>5. \A q \in Queries :
        /\ query[q].pc \in {"idle", "statistics", "search", "totals", "done", "failed"}
        /\ query[q].counted \in VersionType /\ query[q].served \in VersionType
        /\ query[q].total \in Nat
  BY DEF AnswerInv, QueriesHold, QueryHolds
<1>. QED  BY <1>1, <1>2, <1>3, <1>4, <1>5 DEF AnswerInv, CopiesServe, TypeOK

-----------------------------------------------------------------------------
(* What a query found is the best of what there was.                        *)

LEMMA FoundCovers ==
  ASSUME NEW q \in Queries, NEW s \in Shards, NEW v \in DOMAIN Versions[s], NEW stats \in Statistics
  PROVE  /\ Covers(ToSet(Found(s, v, q, stats)), EveryHit(Versions[s][v], Text[q], stats), Text[q].limit)
         /\ IsFiniteSet(ToSet(Found(s, v, q, stats)))
         /\ EveryHit(Versions[s][v], Text[q], stats) \in SUBSET Hits
<1>. DEFINE index == Versions[s][v]
            text == Text[q]
            top == AllTop(index, text, stats)
            all == EveryHit(index, text, stats)
            k == text.limit
<1>1. IsText(text) /\ k \in Nat
  BY SearchAssumption DEF IsText
<1>2. IsFiniteSet(DOMAIN index) /\ \A i \in DOMAIN index : index[i] \in Segments
  BY IndexIsFinite
<1>. HIDE DEF index, text
<1>3. Covers(top, all, k) /\ IsFiniteSet(top) /\ all \in SUBSET Hits
  BY <1>1, <1>2, AllTopCovers
<1>4. top \in SUBSET Hits
  BY <1>3 DEF Covers
<1>. HIDE DEF top, all, k
<1>. DEFINE t == Truncated(Ordered(top), k)
<1>5. Covers(ToSet(t), top, k)
  BY <1>1, <1>3, <1>4, TruncatedCovers
<1>6. Covers(ToSet(t), all, k)
  BY <1>1, <1>3, <1>5, CoversThrough
<1>7. IsFiniteSet(ToSet(t))
  BY <1>3, <1>5, FS_Subset DEF Covers
<1>8. Found(s, v, q, stats) = t
  BY DEF Found, t, top, k, index, text
<1>. QED  BY <1>3, <1>6, <1>7, <1>8 DEF all, k, index, text

Points(version) == UNION {{s} \X DOMAIN Versions[s][version[s]] : s \in Shards}

LEMMA PointsArePairs ==
  ASSUME NEW version
  PROVE  /\ DOMAIN WholeIndex(version) = Points(version)
         /\ \A p \in Points(version) :
              /\ p[1] \in Shards /\ p[2] \in DOMAIN Versions[p[1]][version[p[1]]] /\ p = <<p[1], p[2]>>
              /\ WholeIndex(version)[p] = Versions[p[1]][version[p[1]]][p[2]]
         /\ \A s \in Shards : \A i \in DOMAIN Versions[s][version[s]] : <<s, i>> \in Points(version)
BY DEF WholeIndex, Points

LEMMA EveryHitOfWhole ==
  ASSUME NEW version, NEW text, NEW stats
  PROVE  \A h : h \in EveryHit(WholeIndex(version), text, stats)
                  <=> \E s \in Shards : h \in EveryHit(Versions[s][version[s]], text, stats)
<1>. DEFINE W == WholeIndex(version)
<1>1. ASSUME NEW h, h \in EveryHit(W, text, stats)
      PROVE  \E s \in Shards : h \in EveryHit(Versions[s][version[s]], text, stats)
  <2>1. PICK p \in DOMAIN W : h \in HitsIn(W[p], text, StatsOf(W[p], stats))
    BY <1>1 DEF EveryHit, ToSet
  <2>2. p[1] \in Shards /\ W[p] \in ToSet(Versions[p[1]][version[p[1]]])
    BY <2>1, PointsArePairs DEF ToSet
  <2>. QED  BY <2>1, <2>2 DEF EveryHit
<1>2. ASSUME NEW s \in Shards, NEW h, h \in EveryHit(Versions[s][version[s]], text, stats)
      PROVE  h \in EveryHit(W, text, stats)
  <2>1. PICK i \in DOMAIN Versions[s][version[s]] :
          h \in HitsIn(Versions[s][version[s]][i], text, StatsOf(Versions[s][version[s]][i], stats))
    BY <1>2 DEF EveryHit, ToSet
  <2>2. <<s, i>> \in DOMAIN W /\ W[<<s, i>>] = Versions[s][version[s]][i]
    BY PointsArePairs
  <2>3. Versions[s][version[s]][i] \in ToSet(W)
    BY <2>2 DEF ToSet
  <2>. QED  BY <2>1, <2>3 DEF EveryHit
<1>. QED  BY <1>1, <1>2

(* What is left after the cuts of segments, shards and coordinator stands   *)
(* for every hit of every segment of every shard.                           *)
LEMMA FoundAtCovers ==
  ASSUME NEW q \in Queries, NEW version, AreVersions(version), NEW stats \in Statistics,
         NEW t, t = FoundAt(q, version, stats),
         NEW all, all = EveryHit(WholeIndex(version), Text[q], stats)
  PROVE  /\ Covers(ToSet(t), all, Text[q].limit) /\ all \in SUBSET Hits
         /\ IsCut(t, Text[q].limit)
<1>. DEFINE A == [s \in Shards |-> ToSet(Found(s, version[s], q, stats))]
            H == [s \in Shards |-> EveryHit(Versions[s][version[s]], Text[q], stats)]
            U == UNION {A[s] : s \in Shards}
            k == Text[q].limit
<1>1. \A s \in Shards : Covers(A[s], H[s], k) /\ IsFiniteSet(A[s]) /\ H[s] \in SUBSET Hits
  BY FoundCovers DEF AreVersions
<1>2. \A h : h \in all <=> \E s \in Shards : h \in H[s]
  BY EveryHitOfWhole
<1>3. t = Truncated(Ordered(U), k)
  BY DEF FoundAt
<1>4. k \in Nat
  BY SearchAssumption
<1>5. \A h : h \in U <=> \E s \in Shards : h \in A[s]
  OBVIOUS
<1>6. IsFiniteSet(U)
  <2>. HIDE DEF A
  <2>1. IsFiniteSet({A[s] : s \in Shards})
    BY ShardsAreFinite, FiniteImage
  <2>. QED  BY <1>1, <2>1, FS_UNION
<1>. HIDE DEF A, H, U, k
<1>7. Covers(U, all, k)
  <2>1. \A s \in Shards : Covers(A[s], H[s], k)
    BY <1>1
  <2>. QED  BY <1>2, <1>4, <1>5, <1>6, <2>1, CoversTogether
<1>8. all \in SUBSET Hits
  BY <1>1, <1>2
<1>9. U \in SUBSET Hits
  BY <1>7, <1>8 DEF Covers
<1>10. Covers(ToSet(t), U, k)
  BY <1>3, <1>4, <1>6, <1>9, TruncatedCovers
<1>11. Covers(ToSet(t), all, k)
  BY <1>4, <1>6, <1>7, <1>8, <1>10, CoversThrough
<1>12. IsCut(t, k)
  BY <1>3, <1>4, <1>6, <1>9, TruncatedIsCut
<1>. QED  BY <1>8, <1>11, <1>12 DEF k

LEMMA InvsAreTopK == SearchInv /\ AnswerInv => AnswersAreTopK
<1>. SUFFICES ASSUME SearchInv, AnswerInv, NEW q \in Queries, Answered(q), query[q].stats.docs > 0
              PROVE  LET hits == ToSet(query[q].hits)
                         held == HitsOf(q)
                     IN /\ hits \subseteq held
                        /\ Len(query[q].hits) = Cardinality(hits)
                        /\ \/ hits = held /\ Len(query[q].hits) <= Text[q].limit
                           \/ /\ Len(query[q].hits) = Text[q].limit
                              /\ \A h \in held \ hits, g \in hits : h.score <= g.score
  BY DEF AnswersAreTopK
<1>. DEFINE t == query[q].hits
            stats == query[q].stats
            version == query[q].served
            all == EveryHit(WholeIndex(version), Text[q], stats)
            k == Text[q].limit
<1>1. stats \in Statistics /\ AreVersions(version) /\ t = FoundAt(q, version, stats)
  BY DEF AnswerInv, QueriesHold, QueryHolds, Answered
<1>2. all = HitsOf(q)
  <2>1. \A segment : StatsOf(segment, stats) = stats
    BY <1>1 DEF StatsOf, Statistics
  <2>. HIDE DEF stats
  <2>2. all = UNION {HitsIn(segment, Text[q], stats) : segment \in ToSet(WholeIndex(version))}
    BY <2>1 DEF EveryHit
  <2>. QED  BY <2>2 DEF HitsOf, HitsIn, stats
<1>. HIDE DEF t, stats, version, all, k
<1>3. Covers(ToSet(t), all, k) /\ all \in SUBSET Hits
  BY <1>1, FoundAtCovers DEF all, k
<1>4. IsCut(t, k)
  BY <1>1, FoundAtCovers DEF all, k
<1>5. k \in Nat
  BY SearchAssumption DEF k
<1>6. Len(t) <= k /\ IsFiniteSet(ToSet(t)) /\ Cardinality(ToSet(t)) = Len(t)
  BY <1>4 DEF IsCut
<1>7. ASSUME NEW h \in all \ ToSet(t)
      PROVE  Len(t) = k /\ \A g \in ToSet(t) : h.score <= g.score
  <2>1. Cardinality(NoWorse(ToSet(t), h)) >= k
    BY <1>3 DEF Covers
  <2>2. NoWorse(ToSet(t), h) \in SUBSET ToSet(t)
    BY DEF NoWorse
  <2>3. Cardinality(NoWorse(ToSet(t), h)) \in Nat /\ Len(t) \in Nat
    BY <1>6, NoWorseIsFinite, FS_CardinalityType
  <2>4. Cardinality(NoWorse(ToSet(t), h)) <= Cardinality(ToSet(t))
    BY <1>6, <2>2, FS_Subset
  <2>5. Cardinality(NoWorse(ToSet(t), h)) = Cardinality(ToSet(t)) /\ Len(t) = k
    BY <1>5, <1>6, <2>1, <2>3, <2>4
  <2>6. NoWorse(ToSet(t), h) = ToSet(t)
    BY <1>6, <2>2, <2>5, FS_Subset
  <2>7. \A g \in ToSet(t) : g.score >= h.score
    BY <2>6 DEF NoWorse
  <2>8. \A g \in all : g.score \in Int
    BY <1>3 DEF Hits
  <2>9. ToSet(t) \subseteq all
    BY <1>3 DEF Covers
  <2>. QED  BY <2>5, <2>7, <2>8, <2>9
<1>8. ToSet(t) \subseteq all
  BY <1>3 DEF Covers
<1>9. \/ ToSet(t) = all /\ Len(t) <= k
      \/ Len(t) = k /\ \A h \in all \ ToSet(t), g \in ToSet(t) : h.score <= g.score
  BY <1>6, <1>7, <1>8
<1>. QED  BY <1>2, <1>6, <1>8, <1>9 DEF t, k

-----------------------------------------------------------------------------
(* Shards and one index of all their segments.                              *)

(* Of two cuts that stand for the same hits, neither is better anywhere.    *)
LEMMA NeitherIsBetter ==
  ASSUME NEW H \in SUBSET Hits, NEW k \in Nat,
         NEW t, IsCut(t, k), Covers(ToSet(t), H, k), NEW u, IsCut(u, k), Covers(ToSet(u), H, k)
  PROVE  /\ Len(t) \in Nat /\ Len(t) <= k /\ Len(u) <= Len(t)
         /\ \A i \in 1..Len(u) : t[i].score >= u[i].score
<1>1. /\ t \in Seq(Hits) /\ Len(t) \in Nat /\ Len(t) <= k
      /\ IsFiniteSet(ToSet(t)) /\ Cardinality(ToSet(t)) = Len(t)
      /\ \A i, j \in 1..Len(t) : i <= j => t[i].score >= t[j].score
  BY DEF IsCut
<1>2. /\ u \in Seq(Hits) /\ Len(u) \in Nat /\ Len(u) <= k
      /\ IsFiniteSet(ToSet(u)) /\ Cardinality(ToSet(u)) = Len(u)
      /\ \A i, j \in 1..Len(u) : i <= j => u[i].score >= u[j].score
  BY DEF IsCut
<1>3. \A i, j \in 1..Len(u) : u[i] = u[j] => i = j
  BY DEF IsCut
<1>4. /\ \A i \in 1..Len(t) : t[i] \in ToSet(t) /\ t[i].score \in Int
      /\ \A i \in 1..Len(u) : u[i] \in ToSet(u) /\ u[i].score \in Int
      /\ ToSet(t) \subseteq H /\ ToSet(u) \subseteq H
      /\ \A h \in ToSet(t) : \E i \in 1..Len(t) : h = t[i]
  <2>1. DOMAIN t = 1..Len(t) /\ DOMAIN u = 1..Len(u)
    BY <1>1, <1>2
  <2>2. (\A i \in 1..Len(t) : t[i] \in Hits) /\ (\A i \in 1..Len(u) : u[i] \in Hits)
    BY <1>1, <1>2
  <2>. QED  BY <2>1, <2>2 DEF ToSet, Covers, Hits
(* What the first leaves out is no better than anything in it.              *)
<1>5. ASSUME NEW h \in H \ ToSet(t)
      PROVE  Len(t) = k /\ \A g \in ToSet(t) : g.score >= h.score
  <2>1. Cardinality(NoWorse(ToSet(t), h)) >= k
    BY DEF Covers
  <2>2. NoWorse(ToSet(t), h) \in SUBSET ToSet(t)
    BY DEF NoWorse
  <2>3. Cardinality(NoWorse(ToSet(t), h)) \in Nat
    BY <1>1, NoWorseIsFinite
  <2>4. Cardinality(NoWorse(ToSet(t), h)) <= Cardinality(ToSet(t))
    BY <1>1, <2>2, FS_Subset
  <2>5. Cardinality(NoWorse(ToSet(t), h)) = Cardinality(ToSet(t)) /\ Len(t) = k
    BY <1>1, <2>1, <2>3, <2>4
  <2>6. NoWorse(ToSet(t), h) = ToSet(t)
    BY <1>1, <2>2, <2>5, FS_Subset
  <2>. QED  BY <2>5, <2>6 DEF NoWorse
<1>6. Len(u) <= Len(t)
  <2>1. CASE ToSet(u) \subseteq ToSet(t)
    BY <1>1, <1>2, <2>1, FS_Subset
  <2>2. CASE ~(ToSet(u) \subseteq ToSet(t))
    <3>1. Len(t) = k
      BY <1>4, <1>5, <2>2
    <3>. QED  BY <1>2, <3>1
  <2>. QED  BY <2>1, <2>2
<1>7. ASSUME NEW i \in 1..Len(u), ~(t[i].score >= u[i].score) PROVE FALSE
  <2>1. i \in Nat /\ i >= 1 /\ i \in 1..Len(t)
    BY <1>1, <1>2, <1>6
  <2>2. ASSUME NEW j \in 1..i PROVE \E l \in 1..i - 1 : t[l] = u[j]
    <3>1. j \in 1..Len(u) /\ j <= i
      BY <1>2
    <3>2. u[j].score >= u[i].score
      BY <1>2, <3>1
    <3>3. u[j].score > t[i].score
      BY <1>4, <1>7, <2>1, <3>1, <3>2
    <3>4. u[j] \in ToSet(t)
      <4>1. CASE u[j] \notin ToSet(t)
        <5>1. t[i].score >= u[j].score
          BY <1>4, <1>5, <2>1, <3>1, <4>1
        <5>. QED  BY <1>4, <2>1, <3>1, <3>3, <5>1
      <4>. QED  BY <4>1
    <3>5. PICK l \in 1..Len(t) : u[j] = t[l]
      BY <1>4, <3>4
    <3>6. ~(i <= l)
      <4>1. CASE i <= l
        <5>1. t[i].score >= t[l].score
          BY <1>1, <2>1, <4>1
        <5>. QED  BY <1>4, <2>1, <3>3, <3>5, <5>1
      <4>. QED  BY <4>1
    <3>7. l \in 1..i - 1
      BY <1>1, <2>1, <3>6
    <3>. QED  BY <3>5, <3>7
  <2>. DEFINE f == [j \in 1..i |-> CHOOSE l \in 1..i - 1 : t[l] = u[j]]
  <2>3. \A j \in 1..i : f[j] \in 1..i - 1 /\ t[f[j]] = u[j]
    BY <2>2
  <2>4. f \in [1..i -> 1..i - 1]
    BY <2>3
  <2>5. IsFiniteSet(1..i) /\ Cardinality(1..i) = i
    <3>1. 1 \in Int /\ i \in Int
      BY <2>1
    <3>2. IsFiniteSet(1..i) /\ Cardinality(1..i) = IF 1 > i THEN 0 ELSE i - 1 + 1
      BY <3>1, FS_Interval
    <3>. QED  BY <2>1, <3>2
  <2>6. IsFiniteSet(1..i - 1) /\ Cardinality(1..i - 1) = i - 1
    <3>1. 1 \in Int /\ i - 1 \in Int
      BY <2>1
    <3>2. IsFiniteSet(1..i - 1) /\ Cardinality(1..i - 1) = IF 1 > i - 1 THEN 0 ELSE (i - 1) - 1 + 1
      BY <3>1, FS_Interval
    <3>. QED  BY <2>1, <3>2
  <2>. HIDE DEF f
  <2>7. Cardinality(1..i - 1) < Cardinality(1..i)
    BY <2>1, <2>5, <2>6
  <2>8. PICK x, y \in 1..i : x # y /\ f[x] = f[y]
    BY <2>4, <2>5, <2>6, <2>7, FS_PigeonHole
  <2>9. u[x] = u[y] /\ x \in 1..Len(u) /\ y \in 1..Len(u)
    BY <1>2, <2>3, <2>8
  <2>. QED  BY <1>3, <2>8, <2>9
<1>. QED  BY <1>1, <1>6, <1>7

(* So they have the same scores.                                            *)
LEMMA CutsScoreAlike ==
  ASSUME NEW H \in SUBSET Hits, NEW k \in Nat,
         NEW t, IsCut(t, k), Covers(ToSet(t), H, k), NEW u, IsCut(u, k), Covers(ToSet(u), H, k)
  PROVE  [i \in DOMAIN t |-> t[i].score] = [i \in DOMAIN u |-> u[i].score]
<1>1. /\ Len(t) \in Nat /\ Len(u) <= Len(t)
      /\ \A i \in 1..Len(u) : t[i].score >= u[i].score
  BY NeitherIsBetter
<1>2. /\ Len(u) \in Nat /\ Len(t) <= Len(u)
      /\ \A i \in 1..Len(t) : u[i].score >= t[i].score
  BY NeitherIsBetter
<1>3. t \in Seq(Hits) /\ u \in Seq(Hits)
  BY DEF IsCut
<1>4. Len(t) = Len(u) /\ DOMAIN t = 1..Len(t) /\ DOMAIN u = 1..Len(t)
  BY <1>1, <1>2, <1>3
<1>5. \A i \in 1..Len(t) : t[i].score \in Int /\ u[i].score \in Int
  <2>1. \A i \in 1..Len(t) : t[i] \in Hits /\ u[i] \in Hits
    BY <1>3, <1>4
  <2>. QED  BY <2>1 DEF Hits
<1>6. \A i \in 1..Len(t) : t[i].score = u[i].score
  BY <1>1, <1>2, <1>4, <1>5
<1>. QED  BY <1>4, <1>6

LEMMA PointsAreFinite ==
  ASSUME NEW version, AreVersions(version) PROVE IsFiniteSet(Points(version))
<1>. DEFINE pairs == [s \in Shards |-> {s} \X DOMAIN Versions[s][version[s]]]
<1>1. \A s \in Shards : IsFiniteSet(pairs[s])
  BY IndexIsFinite, FS_Product, FS_Singleton DEF AreVersions
<1>2. Points(version) = UNION {pairs[s] : s \in Shards}
  BY DEF Points
<1>. HIDE DEF pairs
<1>3. IsFiniteSet({pairs[s] : s \in Shards})
  BY ShardsAreFinite, FiniteImage
<1>. QED  BY <1>1, <1>2, <1>3, FS_UNION

(* A sum over all segments of all shards, shard by shard.                   *)
LEMMA SumOverShards ==
  ASSUME NEW version, AreVersions(version),
         NEW f, \A p \in Points(version) : f[p] \in Int,
         NEW g, \A s \in Shards : \A i \in DOMAIN Versions[s][version[s]] : g[s][i] = f[<<s, i>>],
         NEW sum, \A s \in Shards : sum[s] = SumFunctionOnSet(g[s], DOMAIN Versions[s][version[s]])
  PROVE  SumFunctionOnSet(sum, Shards) = SumFunctionOnSet(f, Points(version))
<1>. DEFINE P == Points(version)
            of == [p \in P |-> p[1]]
<1>1. \A s \in Shards : IsFiniteSet(DOMAIN Versions[s][version[s]])
  BY IndexIsFinite DEF AreVersions
<1>2. \A p \in P : p[1] \in Shards /\ p[2] \in DOMAIN Versions[p[1]][version[p[1]]] /\ p = <<p[1], p[2]>>
  BY PointsArePairs
<1>3. \A s \in Shards : \A i \in DOMAIN Versions[s][version[s]] : <<s, i>> \in P
  BY PointsArePairs
<1>4. IsFiniteSet(P)
  BY PointsAreFinite
<1>5. ASSUME NEW s \in Shards, NEW G \in SUBSET P, \A p \in P : p \in G <=> of[p] = s
      PROVE  sum[s] = SumFunctionOnSet(f, G)
  <2>. DEFINE E == DOMAIN Versions[s][version[s]]
              h == [i \in E |-> <<s, i>>]
  <2>1. G = {h[i] : i \in E}
    <3>1. ASSUME NEW p \in G PROVE \E i \in E : p = h[i]
      BY <1>2, <1>5
    <3>2. ASSUME NEW i \in E PROVE h[i] \in G
      BY <1>3, <1>5
    <3>. QED  BY <3>1, <3>2
  <2>2. \A i \in E : f[h[i]] \in Int /\ g[s][i] = f[h[i]]
    BY <1>3
  <2>3. \A i, j \in E : h[i] = h[j] => i = j
    OBVIOUS
  <2>4. IsFiniteSet(E)
    BY <1>1
  <2>5. sum[s] = SumFunctionOnSet(g[s], E)
    OBVIOUS
  <2>. DEFINE e == g[s]
  <2>. HIDE DEF h, E, e
  <2>6. SumFunctionOnSet(e, E) = SumFunctionOnSet(f, {h[i] : i \in E})
    <3>1. \A i \in E : f[h[i]] \in Int /\ e[i] = f[h[i]]
      BY <2>2 DEF e
    <3>. QED  BY <2>3, <2>4, <3>1, SumRenamed
  <2>. QED  BY <2>1, <2>5, <2>6 DEF e
<1>6. \A p \in P : f[p] \in Int /\ of[p] \in Shards
  BY <1>2
<1>7. \A s \in Shards, G \in SUBSET P :
        (\A p \in P : p \in G <=> of[p] = s) => sum[s] = SumFunctionOnSet(f, G)
  BY <1>5
<1>8. IsFiniteSet(Shards)
  BY ShardsAreFinite
<1>. HIDE DEF P, of
<1>9. SumFunctionOnSet(sum, Shards) = SumFunctionOnSet(f, P)
  BY ONLY <1>4, <1>6, <1>7, <1>8, SumByGroups
<1>. QED  BY <1>9 DEF P

LEMMA TogetherSums ==
  ASSUME NEW parts, NEW I, DOMAIN parts = I, IsFiniteSet(I), NEW f
  PROVE  /\ (\A p \in I : f[p] = parts[p].docs) => Together(parts).docs = SumFunctionOnSet(f, I)
         /\ (\A p \in I : f[p] = parts[p].length) => Together(parts).length = SumFunctionOnSet(f, I)
         /\ \A t \in Terms : (\A p \in I : f[p] = parts[p].freq[t]) =>
                             Together(parts).freq[t] = SumFunctionOnSet(f, I)
<1>. DEFINE docs == [p \in I |-> parts[p].docs]
            length == [p \in I |-> parts[p].length]
            freq == [t \in Terms |-> [p \in I |-> parts[p].freq[t]]]
            sum == [t \in Terms |-> SumFunction(freq[t])]
<1>1. Together(parts) = [docs |-> SumFunction(docs), length |-> SumFunction(length), freq |-> sum]
  BY DEF Together
<1>2. DOMAIN docs = I /\ DOMAIN length = I /\ \A t \in Terms : DOMAIN freq[t] = I
  OBVIOUS
<1>3. /\ \A p \in I : docs[p] = parts[p].docs /\ length[p] = parts[p].length
      /\ \A t \in Terms : sum[t] = SumFunction(freq[t]) /\ \A p \in I : freq[t][p] = parts[p].freq[t]
  OBVIOUS
<1>. HIDE DEF docs, length, freq, sum
<1>4. /\ Together(parts).docs = SumFunction(docs) /\ Together(parts).length = SumFunction(length)
      /\ Together(parts).freq = sum
  BY <1>1
<1>5. /\ SumFunction(docs) = SumFunctionOnSet(docs, I) /\ SumFunction(length) = SumFunctionOnSet(length, I)
      /\ \A t \in Terms : SumFunction(freq[t]) = SumFunctionOnSet(freq[t], I)
  BY <1>2 DEF SumFunction
<1>6. \A g : (\A p \in I : f[p] = g[p]) => SumFunctionOnSet(f, I) = SumFunctionOnSet(g, I)
  BY SumOfSame
<1>. QED  BY <1>3, <1>4, <1>5, <1>6

(* Statistics are equal that count alike.                                   *)
LEMMA SameStatistics ==
  ASSUME NEW a \in Statistics, NEW b \in Statistics, a.docs = b.docs, a.length = b.length,
         \A t \in Terms : a.freq[t] = b.freq[t]
  PROVE  a = b
<1>1. a.freq = b.freq
  <2>1. a.freq \in [Terms -> Nat] /\ b.freq \in [Terms -> Nat]
    BY DEF Statistics
  <2>. QED  BY <2>1
<1>. QED  BY <1>1 DEF Statistics

LEMMA WholeIsFinite ==
  ASSUME NEW version, AreVersions(version)
  PROVE  /\ DOMAIN WholeIndex(version) = Points(version) /\ IsFiniteSet(DOMAIN WholeIndex(version))
         /\ \A p \in DOMAIN WholeIndex(version) : WholeIndex(version)[p] \in Segments
         /\ IndexStats(WholeIndex(version)) \in Statistics
<1>. DEFINE W == WholeIndex(version)
            parts == [p \in DOMAIN W |-> SegmentStats(W[p])]
<1>1. DOMAIN W = Points(version) /\ IsFiniteSet(DOMAIN W)
  BY PointsArePairs, PointsAreFinite
<1>2. \A p \in DOMAIN W : W[p] \in Segments
  BY <1>1, PointsArePairs, IndexIsFinite DEF AreVersions
<1>3. DOMAIN parts = DOMAIN W /\ \A p \in DOMAIN W : parts[p] \in Statistics
  BY <1>2, SegmentIsStatistics
<1>4. IndexStats(W) = Together(parts)
  BY DEF IndexStats
<1>. HIDE DEF parts, W
<1>5. Together(parts) \in Statistics
  BY <1>1, <1>3, TogetherIsStatistics
<1>. QED  BY <1>1, <1>2, <1>4, <1>5 DEF W

(* The statistics that the coordinator adds up are those of the one index.  *)
LEMMA StatsOfWhole ==
  ASSUME NEW version, AreVersions(version)
  PROVE  StatsAt(version) = IndexStats(WholeIndex(version))
<1>. DEFINE W == WholeIndex(version)
            P == Points(version)
            D == [s \in Shards |-> DOMAIN Versions[s][version[s]]]
            part == [s \in Shards |-> [i \in D[s] |-> SegmentStats(Versions[s][version[s]][i])]]
            of == [p \in P |-> SegmentStats(W[p])]
            total == [s \in Shards |-> Together(part[s])]
<1>0. IsFiniteSet(Shards) /\ IsFiniteSet(P) /\ \A s \in Shards : IsFiniteSet(D[s])
  BY ShardsAreFinite, PointsAreFinite, IndexIsFinite DEF AreVersions
<1>1. /\ DOMAIN of = P /\ DOMAIN total = Shards
      /\ \A s \in Shards : D[s] = DOMAIN Versions[s][version[s]] /\ DOMAIN part[s] = D[s]
                           /\ total[s] = Together(part[s])
      /\ \A s \in Shards : \A i \in D[s] : <<s, i>> \in P /\ of[<<s, i>>] = part[s][i]
  BY PointsArePairs
<1>2. \A p \in P : of[p] \in Statistics
  <2>1. \A p \in P : W[p] \in Segments
    BY WholeIsFinite
  <2>. QED  BY <2>1, SegmentIsStatistics
<1>3. StatsAt(version) = Together(total)
  BY DEF StatsAt, IndexStats
<1>4. IndexStats(W) = Together(of)
  <2>1. DOMAIN W = P
    BY PointsArePairs
  <2>. QED  BY <2>1 DEF IndexStats
<1>5. StatsAt(version) \in Statistics /\ IndexStats(W) \in Statistics
  BY StatsAtAreStatistics, WholeIsFinite
<1>. HIDE DEF W, P, D, part, of, total
<1>6. Together(total).docs = Together(of).docs
  <2>. DEFINE sum == [s \in Shards |-> total[s].docs]
              f == [p \in P |-> of[p].docs]
              g == [s \in Shards |-> [i \in D[s] |-> part[s][i].docs]]
  <2>1. \A p \in P : f[p] \in Int
    BY <1>2 DEF Statistics
  <2>2. /\ \A s \in Shards : \A i \in D[s] : g[s][i] = part[s][i].docs
        /\ \A s \in Shards : sum[s] = Together(part[s]).docs /\ sum[s] = total[s].docs
        /\ \A p \in P : f[p] = of[p].docs
    BY <1>1
  <2>. HIDE DEF sum, f, g
  <2>3. ASSUME NEW s \in Shards, NEW i \in D[s] PROVE g[s][i] = f[<<s, i>>]
    <3>. DEFINE p == <<s, i>>
    <3>1. p \in P /\ of[p] = part[s][i]
      BY <1>1
    <3>. HIDE DEF p
    <3>2. g[s][i] = f[p]
      BY <2>2, <3>1
    <3>. QED  BY <3>2 DEF p
  <2>4. ASSUME NEW s \in Shards PROVE sum[s] = SumFunctionOnSet(g[s], D[s])
    <3>. DEFINE a == part[s]
                E == D[s]
                e == g[s]
    <3>1. /\ DOMAIN a = E /\ IsFiniteSet(E) /\ sum[s] = Together(a).docs
          /\ \A i \in E : e[i] = a[i].docs
      BY <1>0, <1>1, <2>2
    <3>. HIDE DEF a, E, e
    <3>2. Together(a).docs = SumFunctionOnSet(e, E)
      BY <3>1, TogetherSums
    <3>. QED  BY <3>1, <3>2 DEF E, e
  <2>5. Together(total).docs = SumFunctionOnSet(sum, Shards)
    BY <1>0, <1>1, <2>2, TogetherSums
  <2>6. Together(of).docs = SumFunctionOnSet(f, P)
    BY <1>0, <1>1, <2>2, TogetherSums
  <2>7. SumFunctionOnSet(sum, Shards) = SumFunctionOnSet(f, P)
    <3>1. /\ \A p \in Points(version) : f[p] \in Int
          /\ \A s \in Shards : \A i \in DOMAIN Versions[s][version[s]] : g[s][i] = f[<<s, i>>]
          /\ \A s \in Shards : sum[s] = SumFunctionOnSet(g[s], DOMAIN Versions[s][version[s]])
      BY <1>1, <2>1, <2>3, <2>4 DEF P
    <3>2. SumFunctionOnSet(sum, Shards) = SumFunctionOnSet(f, Points(version))
      BY <3>1, SumOverShards
    <3>. QED  BY <3>2 DEF P
  <2>. QED  BY <2>5, <2>6, <2>7
<1>7. Together(total).length = Together(of).length
  <2>. DEFINE sum == [s \in Shards |-> total[s].length]
              f == [p \in P |-> of[p].length]
              g == [s \in Shards |-> [i \in D[s] |-> part[s][i].length]]
  <2>1. \A p \in P : f[p] \in Int
    BY <1>2 DEF Statistics
  <2>2. /\ \A s \in Shards : \A i \in D[s] : g[s][i] = part[s][i].length
        /\ \A s \in Shards : sum[s] = Together(part[s]).length /\ sum[s] = total[s].length
        /\ \A p \in P : f[p] = of[p].length
    BY <1>1
  <2>. HIDE DEF sum, f, g
  <2>3. ASSUME NEW s \in Shards, NEW i \in D[s] PROVE g[s][i] = f[<<s, i>>]
    <3>. DEFINE p == <<s, i>>
    <3>1. p \in P /\ of[p] = part[s][i]
      BY <1>1
    <3>. HIDE DEF p
    <3>2. g[s][i] = f[p]
      BY <2>2, <3>1
    <3>. QED  BY <3>2 DEF p
  <2>4. ASSUME NEW s \in Shards PROVE sum[s] = SumFunctionOnSet(g[s], D[s])
    <3>. DEFINE a == part[s]
                E == D[s]
                e == g[s]
    <3>1. /\ DOMAIN a = E /\ IsFiniteSet(E) /\ sum[s] = Together(a).length
          /\ \A i \in E : e[i] = a[i].length
      BY <1>0, <1>1, <2>2
    <3>. HIDE DEF a, E, e
    <3>2. Together(a).length = SumFunctionOnSet(e, E)
      BY <3>1, TogetherSums
    <3>. QED  BY <3>1, <3>2 DEF E, e
  <2>5. Together(total).length = SumFunctionOnSet(sum, Shards)
    BY <1>0, <1>1, <2>2, TogetherSums
  <2>6. Together(of).length = SumFunctionOnSet(f, P)
    BY <1>0, <1>1, <2>2, TogetherSums
  <2>7. SumFunctionOnSet(sum, Shards) = SumFunctionOnSet(f, P)
    <3>1. /\ \A p \in Points(version) : f[p] \in Int
          /\ \A s \in Shards : \A i \in DOMAIN Versions[s][version[s]] : g[s][i] = f[<<s, i>>]
          /\ \A s \in Shards : sum[s] = SumFunctionOnSet(g[s], DOMAIN Versions[s][version[s]])
      BY <1>1, <2>1, <2>3, <2>4 DEF P
    <3>2. SumFunctionOnSet(sum, Shards) = SumFunctionOnSet(f, Points(version))
      BY <3>1, SumOverShards
    <3>. QED  BY <3>2 DEF P
  <2>. QED  BY <2>5, <2>6, <2>7
<1>8. ASSUME NEW t \in Terms
      PROVE  Together(total).freq[t] = Together(of).freq[t]
  <2>. DEFINE sum == [s \in Shards |-> total[s].freq[t]]
              f == [p \in P |-> of[p].freq[t]]
              g == [s \in Shards |-> [i \in D[s] |-> part[s][i].freq[t]]]
  <2>1. \A p \in P : f[p] \in Int
    BY <1>2 DEF Statistics
  <2>2. /\ \A s \in Shards : \A i \in D[s] : g[s][i] = part[s][i].freq[t]
        /\ \A s \in Shards : sum[s] = Together(part[s]).freq[t] /\ sum[s] = total[s].freq[t]
        /\ \A p \in P : f[p] = of[p].freq[t]
    BY <1>1
  <2>. HIDE DEF sum, f, g
  <2>3. ASSUME NEW s \in Shards, NEW i \in D[s] PROVE g[s][i] = f[<<s, i>>]
    <3>. DEFINE p == <<s, i>>
    <3>1. p \in P /\ of[p] = part[s][i]
      BY <1>1
    <3>. HIDE DEF p
    <3>2. g[s][i] = f[p]
      BY <2>2, <3>1
    <3>. QED  BY <3>2 DEF p
  <2>4. ASSUME NEW s \in Shards PROVE sum[s] = SumFunctionOnSet(g[s], D[s])
    <3>. DEFINE a == part[s]
                E == D[s]
                e == g[s]
    <3>1. /\ DOMAIN a = E /\ IsFiniteSet(E) /\ sum[s] = Together(a).freq[t]
          /\ \A i \in E : e[i] = a[i].freq[t]
      BY <1>0, <1>1, <2>2
    <3>. HIDE DEF a, E, e
    <3>2. Together(a).freq[t] = SumFunctionOnSet(e, E)
      BY <3>1, TogetherSums
    <3>. QED  BY <3>1, <3>2 DEF E, e
  <2>5. Together(total).freq[t] = SumFunctionOnSet(sum, Shards)
    BY <1>0, <1>1, <2>2, TogetherSums
  <2>6. Together(of).freq[t] = SumFunctionOnSet(f, P)
    BY <1>0, <1>1, <2>2, TogetherSums
  <2>7. SumFunctionOnSet(sum, Shards) = SumFunctionOnSet(f, P)
    <3>1. /\ \A p \in Points(version) : f[p] \in Int
          /\ \A s \in Shards : \A i \in DOMAIN Versions[s][version[s]] : g[s][i] = f[<<s, i>>]
          /\ \A s \in Shards : sum[s] = SumFunctionOnSet(g[s], DOMAIN Versions[s][version[s]])
      BY <1>1, <2>1, <2>3, <2>4 DEF P
    <3>2. SumFunctionOnSet(sum, Shards) = SumFunctionOnSet(f, Points(version))
      BY <3>1, SumOverShards
    <3>. QED  BY <3>2 DEF P
  <2>. QED  BY <2>5, <2>6, <2>7
<1>9. StatsAt(version) = IndexStats(W)
  BY <1>3, <1>4, <1>5, <1>6, <1>7, <1>8, SameStatistics
<1>. QED  BY <1>9 DEF W

(* An index of one segment scores with that segment's own statistics, which *)
(* are those of the index.                                                  *)
LEMMA OneSegmentAlone ==
  ASSUME NEW index, IsFiniteSet(DOMAIN index), \A p \in DOMAIN index : index[p] \in Segments,
         Cardinality(DOMAIN index) = 1, NEW text
  PROVE  EveryHit(index, text, NoStats) = EveryHit(index, text, IndexStats(index))
<1>1. PICK x : DOMAIN index = {x}
  BY FS_Singleton
<1>. DEFINE own == SegmentStats(index[x])
            parts == [p \in DOMAIN index |-> SegmentStats(index[p])]
<1>2. own \in Statistics
  BY <1>1, SegmentIsStatistics
<1>3. DOMAIN parts = {x} /\ parts[x] = own /\ IsFiniteSet({x}) /\ \A p \in {x} : parts[p] \in Statistics
  BY <1>1, <1>2
<1>4. IndexStats(index) = Together(parts)
  BY DEF IndexStats
<1>. HIDE DEF own, parts
<1>5. Together(parts) = own
  <2>1. Together(parts) \in Statistics
    BY <1>3, TogetherIsStatistics
  <2>. DEFINE docs == [p \in {x} |-> own.docs]
              length == [p \in {x} |-> own.length]
              freq == [t \in Terms |-> [p \in {x} |-> own.freq[t]]]
  <2>2. /\ docs[x] = own.docs /\ length[x] = own.length /\ \A t \in Terms : freq[t][x] = own.freq[t]
        /\ docs[x] \in Int /\ length[x] \in Int /\ \A t \in Terms : freq[t][x] \in Int
    BY <1>2 DEF Statistics
  <2>. HIDE DEF docs, length, freq
  <2>3. Together(parts).docs = SumFunctionOnSet(docs, {x})
    BY <1>3, <2>2, TogetherSums
  <2>4. Together(parts).length = SumFunctionOnSet(length, {x})
    BY <1>3, <2>2, TogetherSums
  <2>5. ASSUME NEW t \in Terms PROVE Together(parts).freq[t] = own.freq[t]
    <3>. DEFINE g == freq[t]
    <3>1. g[x] = own.freq[t] /\ g[x] \in Int
      BY <2>2
    <3>. HIDE DEF g
    <3>2. Together(parts).freq[t] = SumFunctionOnSet(g, {x})
      BY <1>3, <3>1, TogetherSums
    <3>. QED  BY <3>1, <3>2, SumOfOne
  <2>6. Together(parts).docs = own.docs /\ Together(parts).length = own.length
    BY <2>2, <2>3, <2>4, SumOfOne
  <2>. QED  BY <1>2, <2>1, <2>5, <2>6, SameStatistics
<1>6. StatsOf(index[x], NoStats) = own /\ StatsOf(index[x], IndexStats(index)) = own
  BY <1>4, <1>5 DEF StatsOf, NoStats, own
<1>7. ToSet(index) = {index[x]}
  BY <1>1 DEF ToSet
<1>. QED  BY <1>6, <1>7 DEF EveryHit

(* What one index answers stands for every hit of its segments.             *)
LEMMA IndexSearchCovers ==
  ASSUME NEW index, IsFiniteSet(DOMAIN index), \A p \in DOMAIN index : index[p] \in Segments,
         IndexStats(index) \in Statistics, NEW text, IsText(text)
  PROVE  /\ Covers(ToSet(IndexSearch(index, text)), EveryHit(index, text, IndexStats(index)), text.limit)
         /\ IsCut(IndexSearch(index, text), text.limit)
<1>. DEFINE stats == IF Cardinality(DOMAIN index) = 1 THEN NoStats ELSE IndexStats(index)
            top == AllTop(index, text, stats)
            all == EveryHit(index, text, stats)
            t == Truncated(Ordered(top), text.limit)
<1>1. IndexSearch(index, text) = t
  BY DEF IndexSearch
<1>2. stats \in Statistics
  BY NothingIsStatistics
<1>3. all = EveryHit(index, text, IndexStats(index))
  BY OneSegmentAlone
<1>4. text.limit \in Nat
  BY DEF IsText
<1>. HIDE DEF stats
<1>5. Covers(top, all, text.limit) /\ IsFiniteSet(top) /\ all \in SUBSET Hits
  BY <1>2, AllTopCovers
<1>. HIDE DEF top, all
<1>6. top \in SUBSET Hits
  BY <1>5 DEF Covers
<1>7. Covers(ToSet(t), top, text.limit) /\ IsCut(t, text.limit)
  BY <1>4, <1>5, <1>6, TruncatedCovers, TruncatedIsCut
<1>. HIDE DEF t
<1>8. Covers(ToSet(t), all, text.limit)
  BY <1>4, <1>5, <1>7, CoversThrough
<1>. QED  BY <1>1, <1>3, <1>7, <1>8

LEMMA InvsAreAsOneIndex == SearchInv /\ AnswerInv => AnswersAsOneIndex
<1>. SUFFICES ASSUME AnswerInv, NEW q \in Queries, Answered(q), query[q].counted = query[q].served
              PROVE  LET one == IndexSearch(WholeIndex(query[q].counted), Text[q])
                     IN [i \in DOMAIN query[q].hits |-> query[q].hits[i].score] =
                          [i \in DOMAIN one |-> one[i].score]
  BY DEF AnswersAsOneIndex
<1>. DEFINE t == query[q].hits
            stats == query[q].stats
            version == query[q].counted
            W == WholeIndex(version)
            text == Text[q]
            all == EveryHit(W, text, stats)
            one == IndexSearch(W, text)
            k == text.limit
<1>1. stats \in Statistics /\ AreVersions(version) /\ t = FoundAt(q, version, stats) /\ stats = StatsAt(version)
  BY DEF AnswerInv, QueriesHold, QueryHolds, Answered, Counted
<1>2. IsText(text) /\ k \in Nat
  BY SearchAssumption DEF IsText
<1>. HIDE DEF t, stats, version
<1>3. stats = IndexStats(W)
  BY <1>1, StatsOfWhole
<1>4. Covers(ToSet(t), all, k) /\ all \in SUBSET Hits /\ IsCut(t, k)
  BY <1>1, FoundAtCovers
<1>5. IsFiniteSet(DOMAIN W) /\ (\A p \in DOMAIN W : W[p] \in Segments) /\ IndexStats(W) \in Statistics
  BY <1>1, WholeIsFinite
<1>. HIDE DEF W, text
<1>6. Covers(ToSet(one), all, k) /\ IsCut(one, k)
  BY <1>2, <1>3, <1>5, IndexSearchCovers
<1>. HIDE DEF all, one, k
<1>7. [i \in DOMAIN t |-> t[i].score] = [i \in DOMAIN one |-> one[i].score]
  BY <1>2, <1>4, <1>6, CutsScoreAlike
<1>. QED  BY <1>7 DEF t, one, version, W, text

-----------------------------------------------------------------------------

LEMMA InvsAlwaysHold == Spec => [](SearchInv /\ AnswerInv)
<1>1. Init => SearchInv /\ AnswerInv
  BY InvBegins, AnswerBegins
<1>2. SearchInv /\ AnswerInv /\ [Next]_searchVars => (SearchInv /\ AnswerInv)'
  BY InvKept, AnswersKept
<1>. QED  BY <1>1, <1>2, PTL DEF Spec

(* Whatever fails, is refreshed or dies: a call is on a connection exactly  *)
(* while its task holds the lock of that connection, no query, copy or      *)
(* shard is ever in a state its type does not have.                         *)
THEOREM SearchTypeCorrect == Spec => []TypeOK
BY InvsAlwaysHold, InvsAreTyped, PTL

(* Nothing is missing from an answer, however many shards, copies, segments *)
(* and documents there are, whichever copies are refreshed between the      *)
(* rounds and wherever segments, shards and coordinator cut: no document    *)
(* that a shard held scores higher than one in the answer and is not in it  *)
(* (coordinator.rs:242, 258-261).                                           *)
THEOREM AnswersAreBest == Spec => []AnswersAreTopK
BY InvsAlwaysHold, InvsAreTopK, PTL

(* Any number of shards, of any number of segments, answer what one index   *)
(* of all their segments answers, score by score: the statistics that the   *)
(* coordinator adds up are those of the one index, and cutting in three     *)
(* places leaves what cutting once leaves.                                  *)
THEOREM ShardsAnswerAsOneIndex == Spec => []AnswersAsOneIndex
BY InvsAlwaysHold, InvsAreAsOneIndex, PTL
=============================================================================
