------------------------------ MODULE LinkGraph -----------------------------
(***************************************************************************)
(* The link graph and the arithmetic of PageRank (crates/rank: graph.rs,   *)
(* pagerank.rs), which one process and a shard of many share.              *)
(*                                                                         *)
(* Ranks are natural numbers of units, Whole of them in all, and damping   *)
(* is the fraction Num / Den.  Divisions round down, each on its own, as   *)
(* each f32 operation rounds on its own; sums are exact, which f32 sums    *)
(* taken in another order are not.                                         *)
(***************************************************************************)
EXTENDS Integers, FiniteSets, Functions

CONSTANTS
  Pages,
  Webs,          \* the sets of links there may be, self-links included
  Whole, Num, Den,
  Tolerance, MaxIterations

ASSUME RankAssumption ==
  /\ IsFiniteSet(Pages) /\ Pages # {}
  /\ Webs \subseteq SUBSET (Pages \X Pages)
  /\ Whole \in Nat /\ Num \in Nat /\ Den \in Nat \ {0} /\ Num <= Den
  /\ Tolerance \in Nat /\ MaxIterations \in Nat

Count == Cardinality(Pages)

\* A set of links, so none twice; a page's link to itself is dropped.
Outlinks(links, p) == {q \in Pages : <<p, q>> \in links /\ q # p}
Degree(links, p) == Cardinality(Outlinks(links, p))

Uniform == [p \in Pages |-> Whole \div Count]
Share(links, rank, p) == (Num * rank) \div (Den * Degree(links, p))
\* What dangles is lost.
BugBase(dangling) == ((Den - Num) * Whole) \div (Den * Count)
Base(dangling) ==
  ((Den - Num) * Whole) \div (Den * Count) + (Num * dangling) \div (Den * Count)
Distance(a, b) == IF a < b THEN b - a ELSE a - b

Total(ranks) == SumFunction(ranks)

\* What those of a set of pages that link nowhere hold.
Dangling(links, ranks, pages) ==
  SumFunctionOnSet(ranks, {p \in pages : Outlinks(links, p) = {}})
=============================================================================
