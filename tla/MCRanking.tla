----------------------------- MODULE MCRanking ------------------------------
(***************************************************************************)
(* Small webs for Ranking: a hub, a dead end, a cycle, a page that links   *)
(* to itself alone, split every way over the shards.                       *)
(***************************************************************************)
EXTENDS Ranking, TLC

CONSTANTS a, b, c, d, r1, r2

MCWebs == {
  {<<a, b>>, <<b, a>>, <<b, c>>, <<c, a>>, <<d, d>>},
  {<<a, b>>, <<c, b>>, <<d, b>>, <<d, a>>, <<b, c>>},
  {<<a, b>>, <<a, c>>, <<b, c>>, <<c, c>>} }

MCPartitions == {[p \in Pages |-> IF p \in mine THEN 1 ELSE 2] : mine \in {{a, b}, {a, c, d}, Pages}}
=============================================================================
