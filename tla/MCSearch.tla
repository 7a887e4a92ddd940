------------------------------ MODULE MCSearch ------------------------------
(***************************************************************************)
(* Two shards, one of them with two copies: a word that is rare in one     *)
(* shard and common in the other, documents of different lengths, a        *)
(* refresh that adds documents, and one that brings other parameters.      *)
(***************************************************************************)
EXTENDS Search, TLC

CONSTANTS c1, c2, c3, q1, q2

MCFrequency == <<[x |-> 1, y |-> 0], [x |-> 2, y |-> 0], [x |-> 0, y |-> 1],
                 [x |-> 1, y |-> 1], [x |-> 0, y |-> 3], [x |-> 3, y |-> 0]>>
MCLength == <<10, 40, 10, 20, 60, 30>>
MCTerms == {"x", "y"}

Segment(docs, params) == [docs |-> docs, params |-> params]
MCVersions == << <<<<Segment(<<2, 1>>, 1)>>, <<Segment(<<2, 1>>, 1), Segment(<<6>>, 1)>>>>,
                 <<<<Segment(<<3, 5>>, 1), Segment(<<4>>, 1)>>, <<Segment(<<3, 5, 4>>, 2)>>>> >>
MCGroup == << <<c1, c2>>, <<c3>> >>
MCText == (q1 :> [terms |-> {"x", "y"}, excluded |-> {}, limit |-> 2]) @@
          (q2 :> [terms |-> {"y"}, excluded |-> {"x"}, limit |-> 3])
=============================================================================
