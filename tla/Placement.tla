------------------------------ MODULE Placement ------------------------------
(***************************************************************************)
(* Which shard owns a URL (crates/proto/src/routing.rs): jump consistent   *)
(* hashing.  What the generator draws for a URL is a sequence of numbers   *)
(* 1..Draws, the same whatever the number of shards.                       *)
(***************************************************************************)
EXTENDS Integers, Sequences, FiniteSetsExt

CONSTANT Draws
ASSUME PlacementAssumption == Draws \in Nat \ {0}

\* From a bucket to the next that would take the key over.
Jump(b, draw) == ((b + 1) * Draws) \div draw

\* Jumps until one leaves the buckets, and stays where that one began.  The
\* draws are enough to leave them.
JumpHash(draws, buckets) ==
  LET at[k \in 1..(Len(draws) + 1)] == IF k = 1 THEN 0 ELSE Jump(at[k - 1], draws[k - 1])
      left == {k \in 1..(Len(draws) + 1) : at[k] >= buckets}
  IN IF buckets = 0 THEN 0 ELSE at[Min(left) - 1]
=============================================================================
