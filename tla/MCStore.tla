------------------------------- MODULE MCStore ------------------------------
(***************************************************************************)
(* A small deployment for Store: every segment the operator adds holds one *)
(* document, and two segments of one size are due for a merge.             *)
(***************************************************************************)
EXTENDS Store, TLC

CONSTANTS l1, l2, l3, l4

DocOf(l) == CASE l = l1 -> 1 [] l = l2 -> 2 [] l = l3 -> 3 [] OTHER -> 4

MCBatch == [l \in Labels |-> {DocOf(l)}]

=============================================================================
