------------------------------ MODULE Scoring -------------------------------
(***************************************************************************)
(* The scoring function (crates/index/src/scoring.rs), BM25 in integers:   *)
(* a word's weight falls with the number of documents that have it, its    *)
(* frequency saturates, and a document is discounted by its length         *)
(* relative to the average.  All that the callers rely on is kept: what    *)
(* rises with what, and that a bound is computed by the same formula as a  *)
(* score.  Parameters are one number, the saturation constant.             *)
(***************************************************************************)
EXTENDS Integers

Idf(totalDocs, docFreq) == totalDocs - docFreq + 1

\* The average is a fraction, and no less than one.
LengthNorm(length, totalLength, docs) ==
  (10 * length * docs) \div (IF totalLength < docs THEN IF docs = 0 THEN 1 ELSE docs
                                                   ELSE totalLength)

\* Positive, however small, for a word that occurs.
Saturation(tf, norm, params) ==
  IF tf = 0 THEN 0 ELSE 1 + (100 * tf * (params + 1)) \div (10 * tf + params * norm)

\* Authority scales relevance; no rank, or no graph, leaves it alone.
Authority(rank, totalDocs) == 1 + rank * totalDocs
=============================================================================
