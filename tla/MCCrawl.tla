------------------------------ MODULE MCCrawl -------------------------------
(***************************************************************************)
(* Small webs for Crawl.                                                   *)
(***************************************************************************)
EXTENDS CrawlInvariants, TLC

CONSTANTS a, b, c, d, h1, h2, h3

MCSeeds == <<a>>

(* Two seeds share a host, which has room for one page of them. *)
AllButOne == <<a, b, c>>

(* c and d live on hosts of their own. *)
MCHostOf == [u \in Urls |-> CASE u = c -> h2 [] u = d -> h3 [] OTHER -> h1]

(* a links b and c, and they link each other: each is reached by two links  *)
(* that two workers may follow at once, and may wait while one is followed. *)
MCLinks == 
  [u \in Urls |->
     Urls \intersect (CASE u = a -> {b, c} [] u = b -> {c, a} [] u = c -> {b, d} [] OTHER -> {})]

SameTarget == [u \in Urls |-> u]

(* A request for b is answered by c. *)
MovedTarget == [u \in Urls |-> IF u = b THEN c ELSE u]

AlikeWorkers == Permutations(Workers)
=============================================================================
