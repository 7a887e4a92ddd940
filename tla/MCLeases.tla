------------------------------ MODULE MCLeases ------------------------------
(***************************************************************************)
(* Two crawlers, one of them with two workers, and one host, for Leases.   *)
(***************************************************************************)
EXTENDS Leases, TLC

CONSTANTS c1, c2, w1, w2, w3

MCCrawlerOf == [w \in Workers |-> IF w = w3 THEN c2 ELSE c1]

(* c2 asks for no delay at all. *)
MCDelay == [c \in Crawlers |-> IF c = c1 THEN 3 ELSE 0]

MCHostDelay == [h \in Hosts |-> 4]
=============================================================================
