--------------------------- MODULE PowerIteration ---------------------------
(***************************************************************************)
(* PageRank in one process (pagerank.rs): every page's rank flows evenly   *)
(* along its links, damped; what pages without links hold is spread over   *)
(* all pages; iterate until the vector is still.  What a run over shards   *)
(* promises to be.                                                         *)
(***************************************************************************)
EXTENDS LinkGraph

VARIABLES
  web,         \* the links
  current,     \* the rank of each page
  iterations,  \* how many were run
  still        \* the last one moved the vector by less than the tolerance
powerVars == <<web, current, iterations, still>>

Arriving(p) ==
  SumFunction([q \in {q \in Pages : p \in Outlinks(web, q)} |-> Share(web, current[q], q)])
Following == [p \in Pages |-> Base(Dangling(web, current, Pages)) + Arriving(p)]
Moved(after) == SumFunction([p \in Pages |-> Distance(current[p], after[p])])

\* No division is cut short, neither at the start nor of the step to come.
NothingRounds ==
  /\ Whole % Count = 0
  /\ iterations < MaxIterations /\ ~still =>
       /\ ((Den - Num) * Whole) % (Den * Count) = 0
       /\ (Num * Dangling(web, current, Pages)) % (Den * Count) = 0
       /\ \A p \in Pages : Outlinks(web, p) # {} => (Num * current[p]) % (Den * Degree(web, p)) = 0

Begin == /\ web \in Webs
         /\ current = Uniform
         /\ iterations = 0
         /\ still = FALSE

Iterate ==
  /\ iterations < MaxIterations /\ ~still
  /\ current' = Following
  /\ iterations' = iterations + 1
  /\ still' = (Moved(Following) < Tolerance)
  /\ UNCHANGED web

\* The function is called again.
StartOver ==
  /\ current' = Uniform /\ iterations' = 0 /\ still' = FALSE
  /\ UNCHANGED web

Power == Begin /\ [][Iterate \/ StartOver]_powerVars
=============================================================================
