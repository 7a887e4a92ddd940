---------------------------- MODULE RankingProofs ---------------------------
(***************************************************************************)
(* What Ranking guarantees for any graph, partition, number of shards and  *)
(* coordinators, restarts and broken connections: its types; that a run    *)
(* that leads every shard is led by nobody else; that the shards together  *)
(* take the steps of one process: it implements PowerIteration; and so     *)
(* what one process does with the rank of all pages, which is that it      *)
(* makes none, and loses what divisions round down and nothing else.       *)
(***************************************************************************)
EXTENDS Ranking, Sums

-----------------------------------------------------------------------------
(* The invariant: a shard that somebody holds has given its graph away, and *)
(* whoever is past RankInit of a shard, on a connection that is still open, *)
(* holds that shard.                                                        *)

Led == {"dangling", "emit", "absorb", "apply", "results"}

IsRun(x) ==
  x = [pc |-> x.pc, at |-> x.at, iteration |-> x.iteration, dangling |-> x.dangling,
       mail |-> x.mail, residual |-> x.residual, ranks |-> x.ranks, converged |-> x.converged]
IsShard(x) == x = [graph |-> x.graph, ranker |-> x.ranker]

RunsShaped ==
  /\ run = [r \in Runs |-> run[r]]
  /\ \A r \in Runs : IsRun(run[r]) /\ run[r].at \in Shards
ShardsShaped ==
  /\ shard = [s \in Shards |-> shard[s]]
  /\ \A s \in Shards : IsShard(shard[s])
  /\ holder \in [Shards -> Runs \cup {None}]
LinksShaped == link = [r \in Runs |-> [s \in Shards |-> link[r][s]]]

Taken == \A s \in Shards : holder[s] # None => shard[s].graph = FALSE

Claims(r, s) ==
  /\ link[r][s] = "open"
  /\ run[r].pc \in Led \/ (run[r].pc = "init" /\ s < run[r].at)
ClaimsHold == \A r \in Runs, s \in Shards : Claims(r, s) => holder[s] = r

RankInv == RunsShaped /\ ShardsShaped /\ LinksShaped /\ Taken /\ ClaimsHold

LEMMA InvBegins == Init => RankInv
<1>. SUFFICES ASSUME Init PROVE RankInv
  OBVIOUS
<1>1. 1 \in Shards
  BY RankingAssumption DEF Shards
<1>2. RunsShaped
  BY <1>1 DEF Init, Start, RunsShaped, IsRun
<1>3. ShardsShaped /\ LinksShaped /\ Taken
  BY DEF Init, ShardsShaped, LinksShaped, IsShard, Taken
<1>4. ClaimsHold
  BY DEF Init, ClaimsHold, Claims
<1>. QED  BY <1>2, <1>3, <1>4 DEF RankInv

-----------------------------------------------------------------------------
(* A step of one coordinator keeps it, if what the coordinator claims after *)
(* the step is its own, and nothing that another claims changes hands.      *)
LEMMA StepKeeps ==
  ASSUME RankInv, NEW r \in Runs, NEW x, IsRun(x), x.at \in Shards,
         run' = [run EXCEPT ![r] = x], LinksShaped', ShardsShaped', Taken',
         \A q \in Runs, s \in Shards : q # r /\ link'[q][s] = "open" => link[q][s] = "open",
         \A q \in Runs, s \in Shards : q # r /\ holder[s] = q => holder'[s] = q,
         \A s \in Shards : Claims(r, s)' => holder'[s] = r
  PROVE  RankInv'
<1>1. \A q \in Runs : run'[q] = IF q = r THEN x ELSE run[q]
  BY DEF RankInv, RunsShaped
<1>2. RunsShaped'
  BY <1>1 DEF RankInv, RunsShaped
<1>3. ClaimsHold'
  <2>. SUFFICES ASSUME NEW q \in Runs, NEW s \in Shards, Claims(q, s)' PROVE holder'[s] = q
    BY DEF ClaimsHold
  <2>1. CASE q # r
    <3>1. Claims(q, s)
      BY <1>1, <2>1 DEF Claims
    <3>. QED  BY <2>1, <3>1 DEF RankInv, ClaimsHold
  <2>. QED  BY <2>1
<1>. QED  BY <1>2, <1>3 DEF RankInv

(* A coordinator that asks what every shard answers moves on or fails.      *)
Moves(r) ==
  \E x : /\ IsRun(x) /\ x.at \in Shards /\ x.pc \in Led \cup {"done", "failed"}
         /\ run' = [run EXCEPT ![r] = x]
         /\ x.pc # run[r].pc \/ x.at # run[r].at
         /\ LinksShaped'
         /\ \A q \in Runs, s \in Shards : link'[q][s] = "open" => link[q][s] = "open"

LEMMA MovesOn == ASSUME RankInv, NEW r \in Runs, Moves(r) PROVE run'[r] # run[r]
BY DEF Moves, RankInv, RunsShaped

LEMMA MovesKeep ==
  ASSUME RankInv, NEW r \in Runs, run[r].pc \in Led, Moves(r),
         holder' = holder, ShardsShaped', \A s \in Shards : shard'[s].graph = shard[s].graph
  PROVE  RankInv'
<1>1. PICK x : /\ IsRun(x) /\ x.at \in Shards /\ x.pc \in Led \cup {"done", "failed"}
               /\ run' = [run EXCEPT ![r] = x]
               /\ LinksShaped'
               /\ \A q \in Runs, s \in Shards : link'[q][s] = "open" => link[q][s] = "open"
  BY DEF Moves
<1>2. Taken'
  BY DEF RankInv, Taken
<1>3. ASSUME NEW s \in Shards, Claims(r, s)' PROVE holder'[s] = r
  <2>1. Claims(r, s)
    BY <1>1, <1>3 DEF Claims
  <2>. QED  BY <2>1 DEF RankInv, ClaimsHold
<1>. QED  BY <1>1, <1>2, <1>3, StepKeeps

LEMMA FailsMoves ==
  ASSUME RankInv, NEW r \in Runs, run[r].pc # "failed", Fails(r), LinksShaped',
         \A q \in Runs, s \in Shards : link'[q][s] = "open" => link[q][s] = "open"
  PROVE  Moves(r)
<1>1. PICK x : x = [run[r] EXCEPT !.pc = "failed"]
  OBVIOUS
<1>2. run' = [run EXCEPT ![r] = x]
  BY <1>1 DEF Fails
<1>3. IsRun(run[r]) /\ run[r].at \in Shards
  BY DEF RankInv, RunsShaped
<1>4. IsRun(x) /\ x.at \in Shards /\ x.pc = "failed"
  BY <1>1, <1>3 DEF IsRun
<1>. QED  BY <1>2, <1>4 DEF Moves

LEMMA AnsweredMoves ==
  ASSUME RankInv, NEW r \in Runs, run[r].pc # "failed", NEW x, IsRun(x), x.at \in Shards,
         x.pc \in Led \cup {"done", "failed"}, x.pc # run[r].pc \/ x.at # run[r].at,
         Answered(r, x)
  PROVE  Moves(r)
<1>1. CASE run' = [run EXCEPT ![r] = x] /\ UNCHANGED <<link, cuts>>
  <2>1. LinksShaped'
    BY <1>1 DEF RankInv, LinksShaped
  <2>. QED  BY <1>1, <2>1 DEF Moves
<1>2. CASE link' = [link EXCEPT ![r][run[r].at] = "broken"] /\ Fails(r)
  <2>1. LinksShaped'
    BY <1>2 DEF RankInv, LinksShaped
  <2>2. \A q \in Runs, s \in Shards : link'[q][s] = "open" => link[q][s] = "open"
    BY <1>2 DEF RankInv, LinksShaped
  <2>. QED  BY <1>2, <2>1, <2>2, FailsMoves
<1>. QED  BY <1>1, <1>2 DEF Answered

(* The next shard of the exchange, or the next exchange.                    *)
LEMMA BeyondMoves ==
  ASSUME RankInv, NEW r \in Runs, run[r].pc # "failed", NEW x, NEW then,
         IsRun(x), x.pc = run[r].pc, x.at = run[r].at, IsRun(then), then.at \in Shards,
         then.pc \in Led \cup {"done"}, then.pc # run[r].pc, run[r].pc \in Led,
         Answered(r, Beyond(r, x, then))
  PROVE  Moves(r)
<1>1. run[r].at \in Shards
  BY DEF RankInv, RunsShaped
<1>2. CASE run[r].at < ShardCount
  <2>1. PICK y : y = [x EXCEPT !.at = x.at + 1]
    OBVIOUS
  <2>2. IsRun(y) /\ y.pc = run[r].pc /\ y.at = run[r].at + 1
    BY <2>1 DEF IsRun
  <2>3. y.at \in Shards /\ y.at # run[r].at
    BY <1>1, <1>2, <2>2, RankingAssumption DEF Shards
  <2>4. Answered(r, y)
    BY <1>2, <2>1 DEF Beyond
  <2>. QED  BY <2>2, <2>3, <2>4, AnsweredMoves
<1>3. CASE ~(run[r].at < ShardCount)
  <2>1. Answered(r, then)
    BY <1>3 DEF Beyond
  <2>. QED  BY <2>1, AnsweredMoves
<1>. QED  BY <1>2, <1>3

-----------------------------------------------------------------------------
(* Every question to the shards is such a move, and leaves the graphs alone. *)

Asks(r) ==
  /\ run[r].pc \in Led /\ Moves(r) /\ holder' = holder
  /\ ShardsShaped' /\ \A s \in Shards : shard'[s].graph = shard[s].graph
  /\ \A s \in Shards : shard'[s] # shard[s] => s = run[r].at /\ link[r][s] = "open"

LEMMA DanglingAsks == ASSUME RankInv, NEW r \in Runs, AskDangling(r) PROVE Asks(r)
<1>1. PICK x : x = [run[r] EXCEPT !.dangling =
                      run[r].dangling + Dangling(web, shard[run[r].at].ranker.ranks, Owned(run[r].at))]
  OBVIOUS
<1>2. PICK y : y = [x EXCEPT !.pc = "emit", !.at = 1]
  OBVIOUS
<1>3. run[r].pc = "dangling" /\ Answered(r, Beyond(r, x, y)) /\ UNCHANGED <<shard, holder>>
  BY <1>1, <1>2 DEF AskDangling, Calls
<1>4. IsRun(run[r])
  BY DEF RankInv, RunsShaped
<1>5. IsRun(x) /\ x.pc = run[r].pc /\ x.at = run[r].at
  BY <1>1, <1>4 DEF IsRun
<1>6. IsRun(y) /\ y.pc = "emit" /\ y.at = 1
  BY <1>2, <1>5 DEF IsRun
<1>7. 1 \in Shards
  BY RankingAssumption DEF Shards
<1>8. Moves(r)
  BY <1>3, <1>5, <1>6, <1>7, BeyondMoves DEF Led
<1>. QED  BY <1>3, <1>8 DEF Asks, Led, RankInv, ShardsShaped

LEMMA IncomingChanges ==
  ASSUME RankInv, NEW s \in Shards, NEW v, holder' = holder,
         shard' = [shard EXCEPT ![s].ranker.incoming = v]
  PROVE  /\ ShardsShaped' /\ \A u \in Shards : shard'[u].graph = shard[u].graph
         /\ \A u \in Shards : shard'[u] # shard[u] => u = s
<1>1. PICK k : k = [shard[s] EXCEPT !.ranker.incoming = v]
  OBVIOUS
<1>2. shard' = [shard EXCEPT ![s] = k]
  BY <1>1
<1>3. IsShard(k) /\ k.graph = shard[s].graph
  BY <1>1 DEF IsShard, RankInv, ShardsShaped
<1>. QED  BY <1>2, <1>3 DEF RankInv, ShardsShaped

LEMMA RanksChange ==
  ASSUME RankInv, NEW s \in Shards, NEW v, shard' = [shard EXCEPT ![s].ranker.ranks = v],
         holder' = holder
  PROVE  /\ ShardsShaped' /\ \A u \in Shards : shard'[u].graph = shard[u].graph
         /\ \A u \in Shards : shard'[u] # shard[u] => u = s
<1>1. PICK k : k = [shard[s] EXCEPT !.ranker.ranks = v]
  OBVIOUS
<1>2. shard' = [shard EXCEPT ![s] = k]
  BY <1>1
<1>3. IsShard(k) /\ k.graph = shard[s].graph
  BY <1>1 DEF IsShard, RankInv, ShardsShaped
<1>. QED  BY <1>2, <1>3 DEF RankInv, ShardsShaped

LEMMA EmitAsks == ASSUME RankInv, NEW r \in Runs, AskEmit(r) PROVE Asks(r)
<1>. DEFINE s == run[r].at
<1>0. s \in Shards /\ IsRun(run[r]) /\ 1 \in Shards
  BY RankingAssumption DEF RankInv, RunsShaped, Shards
<1>1. PICK mail : /\ shard' = Emitted(s) /\ holder' = holder
                  /\ run[r].pc = "emit" /\ link[r][s] = "open"
                  /\ Answered(r, Beyond(r, [run[r] EXCEPT !.mail = mail],
                                 [[run[r] EXCEPT !.mail = mail] EXCEPT !.pc = "absorb", !.at = 1]))
  BY DEF AskEmit, Calls
<1>2. PICK x : x = [run[r] EXCEPT !.mail = mail]
  OBVIOUS
<1>3. PICK y : y = [x EXCEPT !.pc = "absorb", !.at = 1]
  OBVIOUS
<1>4. IsRun(x) /\ x.pc = run[r].pc /\ x.at = run[r].at
  BY <1>0, <1>2 DEF IsRun
<1>5. IsRun(y) /\ y.pc = "absorb" /\ y.at = 1
  BY <1>3, <1>4 DEF IsRun
<1>6. Moves(r)
  BY <1>0, <1>1, <1>2, <1>3, <1>4, <1>5, BeyondMoves DEF Led
<1>7. holder' = holder
  BY DEF AskEmit
<1>8. PICK v : shard' = [shard EXCEPT ![s].ranker.incoming = v]
  BY <1>1, Zenon DEF Emitted
<1>9. /\ ShardsShaped' /\ \A u \in Shards : shard'[u].graph = shard[u].graph
      /\ \A u \in Shards : shard'[u] # shard[u] => u = s
  BY <1>0, <1>7, <1>8, IncomingChanges
<1>. QED  BY <1>1, <1>6, <1>9 DEF Asks, Led

LEMMA AbsorbAsks == ASSUME RankInv, NEW r \in Runs, AskAbsorb(r) PROVE Asks(r)
<1>. DEFINE s == run[r].at
<1>0. s \in Shards /\ IsRun(run[r]) /\ 1 \in Shards
  BY RankingAssumption DEF RankInv, RunsShaped, Shards
<1>1. PICK y : y = [run[r] EXCEPT !.pc = "apply", !.at = 1]
  OBVIOUS
<1>2. /\ shard' = Absorbed(s, run[r].mail[s]) /\ holder' = holder
      /\ run[r].pc = "absorb" /\ link[r][s] = "open"
      /\ Answered(r, Beyond(r, run[r], y))
  BY <1>1 DEF AskAbsorb, Calls
<1>3. IsRun(y) /\ y.pc = "apply" /\ y.at = 1
  BY <1>0, <1>1 DEF IsRun
<1>4. Moves(r)
  BY <1>0, <1>2, <1>3, BeyondMoves DEF Led
<1>5. PICK v : shard' = [shard EXCEPT ![s].ranker.incoming = v]
  BY <1>2, Zenon DEF Absorbed
<1>6. /\ ShardsShaped' /\ \A u \in Shards : shard'[u].graph = shard[u].graph
      /\ \A u \in Shards : shard'[u] # shard[u] => u = s
  BY <1>0, <1>2, <1>5, IncomingChanges
<1>. QED  BY <1>2, <1>4, <1>6 DEF Asks, Led

(* Another iteration, or the collection of the ranks.                       *)
LEMMA NextIterationGoesOn ==
  ASSUME NEW x, IsRun(x), NEW y, y = NextIteration(x)
  PROVE  IsRun(y) /\ y.at = 1 /\ y.pc \in {"dangling", "results"}
<1>1. CASE x.iteration < MaxIterations
  <2>1. y = Iterating(x)
    BY <1>1 DEF NextIteration
  <2>. QED  BY <2>1 DEF Iterating, IsRun
<1>2. CASE ~(x.iteration < MaxIterations)
  <2>1. y = Concluding(x)
    BY <1>2 DEF NextIteration
  <2>. QED  BY <2>1 DEF Concluding, IsRun
<1>. QED  BY <1>1, <1>2

LEMMA EndedGoesOn ==
  ASSUME NEW x, IsRun(x), NEW y, y = Ended(x)
  PROVE  IsRun(y) /\ y.at = 1 /\ y.pc \in {"dangling", "results"}
<1>1. CASE Converges(x)
  <2>1. y = Concluding([x EXCEPT !.converged = TRUE])
    BY <1>1 DEF Ended
  <2>. QED  BY <2>1 DEF Concluding, IsRun
<1>2. CASE ~Converges(x)
  <2>1. y = NextIteration(x)
    BY <1>2 DEF Ended
  <2>. QED  BY <2>1, NextIterationGoesOn
<1>. QED  BY <1>1, <1>2

LEMMA ApplyAsks == ASSUME RankInv, NEW r \in Runs, AskApply(r) PROVE Asks(r)
<1>. DEFINE s == run[r].at
<1>0. s \in Shards /\ IsRun(run[r]) /\ 1 \in Shards
  BY RankingAssumption DEF RankInv, RunsShaped, Shards
<1>1. PICK x : x = [run[r] EXCEPT !.residual = run[r].residual + Residual(s, run[r].dangling)]
  OBVIOUS
<1>2. PICK y : y = Ended(x)
  OBVIOUS
<1>3. /\ shard' = Applied(s, run[r].dangling) /\ holder' = holder
      /\ run[r].pc = "apply" /\ link[r][s] = "open"
      /\ Answered(r, Beyond(r, x, y))
  BY <1>1, <1>2 DEF AskApply, Calls
<1>4. IsRun(x) /\ x.pc = run[r].pc /\ x.at = run[r].at
  BY <1>0, <1>1 DEF IsRun
<1>5. IsRun(y) /\ y.at = 1 /\ y.pc \in {"dangling", "results"}
  BY <1>2, <1>4, EndedGoesOn
<1>6. Moves(r)
  BY <1>0, <1>3, <1>4, <1>5, BeyondMoves DEF Led
<1>7. /\ ShardsShaped' /\ \A u \in Shards : shard'[u].graph = shard[u].graph
      /\ \A u \in Shards : shard'[u] # shard[u] => u = s
  BY <1>0, <1>3, RanksChange DEF Applied
<1>. QED  BY <1>3, <1>6, <1>7 DEF Asks, Led

LEMMA ResultsAsk == ASSUME RankInv, NEW r \in Runs, AskResults(r) PROVE Asks(r)
<1>0. IsRun(run[r]) /\ run[r].at \in Shards
  BY DEF RankInv, RunsShaped
<1>1. PICK x : x = [run[r] EXCEPT !.ranks = Extended(run[r].ranks, shard[run[r].at].ranker.ranks)]
  OBVIOUS
<1>2. PICK y : y = [x EXCEPT !.pc = "done"]
  OBVIOUS
<1>3. run[r].pc = "results" /\ Answered(r, Beyond(r, x, y)) /\ UNCHANGED <<shard, holder>>
  BY <1>1, <1>2 DEF AskResults, Calls
<1>4. IsRun(x) /\ x.pc = run[r].pc /\ x.at = run[r].at
  BY <1>0, <1>1 DEF IsRun
<1>5. IsRun(y) /\ y.pc = "done" /\ y.at = run[r].at
  BY <1>2, <1>4 DEF IsRun
<1>6. Moves(r)
  BY <1>0, <1>3, <1>4, <1>5, BeyondMoves DEF Led
<1>. QED  BY <1>3, <1>6 DEF Asks, Led, RankInv, ShardsShaped

(* A shard that nothing is for, and a call that fails.                      *)
LEMMA PassOverAsks == ASSUME RankInv, NEW r \in Runs, PassOver(r) PROVE Asks(r)
<1>0. run[r].at \in Shards /\ IsRun(run[r]) /\ 1 \in Shards
  BY RankingAssumption DEF RankInv, RunsShaped, Shards
<1>1. PICK y : y = [run[r] EXCEPT !.pc = "apply", !.at = 1]
  OBVIOUS
<1>2. /\ run[r].pc = "absorb" /\ run' = [run EXCEPT ![r] = Beyond(r, run[r], y)]
      /\ UNCHANGED <<shard, holder, link, cuts>>
  BY <1>1 DEF PassOver
<1>3. IsRun(y) /\ y.pc = "apply" /\ y.at = 1
  BY <1>0, <1>1 DEF IsRun
<1>4. Moves(r)
  BY <1>0, <1>2, <1>3, BeyondMoves DEF Led, Answered
<1>. QED  BY <1>2, <1>4 DEF Asks, Led, RankInv, ShardsShaped

LEMMA CallFailsMoves ==
  ASSUME RankInv, NEW r \in Runs, CallFails(r)
  PROVE  Moves(r) /\ run'[r].pc = "failed" /\ UNCHANGED <<shard, holder>>
<1>1. Fails(r) /\ run[r].pc # "failed" /\ UNCHANGED <<shard, holder, link>>
  BY DEF CallFails
<1>2. LinksShaped'
  BY <1>1 DEF RankInv, LinksShaped
<1>3. Moves(r)
  BY <1>1, <1>2, FailsMoves
<1>4. run'[r].pc = "failed"
  BY <1>1 DEF Fails, RankInv, RunsShaped, IsRun
<1>. QED  BY <1>1, <1>3, <1>4

-----------------------------------------------------------------------------
(* Every step keeps the invariant.                                           *)

LEMMA CallFailsKeeps == ASSUME RankInv, NEW r \in Runs, CallFails(r) PROVE RankInv'
<1>1. Moves(r) /\ run'[r].pc = "failed" /\ UNCHANGED <<shard, holder>>
  BY CallFailsMoves
<1>2. PICK x : /\ IsRun(x) /\ x.at \in Shards /\ run' = [run EXCEPT ![r] = x] /\ LinksShaped'
               /\ \A q \in Runs, s \in Shards : link'[q][s] = "open" => link[q][s] = "open"
  BY <1>1 DEF Moves
<1>3. ShardsShaped' /\ Taken'
  BY <1>1 DEF RankInv, ShardsShaped, Taken
<1>4. \A s \in Shards : ~Claims(r, s)'
  BY <1>1 DEF Claims, Led
<1>. QED  BY <1>1, <1>2, <1>3, <1>4, StepKeeps

LEMMA AsksKeep == ASSUME RankInv, NEW r \in Runs, Asks(r) PROVE RankInv'
BY MovesKeep DEF Asks

LEMMA ConnectKeeps == ASSUME RankInv, NEW r \in Runs, Connect(r) PROVE RankInv'
<1>0. run[r].at \in Shards /\ IsRun(run[r]) /\ 1 \in Shards
  BY RankingAssumption DEF RankInv, RunsShaped, Shards
<1>1. PICK y : y = [run[r] EXCEPT !.pc = "init", !.at = 1]
  OBVIOUS
<1>2. PICK x : x = Beyond(r, run[r], y)
  OBVIOUS
<1>3. /\ run[r].pc = "connect" /\ run' = [run EXCEPT ![r] = x]
      /\ link' = [link EXCEPT ![r][run[r].at] = "open"] /\ UNCHANGED <<shard, holder>>
  BY <1>1, <1>2 DEF Connect
<1>4. IsRun(y) /\ y.pc = "init" /\ y.at = 1
  BY <1>0, <1>1 DEF IsRun
<1>5. IsRun(x) /\ x.at \in Shards /\ (x.pc = "connect" \/ (x.pc = "init" /\ x.at = 1))
  <2>1. CASE run[r].at < ShardCount
    <3>1. x = [run[r] EXCEPT !.at = run[r].at + 1]
      BY <1>2, <2>1 DEF Beyond
    <3>2. run[r].at + 1 \in Shards
      BY <1>0, <2>1, RankingAssumption DEF Shards
    <3>. QED  BY <3>1, <3>2, <1>0, <1>3 DEF IsRun
  <2>2. CASE ~(run[r].at < ShardCount)
    BY <2>2, <1>0, <1>2, <1>4 DEF Beyond
  <2>. QED  BY <2>1, <2>2
<1>6. LinksShaped' /\ \A q \in Runs, s \in Shards : q # r => link'[q][s] = link[q][s]
  BY <1>3 DEF RankInv, LinksShaped
<1>7. ShardsShaped' /\ Taken'
  BY <1>3 DEF RankInv, ShardsShaped, Taken
<1>8. run'[r] = x
  BY <1>3 DEF RankInv, RunsShaped
<1>9. \A s \in Shards : ~Claims(r, s)'
  BY <1>5, <1>8 DEF Claims, Led, Shards
<1>. QED  BY <1>3, <1>5, <1>6, <1>7, <1>9, StepKeeps

LEMMA InitShardKeeps == ASSUME RankInv, NEW r \in Runs, InitShard(r) PROVE RankInv'
<1>. DEFINE s == run[r].at
<1>0. s \in Shards /\ IsRun(run[r]) /\ 1 \in Shards
  BY RankingAssumption DEF RankInv, RunsShaped, Shards
<1>1. run[r].pc = "init" /\ link[r][s] = "open"
  BY DEF InitShard, Calls
<1>2. CASE ~shard[s].graph /\ Refused(r)
  <2>1. Fails(r) /\ UNCHANGED <<shard, holder, link>>
    BY <1>2 DEF Refused
  <2>2. LinksShaped'
    BY <2>1 DEF RankInv, LinksShaped
  <2>3. Moves(r)
    BY <1>1, <2>1, <2>2, FailsMoves
  <2>4. ShardsShaped' /\ Taken' /\ holder' = holder
    BY <2>1 DEF RankInv, ShardsShaped, Taken
  <2>5. run'[r].pc = "failed"
    BY <2>1, <1>0 DEF Fails, RankInv, RunsShaped, IsRun
  <2>6. \A u \in Shards : ~Claims(r, u)'
    BY <2>5 DEF Claims, Led
  <2>. QED  BY <2>3, <2>4, <2>6, StepKeeps DEF Moves
<1>3. CASE /\ shard[s].graph /\ shard' = Initialised(s) /\ holder' = [holder EXCEPT ![s] = r]
           /\ Answered(r, Beyond(r, run[r], NextIteration(run[r])))
  <2>1. holder[s] = None
    BY <1>0, <1>3 DEF RankInv, Taken
  <2>2. /\ holder' \in [Shards -> Runs \cup {None}]
        /\ \A u \in Shards : holder'[u] = IF u = s THEN r ELSE holder[u]
    BY <1>0, <1>3 DEF RankInv, ShardsShaped
  <2>3. PICK k : k = [graph |-> FALSE, ranker |-> NewRanker(s)]
    OBVIOUS
  <2>4. shard' = [shard EXCEPT ![s] = k]
    BY <1>3, <2>3 DEF Initialised
  <2>5. IsShard(k) /\ k.graph = FALSE
    BY <2>3 DEF IsShard
  <2>6. ShardsShaped' /\ Taken'
    BY <1>0, <2>2, <2>4, <2>5 DEF RankInv, ShardsShaped, Taken
  <2>7. \A q \in Runs, u \in Shards : q # r /\ holder[u] = q => holder'[u] = q
    BY <2>1, <2>2, RankingAssumption
  <2>8. PICK y : y = NextIteration(run[r])
    OBVIOUS
  <2>9. IsRun(y) /\ y.at = 1 /\ y.pc \in Led
    BY <1>0, <2>8, NextIterationGoesOn DEF Led
  <2>10. PICK x : x = Beyond(r, run[r], y)
    OBVIOUS
  <2>11. /\ IsRun(x) /\ x.at \in Shards
         /\ \/ x.pc = "init" /\ x.at = s + 1
            \/ x.pc \in Led /\ s = ShardCount
    <3>1. CASE s < ShardCount
      <4>1. x = [run[r] EXCEPT !.at = s + 1]
        BY <2>10, <3>1 DEF Beyond
      <4>2. s + 1 \in Shards
        BY <1>0, <3>1, RankingAssumption DEF Shards
      <4>. QED  BY <4>1, <4>2, <1>0, <1>1 DEF IsRun
    <3>2. CASE ~(s < ShardCount)
      <4>1. s = ShardCount
        BY <1>0, <3>2, RankingAssumption DEF Shards
      <4>2. x = y
        BY <2>10, <3>2 DEF Beyond
      <4>. QED  BY <4>1, <4>2, <1>0, <2>9
    <3>. QED  BY <3>1, <3>2
  <2>12. \A u \in Shards : u < s /\ link[r][u] = "open" => holder'[u] = r
    <3>. SUFFICES ASSUME NEW u \in Shards, u < s, link[r][u] = "open" PROVE holder'[u] = r
      OBVIOUS
    <3>1. Claims(r, u)
      BY <1>1 DEF Claims
    <3>. QED  BY <3>1, <2>2 DEF RankInv, ClaimsHold
  <2>13. CASE run' = [run EXCEPT ![r] = x] /\ UNCHANGED link
    <3>1. LinksShaped'
      BY <2>13 DEF RankInv, LinksShaped
    <3>2. run'[r] = x
      BY <2>13 DEF RankInv, RunsShaped
    <3>3. ASSUME NEW u \in Shards, Claims(r, u)' PROVE holder'[u] = r
      <4>1. link[r][u] = "open"
        BY <2>13, <3>3 DEF Claims
      <4>2. u < s \/ u = s
        BY <1>0, <2>11, <3>2, <3>3, RankingAssumption DEF Claims, Led, Shards
      <4>. QED  BY <4>1, <4>2, <2>2, <2>12
    <3>. QED  BY <2>6, <2>7, <2>11, <2>13, <3>1, <3>3, StepKeeps
  <2>14. CASE link' = [link EXCEPT ![r][s] = "broken"] /\ Fails(r)
    <3>1. LinksShaped' /\ \A q \in Runs, u \in Shards : link'[q][u] = "open" => link[q][u] = "open"
      BY <2>14 DEF RankInv, LinksShaped
    <3>2. PICK f : f = [run[r] EXCEPT !.pc = "failed"]
      OBVIOUS
    <3>3. run' = [run EXCEPT ![r] = f]
      BY <2>14, <3>2 DEF Fails
    <3>4. IsRun(f) /\ f.at \in Shards /\ f.pc = "failed"
      BY <1>0, <3>2 DEF IsRun
    <3>5. run'[r] = f
      BY <3>3 DEF RankInv, RunsShaped
    <3>6. \A u \in Shards : ~Claims(r, u)'
      BY <3>4, <3>5 DEF Claims, Led
    <3>. QED  BY <2>6, <2>7, <3>1, <3>3, <3>4, <3>6, StepKeeps
  <2>. QED  BY <1>3, <2>8, <2>10, <2>13, <2>14 DEF Answered
<1>. QED  BY <1>2, <1>3 DEF InitShard

LEMMA CutKeeps == ASSUME RankInv, NEW r \in Runs, NEW s \in Shards, Cut(r, s) PROVE RankInv'
<1>1. link' = [link EXCEPT ![r][s] = "broken"] /\ UNCHANGED <<shard, holder, run>>
  BY DEF Cut
<1>2. LinksShaped' /\ \A q \in Runs, u \in Shards : link'[q][u] = "open" => link[q][u] = "open"
  BY <1>1 DEF RankInv, LinksShaped
<1>3. RunsShaped' /\ ShardsShaped' /\ Taken'
  BY <1>1 DEF RankInv, RunsShaped, ShardsShaped, Taken
<1>4. ClaimsHold'
  BY <1>1, <1>2 DEF RankInv, ClaimsHold, Claims
<1>. QED  BY <1>2, <1>3, <1>4 DEF RankInv

LEMMA RestartKeeps == ASSUME RankInv, NEW s \in Shards, Restart(s) PROVE RankInv'
<1>1. /\ shard' = [shard EXCEPT ![s] = [graph |-> TRUE, ranker |-> None]]
      /\ holder' = [holder EXCEPT ![s] = None] /\ UNCHANGED run
      /\ link' = [r \in Runs |-> [link[r] EXCEPT ![s] = IF link[r][s] = "open" THEN "broken" ELSE link[r][s]]]
  BY DEF Restart
<1>2. /\ LinksShaped'
      /\ \A q \in Runs, u \in Shards : link'[q][u] = "open" => link[q][u] = "open" /\ u # s
  BY <1>1 DEF RankInv, LinksShaped
<1>3. \A u \in Shards : holder'[u] = IF u = s THEN None ELSE holder[u]
  BY <1>1 DEF RankInv, ShardsShaped
<1>4. RunsShaped' /\ ShardsShaped' /\ Taken'
  BY <1>1, <1>3 DEF RankInv, RunsShaped, ShardsShaped, IsShard, Taken
<1>5. ClaimsHold'
  BY <1>1, <1>2, <1>3 DEF RankInv, ClaimsHold, Claims
<1>. QED  BY <1>2, <1>4, <1>5 DEF RankInv

LEMMA InvKept == RankInv /\ [Next]_rankVars => RankInv'
<1>. SUFFICES ASSUME RankInv, [Next]_rankVars PROVE RankInv'
  OBVIOUS
<1>1. CASE UNCHANGED rankVars
  BY <1>1 DEF rankVars, RankInv, RunsShaped, ShardsShaped, LinksShaped, Taken, ClaimsHold, Claims
<1>2. ASSUME NEW r \in Runs, Work(r) PROVE RankInv'
  BY <1>2, ConnectKeeps, InitShardKeeps, CallFailsKeeps, AsksKeep, DanglingAsks, EmitAsks,
     AbsorbAsks, ApplyAsks, ResultsAsk, PassOverAsks DEF Work
<1>3. ASSUME NEW r \in Runs, NEW s \in Shards, Cut(r, s) PROVE RankInv'
  BY <1>3, CutKeeps
<1>4. ASSUME NEW s \in Shards, Restart(s) PROVE RankInv'
  BY <1>4, RestartKeeps
<1>. QED  BY <1>1, <1>2, <1>3, <1>4 DEF Next

-----------------------------------------------------------------------------
(* What another does to the shards that a run holds.                         *)

LEMMA HeldAlone ==
  ASSUME RankInv, [Next]_rankVars, NEW r \in Runs, NEW s \in Shards,
         holder[s] = r, holder'[s] = r, run'[r] = run[r]
  PROVE  shard'[s] = shard[s]
<1>1. CASE UNCHANGED rankVars
  BY <1>1 DEF rankVars
<1>2. ASSUME NEW q \in Runs, Asks(q), shard'[s] # shard[s] PROVE FALSE
  <2>1. Claims(q, s)
    BY <1>2 DEF Asks, Claims
  <2>2. q = r
    BY <2>1 DEF RankInv, ClaimsHold
  <2>3. run'[q] # run[q]
    BY <1>2, MovesOn DEF Asks
  <2>. QED  BY <2>2, <2>3
<1>3. ASSUME NEW q \in Runs, Connect(q) \/ CallFails(q) PROVE shard' = shard
  BY <1>3 DEF Connect, CallFails
<1>4. ASSUME NEW q \in Runs, InitShard(q) PROVE shard'[s] = shard[s]
  <2>1. shard[s].graph = FALSE
    BY RankingAssumption DEF RankInv, Taken
  <2>2. CASE shard[run[q].at].graph /\ shard' = Initialised(run[q].at)
    <3>1. run[q].at # s
      BY <2>1, <2>2
    <3>. QED  BY <2>2, <3>1 DEF Initialised, RankInv, ShardsShaped
  <2>3. CASE Refused(q)
    BY <2>3 DEF Refused
  <2>. QED  BY <1>4, <2>2, <2>3 DEF InitShard
<1>5. ASSUME NEW q \in Runs, Work(q) PROVE shard'[s] = shard[s]
  BY <1>2, <1>3, <1>4, <1>5, DanglingAsks, EmitAsks, AbsorbAsks, ApplyAsks, ResultsAsk,
     PassOverAsks DEF Work
<1>6. ASSUME NEW q \in Runs, NEW u \in Shards, Cut(q, u) PROVE shard' = shard
  BY <1>6 DEF Cut
<1>7. ASSUME NEW u \in Shards, Restart(u) PROVE shard'[s] = shard[s]
  BY <1>7, RankingAssumption DEF Restart, RankInv, ShardsShaped
<1>. QED  BY <1>1, <1>5, <1>6, <1>7 DEF Next

LEMMA LeadsAlone ==
  ASSUME RankInv, [Next]_rankVars, NEW r \in Runs, Leads(r), Leads(r)', run'[r] = run[r],
         NEW s \in Shards
  PROVE  shard'[s] = shard[s]
BY HeldAlone DEF Leads

(* While one run leads every shard, no other coordinator, restart or broken *)
(* connection changes the ranks it will collect: RankInit takes the graph,  *)
(* and nobody else gets past it (RankShard::handle, ranking.rs:54-73).      *)
THEOREM RunsAreLedByOne == Spec => LedByOne
<1>1. Init => RankInv
  BY InvBegins
<1>2. RankInv /\ [Next]_rankVars => RankInv'
  BY InvKept
<1>3. RankInv /\ [Next]_rankVars =>
        [\A r \in Runs : Leads(r) /\ Leads(r)' /\ run'[r] = run[r] =>
           \A s \in Shards : shard'[s] = shard[s]]_rankVars
  BY LeadsAlone
<1>. QED  BY <1>1, <1>2, <1>3, PTL DEF Spec, LedByOne

-----------------------------------------------------------------------------
(* Arithmetic, and the sets an iteration is about.                           *)

LEMMA Quotient == ASSUME NEW a \in Nat, NEW b \in Nat, b # 0 PROVE a \div b \in Nat
OBVIOUS

LEMMA Product == ASSUME NEW a \in Nat, NEW b \in Nat PROVE a * b \in Nat /\ (a # 0 /\ b # 0 => a * b # 0)
OBVIOUS

LEMMA CountsPages == Count \in Nat /\ Count # 0 /\ IsFiniteSet(Pages)
BY RankAssumption, FS_CardinalityType, FS_EmptySet DEF Count

LEMMA UniformIsNatural == Uniform \in [Pages -> Nat]
BY CountsPages, Quotient, RankAssumption DEF Uniform

LEMMA BaseIsNatural == ASSUME NEW d \in Nat PROVE Base(d) \in Nat
<1>1. Den * Count \in Nat /\ Den * Count # 0
  BY CountsPages, Product, RankAssumption
<1>2. Den - Num \in Nat
  BY RankAssumption
<1>3. (Den - Num) * Whole \in Nat /\ Num * d \in Nat
  BY <1>2, Product, RankAssumption
<1>4. ((Den - Num) * Whole) \div (Den * Count) \in Nat /\ (Num * d) \div (Den * Count) \in Nat
  BY <1>1, <1>3, Quotient
<1>. QED  BY <1>4 DEF Base

LEMMA ShareIsNatural ==
  ASSUME NEW l \in SUBSET (Pages \X Pages), NEW rank \in Nat, NEW p \in Pages, NEW q \in Pages,
         <<p, q>> \in l, p # q
  PROVE  Share(l, rank, p) \in Nat
<1>1. IsFiniteSet(Outlinks(l, p)) /\ q \in Outlinks(l, p)
  BY CountsPages, FS_Subset DEF Outlinks
<1>2. Degree(l, p) \in Nat /\ Degree(l, p) # 0
  BY <1>1, FS_CardinalityType, FS_EmptySet DEF Degree
<1>3. Num * rank \in Nat /\ Den * Degree(l, p) \in Nat /\ Den * Degree(l, p) # 0
  BY <1>2, Product, RankAssumption
<1>. QED  BY <1>3, Quotient DEF Share

LEMMA DistanceIsNatural == ASSUME NEW a \in Nat, NEW b \in Nat PROVE Distance(a, b) \in Nat
BY DEF Distance

LEMMA WebIsFinite ==
  ASSUME web \in Webs
  PROVE  IsFiniteSet(web) /\ web \in SUBSET (Pages \X Pages)
<1>1. web \in SUBSET (Pages \X Pages)
  BY RankAssumption
<1>2. IsFiniteSet(Pages \X Pages)
  BY CountsPages, FS_Product
<1>. QED  BY <1>1, <1>2, FS_Subset

(* Messages are summed by what they share.                                   *)
LEMMA ArrivedIsNatural ==
  ASSUME NEW some, IsFiniteSet(some), \A c \in some : c.share \in Nat
  PROVE  Arrived(some) \in Nat
<1>. DEFINE f == [c \in some |-> c.share]
<1>1. DOMAIN f = some /\ \A c \in some : f[c] \in Nat
  OBVIOUS
<1>. HIDE DEF f
<1>2. SumFunctionOnSet(f, some) \in Nat
  BY <1>1, SumIsNatural
<1>. QED  BY <1>1, <1>2 DEF Arrived, SumFunction, f

LEMMA ReceivedAdds ==
  ASSUME NEW into, NEW sent, NEW p \in DOMAIN into
  PROVE  Received(into, sent)[p] = into[p] + Arrived({c \in sent : c.to = p})
BY DEF Received, Arrived

LEMMA ReceivedType ==
  ASSUME NEW S, NEW into \in [S -> Nat], NEW sent, IsFiniteSet(sent), \A c \in sent : c.share \in Nat
  PROVE  Received(into, sent) \in [S -> Nat]
<1>1. ASSUME NEW p \in S PROVE Received(into, sent)[p] \in Nat
  <2>1. IsFiniteSet({c \in sent : c.to = p})
    BY FS_Subset
  <2>2. Arrived({c \in sent : c.to = p}) \in Nat
    BY <2>1, ArrivedIsNatural
  <2>3. p \in DOMAIN into /\ into[p] \in Nat
    OBVIOUS
  <2>4. Received(into, sent)[p] = into[p] + Arrived({c \in sent : c.to = p})
    BY <2>3, ReceivedAdds
  <2>. QED  BY <2>2, <2>3, <2>4
<1>2. Received(into, sent) = [p \in S |-> Received(into, sent)[p]]
  BY DEF Received
<1>. QED  BY <1>1, <1>2

LEMMA ContributionsType ==
  ASSUME web \in Webs, NEW s, shard[s].ranker.ranks \in [Owned(s) -> Nat]
  PROVE  /\ IsFiniteSet(Contributions(s))
         /\ Contributions(s) \subseteq [from : Owned(s), to : Pages, share : Nat]
<1>. DEFINE ranks == shard[s].ranker.ranks
            message(l) == [from |-> l[1], to |-> l[2], share |-> Share(web, ranks[l[1]], l[1])]
            mine == {l \in web : l[1] \in Owned(s) /\ l[1] # l[2]}
            h == [l \in mine |-> message(l)]
<1>1. Contributions(s) = {h[l] : l \in mine}
  BY DEF Contributions
<1>2. IsFiniteSet(mine)
  BY WebIsFinite, FS_Subset
<1>3. IsFiniteSet({h[l] : l \in mine})
  <2>. HIDE DEF h, mine
  <2>. QED  BY <1>2, FiniteImage
<1>4. ASSUME NEW l \in mine PROVE message(l) \in [from : Owned(s), to : Pages, share : Nat]
  <2>1. l = <<l[1], l[2]>> /\ l[1] \in Pages /\ l[2] \in Pages /\ l[1] # l[2] /\ l[1] \in Owned(s)
    BY WebIsFinite
  <2>2. ranks[l[1]] \in Nat
    BY <2>1
  <2>3. <<l[1], l[2]>> \in web
    BY <2>1
  <2>4. Share(web, ranks[l[1]], l[1]) \in Nat
    BY <2>1, <2>2, <2>3, WebIsFinite, ShareIsNatural
  <2>. QED  BY <2>1, <2>4
<1>. QED  BY <1>1, <1>3, <1>4

-----------------------------------------------------------------------------
(* Types.  A run's mail is finite and of natural shares, and a run that has  *)
(* not led yet has iterated nothing.                                         *)

RunType(x) ==
  /\ IsRun(x) /\ x.pc \in Phases /\ x.at \in Shards
  /\ x.iteration \in 0..MaxIterations /\ x.converged \in BOOLEAN
  /\ x.dangling \in Nat /\ x.residual \in Nat
  /\ \A s \in Shards : /\ IsFiniteSet(x.mail[s]) /\ x.mail[s] \subseteq Messages
                       /\ \A c \in x.mail[s] : owner[c.to] = s
  /\ x.pc \in {"connect", "init"} => x.iteration = 0 /\ x.converged = FALSE

RunTypes == \A r \in Runs : RunType(run[r])
WorldType == web \in Webs /\ owner \in Partitions
ShardTypes ==
  \A s \in Shards : /\ shard[s].graph \in BOOLEAN
                    /\ shard[s].ranker \in RankerType(s) \cup {None}
                    /\ shard[s].graph <=> shard[s].ranker = None
                    /\ holder[s] # None <=> Ready(s)
LinkTypes ==
  /\ link \in [Runs -> [Shards -> {"none", "open", "broken"}]]
  /\ restarts \in 0..MaxRestarts /\ cuts \in 0..MaxCuts
Types == RankInv /\ WorldType /\ RunTypes /\ ShardTypes /\ LinkTypes

LEMMA TypesHold == Types => TypeOK
BY DEF Types, WorldType, RunTypes, RunType, ShardTypes, LinkTypes, TypeOK, RankInv, ShardsShaped

LEMMA TypesBegin == Init => Types
<1>. SUFFICES ASSUME Init PROVE Types
  OBVIOUS
<1>1. RankInv
  BY InvBegins
<1>2. 1 \in Shards
  BY RankingAssumption DEF Shards
<1>3. RunType(Start)
  BY <1>2, RankAssumption, FS_EmptySet DEF RunType, Start, IsRun, Phases, NoMail
<1>4. RunTypes
  BY <1>3 DEF Init, RunTypes
<1>5. ShardTypes
  BY DEF Init, ShardTypes, Ready
<1>6. WorldType /\ LinkTypes
  BY RankingAssumption DEF Init, WorldType, LinkTypes
<1>. QED  BY <1>1, <1>4, <1>5, <1>6 DEF Types

World == <<web, owner>>

LEMMA SameWorld ==
  ASSUME Types, UNCHANGED World
  PROVE  /\ WorldType' /\ web' = web /\ owner' = owner
         /\ \A s : Owned(s)' = Owned(s)
         /\ \A s : RankerType(s)' = RankerType(s)
         /\ \A x : RunType(x) => RunType(x)'
<1>1. web' = web /\ owner' = owner
  BY DEF World
<1>. QED  BY <1>1 DEF Types, WorldType, Owned, RankerType, RunType

(* A step of one run.                                                        *)
LEMMA RunStepTypes ==
  ASSUME Types, NEW r \in Runs, NEW x, RunType(x), run' = [run EXCEPT ![r] = x], UNCHANGED World
  PROVE  RunTypes'
<1>1. \A q \in Runs : run'[q] = IF q = r THEN x ELSE run[q]
  BY DEF Types, RankInv, RunsShaped
<1>2. \A q \in Runs : RunType(run'[q])
  BY <1>1 DEF Types, RunTypes
<1>3. \A y : RunType(y) => \A q \in Runs : y = run'[q] => RunType(run[q])'
  BY SameWorld
<1>. QED  BY <1>2, <1>3 DEF RunTypes

LEMMA FailsTypes ==
  ASSUME Types, NEW r \in Runs, Fails(r), UNCHANGED World
  PROVE  RunTypes'
<1>1. PICK x : x = [run[r] EXCEPT !.pc = "failed"]
  OBVIOUS
<1>2. RunType(run[r])
  BY DEF Types, RunTypes
<1>3. RunType(x)
  BY <1>1, <1>2 DEF RunType, IsRun, Phases
<1>. QED  BY <1>1, <1>3, RunStepTypes DEF Fails

LEMMA AnsweredTypes ==
  ASSUME Types, NEW r \in Runs, NEW x, RunType(x), Answered(r, x), UNCHANGED World, UNCHANGED restarts
  PROVE  RunTypes' /\ LinkTypes'
<1>1. CASE run' = [run EXCEPT ![r] = x] /\ UNCHANGED <<link, cuts>>
  BY <1>1, RunStepTypes DEF Types, LinkTypes
<1>2. CASE /\ cuts < MaxCuts /\ cuts' = cuts + 1
           /\ link' = [link EXCEPT ![r][run[r].at] = "broken"]
           /\ Fails(r)
  <2>1. run[r].at \in Shards
    BY DEF Types, RankInv, RunsShaped
  <2>2. LinkTypes'
    BY <1>2, <2>1, RankingAssumption DEF Types, LinkTypes
  <2>. QED  BY <1>2, <2>2, FailsTypes
<1>. QED  BY <1>1, <1>2 DEF Answered

LEMMA BeyondType ==
  ASSUME Types, NEW r \in Runs, NEW x, RunType(x), x.at = run[r].at, NEW then, RunType(then)
  PROVE  RunType(Beyond(r, x, then))
<1>1. CASE run[r].at < ShardCount
  <2>1. PICK y : y = [x EXCEPT !.at = x.at + 1]
    OBVIOUS
  <2>2. x.at + 1 \in Shards
    BY <1>1, RankingAssumption DEF RunType, Shards
  <2>3. RunType(y)
    BY <2>1, <2>2 DEF RunType, IsRun
  <2>. QED  BY <1>1, <2>1, <2>3 DEF Beyond
<1>2. CASE ~(run[r].at < ShardCount)
  BY <1>2 DEF Beyond
<1>. QED  BY <1>1, <1>2

LEMMA NextIterationType ==
  ASSUME NEW x, RunType(x), NEW y, y = NextIteration(x) PROVE RunType(y)
<1>0. 1 \in Shards
  BY RankingAssumption DEF Shards
<1>1. CASE x.iteration < MaxIterations
  <2>1. y = [x EXCEPT !.pc = "dangling", !.at = 1, !.iteration = x.iteration + 1, !.dangling = 0,
                      !.mail = NoMail, !.residual = 0]
    BY <1>1 DEF NextIteration, Iterating
  <2>2. x.iteration + 1 \in 0..MaxIterations
    BY <1>1, RankAssumption DEF RunType
  <2>3. /\ IsRun(y) /\ y.pc = "dangling" /\ y.at = 1 /\ y.iteration = x.iteration + 1
        /\ y.dangling = 0 /\ y.residual = 0 /\ y.mail = NoMail /\ y.converged = x.converged
    BY <2>1 DEF RunType, IsRun
  <2>4. \A s \in Shards : /\ IsFiniteSet(y.mail[s]) /\ y.mail[s] \subseteq Messages
                           /\ \A c \in y.mail[s] : owner[c.to] = s
    BY <2>3, FS_EmptySet DEF NoMail
  <2>5. x.converged \in BOOLEAN
    BY DEF RunType
  <2>6. y.pc \in Phases /\ y.pc \notin {"connect", "init"} /\ y.dangling \in Nat /\ y.residual \in Nat
    BY <2>3 DEF Phases
  <2>7. y.converged \in BOOLEAN /\ y.at \in Shards /\ y.iteration \in 0..MaxIterations /\ IsRun(y)
    BY <1>0, <2>2, <2>3, <2>5
  <2>. QED  BY <2>4, <2>6, <2>7 DEF RunType
<1>2. CASE ~(x.iteration < MaxIterations)
  <2>1. y = [x EXCEPT !.pc = "results", !.at = 1]
    BY <1>2 DEF NextIteration, Concluding
  <2>. QED  BY <1>0, <2>1 DEF RunType, IsRun, Phases
<1>. QED  BY <1>1, <1>2

LEMMA EndedType == ASSUME NEW x, RunType(x), x.pc = "apply", NEW y, y = Ended(x) PROVE RunType(y)
<1>0. 1 \in Shards
  BY RankingAssumption DEF Shards
<1>1. CASE Converges(x)
  <2>1. y = [x EXCEPT !.converged = TRUE, !.pc = "results", !.at = 1]
    BY <1>1 DEF Ended, Concluding, RunType, IsRun
  <2>. QED  BY <1>0, <2>1 DEF RunType, IsRun, Phases
<1>2. CASE ~Converges(x)
  BY <1>2, NextIterationType DEF Ended
<1>. QED  BY <1>1, <1>2

-----------------------------------------------------------------------------
(* Every step keeps the types.                                               *)

LEMMA SameShards ==
  ASSUME Types, UNCHANGED World, UNCHANGED <<shard, holder>> PROVE ShardTypes'
BY SameWorld DEF Types, ShardTypes, Ready

LEMMA StepIsTyped ==
  ASSUME Types, [Next]_rankVars, UNCHANGED World, RunTypes', ShardTypes', LinkTypes'
  PROVE  Types'
BY InvKept, SameWorld DEF Types

LEMMA ConnectTypes == ASSUME Types, NEW r \in Runs, Connect(r) PROVE RunTypes' /\ ShardTypes' /\ LinkTypes'
<1>0. RunType(run[r]) /\ run[r].at \in Shards /\ 1 \in Shards
  BY RankingAssumption DEF Types, RunTypes, RunType, Shards
<1>1. PICK y : y = [run[r] EXCEPT !.pc = "init", !.at = 1]
  OBVIOUS
<1>2. /\ run[r].pc = "connect" /\ run' = [run EXCEPT ![r] = Beyond(r, run[r], y)]
      /\ link' = [link EXCEPT ![r][run[r].at] = "open"]
      /\ UNCHANGED World /\ UNCHANGED <<shard, holder>> /\ UNCHANGED <<restarts, cuts>>
  BY <1>1 DEF Connect, World
<1>3. RunType(y)
  BY <1>0, <1>1, <1>2 DEF RunType, IsRun, Phases
<1>4. RunType(Beyond(r, run[r], y))
  BY <1>0, <1>3, BeyondType
<1>5. LinkTypes'
  BY <1>0, <1>2 DEF Types, LinkTypes
<1>. QED  BY <1>2, <1>4, <1>5, RunStepTypes, SameShards

LEMMA NewRankerType == ASSUME Types, NEW s \in Shards PROVE NewRanker(s) \in RankerType(s)
BY UniformIsNatural DEF NewRanker, RankerType, Nothing, Owned

LEMMA RankersAreNotNone == ASSUME NEW s \in Shards, NEW k \in RankerType(s) PROVE k # None
<1>1. Owned(s) \in SUBSET Pages
  BY DEF Owned
<1>2. k \in Rankers
  BY <1>1 DEF RankerType, Rankers, Vectors
<1>. QED  BY <1>2, RankingAssumption

LEMMA ShardStepTypes ==
  ASSUME Types, UNCHANGED World, holder' = holder, NEW s \in Shards, Ready(s),
         shard' = [shard EXCEPT ![s] = shard'[s]],
         shard'[s].graph = shard[s].graph, shard'[s].ranker \in RankerType(s)
  PROVE  ShardTypes'
<1>1. \A u \in Shards : u # s => shard'[u] = shard[u]
  BY DEF Types, RankInv, ShardsShaped
<1>2. shard'[s].ranker # None
  BY RankersAreNotNone
<1>. QED  BY <1>1, <1>2, SameWorld DEF Types, ShardTypes, Ready

LEMMA InitShardTypes == ASSUME Types, NEW r \in Runs, InitShard(r) PROVE RunTypes' /\ ShardTypes' /\ LinkTypes'
<1>. DEFINE s == run[r].at
<1>0. RunType(run[r]) /\ s \in Shards /\ UNCHANGED World
  BY DEF Types, RunTypes, RunType, InitShard, World, Refused
<1>1. CASE Refused(r)
  BY <1>0, <1>1, FailsTypes, SameShards DEF Refused, Types, LinkTypes
<1>2. CASE /\ shard[s].graph /\ shard' = Initialised(s) /\ holder' = [holder EXCEPT ![s] = r]
           /\ Answered(r, Beyond(r, run[r], NextIteration(run[r]))) /\ UNCHANGED restarts
  <2>1. RunType(NextIteration(run[r]))
    BY <1>0, NextIterationType
  <2>2. RunType(Beyond(r, run[r], NextIteration(run[r])))
    BY <1>0, <2>1, BeyondType
  <2>3. RunTypes' /\ LinkTypes'
    BY <1>0, <1>2, <2>2, AnsweredTypes
  <2>4. \A u \in Shards : u # s => shard'[u] = shard[u] /\ holder'[u] = holder[u]
    BY <1>2 DEF Initialised, Types, RankInv, ShardsShaped
  <2>5. shard'[s].graph = FALSE /\ shard'[s].ranker = NewRanker(s) /\ holder'[s] = r
    BY <1>0, <1>2 DEF Initialised, Types, RankInv, ShardsShaped
  <2>6. NewRanker(s) \in RankerType(s) /\ NewRanker(s) # None /\ r # None
    BY <1>0, NewRankerType, RankersAreNotNone, RankingAssumption
  <2>. HIDE DEF s
  <2>7. ShardTypes'
    BY <1>0, <2>4, <2>5, <2>6, SameWorld DEF Types, ShardTypes, Ready
  <2>. QED  BY <2>3, <2>7
<1>. QED  BY <1>1, <1>2 DEF InitShard

LEMMA DanglingIsNatural ==
  ASSUME NEW S \in SUBSET Pages, NEW ranks \in [S -> Nat], NEW l PROVE Dangling(l, ranks, S) \in Nat
<1>1. IsFiniteSet({p \in S : Outlinks(l, p) = {}})
  BY CountsPages, FS_Subset
<1>. QED  BY <1>1, SumIsNatural DEF Dangling

LEMMA RankerHeld ==
  ASSUME Types, NEW s \in Shards, Ready(s)
  PROVE  /\ shard[s].ranker \in RankerType(s)
         /\ shard[s].ranker.ranks \in [Owned(s) -> Nat] /\ shard[s].ranker.incoming \in [Owned(s) -> Nat]
         /\ Owned(s) \in SUBSET Pages
BY DEF Types, ShardTypes, Ready, RankerType, Owned

LEMMA AskDanglingTypes == ASSUME Types, NEW r \in Runs, AskDangling(r) PROVE RunTypes' /\ ShardTypes' /\ LinkTypes'
<1>. DEFINE s == run[r].at
<1>0. RunType(run[r]) /\ s \in Shards /\ 1 \in Shards /\ Ready(s)
  BY RankingAssumption DEF Types, RunTypes, RunType, Shards, AskDangling
<1>1. PICK d : d = Dangling(web, shard[s].ranker.ranks, Owned(s))
  OBVIOUS
<1>2. d \in Nat
  BY <1>0, <1>1, RankerHeld, DanglingIsNatural
<1>3. PICK x : x = [run[r] EXCEPT !.dangling = run[r].dangling + d]
  OBVIOUS
<1>4. PICK y : y = [x EXCEPT !.pc = "emit", !.at = 1]
  OBVIOUS
<1>5. /\ Answered(r, Beyond(r, x, y)) /\ UNCHANGED World /\ UNCHANGED <<shard, holder>>
      /\ UNCHANGED restarts
  BY <1>1, <1>3, <1>4 DEF AskDangling, World
<1>6. RunType(x) /\ x.at = run[r].at
  BY <1>0, <1>2, <1>3 DEF RunType, IsRun
<1>7. RunType(y)
  BY <1>0, <1>4, <1>6 DEF RunType, IsRun, Phases
<1>8. RunType(Beyond(r, x, y))
  BY <1>6, <1>7, BeyondType
<1>. QED  BY <1>5, <1>8, AnsweredTypes, SameShards

(* A shard whose ranks or whose accumulated contributions are replaced.      *)
LEMMA IncomingTypes ==
  ASSUME Types, UNCHANGED World, holder' = holder, NEW s \in Shards, Ready(s),
         NEW v \in [Owned(s) -> Nat], shard' = [shard EXCEPT ![s].ranker.incoming = v]
  PROVE  /\ ShardTypes'
         /\ shard'[s].ranker.ranks = shard[s].ranker.ranks /\ shard'[s].ranker.incoming = v
         /\ \A u \in Shards : u # s => shard'[u] = shard[u]
<1>1. PICK k : k = [shard[s] EXCEPT !.ranker.incoming = v]
  OBVIOUS
<1>2. shard' = [shard EXCEPT ![s] = k]
  BY <1>1
<1>3. shard'[s] = k /\ \A u \in Shards : u # s => shard'[u] = shard[u]
  BY <1>2 DEF Types, RankInv, ShardsShaped
<1>4. k.graph = shard[s].graph /\ k.ranker = [shard[s].ranker EXCEPT !.incoming = v]
  BY <1>1 DEF Types, RankInv, ShardsShaped, IsShard
<1>5. /\ shard[s].ranker = [ranks |-> shard[s].ranker.ranks, incoming |-> shard[s].ranker.incoming]
      /\ shard[s].ranker.ranks \in [Owned(s) -> Nat]
  BY RankerHeld DEF RankerType
<1>6. k.ranker = [ranks |-> shard[s].ranker.ranks, incoming |-> v]
  BY <1>4, <1>5
<1>7. k.ranker \in RankerType(s)
  BY <1>5, <1>6 DEF RankerType
<1>8. ShardTypes'
  BY <1>2, <1>3, <1>4, <1>7, ShardStepTypes
<1>. QED  BY <1>3, <1>6, <1>8

LEMMA RanksTypes ==
  ASSUME Types, UNCHANGED World, holder' = holder, NEW s \in Shards, Ready(s),
         NEW v \in [Owned(s) -> Nat], shard' = [shard EXCEPT ![s].ranker.ranks = v]
  PROVE  /\ ShardTypes'
         /\ shard'[s].ranker.incoming = shard[s].ranker.incoming /\ shard'[s].ranker.ranks = v
         /\ \A u \in Shards : u # s => shard'[u] = shard[u]
<1>1. PICK k : k = [shard[s] EXCEPT !.ranker.ranks = v]
  OBVIOUS
<1>2. shard' = [shard EXCEPT ![s] = k]
  BY <1>1
<1>3. shard'[s] = k /\ \A u \in Shards : u # s => shard'[u] = shard[u]
  BY <1>2 DEF Types, RankInv, ShardsShaped
<1>4. k.graph = shard[s].graph /\ k.ranker = [shard[s].ranker EXCEPT !.ranks = v]
  BY <1>1 DEF Types, RankInv, ShardsShaped, IsShard
<1>5. /\ shard[s].ranker = [ranks |-> shard[s].ranker.ranks, incoming |-> shard[s].ranker.incoming]
      /\ shard[s].ranker.incoming \in [Owned(s) -> Nat]
  BY RankerHeld DEF RankerType
<1>6. k.ranker = [ranks |-> v, incoming |-> shard[s].ranker.incoming]
  BY <1>4, <1>5
<1>7. k.ranker \in RankerType(s)
  BY <1>5, <1>6 DEF RankerType
<1>8. ShardTypes'
  BY <1>2, <1>3, <1>4, <1>7, ShardStepTypes
<1>. QED  BY <1>3, <1>6, <1>8

LEMMA EmittedIncoming ==
  ASSUME Types, NEW s \in Shards, Ready(s)
  PROVE  Received(Nothing(s), {c \in Contributions(s) : Keeps(s, c)}) \in [Owned(s) -> Nat]
<1>1. IsFiniteSet(Contributions(s)) /\ \A c \in Contributions(s) : c.share \in Nat
  BY RankerHeld, ContributionsType DEF Types, WorldType
<1>2. IsFiniteSet({c \in Contributions(s) : Keeps(s, c)})
  BY <1>1, FS_Subset
<1>3. Nothing(s) \in [Owned(s) -> Nat]
  BY DEF Nothing
<1>. QED  BY <1>1, <1>2, <1>3, ReceivedType

LEMMA AskEmitTypes == ASSUME Types, NEW r \in Runs, AskEmit(r) PROVE RunTypes' /\ ShardTypes' /\ LinkTypes'
<1>. DEFINE s == run[r].at
<1>0. RunType(run[r]) /\ s \in Shards /\ 1 \in Shards /\ Ready(s)
  BY RankingAssumption DEF Types, RunTypes, RunType, Shards, AskEmit
<1>1. PICK mail : mail = [d \in Shards |-> run[r].mail[d] \cup {c \in Outgoing(s) : owner[c.to] = d}]
  OBVIOUS
<1>2. \A d \in Shards : /\ IsFiniteSet(mail[d]) /\ mail[d] \subseteq Messages
                        /\ \A c \in mail[d] : owner[c.to] = d
  <2>. SUFFICES ASSUME NEW d \in Shards
                PROVE  /\ IsFiniteSet(mail[d]) /\ mail[d] \subseteq Messages
                       /\ \A c \in mail[d] : owner[c.to] = d
    OBVIOUS
  <2>1. IsFiniteSet(Contributions(s)) /\ Contributions(s) \subseteq [from : Owned(s), to : Pages, share : Nat]
    BY <1>0, RankerHeld, ContributionsType DEF Types, WorldType
  <2>2. /\ {c \in Outgoing(s) : owner[c.to] = d} \in SUBSET Contributions(s)
        /\ {c \in Outgoing(s) : owner[c.to] = d} \subseteq Messages
    BY <2>1, <1>0, RankerHeld DEF Outgoing, Messages
  <2>3. IsFiniteSet({c \in Outgoing(s) : owner[c.to] = d})
    BY <2>1, <2>2, FS_Subset
  <2>4. IsFiniteSet(mail[d])
    BY <1>0, <1>1, <2>3, FS_Union DEF RunType
  <2>. QED  BY <1>0, <1>1, <2>2, <2>4 DEF RunType
<1>3. PICK x : x = [run[r] EXCEPT !.mail = mail]
  OBVIOUS
<1>4. PICK y : y = [x EXCEPT !.pc = "absorb", !.at = 1]
  OBVIOUS
<1>5. /\ Answered(r, Beyond(r, x, y)) /\ UNCHANGED World /\ UNCHANGED restarts
      /\ shard' = Emitted(s) /\ holder' = holder
  BY <1>1, <1>3, <1>4 DEF AskEmit, World
<1>6. IsRun(x) /\ x.mail = mail /\ x.at = run[r].at /\ RunType(x)
  BY <1>0, <1>2, <1>3 DEF RunType, IsRun
<1>7. RunType(y)
  BY <1>0, <1>4, <1>6 DEF RunType, IsRun, Phases
<1>8. RunType(Beyond(r, x, y))
  BY <1>6, <1>7, BeyondType
<1>9. PICK v : v = Received(Nothing(s), {c \in Contributions(s) : Keeps(s, c)})
  OBVIOUS
<1>10. shard' = [shard EXCEPT ![s].ranker.incoming = v]
  BY <1>5, <1>9 DEF Emitted
<1>11. v \in [Owned(s) -> Nat]
  BY <1>0, <1>9, EmittedIncoming
<1>. QED  BY <1>0, <1>5, <1>8, <1>10, <1>11, AnsweredTypes, IncomingTypes

LEMMA AskAbsorbTypes == ASSUME Types, NEW r \in Runs, AskAbsorb(r) PROVE RunTypes' /\ ShardTypes' /\ LinkTypes'
<1>. DEFINE s == run[r].at
<1>0. RunType(run[r]) /\ s \in Shards /\ 1 \in Shards /\ Ready(s)
  BY RankingAssumption DEF Types, RunTypes, RunType, Shards, AskAbsorb
<1>1. PICK y : y = [run[r] EXCEPT !.pc = "apply", !.at = 1]
  OBVIOUS
<1>2. PICK v : v = Received(shard[s].ranker.incoming, run[r].mail[s])
  OBVIOUS
<1>3. /\ Answered(r, Beyond(r, run[r], y)) /\ UNCHANGED World /\ UNCHANGED restarts
      /\ shard' = Absorbed(s, run[r].mail[s]) /\ holder' = holder
  BY <1>1 DEF AskAbsorb, World
<1>4. RunType(y)
  BY <1>0, <1>1 DEF RunType, IsRun, Phases
<1>5. RunType(Beyond(r, run[r], y))
  BY <1>0, <1>4, BeyondType
<1>6. shard' = [shard EXCEPT ![s].ranker.incoming = v]
  BY <1>2, <1>3 DEF Absorbed
<1>7. /\ IsFiniteSet(run[r].mail[s]) /\ \A c \in run[r].mail[s] : c.share \in Nat
      /\ shard[s].ranker.incoming \in [Owned(s) -> Nat]
  BY <1>0, RankerHeld DEF RunType, Messages
<1>8. v \in [Owned(s) -> Nat]
  BY <1>2, <1>7, ReceivedType
<1>. QED  BY <1>0, <1>3, <1>5, <1>6, <1>8, AnsweredTypes, IncomingTypes

LEMMA SteppedType ==
  ASSUME Types, NEW s \in Shards, Ready(s), NEW d \in Nat
  PROVE  Stepped(s, d) \in [Owned(s) -> Nat] /\ Residual(s, d) \in Nat
<1>1. shard[s].ranker.ranks \in [Owned(s) -> Nat] /\ shard[s].ranker.incoming \in [Owned(s) -> Nat]
  BY RankerHeld
<1>2. Stepped(s, d) \in [Owned(s) -> Nat]
  BY <1>1, BaseIsNatural DEF Stepped
<1>. DEFINE f == [p \in Owned(s) |-> Distance(shard[s].ranker.ranks[p], Stepped(s, d)[p])]
<1>3. DOMAIN f = Owned(s) /\ \A p \in Owned(s) : f[p] \in Nat
  BY <1>1, <1>2, DistanceIsNatural
<1>4. IsFiniteSet(Owned(s))
  BY CountsPages, RankerHeld, FS_Subset
<1>. HIDE DEF f
<1>5. SumFunctionOnSet(f, Owned(s)) \in Nat
  BY <1>3, <1>4, SumIsNatural
<1>6. Residual(s, d) = SumFunctionOnSet(f, Owned(s))
  BY <1>3 DEF Residual, SumFunction, f
<1>. QED  BY <1>2, <1>5, <1>6

LEMMA AskApplyTypes == ASSUME Types, NEW r \in Runs, AskApply(r) PROVE RunTypes' /\ ShardTypes' /\ LinkTypes'
<1>. DEFINE s == run[r].at
<1>0. RunType(run[r]) /\ s \in Shards /\ 1 \in Shards /\ Ready(s) /\ run[r].pc = "apply"
  BY RankingAssumption DEF Types, RunTypes, RunType, Shards, AskApply, Calls
<1>1. PICK x : x = [run[r] EXCEPT !.residual = run[r].residual + Residual(s, run[r].dangling)]
  OBVIOUS
<1>2. PICK y : y = Ended(x)
  OBVIOUS
<1>3. /\ Answered(r, Beyond(r, x, y)) /\ UNCHANGED World /\ UNCHANGED restarts
      /\ shard' = Applied(s, run[r].dangling) /\ holder' = holder
  BY <1>1, <1>2 DEF AskApply, World
<1>4. run[r].dangling \in Nat
  BY <1>0 DEF RunType
<1>5. Stepped(s, run[r].dangling) \in [Owned(s) -> Nat] /\ Residual(s, run[r].dangling) \in Nat
  BY <1>0, <1>4, SteppedType
<1>6. RunType(x) /\ x.at = run[r].at /\ x.pc = "apply"
  BY <1>0, <1>1, <1>5 DEF RunType, IsRun
<1>7. RunType(y)
  BY <1>2, <1>6, EndedType
<1>8. RunType(Beyond(r, x, y))
  BY <1>6, <1>7, BeyondType
<1>9. PICK v : v = Stepped(s, run[r].dangling)
  OBVIOUS
<1>10. shard' = [shard EXCEPT ![s].ranker.ranks = v] /\ v \in [Owned(s) -> Nat]
  BY <1>3, <1>5, <1>9 DEF Applied
<1>. QED  BY <1>0, <1>3, <1>8, <1>10, AnsweredTypes, RanksTypes

LEMMA AskResultsTypes == ASSUME Types, NEW r \in Runs, AskResults(r) PROVE RunTypes' /\ ShardTypes' /\ LinkTypes'
<1>0. RunType(run[r])
  BY DEF Types, RunTypes
<1>1. PICK x : x = [run[r] EXCEPT !.ranks = Extended(run[r].ranks, shard[run[r].at].ranker.ranks)]
  OBVIOUS
<1>2. PICK y : y = [x EXCEPT !.pc = "done"]
  OBVIOUS
<1>3. /\ run[r].pc = "results" /\ Answered(r, Beyond(r, x, y)) /\ UNCHANGED World
      /\ UNCHANGED <<shard, holder>> /\ UNCHANGED restarts
  BY <1>1, <1>2 DEF AskResults, Calls, World
<1>4. RunType(x) /\ x.at = run[r].at /\ x.pc = "results"
  BY <1>0, <1>1, <1>3 DEF RunType, IsRun
<1>5. RunType(y)
  BY <1>2, <1>4 DEF RunType, IsRun, Phases
<1>6. RunType(Beyond(r, x, y))
  BY <1>4, <1>5, BeyondType
<1>. QED  BY <1>3, <1>6, AnsweredTypes, SameShards

LEMMA PassOverTypes == ASSUME Types, NEW r \in Runs, PassOver(r) PROVE RunTypes' /\ ShardTypes' /\ LinkTypes'
<1>0. RunType(run[r]) /\ 1 \in Shards
  BY RankingAssumption DEF Types, RunTypes, Shards
<1>1. PICK y : y = [run[r] EXCEPT !.pc = "apply", !.at = 1]
  OBVIOUS
<1>2. /\ run' = [run EXCEPT ![r] = Beyond(r, run[r], y)] /\ UNCHANGED World
      /\ UNCHANGED <<shard, holder>> /\ UNCHANGED <<link, restarts, cuts>>
  BY <1>1 DEF PassOver, World
<1>3. RunType(y)
  BY <1>0, <1>1 DEF RunType, IsRun, Phases
<1>4. RunType(Beyond(r, run[r], y))
  BY <1>0, <1>3, BeyondType
<1>5. LinkTypes'
  BY <1>2 DEF Types, LinkTypes
<1>. QED  BY <1>2, <1>4, <1>5, RunStepTypes, SameShards

LEMMA CallFailsTypes == ASSUME Types, NEW r \in Runs, CallFails(r) PROVE RunTypes' /\ ShardTypes' /\ LinkTypes'
<1>1. /\ Fails(r) /\ UNCHANGED World /\ UNCHANGED <<shard, holder>> /\ UNCHANGED <<link, restarts, cuts>>
  BY DEF CallFails, World
<1>2. LinkTypes'
  BY <1>1 DEF Types, LinkTypes
<1>. QED  BY <1>1, <1>2, FailsTypes, SameShards

LEMMA EnvironmentTypes ==
  ASSUME Types, (\E r \in Runs, s \in Shards : Cut(r, s)) \/ \E s \in Shards : Restart(s)
  PROVE  RunTypes' /\ ShardTypes' /\ LinkTypes'
<1>1. UNCHANGED World /\ run' = run
  BY DEF Cut, Restart, World
<1>2. RunTypes'
  BY <1>1, SameWorld DEF Types, RunTypes
<1>3. ASSUME NEW r \in Runs, NEW s \in Shards, Cut(r, s) PROVE ShardTypes' /\ LinkTypes'
  BY <1>1, <1>3, SameShards, RankingAssumption DEF Cut, Types, LinkTypes
<1>4. ASSUME NEW s \in Shards, Restart(s) PROVE ShardTypes' /\ LinkTypes'
  <2>1. /\ shard' = [shard EXCEPT ![s] = [graph |-> TRUE, ranker |-> None]]
        /\ holder' = [holder EXCEPT ![s] = None]
        /\ link' = [r \in Runs |-> [link[r] EXCEPT ![s] = IF link[r][s] = "open" THEN "broken" ELSE link[r][s]]]
        /\ restarts < MaxRestarts /\ restarts' = restarts + 1 /\ cuts' = cuts
    BY <1>4 DEF Restart
  <2>2. LinkTypes'
    BY <2>1, RankingAssumption DEF Types, LinkTypes
  <2>3. /\ \A u \in Shards : u # s => shard'[u] = shard[u] /\ holder'[u] = holder[u]
        /\ shard'[s].graph = TRUE /\ shard'[s].ranker = None /\ holder'[s] = None
    BY <2>1 DEF Types, RankInv, ShardsShaped
  <2>4. ShardTypes'
    BY <1>1, <2>3, SameWorld DEF Types, ShardTypes, Ready
  <2>. QED  BY <2>2, <2>4
<1>. QED  BY <1>2, <1>3, <1>4

LEMMA TypesKept == Types /\ [Next]_rankVars => Types'
<1>. SUFFICES ASSUME Types, [Next]_rankVars PROVE Types'
  OBVIOUS
<1>1. CASE UNCHANGED rankVars
  <2>1. UNCHANGED World /\ UNCHANGED <<shard, holder>> /\ run' = run /\ LinkTypes'
    BY <1>1 DEF rankVars, World, Types, LinkTypes
  <2>2. RunTypes'
    BY <2>1, SameWorld DEF Types, RunTypes
  <2>. QED  BY <2>1, <2>2, SameShards, StepIsTyped
<1>2. ASSUME NEW r \in Runs, Work(r) PROVE Types'
  <2>1. UNCHANGED World
    BY <1>2 DEF Work, Connect, InitShard, Refused, AskDangling, AskEmit, PassOver, AskAbsorb, AskApply,
                AskResults, CallFails, World
  <2>2. RunTypes' /\ ShardTypes' /\ LinkTypes'
    BY <1>2, ConnectTypes, InitShardTypes, AskDanglingTypes, AskEmitTypes, PassOverTypes,
       AskAbsorbTypes, AskApplyTypes, AskResultsTypes, CallFailsTypes DEF Work
  <2>. QED  BY <2>1, <2>2, StepIsTyped
<1>3. CASE (\E r \in Runs, s \in Shards : Cut(r, s)) \/ \E s \in Shards : Restart(s)
  <2>1. UNCHANGED World
    BY <1>3 DEF Cut, Restart, World
  <2>. QED  BY <1>3, <2>1, EnvironmentTypes, StepIsTyped
<1>. QED  BY <1>1, <1>2, <1>3 DEF Next

(* Every variable keeps its type, whatever breaks and restarts: a shard has *)
(* its graph or a ranker of natural ranks for just the pages it owns, and   *)
(* the mail a coordinator keeps for a shard is for that shard.              *)
THEOREM RankingTypeCorrect == Spec => []TypeOK
<1>1. Types /\ [Next]_rankVars => Types'
  BY TypesKept
<1>. QED  BY <1>1, TypesBegin, TypesHold, PTL DEF Spec

-----------------------------------------------------------------------------
(* Arrivals add up.                                                          *)

LEMMA ArrivedIsSum ==
  ASSUME NEW all, NEW some, some \subseteq all, IsFiniteSet(some)
  PROVE  Arrived(some) = SumFunctionOnSet([c \in all |-> c.share], some)
<1>. DEFINE f == [c \in some |-> c.share]
            g == [c \in all |-> c.share]
<1>1. DOMAIN f = some /\ \A c \in some : f[c] = g[c]
  OBVIOUS
<1>. HIDE DEF f, g
<1>2. SumFunctionOnSet(f, some) = SumFunctionOnSet(g, some)
  BY <1>1, SumOfSame
<1>. QED  BY <1>1, <1>2 DEF Arrived, SumFunction, f, g

LEMMA ArrivedOfBoth ==
  ASSUME NEW S, NEW T, IsFiniteSet(S), IsFiniteSet(T), S \cap T = {},
         \A c \in S \cup T : c.share \in Nat
  PROVE  Arrived(S \cup T) = Arrived(S) + Arrived(T)
<1>. DEFINE f == [c \in S \cup T |-> c.share]
<1>1. \A c \in S \cup T : f[c] \in Int
  OBVIOUS
<1>2. IsFiniteSet(S \cup T)
  BY FS_Union
<1>3. /\ Arrived(S) = SumFunctionOnSet(f, S) /\ Arrived(T) = SumFunctionOnSet(f, T)
      /\ Arrived(S \cup T) = SumFunctionOnSet(f, S \cup T)
  BY <1>2, ArrivedIsSum
<1>. HIDE DEF f
<1>. QED  BY <1>1, <1>3, SumOfBoth
-----------------------------------------------------------------------------
(* The run that leads is alone, and every shard is ready for it.             *)

AllReady == \A s \in Shards : Ready(s)

LEMMA LeaderHolds ==
  ASSUME Types, GatherInv, NEW r \in Leading
  PROVE  r \in Runs /\ Leads(r) /\ run[r].pc \in Led \cup {"done"} /\ AllReady
<1>1. r \in Runs /\ Leads(r) /\ run[r].pc # "failed"
  BY DEF Leading
<1>2. RunType(run[r]) /\ run[r].at \in Shards
  BY <1>1 DEF Types, RunTypes, RunType
<1>3. run[r].pc \notin {"connect", "init"}
  <2>1. holder[run[r].at] = r /\ ~(run[r].at < run[r].at)
    BY <1>1, <1>2 DEF Leads, Shards
  <2>. QED  BY <1>1, <1>2, <2>1 DEF GatherInv, Begun
<1>4. run[r].pc \in Led \cup {"done"}
  BY <1>1, <1>2, <1>3 DEF RunType, Phases, Led
<1>5. AllReady
  BY <1>1, RankingAssumption DEF Leads, AllReady, Types, ShardTypes
<1>. QED  BY <1>1, <1>4, <1>5

LEMMA OneLeader == ASSUME NEW r \in Leading, NEW q \in Leading PROVE q = r
<1>1. 1 \in Shards
  BY RankingAssumption DEF Shards
<1>. QED  BY <1>1 DEF Leading, Leads

LEMMA TheLeader == ASSUME NEW r \in Leading PROVE Leader = r
BY OneLeader DEF Leader

-----------------------------------------------------------------------------
(* The vector of all the shards and what flows along its links.              *)

LEMMA HeldType ==
  ASSUME Types, AllReady
  PROVE  /\ Held \in [Pages -> Nat] /\ \A p \in Pages : owner[p] \in Shards
         /\ \A s \in Shards : \A p \in Owned(s) : Held[p] = shard[s].ranker.ranks[p]
<1>1. \A p \in Pages : owner[p] \in Shards
  BY RankingAssumption DEF Types, WorldType
<1>2. ASSUME NEW p \in Pages PROVE shard[owner[p]].ranker.ranks[p] \in Nat
  <2>1. shard[owner[p]].ranker.ranks \in [Owned(owner[p]) -> Nat]
    BY <1>1, RankerHeld DEF AllReady
  <2>. QED  BY <2>1 DEF Owned
<1>. QED  BY <1>1, <1>2 DEF Held, Owned

LEMMA FlowType ==
  ASSUME Types, AllReady
  PROVE  IsFiniteSet(Flow) /\ Flow \subseteq Messages
<1>. DEFINE message(l) == [from |-> l[1], to |-> l[2], share |-> Share(web, Held[l[1]], l[1])]
            crossing == {l \in web : l[1] # l[2]}
            h == [l \in crossing |-> message(l)]
<1>0. web \in Webs
  BY DEF Types, WorldType
<1>1. Flow = {h[l] : l \in crossing}
  BY DEF Flow
<1>2. IsFiniteSet(crossing)
  BY <1>0, WebIsFinite, FS_Subset
<1>3. IsFiniteSet({h[l] : l \in crossing})
  <2>. HIDE DEF h, crossing
  <2>. QED  BY <1>2, FiniteImage
<1>4. ASSUME NEW l \in crossing PROVE message(l) \in Messages
  <2>1. l = <<l[1], l[2]>> /\ l[1] \in Pages /\ l[2] \in Pages /\ l[1] # l[2]
    BY <1>0, WebIsFinite
  <2>2. Held[l[1]] \in Nat
    BY <2>1, HeldType
  <2>3. <<l[1], l[2]>> \in web
    BY <2>1
  <2>4. Share(web, Held[l[1]], l[1]) \in Nat
    BY <1>0, <2>1, <2>2, <2>3, WebIsFinite, ShareIsNatural
  <2>. QED  BY <2>1, <2>4 DEF Messages
<1>. QED  BY <1>1, <1>3, <1>4

LEMMA ContributionsAreFlow ==
  ASSUME Types, AllReady, NEW s \in Shards
  PROVE  Contributions(s) = {c \in Flow : owner[c.from] = s}
<1>0. web \in Webs
  BY DEF Types, WorldType
<1>1. ASSUME NEW l \in web, l[1] # l[2]
      PROVE  l[1] \in Pages /\ (l[1] \in Owned(s) <=> owner[l[1]] = s)
  BY <1>0, WebIsFinite DEF Owned
<1>2. \A p \in Owned(s) : Held[p] = shard[s].ranker.ranks[p]
  BY HeldType
<1>3. ASSUME NEW c \in Contributions(s) PROVE c \in Flow /\ owner[c.from] = s
  <2>1. PICK l \in web : /\ l[1] \in Owned(s) /\ l[1] # l[2]
                         /\ c = [from |-> l[1], to |-> l[2],
                                 share |-> Share(web, shard[s].ranker.ranks[l[1]], l[1])]
    BY DEF Contributions
  <2>2. c = [from |-> l[1], to |-> l[2], share |-> Share(web, Held[l[1]], l[1])]
    BY <1>2, <2>1
  <2>. QED  BY <1>1, <2>1, <2>2 DEF Flow
<1>4. ASSUME NEW c \in Flow, owner[c.from] = s PROVE c \in Contributions(s)
  <2>1. PICK l \in web : /\ l[1] # l[2]
                         /\ c = [from |-> l[1], to |-> l[2], share |-> Share(web, Held[l[1]], l[1])]
    BY DEF Flow
  <2>2. l[1] \in Owned(s)
    BY <1>1, <1>4, <2>1
  <2>3. c = [from |-> l[1], to |-> l[2], share |-> Share(web, shard[s].ranker.ranks[l[1]], l[1])]
    BY <1>2, <2>1, <2>2
  <2>. QED  BY <2>1, <2>2, <2>3 DEF Contributions
<1>. QED  BY <1>3, <1>4

(* Every page's dead end is counted by the shard that owns it.               *)
LEMMA DanglingAddsUp ==
  ASSUME Types, AllReady
  PROVE  /\ DanglingBefore(1) = 0
         /\ \A s \in Shards : DanglingBefore(s + 1) =
              DanglingBefore(s) + Dangling(web, shard[s].ranker.ranks, Owned(s))
         /\ DanglingBefore(ShardCount + 1) = Dangling(web, Held, Pages)
<1>. DEFINE ends(k) == {p \in Pages : owner[p] < k /\ Outlinks(web, p) = {}}
<1>1. \A p \in Pages : owner[p] \in Shards /\ owner[p] \in Nat
  BY HeldType DEF Shards
<1>2. ends(1) = {}
  BY <1>1 DEF Shards
<1>3. DanglingBefore(1) = 0
  BY <1>2, SumOfNothing DEF DanglingBefore
<1>4. ASSUME NEW s \in Shards
      PROVE  DanglingBefore(s + 1) = DanglingBefore(s) + Dangling(web, shard[s].ranker.ranks, Owned(s))
  <2>. DEFINE mine == {p \in Owned(s) : Outlinks(web, p) = {}}
  <2>1. ends(s + 1) = ends(s) \cup mine /\ ends(s) \cap mine = {}
    BY <1>1 DEF Owned, Shards
  <2>2. IsFiniteSet(ends(s)) /\ IsFiniteSet(mine) /\ ends(s) \subseteq Pages /\ mine \subseteq Pages
    BY CountsPages, FS_Subset DEF Owned
  <2>3. \A p \in Pages : Held[p] \in Int
    BY HeldType
  <2>4. \A p \in mine : Held[p] = shard[s].ranker.ranks[p]
    BY HeldType
  <2>5. Dangling(web, shard[s].ranker.ranks, Owned(s)) = SumFunctionOnSet(shard[s].ranker.ranks, mine)
    BY DEF Dangling
  <2>6. DanglingBefore(s) = SumFunctionOnSet(Held, ends(s))
        /\ DanglingBefore(s + 1) = SumFunctionOnSet(Held, ends(s + 1))
    BY DEF DanglingBefore
  <2>. HIDE DEF ends, mine
  <2>7. SumFunctionOnSet(Held, mine) = SumFunctionOnSet(shard[s].ranker.ranks, mine)
    BY <2>2, <2>4, SumOfSame
  <2>8. SumFunctionOnSet(Held, ends(s) \cup mine) = SumFunctionOnSet(Held, ends(s)) + SumFunctionOnSet(Held, mine)
    BY <2>1, <2>2, <2>3, SumOfBoth
  <2>. QED  BY <2>1, <2>5, <2>6, <2>7, <2>8
<1>5. ends(ShardCount + 1) = {p \in Pages : Outlinks(web, p) = {}}
  BY <1>1, RankingAssumption DEF Shards
<1>. QED  BY <1>3, <1>4, <1>5 DEF DanglingBefore, Dangling

-----------------------------------------------------------------------------
(* What has been gathered depends on the ranks alone.                        *)

SameRanks == \A s \in Shards : shard'[s].ranker.ranks = shard[s].ranker.ranks

LEMMA SameGathering ==
  ASSUME Types, UNCHANGED World, SameRanks
  PROVE  /\ Held' = Held /\ Flow' = Flow
         /\ \A k : DanglingBefore(k)' = DanglingBefore(k)
         /\ \A k, s : SentBefore(k, s)' = SentBefore(k, s)
         /\ \A p : Into(p)' = Into(p) /\ KeptFor(p)' = KeptFor(p)
<1>1. web' = web /\ owner' = owner
  BY DEF World
<1>2. \A p \in Pages : owner[p] \in Shards
  BY RankingAssumption DEF Types, WorldType
<1>3. Held' = Held
  BY <1>1, <1>2 DEF Held, SameRanks
<1>4. Flow' = Flow
  BY <1>1, <1>3 DEF Flow
<1>. QED  BY <1>1, <1>3, <1>4 DEF DanglingBefore, SentBefore, Into, KeptFor

LEMMA GatheredStays ==
  ASSUME Types, UNCHANGED World, NEW r \in Runs, run'[r] = run[r], Gathered(run[r]),
         \A s \in Shards : shard'[s] = shard[s]
  PROVE  Gathered(run[r])'
<1>1. SameRanks
  BY DEF SameRanks
<1>2. \A p \in Pages : owner[p] \in Shards /\ owner'[p] = owner[p]
  BY RankingAssumption DEF Types, WorldType, World
<1>3. \A p \in Pages : Incoming(p)' = Incoming(p)
  BY <1>2 DEF Incoming
<1>. QED  BY <1>1, <1>2, <1>3, SameGathering DEF Gathered, Fresh, Arrived

(* The answer came, as the run did not fail.                                 *)
LEMMA AnswerCame ==
  ASSUME Types, NEW r \in Runs, NEW x, Answered(r, x), run'[r].pc # "failed"
  PROVE  run'[r] = x
<1>1. ~Fails(r)
  <2>1. run[r] = [run[r] EXCEPT !.pc = run[r].pc]
    BY DEF Types, RankInv, RunsShaped, IsRun
  <2>2. Fails(r) => run'[r].pc = "failed"
    BY DEF Fails, Types, RankInv, RunsShaped, IsRun
  <2>. QED  BY <2>2
<1>. QED  BY <1>1 DEF Answered, Types, RankInv, RunsShaped

(* A run that starts an iteration, or that collects, has all it needs.       *)
LEMMA IterationBegins ==
  ASSUME Types, UNCHANGED World, NEW r \in Runs, NEW x, IsRun(x), x.converged = FALSE,
         x.iteration \in Nat, run'[r] = NextIteration(x)
  PROVE  Gathered(run[r])'
<1>1. CASE x.iteration < MaxIterations
  <2>1. run'[r] = Iterating(x)
    BY <1>1 DEF NextIteration
  <2>2. /\ run'[r].pc = "dangling" /\ run'[r].at = 1 /\ run'[r].iteration = x.iteration + 1
        /\ run'[r].dangling = 0 /\ run'[r].mail = NoMail /\ run'[r].residual = 0
        /\ run'[r].converged = FALSE
    BY <2>1 DEF Iterating, IsRun
  <2>3. {p \in Pages : owner'[p] < 1 /\ Outlinks(web', p) = {}} = {}
    BY RankingAssumption DEF Types, WorldType, World, Shards
  <2>4. DanglingBefore(1)' = 0
    BY <2>3, SumOfNothing DEF DanglingBefore
  <2>. QED  BY <2>2, <2>4 DEF Gathered, Fresh
<1>2. CASE ~(x.iteration < MaxIterations)
  <2>1. run'[r] = Concluding(x)
    BY <1>2 DEF NextIteration
  <2>2. run'[r].pc = "results"
    BY <2>1 DEF Concluding, IsRun
  <2>. QED  BY <2>2 DEF Gathered, Fresh
<1>. QED  BY <1>1, <1>2

-----------------------------------------------------------------------------
(* What the leader gathers, question by question.                            *)

LEMMA GoesBeyond ==
  ASSUME Types, NEW r \in Runs, NEW x, IsRun(x), x.at = run[r].at, NEW then,
         NEW y, y = Beyond(r, x, then)
  PROVE  /\ run[r].at \in Shards /\ run[r].at \in 1..ShardCount /\ ShardCount \in Nat
         /\ \/ /\ run[r].at < ShardCount /\ run[r].at + 1 \in Shards
               /\ y.at = run[r].at + 1 /\ y.pc = x.pc /\ y.iteration = x.iteration
               /\ y.dangling = x.dangling /\ y.mail = x.mail /\ y.residual = x.residual
               /\ y.converged = x.converged
            \/ run[r].at = ShardCount /\ y = then
<1>1. run[r].at \in 1..ShardCount /\ ShardCount \in Nat
  BY RankingAssumption DEF Types, RankInv, RunsShaped, Shards
<1>2. CASE run[r].at < ShardCount
  <2>1. y = [x EXCEPT !.at = x.at + 1]
    BY <1>2 DEF Beyond
  <2>2. y.at = run[r].at + 1 /\ y.pc = x.pc /\ y.iteration = x.iteration /\ y.dangling = x.dangling
        /\ y.mail = x.mail /\ y.residual = x.residual /\ y.converged = x.converged
    BY <2>1 DEF IsRun
  <2>. QED  BY <1>1, <1>2, <2>2 DEF Shards
<1>3. CASE ~(run[r].at < ShardCount)
  <2>1. y = then
    BY <1>3 DEF Beyond
  <2>. QED  BY <1>1, <1>3, <2>1 DEF Shards
<1>. QED  BY <1>2, <1>3

LEMMA DanglingGathers ==
  ASSUME Types, AllReady, NEW r \in Runs, Gathered(run[r]), AskDangling(r), run'[r].pc # "failed"
  PROVE  Gathered(run[r])'
<1>. DEFINE s == run[r].at
<1>0. IsRun(run[r]) /\ RunType(run[r])
  BY DEF Types, RunTypes, RunType
<1>1. PICK d : d = Dangling(web, shard[s].ranker.ranks, Owned(s))
  OBVIOUS
<1>2. PICK x : x = [run[r] EXCEPT !.dangling = run[r].dangling + d]
  OBVIOUS
<1>3. PICK y : y = [x EXCEPT !.pc = "emit", !.at = 1]
  OBVIOUS
<1>4. PICK z : z = Beyond(r, x, y)
  OBVIOUS
<1>5. /\ run[r].pc = "dangling" /\ Answered(r, z) /\ UNCHANGED World
      /\ \A u \in Shards : shard'[u] = shard[u]
  BY <1>1, <1>2, <1>3, <1>4 DEF AskDangling, Calls, World
<1>6. run'[r] = z
  BY <1>5, AnswerCame
<1>7. /\ IsRun(x) /\ x.pc = "dangling" /\ x.at = s /\ x.iteration = run[r].iteration
      /\ x.dangling = run[r].dangling + d /\ x.mail = run[r].mail /\ x.residual = run[r].residual
      /\ x.converged = run[r].converged
  BY <1>0, <1>2, <1>5 DEF IsRun
<1>8. /\ y.pc = "emit" /\ y.at = 1 /\ y.iteration = x.iteration /\ y.dangling = x.dangling
      /\ y.mail = x.mail /\ y.residual = x.residual /\ y.converged = x.converged
  BY <1>3, <1>7 DEF IsRun
<1>9. /\ s \in Shards /\ s \in 1..ShardCount /\ ShardCount \in Nat
      /\ \/ /\ s < ShardCount /\ s + 1 \in Shards /\ z.at = s + 1 /\ z.pc = x.pc
            /\ z.iteration = x.iteration /\ z.dangling = x.dangling /\ z.mail = x.mail
            /\ z.residual = x.residual /\ z.converged = x.converged
         \/ s = ShardCount /\ z = y
  BY <1>4, <1>7, GoesBeyond
<1>10. /\ x.iteration > 0 /\ ~x.converged /\ x.residual = 0 /\ x.mail = NoMail
       /\ run[r].dangling = DanglingBefore(s)
  BY <1>5, <1>7 DEF Gathered, Fresh
<1>11. x.dangling = DanglingBefore(s + 1)
  BY <1>1, <1>7, <1>9, <1>10, DanglingAddsUp
<1>12. SameRanks
  BY <1>5 DEF SameRanks
<1>13. \A k : DanglingBefore(k)' = DanglingBefore(k)
  BY <1>5, <1>12, SameGathering
<1>14. CASE s < ShardCount /\ z.at = s + 1 /\ z.pc = x.pc /\ z.iteration = x.iteration
             /\ z.dangling = x.dangling /\ z.mail = x.mail
             /\ z.residual = x.residual /\ z.converged = x.converged
  BY <1>6, <1>7, <1>10, <1>11, <1>13, <1>14 DEF Gathered, Fresh
<1>15. CASE s = ShardCount /\ z = y
  <2>1. \A p \in Pages : owner'[p] \in Nat \ {0}
    BY <1>5, RankingAssumption DEF World, Types, WorldType, Shards
  <2>2. \A u \in Shards : SentBefore(1, u)' = {} /\ NoMail[u] = {}
    <3>1. \A c \in Flow : c.from \in Pages
      BY FlowType DEF Messages
    <3>2. Flow' = Flow
      BY <1>5, <1>12, SameGathering
    <3>. QED  BY <2>1, <3>1, <3>2 DEF SentBefore, NoMail
  <2>3. ~\E p \in Pages : owner'[p] < 1
    BY <2>1
  <2>. QED  BY <1>6, <1>8, <1>10, <1>11, <1>13, <1>15, <2>2, <2>3 DEF Gathered, Fresh
<1>. QED  BY <1>9, <1>14, <1>15

(* What a shard keeps for its pages and sends away is its part of the flow.  *)
LEMMA EmissionIsFlow ==
  ASSUME Types, AllReady, NEW s \in Shards
  PROVE  /\ \A d \in Shards : SentBefore(s + 1, d) =
              SentBefore(s, d) \cup {c \in Outgoing(s) : owner[c.to] = d}
         /\ \A p \in Owned(s) :
              Received(Nothing(s), {c \in Contributions(s) : Keeps(s, c)})[p] = Arrived(KeptFor(p))
<1>1. Contributions(s) = {c \in Flow : owner[c.from] = s}
  BY ContributionsAreFlow
<1>2. /\ IsFiniteSet(Flow)
      /\ \A c \in Flow : c.from \in Pages /\ c.to \in Pages /\ c.share \in Nat
  BY FlowType DEF Messages
<1>3. \A p \in Pages : owner[p] \in 1..ShardCount
  BY HeldType DEF Shards
<1>4. ASSUME NEW d \in Shards
      PROVE  SentBefore(s + 1, d) = SentBefore(s, d) \cup {c \in Outgoing(s) : owner[c.to] = d}
  <2>1. {c \in Outgoing(s) : owner[c.to] = d} =
        {c \in Flow : owner[c.from] = s /\ s # d /\ owner[c.to] = d}
    BY <1>1, <1>2 DEF Outgoing, Keeps, Owned
  <2>2. \A c \in Flow : owner[c.from] < s + 1 <=> owner[c.from] < s \/ owner[c.from] = s
    BY <1>2, <1>3 DEF Shards
  <2>. QED  BY <2>1, <2>2 DEF SentBefore
<1>5. ASSUME NEW p \in Owned(s)
      PROVE  Received(Nothing(s), {c \in Contributions(s) : Keeps(s, c)})[p] = Arrived(KeptFor(p))
  <2>1. p \in Pages /\ owner[p] = s /\ p \in DOMAIN Nothing(s) /\ Nothing(s)[p] = 0
    BY DEF Owned, Nothing
  <2>2. {c \in {c \in Contributions(s) : Keeps(s, c)} : c.to = p} = KeptFor(p)
    BY <1>1, <1>2, <2>1 DEF Keeps, KeptFor, Into, Owned
  <2>3. IsFiniteSet(KeptFor(p)) /\ \A c \in KeptFor(p) : c.share \in Nat
    BY <1>2, FS_Subset DEF KeptFor, Into
  <2>4. Arrived(KeptFor(p)) \in Nat
    BY <2>3, ArrivedIsNatural
  <2>. DEFINE kept == {c \in Contributions(s) : Keeps(s, c)}
  <2>. HIDE DEF kept
  <2>5. Received(Nothing(s), kept)[p] = 0 + Arrived({c \in kept : c.to = p})
    BY <2>1, ReceivedAdds
  <2>6. {c \in kept : c.to = p} = KeptFor(p)
    BY <2>2 DEF kept
  <2>. QED  BY <2>4, <2>5, <2>6 DEF kept
<1>. QED  BY <1>4, <1>5

(* With the mail for its shard, a page has all that flows into it.           *)
LEMMA MailCompletes ==
  ASSUME Types, AllReady, NEW p \in Pages
  PROVE  LET mail == {c \in SentBefore(ShardCount + 1, owner[p]) : c.to = p}
         IN /\ Into(p) = KeptFor(p) \cup mail
            /\ Arrived(Into(p)) = Arrived(KeptFor(p)) + Arrived(mail)
<1>. DEFINE mail == {c \in SentBefore(ShardCount + 1, owner[p]) : c.to = p}
<1>1. /\ IsFiniteSet(Flow)
      /\ \A c \in Flow : c.from \in Pages /\ c.to \in Pages /\ c.share \in Nat
  BY FlowType DEF Messages
<1>2. \A q \in Pages : owner[q] \in 1..ShardCount
  BY HeldType DEF Shards
<1>3. \A c \in Flow : owner[c.from] < ShardCount + 1
  BY <1>1, <1>2, RankingAssumption
<1>4. Into(p) = KeptFor(p) \cup mail /\ KeptFor(p) \cap mail = {}
  BY <1>3 DEF SentBefore, Into, KeptFor
<1>5. /\ IsFiniteSet(KeptFor(p)) /\ IsFiniteSet(mail)
      /\ \A c \in KeptFor(p) \cup mail : c.share \in Nat
  BY <1>1, FS_Subset DEF KeptFor, Into, SentBefore
<1>. HIDE DEF mail
<1>6. Arrived(KeptFor(p) \cup mail) = Arrived(KeptFor(p)) + Arrived(mail)
  BY <1>4, <1>5, ArrivedOfBoth
<1>. QED  BY <1>4, <1>6 DEF mail

LEMMA EmitGathers ==
  ASSUME Types, AllReady, NEW r \in Runs, Gathered(run[r]), AskEmit(r), run'[r].pc # "failed"
  PROVE  Gathered(run[r])'
<1>. DEFINE s == run[r].at
<1>0. IsRun(run[r]) /\ RunType(run[r]) /\ s \in Shards /\ Ready(s)
  BY DEF Types, RunTypes, RunType, AskEmit
<1>1. PICK mail : mail = [d \in Shards |-> run[r].mail[d] \cup {c \in Outgoing(s) : owner[c.to] = d}]
  OBVIOUS
<1>2. PICK x : x = [run[r] EXCEPT !.mail = mail]
  OBVIOUS
<1>3. PICK y : y = [x EXCEPT !.pc = "absorb", !.at = 1]
  OBVIOUS
<1>4. PICK z : z = Beyond(r, x, y)
  OBVIOUS
<1>5. /\ run[r].pc = "emit" /\ Answered(r, z) /\ UNCHANGED World /\ holder' = holder
      /\ shard' = Emitted(s)
  BY <1>1, <1>2, <1>3, <1>4 DEF AskEmit, Calls, World
<1>6. run'[r] = z
  BY <1>5, AnswerCame
<1>7. /\ IsRun(x) /\ x.pc = "emit" /\ x.at = s /\ x.iteration = run[r].iteration
      /\ x.dangling = run[r].dangling /\ x.mail = mail /\ x.residual = run[r].residual
      /\ x.converged = run[r].converged
  BY <1>0, <1>2, <1>5 DEF IsRun
<1>8. /\ y.pc = "absorb" /\ y.at = 1 /\ y.iteration = x.iteration /\ y.dangling = x.dangling
      /\ y.mail = x.mail /\ y.residual = x.residual /\ y.converged = x.converged
  BY <1>3, <1>7 DEF IsRun
<1>9. /\ s \in Shards /\ s \in 1..ShardCount /\ ShardCount \in Nat
      /\ \/ /\ s < ShardCount /\ s + 1 \in Shards /\ z.at = s + 1 /\ z.pc = x.pc
            /\ z.iteration = x.iteration /\ z.dangling = x.dangling /\ z.mail = x.mail
            /\ z.residual = x.residual /\ z.converged = x.converged
         \/ s = ShardCount /\ z = y
  BY <1>4, <1>7, GoesBeyond
<1>10. /\ x.iteration > 0 /\ ~x.converged /\ x.residual = 0
       /\ x.dangling = DanglingBefore(ShardCount + 1)
       /\ \A d \in Shards : run[r].mail[d] = SentBefore(s, d)
       /\ \A p \in Pages : owner[p] < s => Incoming(p) = Arrived(KeptFor(p))
  BY <1>5, <1>7 DEF Gathered, Fresh
<1>11. \A d \in Shards : x.mail[d] = SentBefore(s + 1, d)
  BY <1>0, <1>1, <1>7, <1>10, EmissionIsFlow
<1>12. PICK v : v = Received(Nothing(s), {c \in Contributions(s) : Keeps(s, c)})
  OBVIOUS
<1>13. shard' = [shard EXCEPT ![s].ranker.incoming = v]
  BY <1>5, <1>12 DEF Emitted
<1>14. v \in [Owned(s) -> Nat]
  BY <1>0, <1>12, EmittedIncoming
<1>15. /\ shard'[s].ranker.ranks = shard[s].ranker.ranks /\ shard'[s].ranker.incoming = v
       /\ \A u \in Shards : u # s => shard'[u] = shard[u]
  BY <1>0, <1>5, <1>13, <1>14, IncomingTypes
<1>16. SameRanks
  BY <1>15 DEF SameRanks
<1>17. /\ \A k : DanglingBefore(k)' = DanglingBefore(k)
       /\ \A k, u : SentBefore(k, u)' = SentBefore(k, u)
       /\ \A p : KeptFor(p)' = KeptFor(p)
  BY <1>5, <1>16, SameGathering
<1>18. \A p \in Pages : owner[p] \in Shards /\ owner[p] \in 1..ShardCount /\ owner'[p] = owner[p]
  BY <1>5, HeldType DEF World, Shards
<1>19. ASSUME NEW p \in Pages, owner'[p] < s + 1 PROVE Incoming(p)' = Arrived(KeptFor(p))'
  <2>1. CASE owner[p] = s
    <3>1. p \in Owned(s)
      BY <2>1 DEF Owned
    <3>2. Incoming(p)' = v[p]
      BY <1>15, <1>18, <2>1 DEF Incoming
    <3>. QED  BY <1>0, <1>12, <1>17, <3>1, <3>2, EmissionIsFlow DEF Arrived
  <2>2. CASE owner[p] # s
    <3>1. owner[p] < s
      BY <1>9, <1>18, <1>19, <2>2
    <3>2. Incoming(p)' = Incoming(p)
      BY <1>15, <1>18, <2>2 DEF Incoming
    <3>. QED  BY <1>10, <1>17, <3>1, <3>2 DEF Arrived
  <2>. QED  BY <2>1, <2>2
<1>20. CASE s < ShardCount /\ z.at = s + 1 /\ z.pc = x.pc /\ z.iteration = x.iteration
             /\ z.dangling = x.dangling /\ z.mail = x.mail
             /\ z.residual = x.residual /\ z.converged = x.converged
  BY <1>6, <1>7, <1>10, <1>11, <1>17, <1>19, <1>20 DEF Gathered, Fresh
<1>21. CASE s = ShardCount /\ z = y
  <2>1. ASSUME NEW p \in Pages PROVE ~(owner'[p] < 1) /\ owner'[p] < s + 1
    BY <1>9, <1>18, <1>21
  <2>. QED  BY <1>6, <1>7, <1>8, <1>10, <1>11, <1>17, <1>19, <1>21, <2>1 DEF Gathered, Fresh
<1>. QED  BY <1>9, <1>20, <1>21

(* The mail of one more shard has been absorbed, or there was none.          *)
LEMMA AbsorptionGathers ==
  ASSUME Types, AllReady, NEW r \in Runs, Gathered(run[r]), UNCHANGED World, SameRanks,
         run[r].pc = "absorb",
         NEW y, y = [run[r] EXCEPT !.pc = "apply", !.at = 1], run'[r] = Beyond(r, run[r], y),
         \A p \in Pages : owner[p] = run[r].at => Incoming(p)' = Arrived(Into(p)),
         \A u \in Shards : u # run[r].at => shard'[u] = shard[u]
  PROVE  Gathered(run[r])'
<1>. DEFINE s == run[r].at
<1>0. IsRun(run[r])
  BY DEF Types, RunTypes, RunType
<1>1. PICK z : z = Beyond(r, run[r], y)
  OBVIOUS
<1>2. /\ y.pc = "apply" /\ y.at = 1 /\ y.iteration = run[r].iteration /\ y.dangling = run[r].dangling
      /\ y.mail = run[r].mail /\ y.residual = run[r].residual /\ y.converged = run[r].converged
  BY <1>0 DEF IsRun
<1>3. /\ s \in Shards /\ s \in 1..ShardCount /\ ShardCount \in Nat
      /\ \/ /\ s < ShardCount /\ s + 1 \in Shards /\ z.at = s + 1 /\ z.pc = run[r].pc
            /\ z.iteration = run[r].iteration /\ z.dangling = run[r].dangling /\ z.mail = run[r].mail
            /\ z.residual = run[r].residual /\ z.converged = run[r].converged
         \/ s = ShardCount /\ z = y
  BY <1>0, <1>1, GoesBeyond
<1>4. /\ run[r].iteration > 0 /\ ~run[r].converged /\ run[r].residual = 0
      /\ run[r].dangling = DanglingBefore(ShardCount + 1)
      /\ \A d \in Shards : run[r].mail[d] = SentBefore(ShardCount + 1, d)
      /\ \A p \in Pages : Incoming(p) = Arrived(IF owner[p] < s THEN Into(p) ELSE KeptFor(p))
  BY DEF Gathered, Fresh
<1>5. /\ \A k : DanglingBefore(k)' = DanglingBefore(k)
      /\ \A k, u : SentBefore(k, u)' = SentBefore(k, u)
      /\ \A p : KeptFor(p)' = KeptFor(p) /\ Into(p)' = Into(p)
  BY SameGathering
<1>6. \A p \in Pages : owner[p] \in Shards /\ owner[p] \in 1..ShardCount /\ owner'[p] = owner[p]
  BY HeldType DEF World, Shards
<1>7. \A p \in Pages : owner[p] # s => Incoming(p)' = Incoming(p)
  BY <1>6 DEF Incoming
<1>8. ASSUME NEW p \in Pages
      PROVE  Incoming(p)' = Arrived(IF owner'[p] < s + 1 THEN Into(p)' ELSE KeptFor(p)')
  <2>1. CASE owner[p] = s
    <3>1. owner'[p] < s + 1
      BY <1>3, <1>6, <2>1
    <3>. QED  BY <1>5, <2>1, <3>1 DEF Arrived
  <2>2. CASE owner[p] # s
    <3>1. owner'[p] < s + 1 <=> owner[p] < s
      BY <1>3, <1>6, <2>2
    <3>2. Incoming(p)' = Arrived(IF owner'[p] < s + 1 THEN Into(p) ELSE KeptFor(p))
      BY <1>4, <1>7, <2>2, <3>1
    <3>. QED  BY <1>5, <3>2 DEF Arrived
  <2>. QED  BY <2>1, <2>2
<1>9. CASE s < ShardCount /\ z.at = s + 1 /\ z.pc = run[r].pc /\ z.iteration = run[r].iteration
            /\ z.dangling = run[r].dangling /\ z.mail = run[r].mail
            /\ z.residual = run[r].residual /\ z.converged = run[r].converged
  BY <1>1, <1>4, <1>5, <1>8, <1>9 DEF Gathered, Fresh
<1>10. CASE s = ShardCount /\ z = y
  <2>1. ASSUME NEW p \in Pages PROVE Incoming(p)' = Arrived(Into(p))'
    <3>1. owner'[p] < s + 1
      BY <1>3, <1>6, <1>10
    <3>. QED  BY <1>8, <3>1
  <2>2. /\ run'[r].pc = "apply" /\ run'[r].at = 1 /\ run'[r].iteration = run[r].iteration
        /\ run'[r].dangling = run[r].dangling /\ run'[r].residual = run[r].residual
        /\ run'[r].converged = run[r].converged
    <3>1. run'[r] = y
      BY <1>1, <1>10, Zenon
    <3>. QED  BY <1>2, <3>1, Zenon
  <2>3. DanglingBefore(ShardCount + 1)' = run[r].dangling
    BY <1>4, <1>5
  <2>. QED  BY <1>4, <2>1, <2>2, <2>3 DEF Gathered, Fresh
<1>. QED  BY <1>3, <1>9, <1>10

LEMMA PassOverGathers ==
  ASSUME Types, AllReady, NEW r \in Runs, Gathered(run[r]), PassOver(r)
  PROVE  Gathered(run[r])'
<1>. DEFINE s == run[r].at
<1>1. PICK y : y = [run[r] EXCEPT !.pc = "apply", !.at = 1]
  OBVIOUS
<1>2. /\ run[r].pc = "absorb" /\ run[r].mail[s] = {} /\ shard' = shard /\ UNCHANGED World
      /\ run' = [run EXCEPT ![r] = Beyond(r, run[r], y)]
  BY <1>1 DEF PassOver, World
<1>3. run'[r] = Beyond(r, run[r], y) /\ s \in Shards
  BY <1>2 DEF Types, RankInv, RunsShaped
<1>4. SentBefore(ShardCount + 1, s) = {} /\ ~(s < s)
  BY <1>2, <1>3 DEF Gathered, Shards
<1>5. ASSUME NEW p \in Pages, owner[p] = s PROVE Incoming(p)' = Arrived(Into(p))
  <2>1. Incoming(p)' = Incoming(p)
    BY <1>2 DEF Incoming, World
  <2>2. Incoming(p) = Arrived(KeptFor(p))
    BY <1>2, <1>4, <1>5 DEF Gathered
  <2>3. Into(p) = KeptFor(p)
    BY <1>4, <1>5, MailCompletes
  <2>. QED  BY <2>1, <2>2, <2>3
<1>. QED  BY <1>1, <1>2, <1>3, <1>5, AbsorptionGathers DEF SameRanks

LEMMA AbsorbGathers ==
  ASSUME Types, AllReady, NEW r \in Runs, Gathered(run[r]), AskAbsorb(r), run'[r].pc # "failed"
  PROVE  Gathered(run[r])'
<1>. DEFINE s == run[r].at
<1>0. RunType(run[r]) /\ s \in Shards /\ Ready(s)
  BY DEF Types, RunTypes, RunType, AskAbsorb
<1>1. PICK y : y = [run[r] EXCEPT !.pc = "apply", !.at = 1]
  OBVIOUS
<1>2. PICK into : into = shard[s].ranker.incoming
  OBVIOUS
<1>3. PICK v : v = Received(into, run[r].mail[s])
  OBVIOUS
<1>4. /\ run[r].pc = "absorb" /\ Answered(r, Beyond(r, run[r], y)) /\ UNCHANGED World
      /\ shard' = Absorbed(s, run[r].mail[s]) /\ holder' = holder
  BY <1>1 DEF AskAbsorb, Calls, World
<1>5. run'[r] = Beyond(r, run[r], y)
  BY <1>4, AnswerCame
<1>6. /\ IsFiniteSet(run[r].mail[s]) /\ \A c \in run[r].mail[s] : c.share \in Nat
      /\ into \in [Owned(s) -> Nat]
  BY <1>0, <1>2, RankerHeld DEF RunType, Messages
<1>7. v \in [Owned(s) -> Nat]
  BY <1>3, <1>6, ReceivedType
<1>8. shard' = [shard EXCEPT ![s].ranker.incoming = v]
  BY <1>2, <1>3, <1>4 DEF Absorbed
<1>9. /\ shard'[s].ranker.ranks = shard[s].ranker.ranks /\ shard'[s].ranker.incoming = v
      /\ \A u \in Shards : u # s => shard'[u] = shard[u]
  BY <1>0, <1>4, <1>7, <1>8, IncomingTypes
<1>10. SameRanks
  BY <1>9 DEF SameRanks
<1>11. run[r].mail[s] = SentBefore(ShardCount + 1, s) /\ ~(s < s)
  BY <1>0, <1>4 DEF Gathered, Shards
<1>12. ASSUME NEW p \in Pages, owner[p] = s PROVE Incoming(p)' = Arrived(Into(p))
  <2>1. p \in Owned(s) /\ p \in DOMAIN into
    BY <1>6, <1>12 DEF Owned
  <2>2. Incoming(p)' = v[p]
    BY <1>0, <1>4, <1>9, <1>12 DEF Incoming, World
  <2>3. into[p] = Arrived(KeptFor(p))
    BY <1>2, <1>4, <1>11, <1>12 DEF Gathered, Incoming
  <2>4. v[p] = into[p] + Arrived({c \in run[r].mail[s] : c.to = p})
    <3>1. PICK m : m = run[r].mail[s]
      OBVIOUS
    <3>2. v = Received(into, m)
      BY <1>3, <3>1
    <3>3. v[p] = into[p] + Arrived({c \in m : c.to = p})
      BY <2>1, <3>2, ReceivedAdds
    <3>. QED  BY <3>1, <3>3
  <2>5. Arrived(Into(p)) = Arrived(KeptFor(p)) + Arrived({c \in run[r].mail[s] : c.to = p})
    BY <1>11, <1>12, MailCompletes
  <2>. QED  BY <2>2, <2>3, <2>4, <2>5
<1>. QED  BY <1>1, <1>4, <1>5, <1>9, <1>10, <1>12, AbsorptionGathers

LEMMA ApplyGathers ==
  ASSUME Types, AllReady, NEW r \in Runs, Gathered(run[r]), AskApply(r), run'[r].pc # "failed"
  PROVE  Gathered(run[r])'
<1>. DEFINE s == run[r].at
<1>0. IsRun(run[r]) /\ RunType(run[r]) /\ run[r].iteration \in Nat
  BY RankAssumption DEF Types, RunTypes, RunType
<1>1. PICK x : x = [run[r] EXCEPT !.residual = run[r].residual + Residual(s, run[r].dangling)]
  OBVIOUS
<1>2. PICK y : y = Ended(x)
  OBVIOUS
<1>3. PICK z : z = Beyond(r, x, y)
  OBVIOUS
<1>4. run[r].pc = "apply" /\ Answered(r, z) /\ UNCHANGED World
  BY <1>1, <1>2, <1>3 DEF AskApply, Calls, World
<1>5. run'[r] = z
  BY <1>4, AnswerCame
<1>6. /\ IsRun(x) /\ x.pc = "apply" /\ x.at = s /\ x.iteration = run[r].iteration
      /\ x.converged = run[r].converged
  BY <1>0, <1>1, <1>4 DEF IsRun
<1>7. run[r].iteration > 0 /\ ~run[r].converged /\ run[r].converged = FALSE
  BY <1>0, <1>4 DEF Gathered, RunType
<1>8. /\ s \in Shards /\ s \in 1..ShardCount /\ ShardCount \in Nat
      /\ \/ /\ s < ShardCount /\ s + 1 \in Shards /\ z.at = s + 1 /\ z.pc = x.pc
            /\ z.iteration = x.iteration /\ z.converged = x.converged
         \/ s = ShardCount /\ z = y
  BY <1>3, <1>6, GoesBeyond
<1>9. CASE s < ShardCount /\ z.at = s + 1 /\ z.pc = x.pc /\ z.iteration = x.iteration
            /\ z.converged = x.converged
  BY <1>5, <1>6, <1>7, <1>8, <1>9 DEF Gathered, Fresh
<1>10. CASE s = ShardCount /\ z = y
  <2>1. CASE Converges(x)
    <3>1. y.pc = "results"
      BY <1>2, <1>6, <2>1, EndedGoesOn DEF Ended, Concluding, IsRun
    <3>. QED  BY <1>5, <1>10, <3>1 DEF Gathered, Fresh
  <2>2. CASE ~Converges(x)
    <3>1. run'[r] = NextIteration(x)
      BY <1>2, <1>5, <1>10, <2>2 DEF Ended
    <3>. QED  BY <1>0, <1>4, <1>6, <1>7, <3>1, IterationBegins
  <2>. QED  BY <2>1, <2>2
<1>. QED  BY <1>8, <1>9, <1>10

LEMMA ResultsGather ==
  ASSUME Types, NEW r \in Runs, AskResults(r), run'[r].pc # "failed"
  PROVE  Gathered(run[r])'
<1>0. IsRun(run[r])
  BY DEF Types, RunTypes, RunType
<1>1. PICK x : x = [run[r] EXCEPT !.ranks = Extended(run[r].ranks, shard[run[r].at].ranker.ranks)]
  OBVIOUS
<1>2. PICK y : y = [x EXCEPT !.pc = "done"]
  OBVIOUS
<1>3. PICK z : z = Beyond(r, x, y)
  OBVIOUS
<1>4. run[r].pc = "results" /\ Answered(r, z)
  BY <1>1, <1>2, <1>3 DEF AskResults, Calls
<1>5. run'[r] = z
  BY <1>4, AnswerCame
<1>6. IsRun(x) /\ x.pc = "results" /\ x.at = run[r].at
  BY <1>0, <1>1, <1>4 DEF IsRun
<1>7. y.pc = "done"
  BY <1>2, <1>6 DEF IsRun
<1>8. z.pc \in {"results", "done"}
  BY <1>3, <1>6, <1>7, GoesBeyond
<1>. QED  BY <1>5, <1>8 DEF Gathered, Fresh

-----------------------------------------------------------------------------
(* Who moves, and whose shards they become.                                  *)

LEMMA SameWeb == ASSUME [Next]_rankVars PROVE UNCHANGED World
<1>1. CASE UNCHANGED rankVars
  BY <1>1 DEF rankVars, World
<1>2. ASSUME NEW r \in Runs, Work(r) PROVE UNCHANGED World
  BY <1>2 DEF Work, Connect, InitShard, Refused, AskDangling, AskEmit, PassOver, AskAbsorb, AskApply,
              AskResults, CallFails, World
<1>3. CASE (\E r \in Runs, s \in Shards : Cut(r, s)) \/ \E s \in Shards : Restart(s)
  BY <1>3 DEF Cut, Restart, World
<1>. QED  BY <1>1, <1>2, <1>3 DEF Next

LEMMA WorkMoves ==
  ASSUME RankInv, NEW q \in Runs, Work(q)
  PROVE  /\ run[q].pc \notin {"done", "failed"}
         /\ \A r \in Runs : r # q => run'[r] = run[r]
         /\ Asks(q) \/ Connect(q) \/ InitShard(q) \/ CallFails(q)
<1>1. CASE Asks(q)
  BY <1>1 DEF Asks, Led, Moves, RankInv, RunsShaped
<1>2. CASE Connect(q)
  BY <1>2 DEF Connect, RankInv, RunsShaped
<1>3. CASE InitShard(q)
  <2>1. run[q].pc = "init"
    BY <1>3 DEF InitShard, Calls
  <2>2. \E x : run' = [run EXCEPT ![q] = x]
    BY <1>3 DEF InitShard, Answered, Refused, Fails
  <2>. QED  BY <1>3, <2>1, <2>2 DEF RankInv, RunsShaped
<1>4. CASE CallFails(q)
  BY <1>4 DEF CallFails, Fails, RankInv, RunsShaped
<1>. QED
  BY <1>1, <1>2, <1>3, <1>4, DanglingAsks, EmitAsks, AbsorbAsks, ApplyAsks, ResultsAsk, PassOverAsks
     DEF Work

LEMMA OthersWait ==
  ASSUME RankInv, [Next]_rankVars, NEW r \in Runs, ~Work(r)
  PROVE  run'[r] = run[r]
<1>1. CASE UNCHANGED rankVars
  BY <1>1 DEF rankVars
<1>2. CASE (\E q \in Runs, s \in Shards : Cut(q, s)) \/ \E s \in Shards : Restart(s)
  BY <1>2 DEF Cut, Restart
<1>. QED  BY <1>1, <1>2, WorkMoves DEF Next

(* The call of RankInit that is answered.                                    *)
Initialises(r) ==
  /\ run[r].pc = "init" /\ shard[run[r].at].graph
  /\ shard' = Initialised(run[r].at) /\ holder' = [holder EXCEPT ![run[r].at] = r]
  /\ Answered(r, Beyond(r, run[r], NextIteration(run[r])))

LEMMA ShardsChangeHands ==
  ASSUME RankInv, [Next]_rankVars, NEW r \in Runs, NEW s \in Shards, holder'[s] = r, holder[s] # r
  PROVE  InitShard(r) /\ Initialises(r) /\ run[r].at = s
<1>1. CASE UNCHANGED rankVars
  BY <1>1 DEF rankVars
<1>2. ASSUME NEW q \in Runs, Work(q) PROVE InitShard(r) /\ Initialises(r) /\ run[r].at = s
  <2>1. InitShard(q) /\ holder' # holder
    BY <1>2, WorkMoves DEF Asks, Connect, CallFails
  <2>2. Initialises(q)
    BY <2>1 DEF InitShard, Refused, Initialises, Calls
  <2>3. run[q].at = s /\ q = r
    BY <2>2 DEF Initialises, RankInv, ShardsShaped
  <2>. QED  BY <2>1, <2>2, <2>3
<1>3. ASSUME NEW q \in Runs, NEW u \in Shards, Cut(q, u) PROVE FALSE
  BY <1>3 DEF Cut
<1>4. ASSUME NEW u \in Shards, Restart(u) PROVE FALSE
  BY <1>4, RankingAssumption DEF Restart, RankInv, ShardsShaped
<1>. QED  BY <1>1, <1>2, <1>3, <1>4 DEF Next

(* A shard that is initialised.                                              *)
LEMMA InitialisedShard ==
  ASSUME Types, NEW r \in Runs, Initialises(r), UNCHANGED World
  PROVE  /\ run[r].at \in Shards /\ holder'[run[r].at] = r
         /\ shard'[run[r].at].ranker.ranks = [p \in Owned(run[r].at) |-> Uniform[p]]
         /\ \A u \in Shards : u # run[r].at => shard'[u] = shard[u] /\ holder'[u] = holder[u]
<1>1. run[r].at \in Shards
  BY DEF Types, RankInv, RunsShaped
<1>2. shard'[run[r].at].ranker = NewRanker(run[r].at)
  BY <1>1 DEF Initialises, Initialised, Types, RankInv, ShardsShaped
<1>3. shard'[run[r].at].ranker.ranks = [p \in Owned(run[r].at) |-> Uniform[p]]
  BY <1>2 DEF NewRanker
<1>. QED  BY <1>1, <1>3 DEF Initialises, Initialised, Types, RankInv, ShardsShaped

LEMMA BegunStays ==
  ASSUME Types, GatherInv, [Next]_rankVars, NEW r \in Runs
  PROVE  Begun(r)'
<1>0. UNCHANGED World /\ \A s : Owned(s)' = Owned(s)
  BY SameWeb, SameWorld
<1>1. Begun(r) /\ RankInv /\ RunType(run[r])
  BY DEF GatherInv, Types, RunTypes
<1>. SUFFICES ASSUME run'[r].pc \in {"connect", "init"}, NEW s \in Shards, holder'[s] = r
              PROVE  /\ run'[r].pc = "init" /\ s < run'[r].at
                     /\ shard'[s].ranker.ranks = [p \in Owned(s) |-> Uniform[p]]
  BY <1>0 DEF Begun
<1>2. CASE ~Work(r)
  <2>1. run'[r] = run[r]
    BY <1>1, <1>2, OthersWait
  <2>2. holder[s] = r
    BY <1>1, <1>2, ShardsChangeHands DEF Work
  <2>3. shard'[s] = shard[s]
    BY <1>1, <2>1, <2>2, HeldAlone
  <2>. QED  BY <1>1, <2>1, <2>2, <2>3 DEF Begun
<1>3. CASE Asks(r) \/ CallFails(r)
  BY <1>1, <1>3, CallFailsMoves DEF Asks, Moves, RankInv, RunsShaped, Led
<1>4. CASE Connect(r)
  BY <1>1, <1>4 DEF Connect, Begun
<1>5. CASE Refused(r) /\ InitShard(r)
  BY <1>1, <1>5 DEF Refused, Fails, RankInv, RunsShaped, IsRun
<1>6. CASE Initialises(r)
  <2>1. PICK y : y = NextIteration(run[r])
    OBVIOUS
  <2>2. run'[r] = Beyond(r, run[r], y)
    BY <1>6, <2>1, AnswerCame DEF Initialises
  <2>3. PICK z : z = Beyond(r, run[r], y)
    OBVIOUS
  <2>4. y.pc \in {"dangling", "results"}
    BY <1>1, <2>1, NextIterationGoesOn DEF RunType
  <2>5. z.pc = "init" /\ z.at = run[r].at + 1 /\ run[r].at \in 1..ShardCount /\ ShardCount \in Nat
    <3>1. run[r].pc = "init" /\ IsRun(run[r])
      BY <1>1, <1>6 DEF Initialises, RunType
    <3>2. z.pc \in {"connect", "init"}
      BY <2>2, <2>3
    <3>. QED  BY <2>3, <2>4, <3>1, <3>2, GoesBeyond
  <2>6. CASE s = run[r].at
    BY <1>0, <1>6, <2>2, <2>3, <2>5, <2>6, InitialisedShard
  <2>7. CASE s # run[r].at
    <3>1. holder[s] = r /\ shard'[s] = shard[s]
      BY <1>0, <1>6, <2>7, InitialisedShard
    <3>2. /\ run[r].pc = "init" /\ s < run[r].at
          /\ shard[s].ranker.ranks = [p \in Owned(s) |-> Uniform[p]]
      BY <1>1, <1>6, <3>1 DEF Begun, Initialises
    <3>3. s < run[r].at + 1
      BY <2>5, <3>2 DEF Shards
    <3>. QED  BY <2>2, <2>3, <2>5, <3>1, <3>2, <3>3
  <2>. QED  BY <2>6, <2>7
<1>. QED  BY <1>1, <1>2, <1>3, <1>4, <1>5, <1>6, WorkMoves DEF InitShard, Initialises, Calls

(* A run that comes to lead has initialised the last shard.                  *)
LEMMA LeadBegins ==
  ASSUME Types, GatherInv, [Next]_rankVars, NEW r \in Runs, r \in Leading', r \notin Leading
  PROVE  /\ run'[r] = NextIteration(run[r]) /\ run[r].pc = "init"
         /\ \A s \in Shards : shard'[s].ranker.ranks = [p \in Owned(s) |-> Uniform[p]]
<1>0. UNCHANGED World
  BY SameWeb
<1>1. Begun(r) /\ RankInv /\ RunType(run[r])
  BY DEF GatherInv, Types, RunTypes
<1>2. run'[r].pc # "failed" /\ \A s \in Shards : holder'[s] = r
  BY DEF Leading, Leads
<1>3. PICK s \in Shards : holder[s] # r
  <2>1. ASSUME Leads(r) PROVE FALSE
    <3>1. run[r].pc = "failed"
      BY <2>1 DEF Leading
    <3>2. ~Work(r)
      BY <1>1, <3>1, WorkMoves
    <3>. QED  BY <1>1, <1>2, <3>1, <3>2, OthersWait
  <2>. QED  BY <2>1 DEF Leads
<1>4. InitShard(r) /\ Initialises(r) /\ run[r].at = s
  BY <1>1, <1>2, <1>3, ShardsChangeHands
<1>5. /\ shard'[s].ranker.ranks = [p \in Owned(s) |-> Uniform[p]]
      /\ \A u \in Shards : u # s => shard'[u] = shard[u] /\ holder'[u] = holder[u]
  BY <1>0, <1>4, InitialisedShard
<1>6. run[r].pc = "init"
  BY <1>4 DEF Initialises
<1>7. ASSUME NEW u \in Shards, u # s
      PROVE  u < s /\ shard'[u].ranker.ranks = [p \in Owned(u) |-> Uniform[p]]
  BY <1>1, <1>2, <1>4, <1>5, <1>6, <1>7 DEF Begun
<1>8. s = ShardCount
  <2>1. ShardCount \in Shards
    BY RankingAssumption DEF Shards
  <2>2. ~(ShardCount < s)
    BY RankingAssumption DEF Shards
  <2>3. ShardCount # s => ShardCount < s
    BY <1>7, <2>1
  <2>. QED  BY <2>2, <2>3
<1>9. run'[r] = NextIteration(run[r])
  <2>1. run'[r] = Beyond(r, run[r], NextIteration(run[r]))
    BY <1>2, <1>4, AnswerCame DEF Initialises
  <2>2. ~(run[r].at < ShardCount)
    BY <1>4, <1>8, RankingAssumption
  <2>. QED  BY <2>1, <2>2 DEF Beyond
<1>. QED  BY <1>5, <1>6, <1>7, <1>9

LEMMA GatherBegins == Init => GatherInv
<1>. SUFFICES ASSUME Init PROVE GatherInv
  OBVIOUS
<1>1. 1 \in Shards
  BY RankingAssumption DEF Shards
<1>2. \A r \in Runs : Begun(r) /\ ~Leads(r)
  BY <1>1, RankingAssumption DEF Init, Begun, Leads
<1>. QED  BY <1>2 DEF GatherInv, Leading

LEMMA LeaderGathers ==
  ASSUME Types, GatherInv, [Next]_rankVars, NEW r \in Runs, r \in Leading'
  PROVE  Gathered(run[r])'
<1>0. UNCHANGED World
  BY SameWeb
<1>1. RankInv /\ RunType(run[r]) /\ IsRun(run[r]) /\ run'[r].pc # "failed" /\ Leads(r)'
  BY DEF Types, RunTypes, RunType, Leading
<1>2. CASE r \notin Leading
  <2>1. run'[r] = NextIteration(run[r]) /\ run[r].pc = "init"
    BY <1>2, LeadBegins
  <2>2. PICK x : x = run[r]
    OBVIOUS
  <2>3. IsRun(x) /\ x.iteration = 0 /\ x.converged = FALSE /\ run'[r] = NextIteration(x)
    BY <1>1, <2>1, <2>2 DEF RunType
  <2>4. x.iteration \in Nat
    BY <2>3
  <2>. QED  BY <1>0, <2>3, <2>4, IterationBegins, Zenon
<1>3. CASE r \in Leading
  <2>1. Leads(r) /\ run[r].pc \in Led \cup {"done"} /\ AllReady
    BY <1>3, LeaderHolds
  <2>2. Gathered(run[r])
    BY <1>3 DEF GatherInv
  <2>3. CASE ~Work(r)
    <3>1. run'[r] = run[r]
      BY <1>1, <2>3, OthersWait
    <3>2. \A s \in Shards : shard'[s] = shard[s]
      BY <1>1, <2>1, <3>1, LeadsAlone
    <3>. QED  BY <1>0, <2>2, <3>1, <3>2, GatheredStays
  <2>4. CASE Work(r)
    <3>1. ~Connect(r) /\ ~InitShard(r)
      BY <2>1 DEF Connect, InitShard, Calls, Led
    <3>2. ~CallFails(r)
      BY <1>1, CallFailsMoves
    <3>. QED  BY <1>1, <2>1, <2>2, <2>4, <3>1, <3>2, DanglingGathers, EmitGathers, PassOverGathers,
                 AbsorbGathers, ApplyGathers, ResultsGather DEF Work
  <2>. QED  BY <2>3, <2>4
<1>. QED  BY <1>2, <1>3

LEMMA GatherKept == Types /\ GatherInv /\ [Next]_rankVars => GatherInv'
<1>. SUFFICES ASSUME Types, GatherInv, [Next]_rankVars PROVE GatherInv'
  OBVIOUS
<1>1. \A r \in Runs : Begun(r)'
  BY BegunStays
<1>2. ASSUME NEW r \in Leading' PROVE r \in Runs
  BY DEF Leading
<1>3. \A r \in Leading' : Gathered(run[r])'
  BY <1>2, LeaderGathers
<1>. QED  BY <1>1, <1>3 DEF GatherInv

-----------------------------------------------------------------------------
(* The instance of PowerIteration has copies of the operators on sums and of *)
(* the arithmetic of LinkGraph, which are the same.                          *)

LEMMA SingleSums ==
  /\ \A f : Single!SumFunction(f) = SumFunction(f)
  /\ \A f, S : Single!SumFunctionOnSet(f, S) = SumFunctionOnSet(f, S)
BY DEF Single!SumFunction, Single!SumFunctionOnSet, Single!FoldFunctionOnSet, Single!MapThenFoldSet,
   SumFunction, SumFunctionOnSet, FoldFunctionOnSet, MapThenFoldSet

LEMMA SingleArithmetic ==
  /\ Single!Uniform = Uniform
  /\ \A l, p : Single!Outlinks(l, p) = Outlinks(l, p)
  /\ \A l, x, p : Single!Share(l, x, p) = Share(l, x, p)
  /\ \A d : Single!Base(d) = Base(d)
  /\ \A a, b : Single!Distance(a, b) = Distance(a, b)
  /\ \A l, x, S : Single!Dangling(l, x, S) = Dangling(l, x, S)
<1>0. \A S : Single!Cardinality(S) = Cardinality(S)
  BY DEF Single!Cardinality, Cardinality
<1>1. Single!Count = Count
  BY <1>0 DEF Single!Count, Count
<1>2. \A l, p : Single!Outlinks(l, p) = Outlinks(l, p)
  BY DEF Single!Outlinks, Outlinks
<1>3. \A l, p : Single!Degree(l, p) = Degree(l, p)
  BY <1>0, <1>2 DEF Single!Degree, Degree
<1>4. \A l, x, p : Single!Share(l, x, p) = Share(l, x, p)
  BY <1>3, Zenon DEF Single!Share, Share
<1>5. Single!Uniform = Uniform /\ \A d : Single!Base(d) = Base(d)
  BY <1>1, Zenon DEF Single!Uniform, Uniform, Single!Base, Base
<1>6. \A a, b : Single!Distance(a, b) = Distance(a, b)
  BY DEF Single!Distance, Distance
<1>7. \A l, x, S : Single!Dangling(l, x, S) = Dangling(l, x, S)
  BY <1>2, SingleSums, Zenon DEF Single!Dangling, Dangling
<1>. QED  BY <1>2, <1>4, <1>5, <1>6, <1>7

-----------------------------------------------------------------------------
(* What one process sees of the shards, given the run that leads them.       *)

Among(x) == x.pc = "apply" /\ x.at > 1
Onward == {"dangling", "emit", "absorb", "apply"}
AheadRank(x, p) ==
  IF Among(x) /\ owner[p] >= x.at THEN Stepped(owner[p], x.dangling)[p]
  ELSE shard[owner[p]].ranker.ranks[p]
YetToMove(k, d) == SumFunction([s \in {s \in Shards : s >= k} |-> Residual(s, d)])

ViewOf(r) ==
  /\ SingleCurrent = [p \in Pages |-> AheadRank(run[r], p)]
  /\ SingleIterations = IF run[r].pc \in Onward /\ ~Among(run[r])
                         THEN run[r].iteration - 1 ELSE run[r].iteration
  /\ SingleStill <=> \/ run[r].converged
                      \/ /\ Among(run[r])
                         /\ run[r].residual + YetToMove(run[r].at, run[r].dangling) < Tolerance

LEMMA LeaderIsViewed == \A r \in Leading : ViewOf(r)
<1>. SUFFICES ASSUME NEW r \in Leading PROVE ViewOf(r)
  OBVIOUS
<1>1. Leader = r /\ Leading # {}
  BY TheLeader
<1>2. SingleCurrent = [p \in Pages |-> AheadRank(run[r], p)]
  BY <1>1 DEF SingleCurrent, GatheredRank, Midway, Among, AheadRank
<1>3. SingleIterations = IF run[r].pc \in Onward /\ ~Among(run[r])
                         THEN run[r].iteration - 1 ELSE run[r].iteration
  BY <1>1 DEF SingleIterations, Applying, Midway, Among, Onward
<1>4. SingleStill <=> \/ run[r].converged
                      \/ /\ Among(run[r])
                         /\ run[r].residual + YetToMove(run[r].at, run[r].dangling) < Tolerance
  BY <1>1 DEF SingleStill, Midway, Among, Outstanding, YetToMove
<1>. QED  BY <1>2, <1>3, <1>4 DEF ViewOf

LEMMA LeaderStaysViewed == (\A r \in Leading : ViewOf(r))'
BY LeaderIsViewed, PTL

LEMMA ViewAfter ==
  ASSUME NEW r, r \in Leading'
  PROVE  /\ SingleCurrent' = [p \in Pages |-> AheadRank(run[r], p)]'
         /\ SingleIterations' = IF run'[r].pc \in Onward /\ ~Among(run'[r])
                                THEN run'[r].iteration - 1 ELSE run'[r].iteration
         /\ SingleStill' <=> \/ run'[r].converged
                             \/ /\ Among(run'[r])
                                /\ run'[r].residual + YetToMove(run[r].at, run[r].dangling)' < Tolerance
BY LeaderStaysViewed DEF ViewOf, Among

-----------------------------------------------------------------------------
(* Steps that one process does not see.                                      *)

SingleVars == <<web, SingleCurrent, SingleIterations, SingleStill>>

LEMMA NotSeen ==
  ASSUME Types, NEW r, r \in Leading, r \in Leading', UNCHANGED World, SameRanks,
         ~Among(run[r]), ~Among(run'[r]), run[r].pc \in Onward <=> run'[r].pc \in Onward,
         run'[r].iteration = run[r].iteration, run'[r].converged = run[r].converged
  PROVE  UNCHANGED SingleVars
<1>1. \A p \in Pages : owner[p] \in Shards
  BY RankingAssumption DEF Types, WorldType
<1>2. SingleCurrent' = SingleCurrent
  <2>1. SingleCurrent = [p \in Pages |-> shard[owner[p]].ranker.ranks[p]]
    BY LeaderIsViewed DEF ViewOf, AheadRank
  <2>2. SingleCurrent' = [p \in Pages |-> shard'[owner'[p]].ranker.ranks[p]]
    BY ViewAfter DEF AheadRank, Among
  <2>. QED  BY <1>1, <2>1, <2>2 DEF SameRanks, World
<1>3. SingleIterations' = SingleIterations
  BY LeaderIsViewed, ViewAfter DEF ViewOf
<1>4. SingleStill' = SingleStill
  <2>1. SingleStill' <=> SingleStill
    BY LeaderIsViewed, ViewAfter DEF ViewOf
  <2>. QED  BY <2>1 DEF SingleStill
<1>. QED  BY <1>2, <1>3, <1>4 DEF SingleVars, World

LEMMA NothingMoved ==
  ASSUME Types, NEW r, r \in Leading, r \in Leading', UNCHANGED World, run'[r] = run[r],
         \A s \in Shards : shard'[s] = shard[s]
  PROVE  UNCHANGED SingleVars
<1>1. /\ \A p \in Pages : owner[p] \in Shards
      /\ web' = web /\ owner' = owner
  BY RankingAssumption DEF Types, WorldType, World
<1>2. \A s \in Shards : \A d : Stepped(s, d)' = Stepped(s, d) /\ Residual(s, d)' = Residual(s, d)
  BY <1>1 DEF Stepped, Residual, Owned
<1>3. SingleCurrent' = SingleCurrent
  <2>1. \A p \in Pages : AheadRank(run[r], p)' = AheadRank(run[r], p)
    BY <1>1, <1>2 DEF AheadRank, Among
  <2>. QED  BY <2>1, LeaderIsViewed, ViewAfter DEF ViewOf
<1>4. SingleIterations' = SingleIterations
  BY LeaderIsViewed, ViewAfter DEF ViewOf
<1>5. SingleStill' = SingleStill
  <2>1. YetToMove(run[r].at, run[r].dangling)' = YetToMove(run[r].at, run[r].dangling)
    BY <1>2 DEF YetToMove
  <2>2. SingleStill' <=> SingleStill
    BY <2>1, LeaderIsViewed, ViewAfter DEF ViewOf
  <2>. QED  BY <2>2 DEF SingleStill
<1>. QED  BY <1>1, <1>3, <1>4, <1>5 DEF SingleVars

(* A run that comes to lead starts over; so does losing it.                  *)
LEMMA NobodyLeads ==
  ASSUME UNCHANGED World, Leading' = {} PROVE Single!StartOver
BY SingleArithmetic DEF World, Single!StartOver, SingleCurrent, SingleIterations, SingleStill

LEMMA AnotherLeads ==
  ASSUME Types, GatherInv, [Next]_rankVars, NEW r \in Runs, r \in Leading', r \notin Leading
  PROVE  Single!StartOver
<1>0. web' = web /\ owner' = owner
  BY SameWeb DEF World
<1>1. /\ run'[r] = NextIteration(run[r]) /\ run[r].pc = "init"
      /\ \A s \in Shards : shard'[s].ranker.ranks = [p \in Owned(s) |-> Uniform[p]]
  BY LeadBegins
<1>2. IsRun(run[r]) /\ run[r].iteration = 0 /\ run[r].converged = FALSE
  BY <1>1 DEF Types, RunTypes, RunType
<1>3. PICK x : x = run[r]
  OBVIOUS
<1>4. /\ run'[r].at = 1 /\ run'[r].converged = FALSE
      /\ \/ run'[r].pc = "dangling" /\ run'[r].iteration = 1
         \/ run'[r].pc = "results" /\ run'[r].iteration = 0
  <2>1. CASE x.iteration < MaxIterations
    <3>1. run'[r] = Iterating(x)
      BY <1>1, <1>3, <2>1 DEF NextIteration
    <3>. QED  BY <1>2, <1>3, <3>1 DEF Iterating, IsRun
  <2>2. CASE ~(x.iteration < MaxIterations)
    <3>1. run'[r] = Concluding(x)
      BY <1>1, <1>3, <2>2 DEF NextIteration
    <3>. QED  BY <1>2, <1>3, <3>1 DEF Concluding, IsRun
  <2>. QED  BY <2>1, <2>2
<1>5. SingleCurrent' = Uniform
  <2>1. SingleCurrent' = [p \in Pages |-> shard'[owner'[p]].ranker.ranks[p]]
    BY <1>4, ViewAfter DEF AheadRank, Among
  <2>2. \A p \in Pages : owner[p] \in Shards /\ p \in Owned(owner[p])
    BY RankingAssumption DEF Types, WorldType, Owned
  <2>3. ASSUME NEW p \in Pages PROVE shard'[owner'[p]].ranker.ranks[p] = Uniform[p]
    <3>1. PICK s \in Shards : s = owner[p]
      BY <2>2
    <3>2. shard'[s].ranker.ranks = [q \in Owned(s) |-> Uniform[q]] /\ p \in Owned(s)
      BY <1>1, <2>2, <3>1
    <3>3. shard'[s].ranker.ranks[p] = Uniform[p]
      BY <3>2
    <3>. QED  BY <1>0, <3>1, <3>3
  <2>. QED  BY <2>1, <2>3 DEF Uniform
<1>6. SingleIterations' = 0 /\ SingleStill' = FALSE
  <2>1. ~Among(run'[r]) /\ (run'[r].pc \in Onward <=> run'[r].pc = "dangling")
    BY <1>4 DEF Among, Onward
  <2>2. SingleIterations' = 0 /\ ~SingleStill'
    BY <1>4, <2>1, ViewAfter
  <2>. QED  BY <2>2 DEF SingleStill
<1>. QED  BY <1>0, <1>5, <1>6, SingleArithmetic DEF Single!StartOver

LEMMA QuietMove ==
  ASSUME Types, NEW r \in Runs, r \in Leading, r \in Leading', UNCHANGED World, SameRanks,
         NEW x, IsRun(x), x.pc = run[r].pc, x.at = run[r].at,
         x.iteration = run[r].iteration, x.converged = run[r].converged,
         NEW y, y.iteration = x.iteration, y.converged = x.converged,
         run[r].pc # "apply", y.pc = "apply" => y.at = 1,
         run[r].pc \in Onward <=> y.pc \in Onward,
         run'[r] = Beyond(r, x, y)
  PROVE  UNCHANGED SingleVars
<1>1. PICK z : z = Beyond(r, x, y)
  OBVIOUS
<1>2. \/ z.pc = x.pc /\ z.iteration = x.iteration /\ z.converged = x.converged
      \/ z = y
  BY <1>1, GoesBeyond
<1>3. ~Among(run[r]) /\ ~Among(z) /\ (run[r].pc \in Onward <=> z.pc \in Onward)
  BY <1>2 DEF Among
<1>4. z.iteration = run[r].iteration /\ z.converged = run[r].converged /\ run'[r] = z
  BY <1>1, <1>2
<1>. QED  BY <1>3, <1>4, NotSeen

LEMMA EmitKeepsRanks == ASSUME Types, NEW r \in Runs, AskEmit(r) PROVE SameRanks
<1>. DEFINE s == run[r].at
<1>0. s \in Shards /\ Ready(s) /\ UNCHANGED World /\ holder' = holder
  BY DEF Types, RunTypes, RunType, AskEmit, World
<1>1. PICK v : v = Received(Nothing(s), {c \in Contributions(s) : Keeps(s, c)})
  OBVIOUS
<1>2. v \in [Owned(s) -> Nat]
  BY <1>0, <1>1, EmittedIncoming
<1>3. shard' = [shard EXCEPT ![s].ranker.incoming = v]
  BY <1>1 DEF AskEmit, Emitted
<1>. QED  BY <1>0, <1>2, <1>3, IncomingTypes DEF SameRanks

LEMMA AbsorbKeepsRanks == ASSUME Types, NEW r \in Runs, AskAbsorb(r) PROVE SameRanks
<1>. DEFINE s == run[r].at
<1>0. s \in Shards /\ Ready(s) /\ UNCHANGED World /\ holder' = holder /\ RunType(run[r])
  BY DEF Types, RunTypes, RunType, AskAbsorb, World
<1>1. PICK v : v = Received(shard[s].ranker.incoming, run[r].mail[s])
  OBVIOUS
<1>2. /\ IsFiniteSet(run[r].mail[s]) /\ \A c \in run[r].mail[s] : c.share \in Nat
      /\ shard[s].ranker.incoming \in [Owned(s) -> Nat]
  BY <1>0, RankerHeld DEF RunType, Messages
<1>3. v \in [Owned(s) -> Nat]
  BY <1>1, <1>2, ReceivedType
<1>4. shard' = [shard EXCEPT ![s].ranker.incoming = v]
  BY <1>1 DEF AskAbsorb, Absorbed
<1>. QED  BY <1>0, <1>3, <1>4, IncomingTypes DEF SameRanks

LEMMA QuestionsAreNotSeen ==
  ASSUME Types, NEW r \in Runs, r \in Leading, r \in Leading',
         AskDangling(r) \/ AskEmit(r) \/ PassOver(r) \/ AskAbsorb(r) \/ AskResults(r)
  PROVE  UNCHANGED SingleVars
<1>0. IsRun(run[r]) /\ run'[r].pc # "failed" /\ Onward = {"dangling", "emit", "absorb", "apply"}
  BY DEF Types, RunTypes, RunType, Leading, Onward
<1>1. CASE AskDangling(r)
  <2>1. PICK x : x = [run[r] EXCEPT !.dangling =
                        @ + Dangling(web, shard[run[r].at].ranker.ranks, Owned(run[r].at))]
    OBVIOUS
  <2>2. PICK y : y = [x EXCEPT !.pc = "emit", !.at = 1]
    OBVIOUS
  <2>3. /\ run[r].pc = "dangling" /\ Answered(r, Beyond(r, x, y)) /\ UNCHANGED World /\ SameRanks
    BY <1>1, <2>1, <2>2 DEF AskDangling, Calls, World, SameRanks
  <2>4. /\ IsRun(x) /\ x.pc = run[r].pc /\ x.at = run[r].at /\ x.iteration = run[r].iteration
        /\ x.converged = run[r].converged
    BY <1>0, <2>1 DEF IsRun
  <2>5. y.pc = "emit" /\ y.iteration = x.iteration /\ y.converged = x.converged
    BY <2>2, <2>4 DEF IsRun
  <2>6. run'[r] = Beyond(r, x, y)
    BY <1>0, <2>3, AnswerCame
  <2>. QED  BY <1>0, <2>3, <2>4, <2>5, <2>6, QuietMove
<1>2. CASE AskEmit(r)
  <2>1. PICK x : x = [run[r] EXCEPT !.mail =
                        [d \in Shards |-> @[d] \cup {c \in Outgoing(run[r].at) : owner[c.to] = d}]]
    OBVIOUS
  <2>2. PICK y : y = [x EXCEPT !.pc = "absorb", !.at = 1]
    OBVIOUS
  <2>3. /\ run[r].pc = "emit" /\ Answered(r, Beyond(r, x, y)) /\ UNCHANGED World /\ SameRanks
    BY <1>2, <2>1, <2>2, EmitKeepsRanks DEF AskEmit, Calls, World
  <2>4. /\ IsRun(x) /\ x.pc = run[r].pc /\ x.at = run[r].at /\ x.iteration = run[r].iteration
        /\ x.converged = run[r].converged
    BY <1>0, <2>1 DEF IsRun
  <2>5. y.pc = "absorb" /\ y.iteration = x.iteration /\ y.converged = x.converged
    BY <2>2, <2>4 DEF IsRun
  <2>6. run'[r] = Beyond(r, x, y)
    BY <1>0, <2>3, AnswerCame
  <2>. QED  BY <1>0, <2>3, <2>4, <2>5, <2>6, QuietMove
<1>3. CASE PassOver(r) \/ AskAbsorb(r)
  <2>1. PICK x : x = run[r]
    OBVIOUS
  <2>2. PICK y : y = [x EXCEPT !.pc = "apply", !.at = 1]
    OBVIOUS
  <2>3. run[r].pc = "absorb" /\ Answered(r, Beyond(r, x, y)) /\ UNCHANGED World /\ SameRanks
    <3>1. CASE PassOver(r)
      BY <2>1, <2>2, <3>1 DEF PassOver, Answered, World, SameRanks
    <3>2. CASE AskAbsorb(r)
      BY <2>1, <2>2, <3>2, AbsorbKeepsRanks DEF AskAbsorb, Calls, World
    <3>. QED  BY <1>3, <3>1, <3>2
  <2>4. y.pc = "apply" /\ y.at = 1 /\ y.iteration = x.iteration /\ y.converged = x.converged
    BY <1>0, <2>1, <2>2 DEF IsRun
  <2>5. run'[r] = Beyond(r, x, y)
    BY <1>0, <2>3, AnswerCame
  <2>. QED  BY <1>0, <2>1, <2>3, <2>4, <2>5, QuietMove
<1>4. CASE AskResults(r)
  <2>1. PICK x : x = [run[r] EXCEPT !.ranks = Extended(@, shard[run[r].at].ranker.ranks)]
    OBVIOUS
  <2>2. PICK y : y = [x EXCEPT !.pc = "done"]
    OBVIOUS
  <2>3. /\ run[r].pc = "results" /\ Answered(r, Beyond(r, x, y)) /\ UNCHANGED World /\ SameRanks
    BY <1>4, <2>1, <2>2 DEF AskResults, Calls, World, SameRanks
  <2>4. /\ IsRun(x) /\ x.pc = run[r].pc /\ x.at = run[r].at /\ x.iteration = run[r].iteration
        /\ x.converged = run[r].converged
    BY <1>0, <2>1 DEF IsRun
  <2>5. y.pc = "done" /\ y.iteration = x.iteration /\ y.converged = x.converged
    BY <2>2, <2>4 DEF IsRun
  <2>6. run'[r] = Beyond(r, x, y)
    BY <1>0, <2>3, AnswerCame
  <2>. QED  BY <1>0, <2>3, <2>4, <2>5, <2>6, QuietMove
<1>. QED  BY <1>1, <1>2, <1>3, <1>4

-----------------------------------------------------------------------------
(* The shards apply an iteration, one after another.                         *)

LEMMA ResidualsAddUp ==
  ASSUME Types, AllReady, NEW d \in Nat
  PROVE  /\ YetToMove(ShardCount + 1, d) = 0
         /\ \A s \in Shards : /\ YetToMove(s + 1, d) \in Nat /\ Residual(s, d) \in Nat
                              /\ YetToMove(s, d) = Residual(s, d) + YetToMove(s + 1, d)
<1>. DEFINE rest(k) == {s \in Shards : s >= k}
            f == [s \in Shards |-> Residual(s, d)]
<1>0. ShardCount \in Nat /\ Shards = 1..ShardCount /\ IsFiniteSet(Shards)
  BY RankingAssumption, FS_Interval DEF Shards
<1>1. \A s \in Shards : f[s] \in Nat /\ f[s] = Residual(s, d)
  BY SteppedType DEF AllReady
<1>2. ASSUME NEW k PROVE /\ IsFiniteSet(rest(k)) /\ rest(k) \subseteq Shards
                         /\ YetToMove(k, d) = SumFunctionOnSet(f, rest(k))
  <2>. DEFINE g == [s \in rest(k) |-> Residual(s, d)]
  <2>1. IsFiniteSet(rest(k)) /\ rest(k) \subseteq Shards
    BY <1>0, FS_Subset
  <2>2. DOMAIN g = rest(k) /\ \A s \in rest(k) : g[s] = f[s]
    BY <2>1
  <2>3. YetToMove(k, d) = SumFunction(g)
    BY DEF YetToMove
  <2>. HIDE DEF g, f, rest
  <2>4. SumFunctionOnSet(g, rest(k)) = SumFunctionOnSet(f, rest(k))
    BY <2>1, <2>2, SumOfSame
  <2>. QED  BY <2>1, <2>2, <2>3, <2>4 DEF SumFunction
<1>3. YetToMove(ShardCount + 1, d) = 0
  <2>1. rest(ShardCount + 1) = {}
    BY <1>0
  <2>2. YetToMove(ShardCount + 1, d) = SumFunctionOnSet(f, {})
    BY <1>2, <2>1
  <2>. QED  BY <2>2, SumOfNothing
<1>4. ASSUME NEW s \in Shards
      PROVE  /\ YetToMove(s + 1, d) \in Nat /\ Residual(s, d) \in Nat
             /\ YetToMove(s, d) = Residual(s, d) + YetToMove(s + 1, d)
  <2>1. s \in rest(s) /\ rest(s) \ {s} = rest(s + 1)
    BY <1>0
  <2>2. /\ IsFiniteSet(rest(s)) /\ rest(s) \subseteq Shards
        /\ YetToMove(s, d) = SumFunctionOnSet(f, rest(s))
    BY <1>2
  <2>3. /\ IsFiniteSet(rest(s + 1)) /\ rest(s + 1) \subseteq Shards
        /\ YetToMove(s + 1, d) = SumFunctionOnSet(f, rest(s + 1))
    BY <1>2
  <2>4. Residual(s, d) = f[s] /\ f[s] \in Nat
    BY <1>1
  <2>. HIDE DEF f, rest
  <2>5. SumFunctionOnSet(f, rest(s)) = f[s] + SumFunctionOnSet(f, rest(s) \ {s})
    BY <1>1, <2>1, <2>2, SumTakesAny
  <2>6. SumFunctionOnSet(f, rest(s + 1)) \in Nat
    BY <1>1, <2>3, SumIsNatural
  <2>. QED  BY <2>1, <2>2, <2>3, <2>4, <2>5, <2>6
<1>. QED  BY <1>3, <1>4

(* All that will move, moves a page.                                         *)
LEMMA ResidualsAreMoves ==
  ASSUME Types, AllReady, NEW d \in Nat
  PROVE  YetToMove(1, d) =
           SumFunction([p \in Pages |-> Distance(Held[p], Stepped(owner[p], d)[p])])
<1>. DEFINE f == [p \in Pages |-> Distance(Held[p], Stepped(owner[p], d)[p])]
            g == [s \in Shards |-> Residual(s, d)]
<1>0. IsFiniteSet(Shards) /\ IsFiniteSet(Pages)
  BY CountsPages, RankingAssumption, FS_Interval DEF Shards
<1>1. \A p \in Pages : f[p] \in Int /\ owner[p] \in Shards
  <2>. SUFFICES ASSUME NEW p \in Pages PROVE f[p] \in Int /\ owner[p] \in Shards
    OBVIOUS
  <2>1. owner[p] \in Shards /\ Held[p] \in Nat /\ p \in Owned(owner[p])
    BY HeldType DEF Owned
  <2>2. Stepped(owner[p], d)[p] \in Nat
    BY <2>1, SteppedType DEF AllReady
  <2>3. f[p] = Distance(Held[p], Stepped(owner[p], d)[p])
    OBVIOUS
  <2>. HIDE DEF f
  <2>. QED  BY <2>1, <2>2, <2>3 DEF Distance
<1>2. ASSUME NEW s \in Shards, NEW G \in SUBSET Pages, \A p \in Pages : p \in G <=> owner[p] = s
      PROVE  g[s] = SumFunctionOnSet(f, G)
  <2>. DEFINE h == [p \in Owned(s) |-> Distance(shard[s].ranker.ranks[p], Stepped(s, d)[p])]
  <2>1. DOMAIN h = Owned(s) /\ IsFiniteSet(Owned(s))
    BY <1>0, FS_Subset DEF Owned
  <2>2. \A p \in Owned(s) : h[p] = f[p]
    <3>1. \A p \in Owned(s) : p \in Pages /\ owner[p] = s /\ Held[p] = shard[s].ranker.ranks[p]
      BY HeldType DEF Owned
    <3>. QED  BY <3>1
  <2>3. g[s] = SumFunction(h)
    BY DEF Residual
  <2>4. Owned(s) = G
    BY <1>2 DEF Owned
  <2>. HIDE DEF h, f, g
  <2>5. SumFunctionOnSet(h, Owned(s)) = SumFunctionOnSet(f, Owned(s))
    BY <2>1, <2>2, SumOfSame
  <2>. QED  BY <2>1, <2>3, <2>4, <2>5 DEF SumFunction
<1>3. {s \in Shards : s >= 1} = Shards
  BY RankingAssumption DEF Shards
<1>4. YetToMove(1, d) = SumFunction(g) /\ DOMAIN g = Shards /\ DOMAIN f = Pages
  BY <1>3 DEF YetToMove
<1>. HIDE DEF f, g
<1>5. SumFunctionOnSet(g, Shards) = SumFunctionOnSet(f, Pages)
  BY <1>0, <1>1, <1>2, SumByGroups
<1>. QED  BY <1>4, <1>5 DEF SumFunction, f

(* What flows into a page is what arrives in one process.                    *)
LEMMA FlowArrives ==
  ASSUME Types, AllReady, NEW p \in Pages
  PROVE  Arrived(Into(p)) =
           SumFunction([q \in {q \in Pages : p \in Outlinks(web, q)} |-> Share(web, Held[q], q)])
<1>. DEFINE S == {q \in Pages : p \in Outlinks(web, q)}
            message(q) == [from |-> q, to |-> p, share |-> Share(web, Held[q], q)]
            h == [q \in S |-> message(q)]
            g == [q \in S |-> Share(web, Held[q], q)]
            f == [c \in Into(p) |-> c.share]
<1>0. IsFiniteSet(Flow) /\ Flow \subseteq Messages /\ web \in Webs /\ web \in SUBSET (Pages \X Pages)
  BY FlowType, WebIsFinite DEF Types, WorldType
<1>1. IsFiniteSet(S)
  BY CountsPages, FS_Subset
<1>2. Into(p) = {h[q] : q \in S}
  <2>1. ASSUME NEW q \in S PROVE h[q] \in Into(p)
    <3>1. <<q, p>> \in web /\ q # p /\ q \in Pages
      BY DEF Outlinks
    <3>2. PICK l : l = <<q, p>>
      OBVIOUS
    <3>3. l \in web /\ l[1] = q /\ l[2] = p
      BY <3>1, <3>2
    <3>4. message(q) = [from |-> l[1], to |-> l[2], share |-> Share(web, Held[l[1]], l[1])]
      BY <3>3
    <3>5. message(q) \in Flow
      BY <3>1, <3>3, <3>4 DEF Flow
    <3>. QED  BY <3>5 DEF Into
  <2>2. ASSUME NEW c \in Into(p) PROVE \E q \in S : c = h[q]
    <3>1. PICK l \in web : /\ l[1] # l[2]
                           /\ c = [from |-> l[1], to |-> l[2], share |-> Share(web, Held[l[1]], l[1])]
      BY DEF Into, Flow
    <3>2. l[2] = p /\ l = <<l[1], l[2]>> /\ l[1] \in Pages
      BY <1>0, <3>1 DEF Into
    <3>3. l[1] \in S
      BY <3>1, <3>2 DEF Outlinks
    <3>. QED  BY <3>1, <3>2, <3>3
  <2>. QED  BY <2>1, <2>2
<1>3. \A q \in S : f[h[q]] \in Int /\ g[q] = f[h[q]]
  <2>1. ASSUME NEW q \in S PROVE f[h[q]] \in Int /\ g[q] = f[h[q]]
    <3>1. h[q] \in Into(p) /\ h[q].share = g[q] /\ h[q] \in Messages
      BY <1>0, <1>2 DEF Into
    <3>2. h[q].share \in Nat
      BY <3>1 DEF Messages
    <3>. QED  BY <3>1, <3>2
  <2>. QED  BY <2>1
<1>4. \A q, t \in S : h[q] = h[t] => q = t
  <2>1. \A q \in S : h[q].from = q
    OBVIOUS
  <2>. QED  BY <2>1
<1>5. DOMAIN f = Into(p) /\ DOMAIN g = S
  OBVIOUS
<1>. HIDE DEF f, g, h, S
<1>6. SumFunctionOnSet(g, S) = SumFunctionOnSet(f, {h[q] : q \in S})
  BY <1>1, <1>3, <1>4, SumRenamed
<1>. QED  BY <1>2, <1>5, <1>6 DEF Arrived, SumFunction, f, g, S

(* After the s-th shard has applied, one process sees the vector that all    *)
(* shards from the s-th on were about to hold.                               *)
LEMMA AppliedView ==
  ASSUME Types, GatherInv, NEW r \in Runs, r \in Leading, r \in Leading', AskApply(r),
         NEW s, s = run[r].at, NEW d, d = run[r].dangling
  PROVE  /\ run[r].pc = "apply" /\ s \in 1..ShardCount /\ d \in Nat /\ AllReady /\ UNCHANGED World
         /\ ~run[r].converged /\ run[r].residual \in Nat /\ run[r].iteration \in Nat
         /\ SingleCurrent' = [p \in Pages |-> IF owner[p] >= s THEN Stepped(owner[p], d)[p]
                                              ELSE shard[owner[p]].ranker.ranks[p]]
         /\ SingleIterations' = run[r].iteration
         /\ SingleStill' <=> run[r].residual + YetToMove(s, d) < Tolerance
<1>0. /\ IsRun(run[r]) /\ RunType(run[r]) /\ run'[r].pc # "failed" /\ s \in Shards /\ AllReady
      /\ Gathered(run[r]) /\ ShardCount \in Nat /\ s \in 1..ShardCount
  BY LeaderHolds, RankingAssumption DEF Types, RunTypes, RunType, Leading, GatherInv, Shards
<1>1. PICK x : x = [run[r] EXCEPT !.residual = run[r].residual + Residual(s, d)]
  OBVIOUS
<1>2. PICK y : y = Ended(x)
  OBVIOUS
<1>3. PICK z : z = Beyond(r, x, y)
  OBVIOUS
<1>4. /\ run[r].pc = "apply" /\ Answered(r, z) /\ UNCHANGED World /\ holder' = holder
      /\ shard' = Applied(s, d)
  BY <1>1, <1>2, <1>3 DEF AskApply, Calls, World
<1>5. run'[r] = z
  BY <1>0, <1>4, AnswerCame
<1>6. /\ ~run[r].converged /\ run[r].converged = FALSE
      /\ d \in Nat /\ run[r].residual \in Nat /\ run[r].iteration \in Nat
  BY <1>0, <1>4, RankAssumption DEF Gathered, RunType
<1>7. /\ IsRun(x) /\ x.pc = "apply" /\ x.at = s /\ x.iteration = run[r].iteration /\ x.dangling = d
      /\ x.converged = FALSE /\ x.residual = run[r].residual + Residual(s, d)
  BY <1>0, <1>1, <1>4, <1>6 DEF IsRun
<1>8. \/ /\ s < ShardCount /\ z.at = s + 1 /\ z.pc = x.pc /\ z.iteration = x.iteration
         /\ z.dangling = x.dangling /\ z.residual = x.residual /\ z.converged = x.converged
      \/ s = ShardCount /\ z = y
  BY <1>3, <1>7, GoesBeyond
<1>9. PICK v : v = Stepped(s, d)
  OBVIOUS
<1>10. v \in [Owned(s) -> Nat]
  BY <1>0, <1>6, <1>9, SteppedType DEF AllReady
<1>11. shard' = [shard EXCEPT ![s].ranker.ranks = v]
  BY <1>4, <1>9 DEF Applied
<1>12. /\ shard'[s].ranker.ranks = Stepped(s, d)
       /\ \A u \in Shards : u # s => shard'[u] = shard[u]
  BY <1>0, <1>4, <1>9, <1>10, <1>11, RanksTypes DEF AllReady
<1>13. /\ \A p \in Pages : owner[p] \in Shards /\ owner[p] \in Nat /\ owner'[p] = owner[p]
       /\ owner' = owner
  BY <1>0, <1>4, HeldType DEF World, Shards
<1>14. \A u \in Shards : u # s => Stepped(u, d)' = Stepped(u, d) /\ Residual(u, d)' = Residual(u, d)
  BY <1>12, <1>13 DEF Stepped, Residual, Owned
<1>15. Residual(s, d) \in Nat /\ YetToMove(s + 1, d) \in Nat /\ YetToMove(s, d) = Residual(s, d) + YetToMove(s + 1, d)
  BY <1>0, <1>6, ResidualsAddUp
<1>16. CASE /\ s < ShardCount /\ z.at = s + 1 /\ z.pc = x.pc /\ z.iteration = x.iteration
            /\ z.dangling = x.dangling /\ z.residual = x.residual /\ z.converged = x.converged
  <2>1. Among(run'[r]) /\ run'[r].at = s + 1 /\ run'[r].dangling = d /\ run'[r].iteration = run[r].iteration
        /\ run'[r].residual = run[r].residual + Residual(s, d) /\ ~run'[r].converged
    BY <1>0, <1>5, <1>7, <1>16 DEF Among
  <2>2. SingleCurrent' = [p \in Pages |-> IF owner[p] >= s THEN Stepped(owner[p], d)[p]
                                          ELSE shard[owner[p]].ranker.ranks[p]]
    <3>1. ASSUME NEW p \in Pages
          PROVE  AheadRank(run[r], p)' = IF owner[p] >= s THEN Stepped(owner[p], d)[p]
                                          ELSE shard[owner[p]].ranker.ranks[p]
      <4>1. CASE owner[p] = s
        <5>1. ~(owner'[p] >= run'[r].at) /\ owner[p] >= s
          BY <1>0, <1>13, <2>1, <4>1
        <5>2. AheadRank(run[r], p)' = shard'[s].ranker.ranks[p]
          <6>1. owner'[p] = s
            BY <1>13, <4>1
          <6>. QED  BY <5>1, <6>1 DEF AheadRank
        <5>. QED  BY <1>12, <4>1, <5>1, <5>2
      <4>2. CASE owner[p] # s
        <5>1. owner'[p] >= run'[r].at <=> owner[p] >= s
          BY <1>0, <1>13, <2>1, <4>2
        <5>2. shard'[owner[p]] = shard[owner[p]] /\ Stepped(owner[p], d)' = Stepped(owner[p], d)
          BY <1>12, <1>13, <1>14, <4>2
        <5>3. AheadRank(run[r], p)' = IF owner'[p] >= run'[r].at THEN Stepped(owner[p], d)'[p]
                                      ELSE shard'[owner[p]].ranker.ranks[p]
          BY <1>13, <2>1 DEF AheadRank, Among
        <5>. QED  BY <5>1, <5>2, <5>3
      <4>. QED  BY <4>1, <4>2
    <3>. QED  BY <3>1, ViewAfter
  <2>3. SingleIterations' = run[r].iteration
    BY <2>1, ViewAfter
  <2>4. YetToMove(run[r].at, run[r].dangling)' = YetToMove(s + 1, d)
    <3>1. \A u \in {u \in Shards : u >= s + 1} : Residual(u, run[r].dangling)' = Residual(u, d)
      <4>1. ASSUME NEW u \in Shards, u >= s + 1 PROVE Residual(u, run[r].dangling)' = Residual(u, d)
        <5>1. run'[r].dangling = d /\ u # s
          BY <1>0, <2>1, <4>1 DEF Shards
        <5>2. Residual(u, run[r].dangling)' = Residual(u, d)'
          BY <2>1, <5>1 DEF Residual, Stepped
        <5>. QED  BY <1>14, <5>1, <5>2
      <4>. QED  BY <4>1
    <3>. QED  BY <2>1, <3>1 DEF YetToMove
  <2>5. SingleStill' <=> run[r].residual + YetToMove(s, d) < Tolerance
    <3>1. SingleStill' <=> (run[r].residual + Residual(s, d)) + YetToMove(s + 1, d) < Tolerance
      BY <2>1, <2>4, ViewAfter
    <3>. QED  BY <1>6, <1>15, <3>1
  <2>. QED  BY <1>0, <1>4, <1>6, <2>2, <2>3, <2>5
<1>17. CASE s = ShardCount /\ z = y
  <2>1. /\ ~Among(run'[r])
        /\ run'[r].converged <=> run[r].residual + Residual(s, d) < Tolerance
        /\ \/ run'[r].pc = "dangling" /\ run'[r].iteration = run[r].iteration + 1
           \/ run'[r].pc = "results" /\ run'[r].iteration = run[r].iteration
    <3>1. CASE Converges(x)
      <4>1. y = Concluding([x EXCEPT !.converged = TRUE])
        BY <1>2, <3>1 DEF Ended
      <4>2. y.pc = "results" /\ y.iteration = run[r].iteration /\ y.converged
        BY <1>7, <4>1 DEF Concluding, IsRun
      <4>. QED  BY <1>5, <1>7, <1>17, <3>1, <4>2 DEF Among, Converges
    <3>2. CASE ~Converges(x) /\ x.iteration < MaxIterations
      <4>1. y = Iterating(x)
        BY <1>2, <3>2 DEF Ended, NextIteration
      <4>2. y.pc = "dangling" /\ y.iteration = run[r].iteration + 1 /\ ~y.converged
        BY <1>7, <4>1 DEF Iterating, IsRun
      <4>. QED  BY <1>5, <1>7, <1>17, <3>2, <4>2 DEF Among, Converges
    <3>3. CASE ~Converges(x) /\ ~(x.iteration < MaxIterations)
      <4>1. y = Concluding(x)
        BY <1>2, <3>3 DEF Ended, NextIteration
      <4>2. y.pc = "results" /\ y.iteration = run[r].iteration /\ ~y.converged
        BY <1>7, <4>1 DEF Concluding, IsRun
      <4>. QED  BY <1>5, <1>7, <1>17, <3>3, <4>2 DEF Among, Converges
    <3>. QED  BY <3>1, <3>2, <3>3
  <2>2. SingleCurrent' = [p \in Pages |-> IF owner[p] >= s THEN Stepped(owner[p], d)[p]
                                          ELSE shard[owner[p]].ranker.ranks[p]]
    <3>1. ASSUME NEW p \in Pages
          PROVE  AheadRank(run[r], p)' = IF owner[p] >= s THEN Stepped(owner[p], d)[p]
                                          ELSE shard[owner[p]].ranker.ranks[p]
      <4>1. AheadRank(run[r], p)' = shard'[owner[p]].ranker.ranks[p]
        BY <1>13, <2>1 DEF AheadRank, Among
      <4>2. owner[p] >= s <=> owner[p] = s
        BY <1>0, <1>13, <1>17 DEF Shards
      <4>. QED  BY <1>12, <1>13, <4>1, <4>2
    <3>. QED  BY <3>1, ViewAfter
  <2>3. SingleIterations' = run[r].iteration
    BY <1>6, <2>1, ViewAfter DEF Onward
  <2>4. SingleStill' <=> run[r].residual + YetToMove(s, d) < Tolerance
    <3>1. YetToMove(s + 1, d) = 0
      BY <1>0, <1>6, <1>17, ResidualsAddUp
    <3>2. YetToMove(s, d) = Residual(s, d)
      BY <1>15, <3>1
    <3>. QED  BY <2>1, <3>2, ViewAfter
  <2>. QED  BY <1>0, <1>4, <1>6, <2>2, <2>3, <2>4
<1>. QED  BY <1>8, <1>16, <1>17

(* What the shards are about to hold is the next vector of one process, and  *)
(* what they will move in all is what it moves.                              *)
LEMMA GatheredIsFollowing ==
  ASSUME Types, GatherInv, NEW r \in Runs, r \in Leading, run[r].pc = "apply", run[r].at = 1,
         NEW d, d = run[r].dangling
  PROVE  /\ SingleCurrent = Held
         /\ Single!Following = [p \in Pages |-> Stepped(owner[p], d)[p]]
         /\ Single!Moved(Single!Following) = YetToMove(1, d)
<1>0. AllReady /\ d \in Nat /\ Gathered(run[r])
  BY LeaderHolds DEF Types, RunTypes, RunType, GatherInv
<1>1. SingleCurrent = Held
  BY LeaderIsViewed DEF ViewOf, AheadRank, Among, Held
<1>2. /\ d = Dangling(web, Held, Pages)
      /\ \A p \in Pages : Incoming(p) = Arrived(Into(p))
  BY <1>0, DanglingAddsUp DEF Gathered, Fresh
<1>3. ASSUME NEW p \in Pages
      PROVE  Stepped(owner[p], d)[p] = Base(Dangling(web, Held, Pages)) + Single!Arriving(p)
  <2>1. p \in Owned(owner[p])
    BY DEF Owned
  <2>2. Stepped(owner[p], d)[p] = Base(d) + Incoming(p)
    BY <2>1 DEF Stepped, Incoming
  <2>3. Single!Arriving(p) =
          SumFunction([q \in {q \in Pages : p \in Outlinks(web, q)} |-> Share(web, Held[q], q)])
    BY <1>1, SingleArithmetic, SingleSums DEF Single!Arriving
  <2>4. Single!Arriving(p) = Incoming(p)
    BY <1>0, <1>2, <2>3, FlowArrives
  <2>. QED  BY <1>2, <2>2, <2>4
<1>4. Single!Following = [p \in Pages |-> Stepped(owner[p], d)[p]]
  <2>1. Single!Following = [p \in Pages |-> Base(Dangling(web, Held, Pages)) + Single!Arriving(p)]
    BY <1>1, SingleArithmetic DEF Single!Following
  <2>. QED  BY <1>3, <2>1
<1>5. Single!Moved(Single!Following) = YetToMove(1, d)
  <2>1. Single!Moved(Single!Following) =
          SumFunction([p \in Pages |-> Distance(Held[p], Single!Following[p])])
    BY <1>1, SingleArithmetic, SingleSums DEF Single!Moved
  <2>2. [p \in Pages |-> Distance(Held[p], Single!Following[p])] =
        [p \in Pages |-> Distance(Held[p], Stepped(owner[p], d)[p])]
    BY <1>4
  <2>. QED  BY <1>0, <2>1, <2>2, ResidualsAreMoves
<1>. QED  BY <1>1, <1>4, <1>5

LEMMA ApplyIterates ==
  ASSUME Types, GatherInv, NEW r \in Runs, r \in Leading, r \in Leading', AskApply(r)
  PROVE  Single!Iterate \/ UNCHANGED SingleVars
<1>1. PICK s : s = run[r].at
  OBVIOUS
<1>2. PICK d : d = run[r].dangling
  OBVIOUS
<1>3. /\ run[r].pc = "apply" /\ s \in 1..ShardCount /\ d \in Nat /\ AllReady /\ UNCHANGED World
      /\ ~run[r].converged /\ run[r].residual \in Nat /\ run[r].iteration \in Nat
  BY <1>1, <1>2, AppliedView
<1>4. /\ SingleCurrent' = [p \in Pages |-> IF owner[p] >= s THEN Stepped(owner[p], d)[p]
                                            ELSE shard[owner[p]].ranker.ranks[p]]
      /\ SingleIterations' = run[r].iteration
      /\ SingleStill' <=> run[r].residual + YetToMove(s, d) < Tolerance
  BY <1>1, <1>2, AppliedView
<1>5. RunType(run[r]) /\ Gathered(run[r])
  BY DEF Types, RunTypes, GatherInv
<1>6. CASE s = 1
  <2>1. /\ SingleCurrent = Held
        /\ Single!Following = [p \in Pages |-> Stepped(owner[p], d)[p]]
        /\ Single!Moved(Single!Following) = YetToMove(1, d)
    BY <1>1, <1>2, <1>3, <1>6, GatheredIsFollowing
  <2>2. \A p \in Pages : owner[p] >= s
    BY <1>3, <1>6, HeldType DEF Shards
  <2>3. SingleCurrent' = Single!Following
    BY <1>4, <2>1, <2>2
  <2>4. /\ SingleIterations = run[r].iteration - 1 /\ ~SingleStill
    <3>1. ~Among(run[r]) /\ run[r].pc \in Onward
      BY <1>1, <1>3, <1>6 DEF Among, Onward
    <3>. QED  BY <1>3, <3>1, LeaderIsViewed DEF ViewOf
  <2>5. run[r].iteration <= MaxIterations /\ run[r].residual = 0 /\ MaxIterations \in Nat
    BY <1>1, <1>3, <1>5, <1>6, RankAssumption DEF RunType, Gathered, Fresh
  <2>6. SingleIterations < MaxIterations /\ SingleIterations' = SingleIterations + 1
    BY <1>3, <1>4, <2>4, <2>5
  <2>7. YetToMove(1, d) \in Nat
    <3>1. 1 \in Shards
      BY RankingAssumption DEF Shards
    <3>2. /\ YetToMove(1 + 1, d) \in Nat /\ Residual(1, d) \in Nat
          /\ YetToMove(1, d) = Residual(1, d) + YetToMove(1 + 1, d)
      BY <1>3, <3>1, ResidualsAddUp
    <3>. QED  BY <3>2
  <2>8. SingleStill' = (Single!Moved(Single!Following) < Tolerance)
    <3>1. SingleStill' <=> YetToMove(1, d) < Tolerance
      BY <1>4, <1>6, <2>5, <2>7
    <3>2. SingleStill' \in BOOLEAN
      BY DEF SingleStill
    <3>. QED  BY <2>1, <3>1, <3>2
  <2>. QED  BY <1>3, <2>3, <2>4, <2>6, <2>8 DEF Single!Iterate, World
<1>7. CASE s # 1
  <2>1. Among(run[r])
    BY <1>1, <1>3, <1>7, RankingAssumption DEF Among
  <2>2. SingleCurrent' = SingleCurrent
    BY <1>1, <1>2, <1>4, <2>1, LeaderIsViewed DEF ViewOf, AheadRank
  <2>3. SingleIterations' = SingleIterations
    BY <1>4, <2>1, LeaderIsViewed DEF ViewOf
  <2>4. SingleStill' <=> SingleStill
    BY <1>1, <1>2, <1>3, <1>4, <2>1, LeaderIsViewed DEF ViewOf
  <2>5. SingleStill' = SingleStill
    BY <2>4 DEF SingleStill
  <2>. QED  BY <1>3, <2>2, <2>3, <2>5 DEF SingleVars, World
<1>. QED  BY <1>6, <1>7

LEMMA StepsAsOne ==
  Types /\ GatherInv /\ [Next]_rankVars => [Single!Iterate \/ Single!StartOver]_SingleVars
<1>. SUFFICES ASSUME Types, GatherInv, [Next]_rankVars
              PROVE  Single!Iterate \/ Single!StartOver \/ UNCHANGED SingleVars
  OBVIOUS
<1>1. UNCHANGED World /\ RankInv
  BY SameWeb DEF Types
<1>2. CASE Leading' = {}
  BY <1>1, <1>2, NobodyLeads
<1>3. CASE Leading' # {}
  <2>1. PICK r : r \in Leading'
    BY <1>3
  <2>2. r \in Runs /\ Leads(r)' /\ run'[r].pc # "failed"
    BY <2>1 DEF Leading, Leads
  <2>3. CASE r \notin Leading
    BY <2>1, <2>2, <2>3, AnotherLeads
  <2>4. CASE r \in Leading /\ ~Work(r)
    <3>1. run'[r] = run[r]
      BY <1>1, <2>2, <2>4, OthersWait
    <3>2. \A s \in Shards : shard'[s] = shard[s]
      BY <1>1, <2>2, <2>4, <3>1, LeadsAlone DEF Leading
    <3>. QED  BY <1>1, <2>1, <2>4, <3>1, <3>2, NothingMoved
  <2>5. CASE r \in Leading /\ Work(r)
    <3>1. run[r].pc \in Led \cup {"done"}
      BY <2>5, LeaderHolds
    <3>2. ~Connect(r) /\ ~InitShard(r)
      BY <3>1 DEF Connect, InitShard, Calls, Led
    <3>3. ~CallFails(r)
      BY <1>1, <2>2, CallFailsMoves
    <3>. QED  BY <2>1, <2>2, <2>5, <3>2, <3>3, QuestionsAreNotSeen, ApplyIterates DEF Work
  <2>. QED  BY <2>3, <2>4, <2>5
<1>. QED  BY <1>2, <1>3

LEMMA BeginsAsOne == Init => Single!Begin
<1>. SUFFICES ASSUME Init PROVE Single!Begin
  OBVIOUS
<1>1. Leading = {}
  <2>1. 1 \in Shards
    BY RankingAssumption DEF Shards
  <2>2. \A r \in Runs : ~Leads(r)
    BY <2>1, RankingAssumption DEF Init, Leads
  <2>. QED  BY <2>2 DEF Leading
<1>2. SingleCurrent = Uniform /\ SingleIterations = 0 /\ SingleStill = FALSE
  BY <1>1 DEF SingleCurrent, SingleIterations, SingleStill
<1>. QED  BY <1>2, SingleArithmetic DEF Init, Single!Begin

(* However the pages are partitioned over however many shards, and whatever *)
(* other coordinators, restarts and broken connections do meanwhile, the    *)
(* exchanges of an iteration (RankCoordinator::run) compute what one process *)
(* computes (pagerank.rs): every contribution is counted once, on the ranks *)
(* of the iteration before, and the run stops where one process would.      *)
THEOREM ShardsRankAsOneProcess == Spec => RanksAsOneProcess
<1>1. Types /\ [Next]_rankVars => Types'
  BY TypesKept
<1>2. Types /\ GatherInv /\ [Next]_rankVars => GatherInv'
  BY GatherKept
<1>3. Types /\ GatherInv /\ [Next]_rankVars =>
        [Single!Iterate \/ Single!StartOver]_(Single!powerVars)
  BY StepsAsOne DEF Single!powerVars, SingleVars
<1>. QED  BY <1>1, <1>2, <1>3, TypesBegin, GatherBegins, BeginsAsOne, PTL
          DEF Spec, RanksAsOneProcess, Single!Power

-----------------------------------------------------------------------------
(* What one iteration does with all the rank there is.                       *)

\* What pages send to p, and what all of them make of it.
SentTo(w, v, p) == SumFunction([q \in {q \in Pages : p \in Outlinks(w, q)} |-> Share(w, v[q], q)])
NextVector(w, v) == [p \in Pages |-> Base(Dangling(w, v, Pages)) + SentTo(w, v, p)]
Linking(w) == {p \in Pages : Outlinks(w, p) # {}}
Crossed(w) == {l \in w : l[1] # l[2]}
Shared(w, v) == [l \in Crossed(w) |-> Share(w, v[l[1]], l[1])]
Whatever(w, v) == SumFunctionOnSet(Shared(w, v), Crossed(w))

LEMMA LinksAre ==
  ASSUME NEW w \in SUBSET (Pages \X Pages), NEW v \in [Pages -> Nat]
  PROVE  /\ IsFiniteSet(Crossed(w)) /\ IsFiniteSet(Linking(w))
         /\ \A l \in Crossed(w) : /\ l = <<l[1], l[2]>> /\ l[1] \in Linking(w) /\ l[2] \in Outlinks(w, l[1])
                                  /\ l[2] \in Pages /\ Shared(w, v)[l] \in Nat
         /\ \A p \in Pages : \A q \in Outlinks(w, p) : <<p, q>> \in Crossed(w) /\ q \in Pages
         /\ \A p \in Linking(w) : /\ p \in Pages /\ IsFiniteSet(Outlinks(w, p))
                                  /\ Degree(w, p) \in Nat /\ Degree(w, p) # 0 /\ Share(w, v[p], p) \in Nat
<1>1. IsFiniteSet(w)
  BY CountsPages, FS_Product, FS_Subset
<1>2. IsFiniteSet(Crossed(w)) /\ IsFiniteSet(Linking(w))
  BY <1>1, CountsPages, FS_Subset DEF Crossed, Linking
<1>3. ASSUME NEW p \in Pages, NEW q \in Outlinks(w, p)
      PROVE  <<p, q>> \in Crossed(w) /\ q \in Pages /\ Share(w, v[p], p) \in Nat
  <2>1. <<p, q>> \in w /\ p # q /\ q \in Pages /\ v[p] \in Nat
    BY DEF Outlinks
  <2>. QED  BY <2>1, ShareIsNatural DEF Crossed
<1>4. ASSUME NEW l \in Crossed(w)
      PROVE  /\ l = <<l[1], l[2]>> /\ l[1] \in Linking(w) /\ l[2] \in Outlinks(w, l[1])
             /\ l[2] \in Pages /\ Shared(w, v)[l] \in Nat
  <2>1. l = <<l[1], l[2]>> /\ l[1] \in Pages /\ l[2] \in Pages /\ l[1] # l[2] /\ l \in w
    BY DEF Crossed
  <2>2. l[2] \in Outlinks(w, l[1])
    BY <2>1 DEF Outlinks
  <2>3. Share(w, v[l[1]], l[1]) \in Nat
    BY <1>3, <2>1, <2>2
  <2>. QED  BY <2>1, <2>2, <2>3 DEF Linking, Shared
<1>5. ASSUME NEW p \in Linking(w)
      PROVE  /\ p \in Pages /\ IsFiniteSet(Outlinks(w, p))
             /\ Degree(w, p) \in Nat /\ Degree(w, p) # 0 /\ Share(w, v[p], p) \in Nat
  <2>1. p \in Pages /\ Outlinks(w, p) # {} /\ IsFiniteSet(Outlinks(w, p))
    BY CountsPages, FS_Subset DEF Linking, Outlinks
  <2>2. Degree(w, p) \in Nat /\ Degree(w, p) # 0
    BY <2>1, FS_CardinalityType, FS_EmptySet DEF Degree
  <2>. QED  BY <1>3, <2>1, <2>2
<1>. QED  BY <1>2, <1>3, <1>4, <1>5

(* What is sent, page by page to whom.                                       *)
LEMMA SentToAll ==
  ASSUME NEW w \in SUBSET (Pages \X Pages), NEW v \in [Pages -> Nat]
  PROVE  /\ \A p \in Pages : SentTo(w, v, p) \in Nat
         /\ SumFunctionOnSet([p \in Pages |-> SentTo(w, v, p)], Pages) = Whatever(w, v)
<1>. DEFINE f == Shared(w, v)
            g == [p \in Pages |-> SentTo(w, v, p)]
            of == [l \in Crossed(w) |-> l[2]]
<1>1. IsFiniteSet(Crossed(w)) /\ IsFiniteSet(Pages) /\ \A l \in Crossed(w) : f[l] \in Nat
  BY LinksAre, CountsPages
<1>2. ASSUME NEW p \in Pages, NEW G \in SUBSET Crossed(w), \A l \in Crossed(w) : l \in G <=> of[l] = p
      PROVE  g[p] = SumFunctionOnSet(f, G)
  <2>. DEFINE S == {q \in Pages : p \in Outlinks(w, q)}
              k == [q \in S |-> Share(w, v[q], q)]
              h == [q \in S |-> <<q, p>>]
  <2>1. IsFiniteSet(S)
    BY <1>1, FS_Subset
  <2>2. ASSUME NEW q \in S PROVE h[q] \in G /\ f[h[q]] \in Int /\ k[q] = f[h[q]]
    <3>1. h[q] = <<q, p>> /\ h[q] \in Crossed(w) /\ h[q][1] = q /\ h[q][2] = p
      BY LinksAre
    <3>2. f[h[q]] = Share(w, v[q], q)
      BY <3>1 DEF Shared
    <3>. QED  BY <1>1, <1>2, <3>1, <3>2
  <2>3. G = {h[q] : q \in S}
    <3>1. ASSUME NEW l \in G PROVE \E q \in S : l = h[q]
      <4>1. l = <<l[1], l[2]>> /\ l[2] = p /\ l[1] \in Linking(w) /\ p \in Outlinks(w, l[1])
        BY <1>2, LinksAre
      <4>2. l[1] \in S
        BY <4>1 DEF Linking
      <4>. QED  BY <4>1, <4>2
    <3>. QED  BY <2>2, <3>1
  <2>4. \A q, t \in S : h[q] = h[t] => q = t
    OBVIOUS
  <2>5. g[p] = SumFunctionOnSet(k, S)
    <3>1. DOMAIN k = S
      OBVIOUS
    <3>. QED  BY <3>1 DEF SentTo, SumFunction
  <2>. HIDE DEF f, g, of, h, k, S
  <2>6. SumFunctionOnSet(k, S) = SumFunctionOnSet(f, {h[q] : q \in S})
    BY <2>1, <2>2, <2>4, SumRenamed
  <2>. QED  BY <2>3, <2>5, <2>6
<1>3. \A l \in Crossed(w) : f[l] \in Int /\ of[l] \in Pages
  BY <1>1, LinksAre
<1>4. SumFunctionOnSet(g, Pages) = SumFunctionOnSet(f, Crossed(w))
  <2>. HIDE DEF f, g, of
  <2>. QED  BY <1>1, <1>2, <1>3, SumByGroups
<1>5. ASSUME NEW p \in Pages PROVE SentTo(w, v, p) \in Nat
  <2>. DEFINE G == {l \in Crossed(w) : l[2] = p}
  <2>1. \A l \in Crossed(w) : l \in G <=> of[l] = p
    OBVIOUS
  <2>2. IsFiniteSet(G) /\ G \in SUBSET Crossed(w)
    BY <1>1, FS_Subset
  <2>3. g[p] = SumFunctionOnSet(f, G)
    <3>. HIDE DEF G, f, g, of
    <3>. QED  BY <1>2, <2>1, <2>2
  <2>4. SumFunctionOnSet(f, G) \in Nat
    <3>. HIDE DEF f
    <3>. QED  BY <1>1, <2>2, SumIsNatural
  <2>. QED  BY <2>3, <2>4
<1>. QED  BY <1>4, <1>5 DEF Whatever

(* And what is sent, page by page from whom: no more than a page has.        *)
LEMMA SentByOne ==
  ASSUME NEW w \in SUBSET (Pages \X Pages), NEW v \in [Pages -> Nat], NEW p \in Linking(w),
         NEW G \in SUBSET Crossed(w), \A l \in Crossed(w) : l \in G <=> l[1] = p
  PROVE  SumFunctionOnSet(Shared(w, v), G) = Share(w, v[p], p) * Degree(w, p)
<1>. DEFINE O == Outlinks(w, p)
            c == Share(w, v[p], p)
            h == [q \in O |-> <<p, q>>]
            k == [q \in O |-> c]
            f == Shared(w, v)
<1>1. p \in Pages /\ IsFiniteSet(O) /\ c \in Int
  BY LinksAre
<1>2. ASSUME NEW q \in O PROVE h[q] \in G /\ f[h[q]] \in Int /\ k[q] = f[h[q]] /\ k[q] = c
  <2>1. h[q] = <<p, q>> /\ h[q] \in Crossed(w) /\ h[q][1] = p
    BY <1>1, LinksAre
  <2>2. f[h[q]] = c
    BY <2>1 DEF Shared
  <2>. QED  BY <1>1, <2>1, <2>2
<1>3. G = {h[q] : q \in O}
  <2>1. ASSUME NEW l \in G PROVE \E q \in O : l = h[q]
    <3>1. l = <<l[1], l[2]>> /\ l[1] = p /\ l[2] \in Outlinks(w, l[1])
      BY LinksAre
    <3>. QED  BY <3>1
  <2>. QED  BY <1>2, <2>1
<1>4. \A q, t \in O : h[q] = h[t] => q = t
  OBVIOUS
<1>. HIDE DEF h, k, f, O, c
<1>5. SumFunctionOnSet(k, O) = SumFunctionOnSet(f, {h[q] : q \in O})
  BY <1>1, <1>2, <1>4, SumRenamed
<1>6. SumFunctionOnSet(k, O) = c * Cardinality(O)
  BY <1>1, <1>2, SumOfAlike
<1>. QED  BY <1>3, <1>5, <1>6 DEF f, O, c, Degree

LEMMA Regroups ==
  ASSUME NEW a \in Nat, NEW b \in Nat, NEW c \in Nat
  PROVE  a * (b * c) = (a * c) * b
OBVIOUS

LEMMA SentByAll ==
  ASSUME NEW w \in SUBSET (Pages \X Pages), NEW v \in [Pages -> Nat]
  PROVE  /\ Whatever(w, v) \in Nat
         /\ Den * Whatever(w, v) <= Num * SumFunctionOnSet(v, Linking(w))
         /\ (\A p \in Linking(w) : (Num * v[p]) % (Den * Degree(w, p)) = 0)
            => Den * Whatever(w, v) = Num * SumFunctionOnSet(v, Linking(w))
<1>. DEFINE f == Shared(w, v)
            L == Linking(w)
            g == [p \in L |-> Share(w, v[p], p) * Degree(w, p)]
            of == [l \in Crossed(w) |-> l[1]]
<1>1. /\ IsFiniteSet(Crossed(w)) /\ IsFiniteSet(L)
      /\ \A l \in Crossed(w) : f[l] \in Nat /\ f[l] \in Int /\ of[l] \in L
  BY LinksAre
<1>2. ASSUME NEW p \in L, NEW G \in SUBSET Crossed(w), \A l \in Crossed(w) : l \in G <=> of[l] = p
      PROVE  g[p] = SumFunctionOnSet(f, G)
  BY <1>2, SentByOne
<1>3. SumFunctionOnSet(g, L) = SumFunctionOnSet(f, Crossed(w))
  <2>. HIDE DEF f, g, of, L
  <2>. QED  BY <1>1, <1>2, SumByGroups
<1>4. Whatever(w, v) \in Nat
  <2>. HIDE DEF f
  <2>. QED  BY <1>1, SumIsNatural DEF Whatever, f
<1>5. ASSUME NEW p \in L
      PROVE  /\ g[p] \in Int /\ v[p] \in Int /\ Den * g[p] <= Num * v[p]
             /\ (Num * v[p]) % (Den * Degree(w, p)) = 0 => Den * g[p] = Num * v[p]
  <2>1. p \in Pages /\ v[p] \in Nat /\ Degree(w, p) \in Nat /\ Degree(w, p) # 0 /\ Share(w, v[p], p) \in Nat
    BY LinksAre
  <2>2. Num * v[p] \in Nat /\ Den * Degree(w, p) \in Nat /\ Den * Degree(w, p) # 0
    BY <2>1, Product, RankAssumption
  <2>3. /\ (Den * Degree(w, p)) * Share(w, v[p], p) <= Num * v[p]
        /\ (Num * v[p]) % (Den * Degree(w, p)) = 0 => (Den * Degree(w, p)) * Share(w, v[p], p) = Num * v[p]
    BY <2>2, DivisionRoundsDown DEF Share
  <2>4. g[p] = Share(w, v[p], p) * Degree(w, p) /\ g[p] \in Nat
    BY <2>1, Product
  <2>5. Den * g[p] = (Den * Degree(w, p)) * Share(w, v[p], p)
    BY <2>1, <2>4, Regroups, RankAssumption
  <2>. HIDE DEF g
  <2>. QED  BY <2>1, <2>3, <2>4, <2>5
<1>6. Den \in Int /\ Num \in Int
  BY RankAssumption
<1>. HIDE DEF g, f, L
<1>7. Den * SumFunctionOnSet(g, L) <= Num * SumFunctionOnSet(v, L)
  BY <1>1, <1>5, <1>6, SumsCompare
<1>8. ASSUME \A p \in Linking(w) : (Num * v[p]) % (Den * Degree(w, p)) = 0
      PROVE  Den * SumFunctionOnSet(g, L) = Num * SumFunctionOnSet(v, L)
  <2>1. \A p \in L : Den * g[p] = Num * v[p]
    BY <1>5, <1>8 DEF L
  <2>. QED  BY <1>1, <1>5, <1>6, <2>1, SumsCompare
<1>. QED  BY <1>3, <1>4, <1>7, <1>8 DEF L, f, Whatever

(* So damping takes its part of everything and gives it back to all.         *)
LEMMA MoreIsMore ==
  ASSUME NEW c \in Nat, NEW a \in Nat, NEW b \in Nat
  PROVE  /\ a <= b => c * a <= c * b
         /\ c # 0 /\ c * a <= c * b => a <= b
         /\ c # 0 /\ c * a = c * b => a = b
<1>1. ASSUME a <= b PROVE c * a <= c * b
  <2>1. b - a \in Nat /\ c * (b - a) \in Nat
    BY <1>1
  <2>2. b = a + (b - a) /\ c * (a + (b - a)) = c * a + c * (b - a)
    BY <2>1, Distributes
  <2>3. c * a \in Nat /\ c * b = c * a + c * (b - a)
    BY <2>2, Product
  <2>. QED  BY <2>1, <2>3
<1>2. ASSUME c # 0, b < a PROVE c * b < c * a
  <2>1. a - b \in Nat /\ a - b # 0 /\ c * (a - b) \in Nat /\ c * (a - b) # 0
    BY <1>2, Product
  <2>2. a = b + (a - b) /\ c * (b + (a - b)) = c * b + c * (a - b)
    BY <2>1, Distributes
  <2>3. c * b \in Nat /\ c * a = c * b + c * (a - b)
    BY <2>2, Product
  <2>. QED  BY <2>1, <2>3
<1>3. ASSUME c # 0, a < b PROVE c * a < c * b
  <2>1. b - a \in Nat /\ b - a # 0 /\ c * (b - a) \in Nat /\ c * (b - a) # 0
    BY <1>3, Product
  <2>2. b = a + (b - a) /\ c * (a + (b - a)) = c * a + c * (b - a)
    BY <2>1, Distributes
  <2>3. c * a \in Nat /\ c * b = c * a + c * (b - a)
    BY <2>2, Product
  <2>. QED  BY <2>1, <2>3
<1>4. c * a \in Nat /\ c * b \in Nat
  BY Product
<1>. QED  BY <1>1, <1>2, <1>3, <1>4

LEMMA BaseIsShared ==
  ASSUME NEW d \in Nat
  PROVE  /\ Den * (Base(d) * Count) <= (Den - Num) * Whole + Num * d
         /\ ((Den - Num) * Whole) % (Den * Count) = 0 /\ (Num * d) % (Den * Count) = 0
            => Den * (Base(d) * Count) = (Den - Num) * Whole + Num * d
<1>. DEFINE X == (Den - Num) * Whole
            Y == Num * d
            e == Den * Count
            x == X \div e
            y == Y \div e
<1>1. X \in Nat /\ Y \in Nat /\ e \in Nat /\ e # 0 /\ Den \in Nat /\ Count \in Nat
  <2>1. Den - Num \in Nat
    BY RankAssumption
  <2>. QED  BY <2>1, CountsPages, Product, RankAssumption
<1>2. Base(d) = x + y
  BY DEF Base
<1>. HIDE DEF X, Y, e
<1>3. x \in Nat /\ y \in Nat /\ e * x <= X /\ e * y <= Y /\ e * x \in Nat /\ e * y \in Nat
      /\ (X % e = 0 => e * x = X) /\ (Y % e = 0 => e * y = Y)
  BY <1>1, Quotient, Product, DivisionRoundsDown
<1>. HIDE DEF x, y
<1>4. Den * (Base(d) * Count) = e * x + e * y
  <2>1. Den * ((x + y) * Count) = (Den * Count) * (x + y)
    BY <1>1, <1>3, Regroups
  <2>2. e * (x + y) = e * x + e * y
    BY <1>1, <1>3, Distributes
  <2>. QED  BY <1>2, <2>1, <2>2 DEF e
<1>5. Den * (Base(d) * Count) <= X + Y
  BY <1>1, <1>3, <1>4
<1>6. X % e = 0 /\ Y % e = 0 => Den * (Base(d) * Count) = X + Y
  BY <1>1, <1>3, <1>4
<1>. QED  BY <1>5, <1>6 DEF X, Y, e

LEMMA MassFollows ==
  ASSUME NEW w \in SUBSET (Pages \X Pages), NEW v \in [Pages -> Nat]
  PROVE  /\ NextVector(w, v) \in [Pages -> Nat]
         /\ Total(v) <= Whole => Total(NextVector(w, v)) <= Whole
         /\ /\ Total(v) = Whole
            /\ ((Den - Num) * Whole) % (Den * Count) = 0
            /\ (Num * Dangling(w, v, Pages)) % (Den * Count) = 0
            /\ \A p \in Pages : Outlinks(w, p) # {} => (Num * v[p]) % (Den * Degree(w, p)) = 0
            => Total(NextVector(w, v)) = Whole
<1>. DEFINE L == Linking(w)
            H == {p \in Pages : Outlinks(w, p) = {}}
            d == Dangling(w, v, Pages)
            n == SumFunctionOnSet(v, L)
            S == Whatever(w, v)
            b == [p \in Pages |-> Base(d)]
            s == [p \in Pages |-> SentTo(w, v, p)]
            next == NextVector(w, v)
<1>1. IsFiniteSet(Pages) /\ IsFiniteSet(L) /\ IsFiniteSet(H) /\ H \cap L = {} /\ H \cup L = Pages
  BY CountsPages, FS_Subset DEF Linking
<1>2. \A p \in Pages : v[p] \in Nat /\ v[p] \in Int
  OBVIOUS
<1>3. d = SumFunctionOnSet(v, H) /\ d \in Nat /\ n \in Nat
  <2>1. d = SumFunctionOnSet(v, H)
    BY DEF Dangling
  <2>. HIDE DEF d, H, L
  <2>. QED  BY <1>1, <1>2, <2>1, SumIsNatural
<1>4. Total(v) = d + n
  <2>1. DOMAIN v = Pages
    OBVIOUS
  <2>. HIDE DEF d, H, L
  <2>2. SumFunctionOnSet(v, H \cup L) = SumFunctionOnSet(v, H) + SumFunctionOnSet(v, L)
    BY <1>1, <1>2, SumOfBoth
  <2>. QED  BY <1>1, <1>3, <2>1, <2>2 DEF Total, SumFunction
<1>5. Base(d) \in Nat /\ \A p \in Pages : SentTo(w, v, p) \in Nat
  BY <1>3, BaseIsNatural, SentToAll
<1>6. next \in [Pages -> Nat] /\ DOMAIN next = Pages
      /\ \A p \in Pages : b[p] \in Int /\ s[p] \in Int /\ next[p] = b[p] + s[p] /\ b[p] = Base(d)
  BY <1>5 DEF NextVector
<1>7. SumFunctionOnSet(s, Pages) = S
  BY SentToAll
<1>. HIDE DEF d, b, s, next, H, L, S, n
<1>8. Total(next) = Base(d) * Count + S
  <2>1. SumFunctionOnSet(next, Pages) = SumFunctionOnSet(b, Pages) + SumFunctionOnSet(s, Pages)
    BY <1>1, <1>6, SumOfSums
  <2>2. SumFunctionOnSet(b, Pages) = Base(d) * Count
    BY <1>1, <1>5, <1>6, SumOfAlike DEF Count
  <2>. QED  BY <1>6, <1>7, <2>1, <2>2 DEF Total, SumFunction
<1>9. /\ S \in Nat /\ Den * S <= Num * n
      /\ (\A p \in Linking(w) : (Num * v[p]) % (Den * Degree(w, p)) = 0) => Den * S = Num * n
  BY SentByAll DEF S, n, L
<1>10. Den \in Nat /\ Den # 0 /\ Num \in Nat /\ Whole \in Nat /\ Den - Num \in Nat /\ Count \in Nat
  BY RankAssumption, CountsPages
<1>. DEFINE k == Base(d) * Count
            X == (Den - Num) * Whole
<1>11. k \in Nat /\ X \in Nat /\ Den * k \in Nat /\ Den * S \in Nat /\ Num * d \in Nat /\ Num * n \in Nat /\ Num * Whole \in Nat
  BY <1>3, <1>5, <1>9, <1>10, Product
<1>12. Den * Total(next) = Den * k + Den * S /\ Total(next) \in Nat
  <2>1. Total(next) = k + S
    BY <1>8
  <2>. HIDE DEF k
  <2>. QED  BY <1>9, <1>10, <1>11, <2>1, Distributes
<1>13. Num * Total(v) = Num * d + Num * n /\ Total(v) \in Nat
  BY <1>3, <1>4, <1>10, Distributes
<1>14. Den * Whole = X + Num * Whole
  <2>1. Whole * (Den - Num) \in Nat /\ Whole * ((Den - Num) + Num) = Whole * (Den - Num) + Whole * Num
    BY <1>10, Distributes, Product
  <2>2. (Den - Num) + Num = Den
    BY <1>10
  <2>3. Whole * Den = Den * Whole /\ Whole * (Den - Num) = (Den - Num) * Whole /\ Whole * Num = Num * Whole
    BY <1>10
  <2>. QED  BY <2>1, <2>2, <2>3
<1>15. /\ Den * k <= X + Num * d
       /\ X % (Den * Count) = 0 /\ (Num * d) % (Den * Count) = 0 => Den * k = X + Num * d
  BY <1>3, BaseIsShared
<1>. HIDE DEF k, X
<1>16. ASSUME Total(v) <= Whole PROVE Total(next) <= Whole
  <2>1. Num * Total(v) <= Num * Whole
    BY <1>10, <1>13, <1>16, MoreIsMore
  <2>2. Den * Total(next) <= Den * Whole
    BY <1>9, <1>11, <1>12, <1>13, <1>14, <1>15, <2>1
  <2>. QED  BY <1>10, <1>12, <2>2, MoreIsMore
<1>17. ASSUME Total(v) = Whole, X % (Den * Count) = 0, (Num * d) % (Den * Count) = 0,
              \A p \in Linking(w) : (Num * v[p]) % (Den * Degree(w, p)) = 0
       PROVE  Total(next) = Whole
  <2>1. Num * d + Num * n = Num * Whole
    BY <1>13, <1>17
  <2>2. Den * S = Num * n /\ Den * k = X + Num * d
    BY <1>9, <1>15, <1>17
  <2>3. Den * Total(next) = Den * Whole
    BY <1>11, <1>12, <1>14, <2>1, <2>2
  <2>. QED  BY <1>10, <1>12, <2>3, MoreIsMore
<1>. QED  BY <1>6, <1>16, <1>17 DEF next, d, X, Linking

-----------------------------------------------------------------------------
(* Between the last iteration and the last result.                           *)

Going == Phases \ {"results", "done", "failed"}
Underway(x, y) == y.ranks = x.ranks /\ (y.pc \in Going \/ (y.pc = "results" /\ y.at = 1))

LEMMA BeyondUnderway ==
  ASSUME NEW r, NEW x, IsRun(x), x.pc \in Going, NEW then, Underway(x, then),
         NEW y, y = Beyond(r, x, then)
  PROVE  Underway(x, y)
<1>1. CASE y = [x EXCEPT !.at = x.at + 1]
  <2>1. y.ranks = x.ranks /\ y.pc = x.pc
    BY <1>1 DEF IsRun
  <2>. QED  BY <2>1 DEF Underway
<1>. QED  BY <1>1 DEF Beyond

LEMMA NextIterationUnderway ==
  ASSUME NEW x, IsRun(x), NEW y, y = NextIteration(x) PROVE Underway(x, y)
<1>1. CASE y = Iterating(x)
  <2>1. y.ranks = x.ranks /\ y.pc = "dangling"
    BY <1>1 DEF Iterating, IsRun
  <2>. QED  BY <2>1 DEF Underway, Going, Phases
<1>2. CASE y = Concluding(x)
  <2>1. y.ranks = x.ranks /\ y.pc = "results" /\ y.at = 1
    BY <1>2 DEF Concluding, IsRun
  <2>. QED  BY <2>1 DEF Underway
<1>. QED  BY <1>1, <1>2 DEF NextIteration

LEMMA EndedUnderway ==
  ASSUME NEW x, IsRun(x), NEW y, y = Ended(x) PROVE Underway(x, y)
<1>1. CASE Converges(x)
  <2>1. PICK z : z = [x EXCEPT !.converged = TRUE]
    OBVIOUS
  <2>2. IsRun(z) /\ z.ranks = x.ranks /\ y = Concluding(z)
    BY <1>1, <2>1 DEF Ended, IsRun
  <2>3. y.ranks = x.ranks /\ y.pc = "results" /\ y.at = 1
    BY <2>2 DEF Concluding, IsRun
  <2>. QED  BY <2>3 DEF Underway
<1>2. CASE ~Converges(x)
  BY <1>2, NextIterationUnderway DEF Ended
<1>. QED  BY <1>1, <1>2

LEMMA AnswerOrNone ==
  ASSUME Types, NEW r \in Runs, NEW x, Answered(r, x)
  PROVE  run'[r].pc = "failed" \/ (run'[r] = x /\ link' = link)
<1>1. Fails(r) => run'[r].pc = "failed"
  BY DEF Fails, Types, RankInv, RunsShaped, IsRun
<1>2. CASE run' = [run EXCEPT ![r] = x] /\ UNCHANGED <<link, cuts>>
  BY <1>2 DEF Types, RankInv, RunsShaped
<1>. QED  BY <1>1, <1>2 DEF Answered

(* Until it is over, a run has no results.                                   *)
LEMMA RunGoesOn ==
  ASSUME Types, NEW r \in Runs, Work(r), ~AskResults(r)
  PROVE  run'[r].pc = "failed" \/ (run[r].pc \in Going /\ Underway(run[r], run'[r]))
<1>0. IsRun(run[r]) /\ run = [q \in Runs |-> run[q]]
  BY DEF Types, RankInv, RunsShaped
<1>1. CASE Connect(r)
  <2>1. PICK y : y = [run[r] EXCEPT !.pc = "init", !.at = 1]
    OBVIOUS
  <2>2. run'[r] = Beyond(r, run[r], y) /\ run[r].pc = "connect"
    BY <1>0, <1>1, <2>1 DEF Connect
  <2>3. y.pc = "init" /\ y.ranks = run[r].ranks
    BY <1>0, <2>1 DEF IsRun
  <2>. QED  BY <1>0, <2>2, <2>3, BeyondUnderway DEF Underway, Going, Phases
<1>2. CASE InitShard(r)
  <2>1. PICK y : y = NextIteration(run[r])
    OBVIOUS
  <2>2. Underway(run[r], y)
    BY <1>0, <2>1, NextIterationUnderway
  <2>3. run[r].pc = "init" /\ (Answered(r, Beyond(r, run[r], y)) \/ Fails(r))
    BY <1>2, <2>1 DEF InitShard, Calls, Refused
  <2>4. CASE Answered(r, Beyond(r, run[r], y))
    BY <1>0, <2>2, <2>3, <2>4, AnswerOrNone, BeyondUnderway DEF Going, Phases
  <2>5. CASE Fails(r)
    BY <1>0, <2>5 DEF Fails, IsRun
  <2>. QED  BY <2>3, <2>4, <2>5
<1>3. CASE AskDangling(r)
  <2>1. PICK x : x = [run[r] EXCEPT !.dangling =
                        @ + Dangling(web, shard[run[r].at].ranker.ranks, Owned(run[r].at))]
    OBVIOUS
  <2>2. PICK y : y = [x EXCEPT !.pc = "emit", !.at = 1]
    OBVIOUS
  <2>3. run[r].pc = "dangling" /\ Answered(r, Beyond(r, x, y))
    BY <1>3, <2>1, <2>2 DEF AskDangling, Calls
  <2>4. IsRun(x) /\ x.pc = run[r].pc /\ x.ranks = run[r].ranks
    BY <1>0, <2>1 DEF IsRun
  <2>5. y.pc = "emit" /\ y.ranks = x.ranks
    BY <2>2, <2>4 DEF IsRun
  <2>6. Underway(x, Beyond(r, x, y))
    BY <2>3, <2>4, <2>5, BeyondUnderway DEF Underway, Going, Phases
  <2>. QED  BY <2>3, <2>4, <2>6, AnswerOrNone DEF Underway, Going, Phases
<1>4. CASE AskEmit(r)
  <2>1. PICK x : x = [run[r] EXCEPT !.mail =
                        [d \in Shards |-> @[d] \cup {c \in Outgoing(run[r].at) : owner[c.to] = d}]]
    OBVIOUS
  <2>2. PICK y : y = [x EXCEPT !.pc = "absorb", !.at = 1]
    OBVIOUS
  <2>3. run[r].pc = "emit" /\ Answered(r, Beyond(r, x, y))
    BY <1>4, <2>1, <2>2 DEF AskEmit, Calls
  <2>4. IsRun(x) /\ x.pc = run[r].pc /\ x.ranks = run[r].ranks
    BY <1>0, <2>1 DEF IsRun
  <2>5. y.pc = "absorb" /\ y.ranks = x.ranks
    BY <2>2, <2>4 DEF IsRun
  <2>6. Underway(x, Beyond(r, x, y))
    BY <2>3, <2>4, <2>5, BeyondUnderway DEF Underway, Going, Phases
  <2>. QED  BY <2>3, <2>4, <2>6, AnswerOrNone DEF Underway, Going, Phases
<1>5. CASE PassOver(r)
  <2>1. PICK y : y = [run[r] EXCEPT !.pc = "apply", !.at = 1]
    OBVIOUS
  <2>2. run'[r] = Beyond(r, run[r], y) /\ run[r].pc = "absorb"
    BY <1>0, <1>5, <2>1 DEF PassOver
  <2>3. y.pc = "apply" /\ y.ranks = run[r].ranks
    BY <1>0, <2>1 DEF IsRun
  <2>. QED  BY <1>0, <2>2, <2>3, BeyondUnderway DEF Underway, Going, Phases
<1>6. CASE AskAbsorb(r)
  <2>1. PICK y : y = [run[r] EXCEPT !.pc = "apply", !.at = 1]
    OBVIOUS
  <2>2. Answered(r, Beyond(r, run[r], y)) /\ run[r].pc = "absorb"
    BY <1>6, <2>1 DEF AskAbsorb, Calls
  <2>3. y.pc = "apply" /\ y.ranks = run[r].ranks
    BY <1>0, <2>1 DEF IsRun
  <2>4. Underway(run[r], Beyond(r, run[r], y))
    BY <1>0, <2>2, <2>3, BeyondUnderway DEF Underway, Going, Phases
  <2>. QED  BY <2>2, <2>4, AnswerOrNone DEF Going, Phases
<1>7. CASE AskApply(r)
  <2>1. PICK x : x = [run[r] EXCEPT !.residual = @ + Residual(run[r].at, run[r].dangling)]
    OBVIOUS
  <2>2. PICK y : y = Ended(x)
    OBVIOUS
  <2>3. run[r].pc = "apply" /\ Answered(r, Beyond(r, x, y))
    BY <1>7, <2>1, <2>2 DEF AskApply, Calls
  <2>4. IsRun(x) /\ x.pc = run[r].pc /\ x.ranks = run[r].ranks
    BY <1>0, <2>1 DEF IsRun
  <2>5. Underway(x, y)
    BY <2>2, <2>4, EndedUnderway
  <2>6. Underway(x, Beyond(r, x, y))
    BY <2>3, <2>4, <2>5, BeyondUnderway DEF Going, Phases
  <2>. QED  BY <2>3, <2>4, <2>6, AnswerOrNone DEF Underway, Going, Phases
<1>8. CASE CallFails(r)
  BY <1>0, <1>8 DEF CallFails, Fails, IsRun
<1>. QED  BY <1>1, <1>2, <1>3, <1>4, <1>5, <1>6, <1>7, <1>8 DEF Work

(* A shard's ranks are added to those collected.                             *)
LEMMA ResultsCollect ==
  ASSUME Types, NEW r \in Runs, AskResults(r), NEW right, Collects(r, right)
  PROVE  Collects(r, right)'
<1>. DEFINE s == run[r].at
            mine == run[r].ranks
            theirs == shard[s].ranker.ranks
<1>0. IsRun(run[r]) /\ s \in Shards /\ s \in 1..ShardCount /\ ShardCount \in Nat /\ owner \in [Pages -> Shards]
  BY RankingAssumption DEF Types, RunTypes, RunType, WorldType, Shards
<1>1. PICK n : n = Extended(mine, theirs)
  OBVIOUS
<1>2. PICK x : x = [run[r] EXCEPT !.ranks = n]
  OBVIOUS
<1>3. PICK y : y = [x EXCEPT !.pc = "done"]
  OBVIOUS
<1>4. PICK z : z = Beyond(r, x, y)
  OBVIOUS
<1>5. /\ run[r].pc = "results" /\ link[r][s] = "open" /\ Ready(s) /\ Answered(r, z)
      /\ shard' = shard /\ owner' = owner
  BY <1>1, <1>2, <1>3, <1>4 DEF AskResults, Calls
<1>6. DOMAIN mine = {p \in Pages : owner[p] < s} /\ (Reachable(r) => Collecting(r) \in right)
  BY <1>5 DEF Collects
<1>7. theirs \in [Owned(s) -> Nat]
  BY <1>0, <1>5, RankerHeld
<1>8. n = [p \in Owned(s) \cup DOMAIN mine |-> IF p \in Owned(s) THEN theirs[p] ELSE mine[p]]
  <2>1. DOMAIN theirs = Owned(s)
    BY <1>7
  <2>2. n = [p \in (DOMAIN mine) \cup (DOMAIN theirs) |-> IF p \in DOMAIN theirs THEN theirs[p] ELSE mine[p]]
    BY <1>1 DEF Extended
  <2>. QED  BY <2>1, <2>2
<1>9. /\ n = [p \in Owned(s) \cup DOMAIN mine |-> n[p]]
      /\ DOMAIN n = {p \in Pages : owner[p] < s + 1}
      /\ \A p \in DOMAIN n : n[p] = Collecting(r)[p]
  <2>1. \A p \in Pages : owner[p] < s + 1 <=> p \in Owned(s) \/ owner[p] < s
    BY <1>0 DEF Owned, Shards
  <2>2. ASSUME NEW p \in Owned(s) PROVE n[p] = Held[p] /\ Held[p] = Collecting(r)[p] /\ p \in Pages
    <3>1. p \in Pages /\ owner[p] = s /\ ~(owner[p] < s)
      BY <1>0 DEF Owned, Shards
    <3>. QED  BY <1>8, <3>1 DEF Held, Collecting
  <2>3. ASSUME NEW p \in Pages, owner[p] < s PROVE n[p] = mine[p] /\ mine[p] = Collecting(r)[p]
    <3>1. p \notin Owned(s) /\ p \in DOMAIN mine
      BY <1>0, <1>6, <2>3 DEF Owned, Shards
    <3>. QED  BY <1>8, <2>3, <3>1 DEF Collecting
  <2>4. DOMAIN n = {p \in Pages : owner[p] < s + 1}
    <3>. HIDE DEF s, mine, theirs
    <3>1. DOMAIN n = Owned(s) \cup DOMAIN mine
      BY <1>8
    <3>. QED  BY <1>6, <2>1, <3>1 DEF Owned
  <2>. QED  BY <1>8, <2>1, <2>2, <2>3, <2>4
<1>10. CASE run'[r].pc = "failed"
  BY <1>10 DEF Collects, Phases
<1>11. CASE run'[r] = z /\ link' = link
  <2>1. IsRun(x) /\ x.pc = "results" /\ x.at = s /\ x.ranks = n
    BY <1>0, <1>2, <1>5 DEF IsRun
  <2>2. y.pc = "done" /\ y.ranks = n
    BY <1>3, <2>1 DEF IsRun
  <2>3. CASE s < ShardCount
    <3>1. z = [x EXCEPT !.at = x.at + 1]
      BY <1>4, <2>3 DEF Beyond
    <3>2. z.pc = "results" /\ z.at = s + 1 /\ z.ranks = n
      BY <2>1, <3>1 DEF IsRun
    <3>3. Reachable(r)' => Reachable(r)
      <4>1. ASSUME NEW u \in Shards, u >= s PROVE u = s \/ u >= s + 1
        BY <1>0, <4>1 DEF Shards
      <4>. QED  BY <1>5, <1>11, <3>2, <4>1 DEF Reachable
    <3>4. Collecting(r)' = Collecting(r)
      <4>1. ASSUME NEW p \in Pages PROVE (IF owner[p] < s + 1 THEN n[p] ELSE Held[p]) = Collecting(r)[p]
        <5>1. owner[p] \in Nat
          BY <1>0 DEF Shards
        <5>2. CASE owner[p] < s + 1
          BY <1>9, <5>2
        <5>3. CASE ~(owner[p] < s + 1)
          <6>1. ~(owner[p] < s)
            BY <1>0, <5>1, <5>3
          <6>. QED  BY <5>3, <6>1 DEF Collecting
        <5>. QED  BY <5>2, <5>3
      <4>2. Held' = Held
        BY <1>5 DEF Held
      <4>3. Collecting(r)' = [p \in Pages |-> IF owner[p] < s + 1 THEN n[p] ELSE Held[p]]
        BY <1>5, <1>11, <3>2, <4>2 DEF Collecting
      <4>4. Collecting(r) = [p \in Pages |-> Collecting(r)[p]]
        BY DEF Collecting
      <4>. QED  BY <4>1, <4>3, <4>4
    <3>. QED  BY <1>5, <1>6, <1>9, <1>11, <3>2, <3>3, <3>4 DEF Collects
  <2>4. CASE ~(s < ShardCount)
    <3>1. z.pc = "done" /\ z.ranks = n
      BY <1>4, <2>2, <2>4 DEF Beyond
    <3>2. s = ShardCount /\ \A p \in Pages : owner[p] < s + 1
      BY <1>0, <2>4 DEF Shards
    <3>3. Reachable(r)
      <4>1. \A u \in Shards : u >= s => u = s
        BY <1>0, <3>2 DEF Shards
      <4>. QED  BY <1>5, <4>1 DEF Reachable
    <3>4. DOMAIN n = Pages /\ n = Collecting(r)
      <4>1. DOMAIN n = Pages
        BY <1>9, <3>2
      <4>2. n = [p \in Pages |-> n[p]] /\ Collecting(r) = [p \in Pages |-> Collecting(r)[p]]
        BY <1>9, <4>1 DEF Collecting
      <4>. QED  BY <1>9, <4>1, <4>2
    <3>. QED  BY <1>6, <1>11, <3>1, <3>3, <3>4 DEF Collects
  <2>. QED  BY <2>3, <2>4
<1>. QED  BY <1>0, <1>5, <1>10, <1>11, AnswerOrNone

(* A connection is opened by its coordinator, once.                          *)
LEMMA ConnectionsClose ==
  ASSUME RankInv, [Next]_rankVars, NEW r \in Runs, ~Work(r), NEW s \in Shards, link'[r][s] = "open"
  PROVE  link[r][s] = "open"
<1>0. link = [q \in Runs |-> [u \in Shards |-> link[q][u]]]
  BY DEF RankInv, LinksShaped
<1>1. CASE UNCHANGED rankVars
  BY <1>1 DEF rankVars
<1>2. ASSUME NEW q \in Runs, Work(q) PROVE link[r][s] = "open"
  <2>1. q # r
    BY <1>2
  <2>2. CASE Connect(q)
    BY <1>0, <2>1, <2>2 DEF Connect
  <2>3. ASSUME NEW x, Answered(q, x) PROVE link[r][s] = "open"
    BY <1>0, <2>1, <2>3 DEF Answered
  <2>4. CASE UNCHANGED link
    BY <2>4
  <2>. QED  BY <1>2, <2>2, <2>3, <2>4 DEF Work, InitShard, Refused, AskDangling, AskEmit, PassOver,
               AskAbsorb, AskApply, AskResults, CallFails
<1>3. ASSUME NEW q \in Runs, NEW u \in Shards, Cut(q, u) PROVE link[r][s] = "open"
  BY <1>0, <1>3 DEF Cut
<1>4. ASSUME NEW u \in Shards, Restart(u) PROVE link[r][s] = "open"
  BY <1>0, <1>4 DEF Restart
<1>. QED  BY <1>1, <1>2, <1>3, <1>4 DEF Next

(* While others move, what a run has yet to ask for stays.                   *)
LEMMA CollectsStays ==
  ASSUME Types, Types', [Next]_rankVars, NEW r \in Runs, ~Work(r), NEW right, Collects(r, right)
  PROVE  Collects(r, right)'
<1>0. RankInv /\ RankInv' /\ web' = web /\ owner' = owner /\ owner \in [Pages -> Shards]
  BY SameWeb, RankingAssumption DEF Types, WorldType, World
<1>1. run'[r] = run[r] /\ run[r].at \in Nat
  BY <1>0, OthersWait DEF RankInv, RunsShaped, Shards
<1>2. ASSUME run[r].pc = "results", Reachable(r)'
      PROVE  Collecting(r)' \in right
  <2>1. ASSUME NEW s \in Shards, s >= run[r].at
        PROVE  link[r][s] = "open" /\ shard'[s] = shard[s]
    <3>1. link'[r][s] = "open"
      BY <1>1, <1>2, <2>1 DEF Reachable
    <3>2. link[r][s] = "open"
      BY <1>0, <3>1, ConnectionsClose
    <3>3. Claims(r, s) /\ Claims(r, s)'
      BY <1>1, <1>2, <3>1, <3>2 DEF Claims, Led
    <3>4. holder[s] = r /\ holder'[s] = r
      BY <1>0, <3>3 DEF RankInv, ClaimsHold
    <3>. QED  BY <1>0, <1>1, <3>2, <3>4, HeldAlone
  <2>2. Collecting(r) \in right
    BY <1>2, <2>1 DEF Collects, Reachable
  <2>3. Collecting(r)' = Collecting(r)
    <3>1. ASSUME NEW p \in Pages, ~(owner[p] < run[r].at) PROVE Held'[p] = Held[p]
      <4>1. owner[p] \in Shards /\ owner[p] >= run[r].at
        BY <1>0, <1>1, <3>1 DEF Shards
      <4>. QED  BY <1>0, <2>1, <4>1 DEF Held
    <3>. QED  BY <1>0, <1>1, <3>1 DEF Collecting
  <2>. QED  BY <2>2, <2>3
<1>. QED  BY <1>0, <1>1, <1>2 DEF Collects

(* A run that begins to collect and can reach every shard leads them.        *)
LEMMA CollectingBegins ==
  \A r \in Runs : /\ Types /\ run[r].pc = "results" /\ run[r].at = 1
                  => /\ {p \in Pages : owner[p] < run[r].at} = {}
                     /\ Reachable(r) => Collecting(r) = SingleCurrent
<1>. SUFFICES ASSUME NEW r \in Runs, Types, run[r].pc = "results", run[r].at = 1
              PROVE  /\ {p \in Pages : owner[p] < run[r].at} = {}
                     /\ Reachable(r) => Collecting(r) = SingleCurrent
  OBVIOUS
<1>1. \A p \in Pages : owner[p] \in Shards /\ ~(owner[p] < run[r].at)
  BY RankingAssumption DEF Types, WorldType, Shards
<1>2. ASSUME Reachable(r) PROVE Collecting(r) = SingleCurrent
  <2>1. \A s \in Shards : link[r][s] = "open"
    BY <1>2, RankingAssumption DEF Reachable, Shards
  <2>2. Leads(r)
    BY <2>1 DEF Types, RankInv, ClaimsHold, Claims, Led, Leads
  <2>3. r \in Leading
    BY <2>2 DEF Leading
  <2>4. SingleCurrent = Held
    BY <2>3, LeaderIsViewed DEF ViewOf, AheadRank, Among, Held
  <2>5. Collecting(r) = [p \in Pages |-> Held[p]]
    BY <1>1 DEF Collecting
  <2>. QED  BY <2>4, <2>5 DEF Held
<1>. QED  BY <1>1, <1>2

LEMMA CollectingHasBegun ==
  (\A r \in Runs : /\ Types /\ run[r].pc = "results" /\ run[r].at = 1
                   => /\ {p \in Pages : owner[p] < run[r].at} = {}
                      /\ Reachable(r) => Collecting(r) = SingleCurrent)'
BY CollectingBegins, PTL

LEMMA MassStays ==
  ASSUME Types, Types', [Next]_rankVars, NEW right, MassInv(right), SingleCurrent' \in right
  PROVE  MassInv(right)'
<1>. SUFFICES ASSUME NEW r \in Runs PROVE Collects(r, right)'
  BY DEF MassInv
<1>0. Collects(r, right)
  BY DEF MassInv
<1>1. CASE ~Work(r)
  BY <1>0, <1>1, CollectsStays
<1>2. CASE AskResults(r)
  BY <1>0, <1>2, ResultsCollect
<1>3. CASE Work(r) /\ ~AskResults(r)
  <2>1. CASE run'[r].pc = "failed"
    BY <2>1 DEF Collects, Phases
  <2>2. CASE run[r].pc \in Going /\ Underway(run[r], run'[r])
    <3>1. DOMAIN run'[r].ranks = {}
      BY <1>0, <2>2 DEF Collects, Going, Underway
    <3>2. CASE run'[r].pc \in Going
      BY <3>1, <3>2 DEF Collects, Going
    <3>3. CASE run'[r].pc = "results" /\ run'[r].at = 1
      <4>1. /\ {p \in Pages : owner'[p] < run'[r].at} = {}
            /\ Reachable(r)' => Collecting(r)' = SingleCurrent'
        BY <3>3, CollectingHasBegun
      <4>. QED  BY <3>1, <3>3, <4>1 DEF Collects
    <3>. QED  BY <2>2, <3>2, <3>3 DEF Underway
  <2>. QED  BY <1>3, <2>1, <2>2, RunGoesOn
<1>. QED  BY <1>1, <1>2, <1>3

(* One process, which the shards act as, keeps what there is.                *)
LEMMA UniformMass ==
  /\ Uniform \in Remainders
  /\ Whole % Count = 0 => Uniform \in Distributions
<1>1. Uniform \in [Pages -> Nat] /\ DOMAIN Uniform = Pages
  BY UniformIsNatural
<1>. DEFINE u == Whole \div Count
<1>2. Count \in Nat /\ Count # 0 /\ Whole \in Nat /\ u \in Nat
  BY CountsPages, Quotient, RankAssumption
<1>3. \A p \in Pages : Uniform[p] = u
  BY DEF Uniform
<1>4. Count * u <= Whole /\ (Whole % Count = 0 => Count * u = Whole)
  BY <1>2, DivisionRoundsDown
<1>. HIDE DEF u
<1>5. SumFunctionOnSet(Uniform, Pages) = u * Count
  BY <1>2, <1>3, CountsPages, SumOfAlike DEF Count
<1>6. u * Count = Count * u
  BY <1>2
<1>7. Total(Uniform) = Count * u
  BY <1>1, <1>5, <1>6 DEF Total, SumFunction
<1>. QED  BY <1>1, <1>4, <1>7 DEF Remainders, Distributions

LEMMA FollowingIsNext ==
  ASSUME SingleCurrent \in [Pages -> Nat]
  PROVE  Single!Following = NextVector(web, SingleCurrent)
<1>1. ASSUME NEW p \in Pages PROVE Single!Arriving(p) = SentTo(web, SingleCurrent, p)
  BY SingleArithmetic, SingleSums DEF Single!Arriving, SentTo
<1>2. Single!Following = [p \in Pages |-> Base(Dangling(web, SingleCurrent, Pages)) + Single!Arriving(p)]
  BY SingleArithmetic DEF Single!Following
<1>. QED  BY <1>1, <1>2 DEF NextVector

LEMMA SingleRounding ==
  Single!NothingRounds <=>
    /\ Whole % Count = 0
    /\ SingleIterations < MaxIterations /\ ~SingleStill =>
         /\ ((Den - Num) * Whole) % (Den * Count) = 0
         /\ (Num * Dangling(web, SingleCurrent, Pages)) % (Den * Count) = 0
         /\ \A p \in Pages : Outlinks(web, p) # {} =>
              (Num * SingleCurrent[p]) % (Den * Degree(web, p)) = 0
<1>0. \A S : Single!Cardinality(S) = Cardinality(S)
  BY DEF Single!Cardinality, Cardinality
<1>1. Single!Count = Count
  BY <1>0 DEF Single!Count, Count
<1>2. \A l, p : Single!Degree(l, p) = Degree(l, p)
  BY <1>0, SingleArithmetic DEF Single!Degree, Degree
<1>. HIDE DEF Count
<1>. QED  BY <1>1, <1>2, SingleArithmetic DEF Single!NothingRounds

LEMMA IterationKeepsMass ==
  ASSUME Types, Single!Iterate
  PROVE  /\ SingleCurrent \in Remainders => SingleCurrent' \in Remainders
         /\ SingleCurrent \in Distributions /\ Single!NothingRounds => SingleCurrent' \in Distributions
<1>1. web \in SUBSET (Pages \X Pages)
  BY RankAssumption DEF Types, WorldType
<1>2. SingleCurrent' = Single!Following /\ SingleIterations < MaxIterations /\ ~SingleStill
  BY DEF Single!Iterate
<1>3. SingleCurrent \in [Pages -> Nat] =>
        /\ SingleCurrent' = NextVector(web, SingleCurrent)
        /\ NextVector(web, SingleCurrent) \in [Pages -> Nat]
        /\ Total(SingleCurrent) <= Whole => Total(NextVector(web, SingleCurrent)) <= Whole
  BY <1>1, <1>2, FollowingIsNext, MassFollows
<1>4. ASSUME SingleCurrent \in Distributions, Single!NothingRounds PROVE SingleCurrent' \in Distributions
  <2>1. SingleCurrent \in [Pages -> Nat] /\ Total(SingleCurrent) = Whole
    BY <1>4 DEF Distributions
  <2>2. /\ ((Den - Num) * Whole) % (Den * Count) = 0
        /\ (Num * Dangling(web, SingleCurrent, Pages)) % (Den * Count) = 0
        /\ \A p \in Pages : Outlinks(web, p) # {} =>
              (Num * SingleCurrent[p]) % (Den * Degree(web, p)) = 0
    BY <1>2, <1>4, SingleRounding, Zenon
  <2>3. Total(NextVector(web, SingleCurrent)) = Whole
    BY <1>1, <2>1, <2>2, MassFollows
  <2>. QED  BY <1>3, <2>1, <2>3 DEF Distributions
<1>. QED  BY <1>3, <1>4 DEF Remainders

LEMMA OneProcessKeepsMass ==
  ASSUME Types, GatherInv, [Next]_rankVars
  PROVE  /\ SingleCurrent \in Remainders => SingleCurrent' \in Remainders
         /\ SingleCurrent \in Distributions /\ Single!NothingRounds => SingleCurrent' \in Distributions
<1>1. Single!Iterate \/ Single!StartOver \/ SingleCurrent' = SingleCurrent
  BY StepsAsOne DEF SingleVars
<1>2. CASE Single!StartOver
  <2>1. SingleCurrent' = Uniform
    BY <1>2, SingleArithmetic DEF Single!StartOver
  <2>2. Single!NothingRounds => Whole % Count = 0
    BY SingleRounding, Zenon
  <2>. QED  BY <2>1, <2>2, UniformMass
<1>. QED  BY <1>1, <1>2, IterationKeepsMass

LEMMA MassBegins ==
  ASSUME Init
  PROVE  /\ MassInv(Remainders)
         /\ Single!NothingRounds => MassInv(Distributions)
<1>1. SingleCurrent = Uniform
  BY BeginsAsOne, SingleArithmetic DEF Single!Begin
<1>2. Single!NothingRounds => Whole % Count = 0
  BY SingleRounding, Zenon
<1>3. \A r \in Runs : run[r].pc = "connect" /\ run[r].ranks = << >>
  BY DEF Init, Start
<1>4. DOMAIN << >> = {}
  OBVIOUS
<1>5. \A right : \A r \in Runs : Collects(r, right)
  BY <1>3, <1>4 DEF Collects
<1>. QED  BY <1>1, <1>2, <1>5, UniformMass DEF MassInv

LEMMA MassKept ==
  ASSUME Types, GatherInv, [Next]_rankVars
  PROVE  /\ MassInv(Remainders) => MassInv(Remainders)'
         /\ MassInv(Distributions) /\ Single!NothingRounds => MassInv(Distributions)'
<1>1. Types'
  BY TypesKept
<1>2. MassInv(Remainders) => SingleCurrent' \in Remainders
  BY OneProcessKeepsMass DEF MassInv
<1>3. MassInv(Distributions) /\ Single!NothingRounds => SingleCurrent' \in Distributions
  BY OneProcessKeepsMass DEF MassInv
<1>4. PICK some : some = Remainders
  OBVIOUS
<1>5. PICK all : all = Distributions
  OBVIOUS
<1>6. some' = some /\ all' = all
  OBVIOUS
<1>. QED  BY <1>1, <1>2, <1>3, <1>4, <1>5, MassStays

(* Between iterations that vector is what the shards hold, shard by shard.   *)
LEMMA ShardsHoldMass ==
  ASSUME Types, GatherInv, NEW r \in Runs, Between(r)
  PROVE  SumFunction([s \in Shards |-> Total(shard[s].ranker.ranks)]) = Total(SingleCurrent)
<1>. DEFINE g == [s \in Shards |-> Total(shard[s].ranker.ranks)]
<1>1. r \in Leading /\ ~Among(run[r])
  BY DEF Between, Leading, Among
<1>2. SingleCurrent = Held /\ AllReady
  BY <1>1, LeaderHolds, LeaderIsViewed DEF ViewOf, AheadRank, Held
<1>3. IsFiniteSet(Shards) /\ IsFiniteSet(Pages)
  BY CountsPages, RankingAssumption, FS_Interval DEF Shards
<1>4. Held \in [Pages -> Nat] /\ DOMAIN Held = Pages /\ \A p \in Pages : Held[p] \in Int /\ owner[p] \in Shards
  BY <1>2, HeldType
<1>5. ASSUME NEW s \in Shards, NEW G \in SUBSET Pages, \A p \in Pages : p \in G <=> owner[p] = s
      PROVE  g[s] = SumFunctionOnSet(Held, G)
  <2>. DEFINE theirs == shard[s].ranker.ranks
  <2>1. theirs \in [Owned(s) -> Nat] /\ IsFiniteSet(Owned(s))
    BY <1>2, <1>3, RankerHeld, FS_Subset DEF AllReady, Owned
  <2>2. \A p \in Owned(s) : theirs[p] = Held[p]
    BY <1>2, HeldType
  <2>3. Owned(s) = G /\ DOMAIN theirs = Owned(s) /\ g[s] = Total(theirs)
    BY <1>5, <2>1 DEF Owned
  <2>. HIDE DEF theirs, g
  <2>4. \A p \in Owned(s) : theirs[p] \in Int
    BY <2>1
  <2>5. SumFunctionOnSet(theirs, Owned(s)) = SumFunctionOnSet(Held, Owned(s))
    BY <2>1, <2>2, <2>4, SumOfSame
  <2>. QED  BY <2>3, <2>5 DEF Total, SumFunction
<1>6. DOMAIN g = Shards
  OBVIOUS
<1>. HIDE DEF g
<1>7. SumFunctionOnSet(g, Shards) = SumFunctionOnSet(Held, Pages)
  BY <1>3, <1>4, <1>5, SumByGroups
<1>. QED  BY <1>2, <1>4, <1>6, <1>7 DEF g, Total, SumFunction

LEMMA MassIs ==
  ASSUME Types, GatherInv
  PROVE  /\ MassInv(Remainders) => NoRankIsMade
         /\ MassInv(Distributions) => MassIsConserved
<1>1. ASSUME MassInv(Remainders) PROVE NoRankIsMade
  BY <1>1, ShardsHoldMass DEF MassInv, Collects, Remainders, NoRankIsMade
<1>2. ASSUME MassInv(Distributions) PROVE MassIsConserved
  BY <1>2, ShardsHoldMass DEF MassInv, Collects, Distributions, MassIsConserved
<1>. QED  BY <1>1, <1>2

(* No rank is ever made: what dangles, what crosses and what is damped is    *)
(* given out once at most, whatever divisions round, on the shards and in    *)
(* what a finished run collects, which has every page (emit, absorb, apply   *)
(* of rank/src/distributed.rs, RankCoordinator::run).                        *)
THEOREM RankNeverGrows == Spec => []NoRankIsMade
<1>1. Types /\ [Next]_rankVars => Types'
  BY TypesKept
<1>2. Types /\ GatherInv /\ [Next]_rankVars => GatherInv'
  BY GatherKept
<1>3. Init => MassInv(Remainders)
  BY MassBegins
<1>4. Types /\ GatherInv /\ MassInv(Remainders) /\ [Next]_rankVars => MassInv(Remainders)'
  BY MassKept
<1>5. Types /\ GatherInv /\ MassInv(Remainders) => NoRankIsMade
  BY MassIs
<1>. QED  BY <1>1, <1>2, <1>3, <1>4, <1>5, TypesBegin, GatherBegins, PTL DEF Spec

(* And where no division rounds, none is lost: between iterations, and in    *)
(* what a finished run collects, the ranks of all pages are a distribution.  *)
THEOREM MassHolds == Spec /\ []Single!NothingRounds => []MassIsConserved
<1>1. Types /\ [Next]_rankVars => Types'
  BY TypesKept
<1>2. Types /\ GatherInv /\ [Next]_rankVars => GatherInv'
  BY GatherKept
<1>3. Init /\ Single!NothingRounds => MassInv(Distributions)
  BY MassBegins
<1>4. /\ Types /\ GatherInv /\ MassInv(Distributions) /\ Single!NothingRounds /\ [Next]_rankVars
      => MassInv(Distributions)'
  BY MassKept
<1>5. Types /\ GatherInv /\ MassInv(Distributions) => MassIsConserved
  BY MassIs
<1>. QED  BY <1>1, <1>2, <1>3, <1>4, <1>5, TypesBegin, GatherBegins, PTL DEF Spec
=============================================================================
