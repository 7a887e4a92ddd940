------------------------------- MODULE Ranking ------------------------------
(***************************************************************************)
(* PageRank over shards that each hold a part of the link graph            *)
(* (rank/src/distributed.rs), driven over connections by a coordinator     *)
(* (cluster/src/ranking.rs).  An iteration is three exchanges, one shard   *)
(* after another: what dangles, what crosses, and the step itself.         *)
(*                                                                         *)
(* Nothing stops a second coordinator from connecting to the same shards,  *)
(* a shard from being restarted, which reads its graph again, or a         *)
(* connection from breaking, before a call or with its answer on the way.  *)
(*                                                                         *)
(* A contribution is [from, to, share]; on the wire it has no from, which  *)
(* here only keeps equal contributions of two pages apart in a set.        *)
(***************************************************************************)
EXTENDS LinkGraph

CONSTANTS
  ShardCount,
  Partitions,   \* ways to give each page to the shard that owns it
  Runs,         \* the coordinators
  MaxRestarts,  \* bound: restarts of shards
  MaxCuts,      \* bound: connections that break
  None          \* no ranker, no holder

Shards == 1..ShardCount

\* What a ranker of some of the pages may be.
Vectors == UNION {[mine -> Nat] : mine \in SUBSET Pages}
Rankers == [ranks : Vectors, incoming : Vectors]

ASSUME RankingAssumption ==
  /\ ShardCount \in Nat \ {0}
  /\ Partitions \subseteq [Pages -> Shards]
  /\ None \notin Runs /\ None \notin Rankers
  /\ MaxRestarts \in Nat /\ MaxCuts \in Nat

VARIABLES
  web,       \* the links, of all shards together
  owner,     \* the partition, which route agrees with
  shard,     \* RankShard: is the graph still unclaimed, and the ranker made of it
  holder,    \* history: whose RankInit made the ranker of each shard
  link,      \* each coordinator's connections
  run,       \* where each coordinator is
  restarts, cuts
rankVars == <<web, owner, shard, holder, link, run, restarts, cuts>>

Owned(s) == {p \in Pages : owner[p] = s}
Nothing(s) == [p \in Owned(s) |-> 0]

\* A rank for every page there is.
BugNewRanker(s) == [ranks |-> Uniform, incoming |-> Nothing(s)]

\* ShardRanker::new: only the coordinator knows how many pages there are.
NewRanker(s) == [ranks |-> [p \in Owned(s) |-> Uniform[p]], incoming |-> Nothing(s)]

(***************************************************************************)
(* The shards' answers (RankShard::handle)                                 *)
(***************************************************************************)

Ready(s) == shard[s].ranker # None
Contributions(s) ==
  LET ranks == shard[s].ranker.ranks
  IN {[from |-> e[1], to |-> e[2], share |-> Share(web, ranks[e[1]], e[1])] :
        e \in {l \in web : l[1] \in Owned(s) /\ l[1] # l[2]}}
Received(into, sent) ==
  [p \in DOMAIN into |-> into[p] + SumFunction([c \in {c \in sent : c.to = p} |-> c.share])]
\* What crosses to another shard is not sent.
BugKeeps(s, c) == TRUE
Keeps(s, c) == c.to \in Owned(s)

\* The graph is copied, not taken.
BugInitialised(s) == [shard EXCEPT ![s].ranker = NewRanker(s)]

\* RankInit takes the graph: a shard is initialised once.
Initialised(s) == [shard EXCEPT ![s] = [graph |-> FALSE, ranker |-> NewRanker(s)]]

\* What was accumulated in the iteration before is still there.
BugEmitted(s) ==
  [shard EXCEPT ![s].ranker.incoming = Received(@, {c \in Contributions(s) : Keeps(s, c)})]

\* RankEmit: last iteration's ranks, along every edge; what this shard owns
\* it keeps, whatever it had accumulated before is gone.
Emitted(s) ==
  [shard EXCEPT ![s].ranker.incoming =
     Received(Nothing(s), {c \in Contributions(s) : Keeps(s, c)})]
Outgoing(s) == {c \in Contributions(s) : ~Keeps(s, c)}

\* RankAbsorb: a contribution to a page that is not owned here is dropped.
Absorbed(s, mail) == [shard EXCEPT ![s].ranker.incoming = Received(@, mail)]

\* RankApply
Stepped(s, dangling) ==
  [p \in Owned(s) |-> Base(dangling) + shard[s].ranker.incoming[p]]
Applied(s, dangling) == [shard EXCEPT ![s].ranker.ranks = Stepped(s, dangling)]
Residual(s, dangling) ==
  SumFunction([p \in Owned(s) |-> Distance(shard[s].ranker.ranks[p], Stepped(s, dangling)[p])])

(***************************************************************************)
(* The coordinators (RankCoordinator::run)                                 *)
(***************************************************************************)

Phases == {"connect", "init", "dangling", "emit", "absorb", "apply", "results", "done", "failed"}
NoMail == [s \in Shards |-> {}]
Start == [pc |-> "connect", at |-> 1, iteration |-> 0, dangling |-> 0, mail |-> NoMail,
          residual |-> 0, ranks |-> << >>, converged |-> FALSE]

\* The next shard of the same exchange, or the next exchange.
Beyond(r, state, then) == IF run[r].at < ShardCount THEN [state EXCEPT !.at = @ + 1] ELSE then

Iterating(state) ==
  [state EXCEPT !.pc = "dangling", !.at = 1, !.iteration = @ + 1, !.dangling = 0,
                !.mail = NoMail, !.residual = 0]
Concluding(state) == [state EXCEPT !.pc = "results", !.at = 1]
NextIteration(state) ==
  IF state.iteration < MaxIterations THEN Iterating(state) ELSE Concluding(state)

Calls(r, phase) == run[r].pc = phase /\ link[r][run[r].at] = "open"
Fails(r) == run' = [run EXCEPT ![r].pc = "failed"]

\* The answer arrives, or the connection breaks with the answer on the way.
Answered(r, state) ==
  \/ run' = [run EXCEPT ![r] = state] /\ UNCHANGED <<link, cuts>>
  \/ /\ cuts < MaxCuts /\ cuts' = cuts + 1
     /\ link' = [link EXCEPT ![r][run[r].at] = "broken"]
     /\ Fails(r)

\* Response::Error, whatever the request, ends the run.
Refused(r) == Fails(r) /\ UNCHANGED <<web, owner, shard, holder, link, restarts, cuts>>

Init ==
  /\ web \in Webs /\ owner \in Partitions
  /\ shard = [s \in Shards |-> [graph |-> TRUE, ranker |-> None]]
  /\ holder = [s \in Shards |-> None]
  /\ link = [r \in Runs |-> [s \in Shards |-> "none"]]
  /\ run = [r \in Runs |-> Start]
  /\ restarts = 0 /\ cuts = 0

\* RankCoordinator::connect, one address after another.
Connect(r) ==
  /\ run[r].pc = "connect"
  /\ link' = [link EXCEPT ![r][run[r].at] = "open"]
  /\ run' = [run EXCEPT ![r] = Beyond(r, @, [@ EXCEPT !.pc = "init", !.at = 1])]
  /\ UNCHANGED <<web, owner, shard, holder, restarts, cuts>>

InitShard(r) ==
  /\ Calls(r, "init")
  /\ LET s == run[r].at
     IN \/ /\ shard[s].graph
           /\ shard' = Initialised(s)
           /\ holder' = [holder EXCEPT ![s] = r]
           /\ Answered(r, Beyond(r, run[r], NextIteration(run[r])))
           /\ UNCHANGED <<web, owner, restarts>>
        \/ ~shard[s].graph /\ Refused(r)

AskDangling(r) ==
  /\ Calls(r, "dangling") /\ Ready(run[r].at)
  /\ LET s == run[r].at
         summed == [run[r] EXCEPT !.dangling =
                      @ + Dangling(web, shard[s].ranker.ranks, Owned(s))]
     IN Answered(r, Beyond(r, summed, [summed EXCEPT !.pc = "emit", !.at = 1]))
  /\ UNCHANGED <<web, owner, shard, holder, restarts>>

AskEmit(r) ==
  /\ Calls(r, "emit") /\ Ready(run[r].at)
  /\ LET s == run[r].at
         sorted == [run[r] EXCEPT !.mail =
                      [d \in Shards |-> @[d] \cup {c \in Outgoing(s) : owner[c.to] = d}]]
     IN /\ shard' = Emitted(s)
        /\ Answered(r, Beyond(r, sorted, [sorted EXCEPT !.pc = "absorb", !.at = 1]))
  /\ UNCHANGED <<web, owner, holder, restarts>>

\* A shard nothing is for is not called.
PassOver(r) ==
  /\ run[r].pc = "absorb" /\ run[r].mail[run[r].at] = {}
  /\ run' = [run EXCEPT ![r] = Beyond(r, @, [@ EXCEPT !.pc = "apply", !.at = 1])]
  /\ UNCHANGED <<web, owner, shard, holder, link, restarts, cuts>>

AskAbsorb(r) ==
  /\ Calls(r, "absorb") /\ Ready(run[r].at) /\ run[r].mail[run[r].at] # {}
  /\ shard' = Absorbed(run[r].at, run[r].mail[run[r].at])
  /\ Answered(r, Beyond(r, run[r], [run[r] EXCEPT !.pc = "apply", !.at = 1]))
  /\ UNCHANGED <<web, owner, holder, restarts>>

\* Convergence is decided on the sum over the shards, after the last.
Converges(state) == state.residual < Tolerance
Ended(state) == IF Converges(state) THEN Concluding([state EXCEPT !.converged = TRUE])
                ELSE NextIteration(state)

AskApply(r) ==
  /\ Calls(r, "apply") /\ Ready(run[r].at)
  /\ LET s == run[r].at
         summed == [run[r] EXCEPT !.residual = @ + Residual(s, run[r].dangling)]
     IN /\ shard' = Applied(s, run[r].dangling)
        /\ Answered(r, Beyond(r, summed, Ended(summed)))
  /\ UNCHANGED <<web, owner, holder, restarts>>

\* HashMap::extend
Extended(ranks, theirs) ==
  [p \in DOMAIN ranks \cup DOMAIN theirs |-> IF p \in DOMAIN theirs THEN theirs[p] ELSE ranks[p]]

AskResults(r) ==
  /\ Calls(r, "results") /\ Ready(run[r].at)
  /\ LET gathered == [run[r] EXCEPT !.ranks = Extended(@, shard[run[r].at].ranker.ranks)]
     IN Answered(r, Beyond(r, gathered, [gathered EXCEPT !.pc = "done"]))
  /\ UNCHANGED <<web, owner, shard, holder, restarts>>

\* A call that failed is made again on the same connection.
BugCallFails(r) == link[r][run[r].at] = "broken" /\ UNCHANGED rankVars

\* A shard with no ranker answers any request but RankInit with an error.
Refuses(r) == run[r].pc # "init" /\ ~Ready(run[r].at)

\* A call on a connection that is broken, or to a shard that refuses it.
CallFails(r) ==
  /\ run[r].pc \notin {"connect", "done", "failed"}
  /\ link[r][run[r].at] = "broken" \/ Refuses(r)
  /\ ~(run[r].pc = "absorb" /\ run[r].mail[run[r].at] = {})
  /\ Fails(r)
  /\ UNCHANGED <<web, owner, shard, holder, link, restarts, cuts>>

Cut(r, s) ==
  /\ cuts < MaxCuts /\ cuts' = cuts + 1
  /\ link[r][s] = "open"
  /\ link' = [link EXCEPT ![r][s] = "broken"]
  /\ UNCHANGED <<web, owner, shard, holder, run, restarts>>

\* A shard is started again: it reads its graph, and its connections are gone.
Restart(s) ==
  /\ restarts < MaxRestarts /\ restarts' = restarts + 1
  /\ shard' = [shard EXCEPT ![s] = [graph |-> TRUE, ranker |-> None]]
  /\ holder' = [holder EXCEPT ![s] = None]
  /\ link' = [r \in Runs |-> [link[r] EXCEPT ![s] = IF @ = "open" THEN "broken" ELSE @]]
  /\ UNCHANGED <<web, owner, run, cuts>>

Work(r) ==
  \/ Connect(r) \/ InitShard(r) \/ AskDangling(r) \/ AskEmit(r)
  \/ PassOver(r) \/ AskAbsorb(r) \/ AskApply(r) \/ AskResults(r) \/ CallFails(r)

Over == \A r \in Runs : run[r].pc \in {"done", "failed"}

Next ==
  \/ \E r \in Runs : Work(r) \/ \E s \in Shards : Cut(r, s)
  \/ \E s \in Shards : Restart(s)
  \/ Over /\ UNCHANGED rankVars

Spec == Init /\ [][Next]_rankVars

\* Every coordinator keeps going; nothing promises that shards restart or
\* that connections break.
FairSpec == Spec /\ \A r \in Runs : WF_rankVars(Work(r))

(***************************************************************************)
(* Properties                                                              *)
(***************************************************************************)

RankerType(s) == [ranks : [Owned(s) -> Nat], incoming : [Owned(s) -> Nat]]

(* The shape of every variable: a shard has its graph or a ranker of the    *)
(* pages it owns (RankShard), a coordinator's sums and mail are those of    *)
(* RankCoordinator::run.                                                    *)
TypeOK ==
  /\ web \in Webs /\ owner \in Partitions
  /\ \A s \in Shards : /\ shard[s].graph \in BOOLEAN
                       /\ shard[s].ranker \in RankerType(s) \cup {None}
                       /\ shard[s].graph = (shard[s].ranker = None)
                       /\ holder[s] \in Runs \cup {None}
  /\ link \in [Runs -> [Shards -> {"none", "open", "broken"}]]
  /\ \A r \in Runs : /\ run[r].pc \in Phases /\ run[r].at \in Shards
                     /\ run[r].iteration \in 0..MaxIterations
                     /\ run[r].dangling \in Nat /\ run[r].residual \in Nat
                     /\ \A s \in Shards : \A c \in run[r].mail[s] : owner[c.to] = s
  /\ restarts \in 0..MaxRestarts /\ cuts \in 0..MaxCuts

Leads(r) == \A s \in Shards : holder[s] = r
Between(r) == Leads(r) /\ run[r].pc \in {"dangling", "results", "done"}

(* Between iterations the ranks of all shards together are a distribution:  *)
(* nothing that dangles or crosses a boundary is lost or counted twice      *)
(* (apply, absorb, emit of rank/src/distributed.rs).  Exact when no         *)
(* division of the instance rounds.  And a run that finished has a rank for *)
(* every page, from shards it alone had initialised, whoever connected      *)
(* meanwhile and whatever was restarted: RankInit takes the graph, so a     *)
(* second run is refused rather than mixed into the first                   *)
(* (RankShard::handle).                                                     *)
MassIsConserved ==
  \A r \in Runs :
    /\ Between(r) => SumFunction([s \in Shards |-> Total(shard[s].ranker.ranks)]) = Whole
    /\ run[r].pc = "done" => DOMAIN run[r].ranks = Pages /\ Total(run[r].ranks) = Whole

(* Whatever divisions round, no rank is made: nothing that flows, dangles   *)
(* or crosses a boundary is given out twice (emit, absorb, apply), nor is   *)
(* anything collected that the shards did not hold (RankCoordinator::run).  *)
NoRankIsMade ==
  \A r \in Runs :
    /\ Between(r) => SumFunction([s \in Shards |-> Total(shard[s].ranker.ranks)]) <= Whole
    /\ run[r].pc = "done" => DOMAIN run[r].ranks = Pages /\ Total(run[r].ranks) <= Whole

(* While a run leads, only its own steps change the ranks it will collect.  *)
LedByOne ==
  [][\A r \in Runs : Leads(r) /\ Leads(r)' /\ run'[r] = run[r] =>
       \A s \in Shards : shard'[s] = shard[s]]_rankVars

(* Every run ends: it collects its ranks or fails (RankCoordinator::run has *)
(* no wait that a broken connection does not end).                          *)
RunsEnd == \A r \in Runs : <>(run[r].pc \in {"done", "failed"})

(***************************************************************************)
(* Sharded ranking implements ranking in one process.  The vector is that  *)
(* of the shards; a shard that has yet to apply an iteration which another *)
(* has applied is looked ahead of: what it will hold is settled.           *)
(***************************************************************************)

Leading == {r \in Runs : Leads(r) /\ run[r].pc # "failed"}
Leader == CHOOSE r \in Leading : TRUE
Midway == run[Leader].pc = "apply" /\ run[Leader].at > 1

GatheredRank(p) ==
  LET s == owner[p]
  IN IF Midway /\ s >= run[Leader].at THEN Stepped(s, run[Leader].dangling)[p]
     ELSE shard[s].ranker.ranks[p]

\* What the shards yet to apply will add to the residual.
Outstanding == SumFunction([s \in {s \in Shards : s >= run[Leader].at} |->
                              Residual(s, run[Leader].dangling)])

Applying == run[Leader].pc \in {"dangling", "emit", "absorb", "apply"} /\ ~Midway

SingleCurrent == IF Leading = {} THEN Uniform ELSE [p \in Pages |-> GatheredRank(p)]
SingleIterations ==
  IF Leading = {} THEN 0
  ELSE IF Applying THEN run[Leader].iteration - 1 ELSE run[Leader].iteration
SingleStill ==
  /\ Leading # {}
  /\ \/ run[Leader].converged
     \/ Midway /\ run[Leader].residual + Outstanding < Tolerance

Single == INSTANCE PowerIteration WITH
            current <- SingleCurrent, iterations <- SingleIterations, still <- SingleStill

(* However the pages are partitioned, the shards take exactly the steps     *)
(* that one process would take (pagerank::pagerank): the same vector, the   *)
(* same number of iterations, the same decision to stop.                    *)
RanksAsOneProcess == Single!Power

(***************************************************************************)
(* Why it does: what the exchanges of an iteration have gathered, for the  *)
(* run that leads every shard.                                             *)
(***************************************************************************)

Held == [p \in Pages |-> shard[owner[p]].ranker.ranks[p]]
Messages == [from : Pages, to : Pages, share : Nat]
Incoming(p) == shard[owner[p]].ranker.incoming[p]

\* Every contribution of an iteration, and what some of them add up to.
Flow == {[from |-> l[1], to |-> l[2], share |-> Share(web, Held[l[1]], l[1])] :
           l \in {l \in web : l[1] # l[2]}}
Arrived(some) == SumFunction([c \in some |-> c.share])
Into(p) == {c \in Flow : c.to = p}
KeptFor(p) == {c \in Into(p) : owner[c.from] = owner[p]}

\* What the shards before the k-th have told of dead ends, and sent away.
DanglingBefore(k) == SumFunctionOnSet(Held, {p \in Pages : owner[p] < k /\ Outlinks(web, p) = {}})
SentBefore(k, s) == {c \in Flow : owner[c.from] < k /\ owner[c.from] # s /\ owner[c.to] = s}

Fresh(x) == x.pc \in {"dangling", "emit", "absorb"} \/ (x.pc = "apply" /\ x.at = 1)

Gathered(x) ==
  /\ x.pc \in {"dangling", "emit", "absorb", "apply"} => x.iteration > 0 /\ ~x.converged
  /\ Fresh(x) => /\ x.residual = 0
                 /\ x.dangling = DanglingBefore(IF x.pc = "dangling" THEN x.at ELSE ShardCount + 1)
  /\ x.pc = "dangling" => x.mail = NoMail
  /\ x.pc = "emit" => /\ \A s \in Shards : x.mail[s] = SentBefore(x.at, s)
                      /\ \A p \in Pages : owner[p] < x.at => Incoming(p) = Arrived(KeptFor(p))
  /\ x.pc = "absorb" => /\ \A s \in Shards : x.mail[s] = SentBefore(ShardCount + 1, s)
                        /\ \A p \in Pages :
                             Incoming(p) = Arrived(IF owner[p] < x.at THEN Into(p) ELSE KeptFor(p))
  /\ x.pc = "apply" /\ x.at = 1 => \A p \in Pages : Incoming(p) = Arrived(Into(p))

(* The shards that a run has initialised when it has yet to lead hold the   *)
(* uniform ranks; the run that leads has gathered what the shards before    *)
(* the one it is at had to give.                                            *)
Begun(r) ==
  run[r].pc \in {"connect", "init"} =>
    \A s \in Shards : holder[s] = r =>
      /\ run[r].pc = "init" /\ s < run[r].at
      /\ shard[s].ranker.ranks = [p \in Owned(s) |-> Uniform[p]]

GatherInv ==
  /\ \A r \in Runs : Begun(r)
  /\ \A r \in Leading : Gathered(run[r])

(***************************************************************************)
(* And what a run carries home: the ranks it has collected, and of the     *)
(* shards that it has yet to ask what they hold.                           *)
(***************************************************************************)

Collecting(r) == [p \in Pages |-> IF owner[p] < run[r].at THEN run[r].ranks[p] ELSE Held[p]]
Reachable(r) == \A s \in Shards : s >= run[r].at => link[r][s] = "open"

Collects(r, right) ==
  /\ run[r].pc \in Phases \ {"results", "done", "failed"} => DOMAIN run[r].ranks = {}
  /\ run[r].pc = "results" =>
       /\ DOMAIN run[r].ranks = {p \in Pages : owner[p] < run[r].at}
       /\ Reachable(r) => Collecting(r) \in right
  /\ run[r].pc = "done" => DOMAIN run[r].ranks = Pages /\ run[r].ranks \in right

Distributions == {v \in [Pages -> Nat] : Total(v) = Whole}
Remainders == {v \in [Pages -> Nat] : Total(v) <= Whole}

(* The vectors of every run are among those that are right, on the shards   *)
(* and on the way back.                                                     *)
MassInv(right) == SingleCurrent \in right /\ \A r \in Runs : Collects(r, right)
=============================================================================
