------------------------------- MODULE Search -------------------------------
(***************************************************************************)
(* Queries over shards (cluster/src/coordinator.rs, shard.rs): a first     *)
(* round gathers the statistics of the corpus, a second has every shard    *)
(* score with them, and the coordinator merges what comes back.            *)
(*                                                                         *)
(* One coordinator runs several queries at once over one connection to     *)
(* each shard, behind a lock that a task holds from the request to its     *)
(* answer.  A round's tasks are detached: a query that failed leaves the   *)
(* others running.  Copies of a shard may be refreshed between any two     *)
(* requests, and may die, before the coordinator connects or after.        *)
(***************************************************************************)
EXTENDS Corpus

CONSTANTS
  ShardCount,
  Group,       \* the addresses of each shard's copies, in the order they are tried
  Versions,    \* the indexes a shard serves, one after another
  Queries, Text,
  MaxDeaths,   \* bound: copies that die
  MaxRefreshes,   \* bound: refreshes of copies
  None

Shards == 1..ShardCount
Copies == UNION {ToSet(Group[s]) : s \in Shards}
ShardOf(c) == CHOOSE s \in Shards : c \in ToSet(Group[s])

ASSUME SearchAssumption ==
  /\ ShardCount \in Nat \ {0} /\ MaxDeaths \in Nat /\ MaxRefreshes \in Nat /\ None \notin Queries \cup Copies
  /\ Group \in [Shards -> Seq(Copies) \ {<< >>}]
  /\ Versions \in [Shards -> Seq(Seq(Segments)) \ {<< >>}]
  /\ \A s, u \in Shards : s # u => ToSet(Group[s]) \cap ToSet(Group[u]) = {}
  /\ \A q \in Queries : /\ Text[q].terms \subseteq Terms /\ IsFiniteSet(Text[q].terms)
                        /\ Text[q].excluded \subseteq Terms
                        /\ Text[q].limit \in Nat

VARIABLES
  serving,   \* Replica.current: the version each copy serves
  alive,     \* does the copy's process run
  attempt,   \* how many of a shard's addresses were tried
  conn,      \* the copy a shard's connection leads to, None before there is one
  holder,    \* the lock of the connection: whose task has it
  wire,      \* what is on the connection: requests, and the answers to them
  task,      \* each query's call to each shard, in the round it is in
  reply,     \* what that call returned
  query,     \* where each query is
  deaths, refreshes
searchVars == <<serving, alive, attempt, conn, holder, wire, task, reply, query, deaths, refreshes>>

IndexOf(c) == Versions[ShardOf(c)][serving[c]]

\* Tried in order, the first live one is the answer.
Connected == \A s \in Shards : conn[s] # None
Exhausted(s) == conn[s] = None /\ attempt[s] = Len(Group[s])
Broken(s) == conn[s] \notin {c \in Copies : alive[c]}

Idle == [pc |-> "idle", stats |-> NoStats, hits |-> << >>, total |-> 0,
         counted |-> [s \in Shards |-> 0], served |-> [s \in Shards |-> 0]]

Init ==
  /\ serving = [c \in Copies |-> 1]
  /\ alive = [c \in Copies |-> TRUE]
  /\ attempt = [s \in Shards |-> 0]
  /\ conn = [s \in Shards |-> None]
  /\ holder = [s \in Shards |-> None]
  /\ wire = [s \in Shards |-> << >>]
  /\ task = [q \in Queries |-> [s \in Shards |-> "none"]]
  /\ reply = [q \in Queries |-> [s \in Shards |-> None]]
  /\ query = [q \in Queries |-> Idle]
  /\ deaths = 0 /\ refreshes = 0

(***************************************************************************)
(* The coordinator                                                         *)
(***************************************************************************)

\* connect_replicated; connect is the same with one address for each shard.
TryNext(s) ==
  /\ conn[s] = None /\ ~Exhausted(s)
  /\ attempt' = [attempt EXCEPT ![s] = @ + 1]
  /\ LET c == Group[s][attempt[s] + 1]
     IN conn' = [conn EXCEPT ![s] = IF alive[c] THEN c ELSE @]
  /\ UNCHANGED <<serving, alive, holder, wire, task, reply, query, deaths, refreshes>>

Round(pc) == pc \in {"statistics", "search", "totals"}
Broadcast(q) == task' = [task EXCEPT ![q] = [s \in Shards |-> "waiting"]]
NoReplies(q) == reply' = [reply EXCEPT ![q] = [s \in Shards |-> None]]

\* A query of nothing asks the shards nothing.
Ask(q) ==
  /\ Connected /\ query[q].pc = "idle"
  /\ IF Text[q].terms = {} \/ Text[q].limit = 0
     THEN query' = [query EXCEPT ![q].pc = "done"] /\ UNCHANGED task
     ELSE query' = [query EXCEPT ![q].pc = "statistics"] /\ Broadcast(q)
  /\ UNCHANGED <<serving, alive, attempt, conn, holder, wire, reply, deaths, refreshes>>

Request(q) ==
  [by |-> q, kind |-> query[q].pc, stats |-> query[q].stats, answer |-> FALSE]
\* A task takes the lock and writes its request, which fails on a connection
\* that is broken.
Send(q, s) ==
  /\ task[q][s] = "waiting" /\ holder[s] = None
  /\ IF Broken(s)
     THEN task' = [task EXCEPT ![q][s] = "failed"] /\ UNCHANGED <<holder, wire>>
     ELSE /\ task' = [task EXCEPT ![q][s] = "calling"]
          /\ holder' = [holder EXCEPT ![s] = q]
          /\ wire' = [wire EXCEPT ![s] = Append(@, Request(q))]
  /\ UNCHANGED <<serving, alive, attempt, conn, reply, query, deaths, refreshes>>

\* The lock is given up and what was read stays where it was.
BugReceive(s) ==
  /\ wire[s] # << >> /\ Head(wire[s]).answer /\ holder[s] # None
  /\ task' = [task EXCEPT ![holder[s]][s] = "answered"]
  /\ reply' = [reply EXCEPT ![holder[s]][s] = Head(wire[s])]
  /\ holder' = [holder EXCEPT ![s] = None]
  /\ UNCHANGED <<wire, serving, alive, attempt, conn, query, deaths, refreshes>>

\* The answer is read, and the lock given up.
Receive(s) ==
  /\ wire[s] # << >> /\ Head(wire[s]).answer /\ holder[s] # None
  /\ task' = [task EXCEPT ![holder[s]][s] = "answered"]
  /\ reply' = [reply EXCEPT ![holder[s]][s] = Head(wire[s])]
  /\ holder' = [holder EXCEPT ![s] = None]
  /\ wire' = [wire EXCEPT ![s] = Tail(@)]
  /\ UNCHANGED <<serving, alive, attempt, conn, query, deaths, refreshes>>

\* The task ends with the lock in its hands.
BugHangup(s) ==
  /\ holder[s] # None /\ Broken(s) /\ task[holder[s]][s] = "calling"
  /\ task' = [task EXCEPT ![holder[s]][s] = "failed"]
  /\ wire' = [wire EXCEPT ![s] = << >>]
  /\ UNCHANGED <<holder, serving, alive, attempt, conn, reply, query, deaths, refreshes>>

Hangup(s) ==
  /\ holder[s] # None /\ Broken(s)
  /\ task' = [task EXCEPT ![holder[s]][s] = "failed"]
  /\ holder' = [holder EXCEPT ![s] = None]
  /\ wire' = [wire EXCEPT ![s] = << >>]
  /\ UNCHANGED <<serving, alive, attempt, conn, reply, query, deaths, refreshes>>

\* The tasks of a query that failed are aborted, wherever they are.
BugFail(q) ==
  /\ Round(query[q].pc) /\ \E s \in Shards : task[q][s] = "failed"
  /\ query' = [query EXCEPT ![q].pc = "failed"]
  /\ task' = [task EXCEPT ![q] = [s \in Shards |-> IF @[s] = "answered" THEN @[s] ELSE "failed"]]
  /\ holder' = [s \in Shards |-> IF holder[s] = q THEN None ELSE holder[s]]
  /\ UNCHANGED <<serving, alive, attempt, conn, wire, reply, deaths, refreshes>>

\* Awaited in the order of the shards: the first that failed fails the query,
\* once those before it have answered.
Fail(q) ==
  /\ Round(query[q].pc)
  /\ \E s \in Shards : /\ task[q][s] = "failed"
                       /\ \A u \in 1..(s - 1) : task[q][u] = "answered"
  /\ query' = [query EXCEPT ![q].pc = "failed"]
  /\ UNCHANGED <<serving, alive, attempt, conn, holder, wire, task, reply, deaths, refreshes>>

AllIn(q) == \A s \in Shards : task[q][s] = "answered"
VersionsIn(q) == [s \in Shards |-> reply[q][s].version]
\* The last shard's statistics stand for all.
BugSummed(q) == reply[q][ShardCount].stats
Summed(q) == Together([s \in Shards |-> reply[q][s].stats])
OneFormulaIn(q) == \A s \in Shards : reply[q][s].params = reply[q][1].params

\* Round one is in: the shards must score alike.
Agree(q) ==
  /\ query[q].pc = "statistics" /\ AllIn(q)
  /\ IF OneFormulaIn(q)
     THEN /\ query' = [query EXCEPT ![q].pc = "search", ![q].stats = Summed(q),
                                    ![q].counted = VersionsIn(q)]
          /\ Broadcast(q)
     ELSE query' = [query EXCEPT ![q].pc = "failed"] /\ UNCHANGED task
  /\ NoReplies(q)
  /\ UNCHANGED <<serving, alive, attempt, conn, holder, wire, deaths, refreshes>>

\* Round two is in: what all shards found, best first.
Merged(q) ==
  Truncated(Ordered(UNION {ToSet(reply[q][s].hits) : s \in Shards}), Text[q].limit)

\* The command prints them, and asks once more how many documents there are.
Merge(q) ==
  /\ query[q].pc = "search" /\ AllIn(q)
  /\ \E hits \in {Merged(q)} :
       /\ query' = [query EXCEPT ![q].pc = IF hits = << >> THEN "done" ELSE "totals",
                                 ![q].hits = hits, ![q].served = VersionsIn(q)]
       /\ IF hits = << >> THEN UNCHANGED task ELSE Broadcast(q)
  /\ NoReplies(q)
  /\ UNCHANGED <<serving, alive, attempt, conn, holder, wire, deaths, refreshes>>

Total(q) ==
  /\ query[q].pc = "totals" /\ AllIn(q)
  /\ query' = [query EXCEPT ![q].pc = "done",
                            ![q].total = SumFunction([s \in Shards |-> reply[q][s].stats.docs])]
  /\ UNCHANGED <<serving, alive, attempt, conn, holder, wire, task, reply, deaths, refreshes>>

(***************************************************************************)
(* The shards                                                              *)
(***************************************************************************)

\* Cut before they are sorted, in the order of the segments.
BugShardHits(c, q, stats) ==
  Truncated(FlattenSeq([i \in DOMAIN IndexOf(c) |->
                          Ordered(Top(IndexOf(c)[i], Text[q], stats))]), Text[q].limit)

\* Across every segment of the shard, best first, no more than were asked for.
ShardHits(c, q, stats) ==
  Truncated(Ordered(AllTop(IndexOf(c), Text[q], stats)), Text[q].limit)

\* Segments that disagree report the defaults.
ShardParams(c) == IF Agreed(IndexOf(c)) THEN IndexParams(IndexOf(c)) ELSE DefaultParams

\* handle: the index is picked up once for each request.  "version" is history.
Handled(c, r) ==
  [by |-> r.by, kind |-> r.kind, answer |-> TRUE, version |-> serving[c],
   stats |-> IF r.kind = "search" THEN NoStats ELSE IndexStats(IndexOf(c)),
   params |-> IF r.kind = "statistics" THEN ShardParams(c) ELSE DefaultParams,
   hits |-> IF r.kind = "search" THEN ShardHits(c, r.by, r.stats) ELSE << >>]

Answer(s) ==
  /\ ~Broken(s)
  /\ \E i \in DOMAIN wire[s] :
       /\ ~wire[s][i].answer /\ \A j \in 1..(i - 1) : wire[s][j].answer
       /\ wire' = [wire EXCEPT ![s] = [@ EXCEPT ![i] = Handled(conn[s], wire[s][i])]]
  /\ UNCHANGED <<serving, alive, attempt, conn, holder, task, reply, query, deaths, refreshes>>

\* A later version is swapped in.
Refresh(c) ==
  /\ alive[c] /\ serving[c] < Len(Versions[ShardOf(c)])
  /\ serving' = [serving EXCEPT ![c] = @ + 1]
  /\ refreshes < MaxRefreshes /\ refreshes' = refreshes + 1
  /\ UNCHANGED <<alive, attempt, conn, holder, wire, task, reply, query, deaths>>

Die(c) ==
  /\ alive[c] /\ deaths < MaxDeaths /\ deaths' = deaths + 1
  /\ alive' = [alive EXCEPT ![c] = FALSE]
  /\ UNCHANGED <<serving, attempt, conn, holder, wire, task, reply, query, refreshes>>

Working ==
  \/ \E s \in Shards : TryNext(s) \/ Receive(s) \/ Hangup(s)
  \/ \E q \in Queries, s \in Shards : Send(q, s)
  \/ \E q \in Queries : Fail(q) \/ Total(q) \/ Agree(q) \/ Merge(q)
  \/ \E s \in Shards : Answer(s)

Next ==
  \/ Working
  \/ \E q \in Queries : Ask(q)
  \/ \E c \in Copies : Refresh(c) \/ Die(c)

Spec == Init /\ [][Next]_searchVars

\* Tasks are polled and shards answer or are dead; nobody need ask or refresh.
FairSpec == Spec /\ WF_searchVars(Working)

(***************************************************************************)
(* Properties                                                              *)
(***************************************************************************)

Unmoved == [s \in Shards |-> 0]
VersionType == [Shards -> Nat]

(* The shape of every variable, and the lock's promise: a call is on a      *)
(* connection exactly while its task holds that connection's lock.          *)
TypeOK ==
  /\ serving \in [Copies -> Nat] /\ alive \in [Copies -> BOOLEAN]
  /\ \A s \in Shards :
       /\ attempt[s] \in 0..Len(Group[s])
       /\ conn[s] \in ToSet(Group[s]) \cup {None}
       /\ holder[s] \in Queries \cup {None}
       /\ Len(wire[s]) = (IF holder[s] = None THEN 0 ELSE 1)
       /\ \A q \in Queries : (task[q][s] = "calling") = (holder[s] = q)
  /\ task \in [Queries -> [Shards -> {"none", "waiting", "calling", "answered", "failed"}]]
  /\ \A q \in Queries :
       /\ query[q].pc \in {"idle", "statistics", "search", "totals", "done", "failed"}
       /\ query[q].counted \in VersionType /\ query[q].served \in VersionType
       /\ query[q].total \in Nat
  /\ deaths \in 0..MaxDeaths /\ refreshes \in 0..MaxRefreshes

Answered(q) == query[q].pc \in {"totals", "done"} /\ query[q].served # Unmoved

(* A task is given the answer to its own request, and a round is made of    *)
(* answers to that round, whatever other queries use the connections and    *)
(* whichever of them failed with calls still under way                      *)
(* (ShardConnection::call under the lock, broadcast's detached tasks).      *)
RepliesMatch ==
  /\ \A s \in Shards : wire[s] # << >> => Head(wire[s]).by = holder[s]
  /\ \A q \in Queries, s \in Shards :
       Round(query[q].pc) /\ task[q][s] = "answered" =>
         reply[q][s].by = q /\ reply[q][s].kind = query[q].pc

\* The segments of all shards, at one version of each, as one index.
WholeIndex(version) ==
  [p \in UNION {{s} \X DOMAIN Versions[s][version[s]] : s \in Shards} |->
     Versions[p[1]][version[p[1]]][p[2]]]

HitsOf(q) ==
  UNION {{[uri |-> d, score |-> Score(d, Text[q], query[q].stats, segment.params)] :
            d \in {e \in SegmentDocs(segment) : Matches(e, Text[q])}} :
         segment \in ToSet(WholeIndex(query[q].served))}

(* Nothing is missing from an answer: of all the documents the shards held  *)
(* when they searched, no matching one scores higher than one in the answer *)
(* and is not in it, all on the one scale of round one - whatever was       *)
(* refreshed between the rounds, however the limits of segments, shards and *)
(* coordinator cut (coordinator.rs:242, 258-261).  A corpus that was empty  *)
(* in round one gives no scale, and is left out.                            *)
AnswersAreTopK ==
  \A q \in Queries : Answered(q) /\ query[q].stats.docs > 0 =>
    LET hits == ToSet(query[q].hits)
        held == HitsOf(q)
    IN /\ hits \subseteq held
       /\ Len(query[q].hits) = Cardinality(hits)
       /\ \/ hits = held /\ Len(query[q].hits) <= Text[q].limit
          \/ /\ Len(query[q].hits) = Text[q].limit
             /\ \A h \in held \ hits, g \in hits : h.score <= g.score

(* One shard and a hundred are the same program: where nothing was          *)
(* refreshed between the rounds, and all segments score alike, the shards'  *)
(* answer is what one index of all their segments answers, score by score   *)
(* (which of two documents that tie is kept may differ: README.md:293-301). *)
AnswersAsOneIndex ==
  \A q \in Queries :
    Answered(q) /\ query[q].counted = query[q].served /\ Agreed(WholeIndex(query[q].counted)) =>
      LET one == IndexSearch(WholeIndex(query[q].counted), Text[q])
      IN [i \in DOMAIN query[q].hits |-> query[q].hits[i].score] =
           [i \in DOMAIN one |-> one[i].score]

(* Every query that was asked ends, in an answer or an error, whichever     *)
(* copies die: no task waits for a lock that nobody will give up.           *)
QueriesEnd == \A q \in Queries : Round(query[q].pc) ~> query[q].pc \in {"done", "failed"}
=============================================================================
