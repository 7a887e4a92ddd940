------------------------------- MODULE Leases -------------------------------
(***************************************************************************)
(* Who may fetch from a host, when, and by which rules: crawlers on many   *)
(* machines and the lease authority they share.                            *)
(*                                                                         *)
(*   workers    (crawl/src/lib.rs) learn a host's robots.txt, ask for a    *)
(*              slot, wait for it and fetch;                               *)
(*   links      (cluster/src/leases.rs, remote_..) two per crawler, one for *)
(*              slots and one for rules: a channel, and a task that puts   *)
(*              one question after another on a connection;                *)
(*   authority  (cluster/src/leases.rs, handle) a LocalPolicy and a        *)
(*              LocalRobotsCache, no HTTP client.                          *)
(*                                                                         *)
(* A crawler that outlives its link never reconnects: an authority that    *)
(* dies, restarted or not, is every link broken.  A crawl without an       *)
(* authority is one crawler whose answers are not late.                    *)
(***************************************************************************)
EXTENDS Naturals, Sequences, FiniteSets, Functions

CONSTANTS
  Hosts,
  Crawlers,
  Workers,
  CrawlerOf,     \* whose worker it is
  Delay,         \* Config.delay, of each crawler
  HostDelay,     \* the Crawl-delay of each host's rules
  Answers,       \* what a site's robots.txt may come to, when it can be asked
  Floor,         \* the shortest gap the authority grants
  Unit,          \* a millisecond, in ticks of the clock: what the wire carries
  Ttl,           \* how long the authority remembers a robots.txt
  MaxTime,       \* bound: ticks of the clock
  MaxTaken,      \* bound: URLs taken, of all crawlers together
  MaxBreaks,     \* bound: links that break
  MaxChanges,    \* bound: how often a site changes its mind
  None,          \* no host
  MaxCuts        \* bound: robots.txt answers cut in the middle of the body

(* Known: nobody knows; the file does not exist or says nothing; it allows  *)
(* us and names a Crawl-delay; it forbids us; the host could not be asked.  *)
Known == {"unknown", "nothing", "open", "closed", "unreachable"}

ASSUME LeasesAssumption ==
  /\ None \notin Hosts
  /\ CrawlerOf \in [Workers -> Crawlers]
  /\ Delay \in [Crawlers -> Nat] /\ HostDelay \in [Hosts -> Nat]
  /\ Answers \subseteq Known \ {"unknown", "unreachable"}
  /\ Floor \in Nat /\ Unit \in Nat \ {0} /\ Ttl \in Nat
  /\ MaxTime \in Nat /\ MaxTaken \in Nat /\ MaxBreaks \in Nat
  /\ MaxChanges \in Nat /\ MaxCuts \in Nat

VARIABLES
  now,
  \* the authority
  nextAllowed, \* LocalPolicy.next_allowed; a moment that is past is no entry
  entries,     \* LocalRobotsCache.entries
  \* the links
  line,        \* workers whose question is in the channel, the asked one first
  wire,        \* what is on the connection
  \* the crawlers
  worker, rules,
  \* the web and the bounds
  site, taken, breaks, changes, cuts

(***************************************************************************)
(* History, read only by the properties: the slots of each host in the     *)
(* order they were granted, those a request was made in, how many requests *)
(* were, what each worker did last without one, how often a worker asked   *)
(* for a robots.txt, and which hosts were read to allow, or cut short.     *)
(***************************************************************************)
VARIABLES ledger, used, made, before, looked, allowed, fragment

authority == <<nextAllowed, entries>>
links     == <<line, wire>>
bounds    == <<site, taken, breaks, changes, cuts>>
requests  == <<used, made, before>>
history   == <<ledger, requests, looked, allowed, fragment>>
vars      == <<now, authority, links, worker, rules, bounds, history>>

Kinds == {"slot", "robots"}

(* What a worker does, for the host of the URL it took: asks what is known, *)
(* asks for a slot for the robots.txt or the page, waits for its moment,    *)
(* reports what it fetched.  Ticket 0 is permission nobody granted.          *)
Idle ==
  [pc |-> "idle", host |-> None, page |-> FALSE, delay |-> 0, at |-> 0, ticket |-> 0,
   known |-> "unknown"]

WorkerType ==
  [pc : {"idle", "recall", "slot", "wait", "report"}, host : Hosts \union {None},
   page : BOOLEAN, delay : Nat, at : Nat, ticket : Nat, known : Known]

Ready == [pc |-> "ready", wait |-> 0, ticket |-> 0, known |-> "unknown"]
Down  == [Ready EXCEPT !.pc = "down"]

WireType ==
  [pc : {"ready", "down", "lease", "known"}, wait : Nat, ticket : Nat, known : Known]

Never == [at |-> 0, spacing |-> 0, host |-> None]

Asking(w, k) == worker[w].pc \in (IF k = "slot" THEN {"slot"} ELSE {"recall", "report"})

(* Who is in a line waits for its answer, and is there once. *)
LinesOK ==
  \A c \in Crawlers, k \in Kinds :
    /\ \A i \in DOMAIN line[c][k] : CrawlerOf[line[c][k][i]] = c /\ Asking(line[c][k][i], k)
    /\ IsInjective(line[c][k])
    /\ wire[c][k].pc \in {"ready", "down", IF k = "slot" THEN "lease" ELSE "known"}
    /\ wire[c][k].pc \in {"lease", "known"} => line[c][k] # <<>>

TypeOK ==
  /\ now \in Nat
  /\ nextAllowed \in [Hosts -> Nat]
  /\ entries \in [Hosts -> [known : Known, at : Nat]]
  /\ line \in [Crawlers -> [Kinds -> Seq(Workers)]]
  /\ wire \in [Crawlers -> [Kinds -> WireType]]
  /\ worker \in [Workers -> WorkerType]
  /\ \A w \in Workers : worker[w].host = None <=> worker[w].pc = "idle"
  /\ rules \in [Crawlers -> [Hosts -> Known]]
  /\ site \in [Hosts -> Answers]
  /\ taken \in Nat /\ breaks \in Nat /\ changes \in Nat /\ cuts \in Nat
  /\ ledger \in [Hosts -> Seq([slot : Nat, spacing : Nat])]
  /\ used \in [Hosts -> SUBSET Nat] /\ made \in [Hosts -> Nat]
  /\ before \in [Workers -> [at : Nat, spacing : Nat, host : Hosts \union {None}]]
  /\ looked \in [Workers -> [Hosts -> Nat]]
  /\ allowed \subseteq Hosts /\ fragment \subseteq Hosts
  /\ LinesOK

Init ==
  /\ now = 0
  /\ nextAllowed = [h \in Hosts |-> 0]
  /\ entries = [h \in Hosts |-> [known |-> "unknown", at |-> 0]]
  /\ line = [c \in Crawlers |-> [k \in Kinds |-> <<>>]]
  /\ wire = [c \in Crawlers |-> [k \in Kinds |-> Ready]]
  /\ worker = [w \in Workers |-> Idle]
  /\ rules = [c \in Crawlers |-> [h \in Hosts |-> "unknown"]]
  /\ site \in [Hosts -> Answers]
  /\ taken = 0 /\ breaks = 0 /\ changes = 0 /\ cuts = 0
  /\ ledger = [h \in Hosts |-> <<>>]
  /\ used = [h \in Hosts |-> {}] /\ made = [h \in Hosts |-> 0]
  /\ before = [w \in Workers |-> Never]
  /\ looked = [w \in Workers |-> [h \in Hosts |-> 0]]
  /\ allowed = {} /\ fragment = {}

-----------------------------------------------------------------------------
(* The environment. *)

Tick ==
  /\ now < MaxTime
  /\ now' = now + 1
  /\ UNCHANGED <<authority, links, worker, rules, bounds, history>>

(* A site changes its robots.txt. *)
SiteChanges ==
  /\ changes < MaxChanges
  /\ \E h \in Hosts, k \in Answers : site' = [site EXCEPT ![h] = k]
  /\ changes' = changes + 1
  /\ UNCHANGED <<now, authority, links, worker, rules, taken, breaks, cuts, history>>

(* Seeded bug: the task goes on after an error, holding the replies. *)
BugBreak(c, k) ==
  /\ breaks < MaxBreaks
  /\ wire[c][k] # Down
  /\ wire' = [wire EXCEPT ![c][k] = Down]
  /\ breaks' = breaks + 1
  /\ UNCHANGED <<now, authority, line, worker, rules, site, taken, changes, cuts, history>>

(* The task returns at the first error: its channel closes, and every reply *)
(* in it is dropped.                                                        *)
Break(c, k) ==
  /\ breaks < MaxBreaks
  /\ wire[c][k] # Down
  /\ wire' = [wire EXCEPT ![c][k] = Down]
  /\ line' = [line EXCEPT ![c][k] = <<>>]
  /\ breaks' = breaks + 1
  /\ UNCHANGED <<now, authority, worker, rules, site, taken, changes, cuts, history>>

-----------------------------------------------------------------------------
(* The authority. *)

Larger(m, n) == IF m >= n THEN m ELSE n

(* as_millis truncates what a crawler asks for; what is granted is rounded  *)
(* up.                                                                      *)
WireDown(ticks) == ticks - (ticks % Unit)

(* Seeded bug: what is granted is truncated too. *)
BugWireUp(ticks) == WireDown(ticks)

WireUp(ticks) == WireDown(ticks + Unit - 1)

(* Seeded bug: the crawler's word is taken for it. *)
BugSpacing(requested) == requested

Spacing(requested) == Larger(requested, Floor)

(* Seeded bug: reserved from now, not from the slot. *)
BugReserved(slot, spacing) == now + spacing

Reserved(slot, spacing) == slot + spacing

(* LocalPolicy::lease, of one permit as a worker asks. *)
Grant(c) ==
  /\ wire[c]["slot"] = Ready /\ line[c]["slot"] # <<>>
  /\ LET w       == Head(line[c]["slot"])
         h       == worker[w].host
         spacing == Spacing(WireDown(worker[w].delay))
         slot    == Larger(nextAllowed[h], now)
     IN  /\ nextAllowed' = [nextAllowed EXCEPT ![h] = Reserved(slot, spacing)]
         /\ ledger' = [ledger EXCEPT ![h] = Append(@, [slot |-> slot, spacing |-> spacing])]
         /\ wire' = [wire EXCEPT ![c]["slot"] =
                       [pc |-> "lease", wait |-> WireUp(slot - now),
                        ticket |-> Len(ledger[h]) + 1, known |-> "unknown"]]
  /\ UNCHANGED <<now, entries, line, worker, rules, bounds, requests, looked, allowed, fragment>>

Fresh(entry) == now - entry.at < Ttl

Recalled(cache, h) == IF Fresh(cache[h]) THEN cache[h].known ELSE "unknown"

(* LocalRobotsCache::learn where the crawler reports, and get. *)
Recall(c) ==
  /\ wire[c]["robots"] = Ready /\ line[c]["robots"] # <<>>
  /\ LET w     == Head(line[c]["robots"])
         h     == worker[w].host
         cache == IF worker[w].pc = "report"
                    THEN [entries EXCEPT ![h] = [known |-> worker[w].known, at |-> now]]
                    ELSE entries
     IN  /\ entries' = cache
         /\ wire' = [wire EXCEPT ![c]["robots"] =
                       [pc |-> "known", wait |-> 0, ticket |-> 0, known |-> Recalled(cache, h)]]
  /\ UNCHANGED <<now, nextAllowed, line, worker, rules, bounds, history>>

-----------------------------------------------------------------------------
(* A worker. *)

(* The channel refuses a question when its task is gone. *)
Queued(lines, w, k) ==
  LET c == CrawlerOf[w]
  IN  IF wire[c][k] = Down THEN lines ELSE [lines EXCEPT ![c][k] = Append(@, w)]

(* Seeded bug: who was answered stays in the line. *)
BugAnswered(w, k) == line

(* Its question is answered: the next in line is asked. *)
Answered(w, k) == [line EXCEPT ![CrawlerOf[w]][k] = Tail(@)]

AskSlot(w, h, page, delay, lines) ==
  /\ worker' = [worker EXCEPT ![w] =
                  [Idle EXCEPT !.pc = "slot", !.host = h, !.page = page, !.delay = delay]]
  /\ line' = Queued(lines, w, "slot")

(* The host's own Crawl-delay, or the configuration's. *)
PageDelay(w, h, known) == IF known = "open" THEN HostDelay[h] ELSE Delay[CrawlerOf[w]]

(* Seeded bug: a host that could not be asked has no rules. *)
BugAllows(known) == known # "closed"

Allows(known) == known \in {"nothing", "open"}

(* The rules are in: a slot for the page, or nothing more. *)
Follow(w, h, known, lines) ==
  IF Allows(known) THEN AskSlot(w, h, TRUE, PageDelay(w, h, known), lines)
                   ELSE worker' = [worker EXCEPT ![w] = Idle] /\ line' = lines

(* next_url gives a URL of any host; the crawler's own map comes first. *)
Take(w, h) ==
  LET known == rules[CrawlerOf[w]][h]
  IN  /\ worker[w] = Idle
      /\ taken < MaxTaken
      /\ taken' = taken + 1
      /\ IF known # "unknown"
           THEN Follow(w, h, known, line)
           ELSE /\ worker' = [worker EXCEPT ![w] = [Idle EXCEPT !.pc = "recall", !.host = h]]
                /\ line' = Queued(line, w, "robots")
      /\ UNCHANGED <<now, authority, wire, rules, site, breaks, changes, cuts, history>>

(* Seeded bug: the crawler's map is never filled. *)
BugInserted(c, h, known) == rules

Inserted(c, h, known) == [rules EXCEPT ![c][h] = known]

(* What the cache knows, or that nobody does: then it is this worker's to    *)
(* ask, and robots.txt waits its turn too.                                   *)
Heard(w, known, lines) ==
  LET h == worker[w].host
  IN  IF known = "unknown"
        THEN AskSlot(w, h, FALSE, Delay[CrawlerOf[w]], lines) /\ UNCHANGED rules
        ELSE Follow(w, h, known, lines) /\ rules' = Inserted(CrawlerOf[w], h, known)

(* What the worker fetched goes into the crawler's map, whoever else knows.  *)
Reported(w, lines) ==
  LET h == worker[w].host
  IN  /\ rules' = Inserted(CrawlerOf[w], h, worker[w].known)
      /\ Follow(w, h, worker[w].known, lines)

DeliverKnown(c) ==
  /\ wire[c]["robots"].pc = "known"
  /\ wire' = [wire EXCEPT ![c]["robots"] = Ready]
  /\ LET w == Head(line[c]["robots"])
     IN  IF worker[w].pc = "recall"
           THEN Heard(w, wire[c]["robots"].known, Answered(w, "robots"))
           ELSE Reported(w, Answered(w, "robots"))
  /\ UNCHANGED <<now, authority, bounds, history>>

Waiting(w, at, ticket) ==
  [worker[w] EXCEPT !.pc = "wait", !.at = at, !.ticket = ticket]

(* not_before is this clock's now, when the answer is read, and the wait.    *)
DeliverLease(c) ==
  /\ wire[c]["slot"].pc = "lease"
  /\ LET w == Head(line[c]["slot"])
     IN  /\ worker' = [worker EXCEPT ![w] =
                         Waiting(w, now + wire[c]["slot"].wait, wire[c]["slot"].ticket)]
         /\ line' = Answered(w, "slot")
  /\ wire' = [wire EXCEPT ![c]["slot"] = Ready]
  /\ UNCHANGED <<now, authority, rules, bounds, history>>

(* Its reply was dropped, or the channel refused the question. *)
Dropped(w, k) == Asking(w, k) /\ w \notin Range(line[CrawlerOf[w]][k])

(* Nobody knows; a report is not repeated. *)
KnowNothing(w) ==
  /\ Dropped(w, "robots")
  /\ IF worker[w].pc = "recall" THEN Heard(w, "unknown", line) ELSE Reported(w, line)
  /\ UNCHANGED <<now, authority, wire, bounds, history>>

(* Permission now. *)
FallBack(w) ==
  /\ Dropped(w, "slot")
  /\ worker' = [worker EXCEPT ![w] = Waiting(w, now, 0)]
  /\ UNCHANGED <<now, authority, links, rules, bounds, history>>

(* A request to the host, as the history sees it. *)
Request(w) ==
  LET h == worker[w].host  t == worker[w].ticket
  IN  IF t = 0
        THEN /\ before' = [before EXCEPT ![w] =
                              [at |-> now, spacing |-> worker[w].delay, host |-> h]]
             /\ UNCHANGED <<used, made>>
        ELSE /\ used' = [used EXCEPT ![h] = @ \union {t}]
             /\ made' = [made EXCEPT ![h] = @ + 1]
             /\ before' = [before EXCEPT ![w] = Never]

Turn(w) == worker[w].pc = "wait" /\ worker[w].at <= now

(* An answer whose body is cut is an empty file (unwrap_or_default).         *)
FetchRobots(w) ==
  LET h == worker[w].host
  IN  /\ Turn(w) /\ ~worker[w].page
      /\ \/ \E k \in {site[h], "unreachable"} :
              /\ worker' = [worker EXCEPT ![w] =
                              [Idle EXCEPT !.pc = "report", !.host = h, !.known = k]]
              /\ allowed' = IF k \in {"nothing", "open"} THEN allowed \union {h} ELSE allowed
              /\ UNCHANGED <<cuts, fragment>>
         \/ /\ cuts < MaxCuts /\ site[h] \in {"open", "closed"}
            /\ cuts' = cuts + 1
            /\ worker' = [worker EXCEPT ![w] =
                            [Idle EXCEPT !.pc = "report", !.host = h, !.known = "nothing"]]
            /\ fragment' = fragment \union {h}
            /\ UNCHANGED allowed
      /\ line' = Queued(line, w, "robots")
      /\ looked' = [looked EXCEPT ![w][h] = @ + 1]
      /\ Request(w)
      /\ UNCHANGED <<now, authority, wire, rules, site, taken, breaks, changes, ledger>>

FetchPage(w) ==
  /\ Turn(w) /\ worker[w].page
  /\ worker' = [worker EXCEPT ![w] = Idle]
  /\ Request(w)
  /\ UNCHANGED <<now, authority, links, rules, bounds, ledger, looked, allowed, fragment>>

-----------------------------------------------------------------------------
LinkStep(c) == Grant(c) \/ Recall(c) \/ DeliverKnown(c) \/ DeliverLease(c)

WorkerStep(w) == KnowNothing(w) \/ FallBack(w) \/ FetchRobots(w) \/ FetchPage(w)

Next ==
  \/ Tick \/ SiteChanges
  \/ \E c \in Crawlers, k \in Kinds : Break(c, k)
  \/ \E c \in Crawlers : LinkStep(c)
  \/ \E w \in Workers : WorkerStep(w)
  \/ \E w \in Workers, h \in Hosts : Take(w, h)

Spec == Init /\ [][Next]_vars

(* The tasks of a link and of a crawler are polled while they can go on, and *)
(* time passes; nothing is assumed of when a URL is taken or of what breaks. *)
FairSpec ==
  /\ Spec
  /\ WF_vars(Tick)
  /\ \A c \in Crawlers : WF_vars(LinkStep(c))
  /\ \A w \in Workers : WF_vars(WorkerStep(w))

-----------------------------------------------------------------------------
(* What the authority promises a site, and the crawlers each other.         *)

(* No request is made before the slot it was granted, however long the      *)
(* question and the answer took (leases.rs:27-35).                          *)
NoRequestBeforeItsSlot ==
  \A w \in Workers :
    worker[w].pc = "wait" /\ worker[w].ticket # 0
      => worker[w].at >= ledger[worker[w].host][worker[w].ticket].slot

(* Between two slots of a host there is at least the gap that the crawler   *)
(* granted the first asked for.                                             *)
GapsKept ==
  \A h \in Hosts : \A i, j \in DOMAIN ledger[h] :
    i < j => ledger[h][i].slot + ledger[h][i].spacing <= ledger[h][j].slot

(* All crawlers together make no more requests to a host than one every     *)
(* Floor since the first slot, whatever delays they ask for.                *)
SharedRateHolds ==
  \A h \in Hosts :
    made[h] # 0 => made[h] * Floor <= (now - ledger[h][1].slot) + Floor

(* A page is only asked for after some answer of its host was read to allow *)
(* it, by this crawler or by one whose report the authority passed on.      *)
PagesNeedAnAnswer ==
  \A w \in Workers :
    worker[w].pc \in {"slot", "wait"} /\ worker[w].page
      => worker[w].host \in allowed \union fragment

(* A worker asks a host for its robots.txt once, whatever breaks or expires. *)
RobotsOncePerWorker == \A w \in Workers, h \in Hosts : looked[w][h] <= 1

(* Why both hold: a worker that has asked a host still has the answer in its *)
(* hands or it is in its crawler's map, from which nothing is taken; and no *)
(* map, cache, connection or worker holds an answer that nobody read.       *)
ReadFrom == allowed \union fragment

ByTheRules(w) ==
  LET r == worker[w]
  IN  /\ r.pc \in {"slot", "wait"} /\ r.page => r.host \in ReadFrom
      /\ r.pc = "report" => r.known # "unknown" /\ (Allows(r.known) => r.host \in ReadFrom)
      /\ r.pc = "recall" \/ (r.pc \in {"slot", "wait"} /\ ~r.page) => looked[w][r.host] = 0
      /\ \A h \in Hosts : looked[w][h] # 0 =>
           /\ looked[w][h] = 1
           /\ rules[CrawlerOf[w]][h] # "unknown" \/ (r.pc = "report" /\ r.host = h)

AnswersWereRead ==
  /\ \A h \in Hosts : Allows(entries[h].known) => h \in ReadFrom
  /\ \A c \in Crawlers, h \in Hosts : Allows(rules[c][h]) => h \in ReadFrom
  /\ \A c \in Crawlers :
       wire[c]["robots"].pc = "known" /\ Allows(wire[c]["robots"].known)
         => worker[Head(line[c]["robots"])].host \in ReadFrom

RulesInv == (\A w \in Workers : ByTheRules(w)) /\ AnswersWereRead

(* Whatever breaks, there comes a time when nobody waits for an answer.     *)
EveryQuestionEnds == <>[](\A w \in Workers, k \in Kinds : ~Asking(w, k))

-----------------------------------------------------------------------------
(* What the documents say and the code does not do.                         *)

(* politeness.rs:121-124: a crawler whose authority has gone away carries   *)
(* on at the rate of its own configuration.                                 *)
FallbackKeepsSpacing ==
  \A w \in Workers :
    worker[w].pc = "wait" /\ worker[w].ticket = 0 /\ worker[w].host = before[w].host
      => worker[w].at >= before[w].at + before[w].spacing

=============================================================================
