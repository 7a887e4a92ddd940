# A verification development of indexander

TLA+ models of indexander's moving parts, TLC runs that check them on small
instances, and theorems about them checked by TLAPS. Every definition is
translated from the Rust source; `PROJECT.json` ("map") names the file, the
lines and the function each one stands for. Paths below are relative to the
repository (`src/`).

## 1. The system

indexander crawls the web, builds an inverted index, ranks and serves it, on one
machine or on several. What keeps state, and what is hard about it:

| component | state | operations | interacts with |
|---|---|---|---|
| frontier (`crawl/src/frontier.rs`) | queue, seen, seed hosts, fetched count, per-host counts, anchor text, in-flight | `seed`, `push_outlinks`, `next_url`, `take_anchors`, `completed` | workers and the indexing loop, under one lock |
| crawl workers (`crawl/src/lib.rs`) | the URL each holds | take, ask for rules, wait, fetch, queue links, send the page | frontier, politeness, robots cache, a bounded channel |
| politeness and lease authority (`politeness.rs`, `cluster/src/leases.rs`) | next allowed moment of each host | `lease`, over a channel and a connection | workers of many crawlers |
| robots cache (`robots_cache.rs`) | what each host's robots.txt said, and when | `get`, `learn` | workers; the lease authority keeps the shared one |
| checkpoint and spool (`checkpoint.rs`) | SPOOL file and its buffer, FRONTIER file | `append`, `flush`, `save`, `load`, `discard` | the indexing loop; read by the next process |
| crawl command (`cli/src/main.rs`, `cmd_crawl`) | the index being built | index, spool, checkpoint, finish | everything above |
| manifest and merge policy (`index/src/manifest.rs`) | the list of segments | `next_merge`, write, read | merger, shards, syncs, `manifest` |
| merger (`index/src/merger.rs`, `cmd_merge`) | plan, the new segment | plan, write, replace, delete, nudge | the index directory, shards |
| serving shard (`cluster/src/shard.rs`) | the index it answers from | open, refresh, answer | merger's nudges, coordinator |
| replication (`cluster/src/replication.rs`, `cmd_sync`) | the copied directory | `sync_from`, `notify` | primary's shard, replica's shard |
| coordinator (`cluster/src/coordinator.rs`) | connections, no index | statistics round, query round, merge of answers, totals | shards, and their copies |
| segment and its builder (`index/src/builder.rs`, `segment.rs`) | postings being built; none once written | add, absorb, merge, encode; open, look up, move a cursor | crawl, merger, query evaluation |
| query evaluation (`index/src/search.rs`, `scoring.rs`, `index.rs`) | cursors, thresholds, a heap | pruned walk, positional path, sort | shards, the command line |
| distributed PageRank (`cluster/src/ranking.rs`, `rank/src/*.rs`) | each shard's graph or its ranker; a coordinator's sums and mail | init, dangling, emit, absorb, apply, results | coordinators and shards |
| pure parts: URL normalisation and extraction, robots.txt rules, analysis, query parsing, snippets, wire format and routing; evaluation metrics | none | functions on text, bytes, lists | called by the above |

Where the difficulty lies, component by component (each hazard has its line in
`PROJECT.json`, "hazards"):

* **A crawl that can be killed.** Workers, the indexing loop and the checkpoint
  share a frontier behind one lock, but a page's way from the queue to the disk
  takes a dozen lock/unlock/await steps: it leaves the queue, is fetched, its
  links are queued, it waits in a bounded channel, is indexed in memory,
  buffered, flushed, then forgotten by the frontier. A save may fall between any
  two, a kill too, and the next process believes what it finds. Correct means:
  nothing seen is lost, nothing indexed twice, the budgets and the seed hosts
  hold across resumes, and the crawl ends.
* **Crawlers that share an authority.** Questions and answers travel over
  links that are slow, round to milliseconds and break; a crawl must neither
  outrun the shared rate, nor fetch what a host forbids, nor hang.
* **An index under a merger.** The manifest is replaced while shards reopen,
  replicas copy and operators list; the merger may be killed between any two
  steps; a nudge may be lost. Correct means: the manifest names only files that
  exist, every published document is in exactly one segment of it, whatever is
  served was published, and replicas converge.
* **Two-round queries.** Several queries share one connection to each shard; a
  query that failed leaves tasks with the lock in their hands; copies refresh
  and die between the rounds. Correct means: each task reads the answer to its
  own request, the answer is the best of what the shards held, a hundred shards
  answer what one would, and every query ends.
* **Lock-step ranking.** Two coordinators may reach the same shards, a shard
  may be restarted, a connection may break with an answer on the way. Correct
  means: the shards together take the steps of one process, or the run fails.
* **A walk that leaves postings unread.** Bounds of words and blocks, computed
  when a segment was built, decide what a query may skip; cursors jump over
  blocks whose gaps start anew. Correct means: the answer is the exhaustive one.
* **Text and bytes.** Offsets land inside characters; the same word must be cut
  the same way when indexed, asked for and shown; what is written must read back
  and what is cut must be refused.

## 2. The modules

| module | models | extends |
|---|---|---|
| `Frontier` | the operations of a `Frontier` and of a snapshot of it, as operators on a record | standard modules |
| `Crawl` | one crawl, from start to index, across crashes and resumes | `Frontier` |
| `CrawlInvariants` | the invariants behind the theorems on limits and resumes, where TLC can check them | `Crawl` |
| `CrawlProofs` | theorems of `Crawl`: types, checkpoints without a gap, budgets and seed hosts, nothing lost or done twice across resumes | `CrawlInvariants` |
| `Leases` | crawlers, their workers and links, and the lease authority | standard modules |
| `LeasesProofs` | theorems of `Leases` | `Leases` |
| `Store` | the index directory, manifest, merger, a primary, a replica and its syncs | standard modules |
| `StoreProofs` | theorems of `Store` | `Store` |
| `Scoring` | the numbers of BM25 and authority, as integers that round down | standard modules |
| `Corpus` | what a shard holds, its statistics and its best documents, for `Search` | `Scoring` |
| `Search` | the coordinator's rounds over shards and their copies | `Corpus` |
| `SearchProofs` | theorems of `Search` | `Search`, `Sums` |
| `Postings` | building, absorbing and merging postings, their blocks and bounds, cursors | `Scoring` |
| `Scan` | a query against one segment, from indexing to the answer | `Postings` |
| `ScanProofs` | theorems of `Scan`: the exhaustive answer, cursors, a walk that gets on | `Scan`, `Sums` |
| `LinkGraph` | the graph and the arithmetic of PageRank | standard modules |
| `PowerIteration` | ranking in one process: the abstract specification | `LinkGraph` |
| `Ranking` | ranking over shards; implements `PowerIteration` | `LinkGraph`, `INSTANCE PowerIteration` |
| `RankingProofs` | theorems of `Ranking`, the refinement among them | `Ranking`, `Sums` |
| `Sums` | lemmas: sums over a finite set, induction over sets of numbers, ranks in an order, what is kept of a sequence | library |
| `Words` | characters, tokens, folding, query parsing | standard modules |
| `Snippet` | windows of a text around matches, and their highlights | `Words` |
| `RobotsRules` | the group that is obeyed, its rules, matching | standard modules |
| `Extract` | a page's links and texts; resolving a URL | standard modules |
| `Placement` | jump hashing | standard modules |
| `Wire` | the codec, every message, frames | standard modules |
| `SegmentFile` | the bytes of a segment and its reader | standard modules |
| `Algorithms` | one question to one of these modules per behaviour | `Words` to `SegmentFile` |
| `AlgorithmsProofs` | theorems of `Algorithms`: links and shards, robots.txt | `Algorithms`, `Sums` |
| `MC...` | small instances of `Crawl`, `Leases`, `Store`, `Search`, `Scan`, `Ranking`, `Algorithms` | the module named |

A property whose violation is a real disagreement between the documents and the
code stands at the end of its module under "What the documents say and the code
does not do". A definition whose name begins with `Bug` is the code with one
plausible mistake put in; nothing uses it. Putting it in the place of the
correct one makes the property that `PROJECT.json` ("mutants") pairs it with fail,
which is how the properties are known to say something.

### Crawl

A URL, a host and a page are model values; the web is given by constants:
`Target` (where redirects lead), `Links`, `NoIndex` and `Flaky` (URLs that may
also give nothing). A page is named by the URL that answered.

| in the code | in the model |
|---|---|
| `Frontier` behind `Shared`'s mutex | `frontier`, a record; each use under the lock is one step |
| `worker()` (lib.rs:280-372) | `Take`, `Leave` (the queue is empty), `GiveUp` (rules, errors or content type), `Follow` (fetch and queue links), `Describe` (`take_anchors`), `Send` |
| channel of 64 | `channel`, of at most `ChannelCap` |
| indexing loop of `cmd_crawl` | `Receive` (index and append), `Complete`, `Flush`, `FlushFails`, `TakeSnapshot`, `WriteFrontier`, `Close` |
| `BufWriter` and SPOOL | `buffer`, `spool`; a flush that dies or fails may leave a prefix and a `Torn` record |
| FRONTIER, written by rename | `saved`, replaced in one step |
| end of `cmd_crawl` | `WriteIndex`, `KeepCheckpoint`, `DiscardSpool`, `DiscardFrontier` |
| `crawl`, `crawl --resume` | `StartFresh`, `Resume`, `ResumeRefused` |
| SIGKILL, power | `Crash`, at any step |

`note`, `snapNote` and `savedNote` are history: which URLs a budget dropped,
which pages had their anchor text taken, and whether a process began from a
checkpoint worth trusting. A checkpoint is *trusted* if the process that wrote it
found the spool empty and every append succeeded; points 1 and 4 of section 7
show why the others are not.

### Leases

| in the code | in the model |
|---|---|
| `LocalPolicy.next_allowed` | `nextAllowed` |
| `LocalRobotsCache.entries` | `entries`, with the moment they were learnt |
| `remote_politeness`, `remote_robots_cache` | `line[c][k]` (who waits in the channel) and `wire[c][k]` (the answer on the connection), one of each kind per crawler |
| `LeaseAuthority::handle` | `Grant`, `Recall` |
| reading an answer | `DeliverLease`, `DeliverKnown` |
| an error on the connection, the task's return | `Break`: the channel closes and every reply in it is dropped |
| a dropped reply, `Politeness::lease`'s fallback | `KnowNothing`, `FallBack` |
| `ensure_robots`, `wait_for`, `fetch` | `Take`, `FetchRobots`, `FetchPage` |

The clock counts ticks, of which `Unit` make a millisecond: what a crawler asks
for is truncated on the wire (leases.rs:228), what it is granted is rounded up
(leases.rs:26-35). What a robots.txt says is one of four answers. A crawl without
an authority is one crawler whose answers are not late.

### Store

A segment is a record of a label and a set of documents. On the primary its file
*is* it, since segments never change, and a directory and a manifest are sets. On
the replica a file is what has been written of it: `copies` holds, for each
segment, the parts under its own name, and `fetching` those under the temporary
one; `copiedManifest` and `listed` are MANIFEST and its temporary. A segment is
sent in `Parts` chunks, and the last has its footer. The merge policy chooses among
the segments of a tier in any order, which covers the one the code takes.

| in the code | in the model |
|---|---|
| `index`, `manifest` | `AddSegment`; `ListSegments` then `WriteListing` (two steps: what is listed may be old when it is written); `RemoveOrphans` is the operator's |
| `Merger::run_once` | `PlanMerge`, `WriteMerged`, `ReplaceManifest`, `DeleteOld`, `MergerDies` between any two |
| `cmd_merge --notify` | `Announce`, `Nudge`, `Answered`, `AllTold`: one address after another, each may refuse |
| `Replica::refresh` | `ReadManifest`, `OpenSegments`, `Swap` for each connection |
| a Refresh from elsewhere | `StrayNudge` |
| `sync_from` | `AskManifest`; `Fetch`, segment by segment; `Install`; `SyncFails` (cut off or killed) in any of these; then the replica's `ReopenReplica`, `SwapReplica` |
| `fetch_named` | `Check` (a footer with the right digest is there), `Create`, `Receive`, `Verify`, `Discard`, `Rename` |
| `Manifest::write_to`, on the replica | `CreateManifest`, `WriteManifest`, `RenameManifest` |
| `sync --every` | `TimerFires` |

Every sync of a directory uses the same temporary names. A sync that has one open
writes to the file, wherever another has moved it by now (`Moved`: still under the
temporary name, under the final one, or removed); what it reads back, renames or
removes is what stands under the name at that moment, whoever wrote it. `clashes`
counts how often a sync created a temporary that another had in hand.

`Careful` says when the operator runs `manifest`: only beside no merge and with
no leftovers. The program does not enforce it; point 9 of section 7 is what
follows without it.

### Search

| in the code | in the model |
|---|---|
| `Replica.current`, a copy's process | `serving`, `alive`: which of a shard's versions each copy answers from |
| `connect_replicated` | `TryNext`: the addresses of a shard, one after another |
| `ShardConnection`, its mutex | `conn`, `holder`; `wire` is what travels on it |
| `broadcast`'s detached tasks | `task[q][s]`, `Send`, `Receive`, `Hangup` |
| `search`'s two rounds, the command's totals | `Ask`, `Agree`, `Merge`, `Total`; `Fail` when a task failed, in the order the tasks are awaited |
| `Shard::handle` | `Answer`: the index is picked up once for each request |
| `Replica::refresh`; a process that dies | `Refresh`, `Die` |

Scores and statistics are integers of `Scoring` that round down where the code
rounds; a document is its frequencies and its length. `counted` and `served`
are history: which versions answered in each round.

### Ranking, which implements PowerIteration

A coordinator asks one shard after another: `AskDangling`, `AskEmit`, `AskAbsorb`
(`PassOver` where nothing is for a shard), `AskApply`, then `AskResults`. Each is
`RankShard::handle` and the coordinator's use of the answer in one step, as no
other request of this coordinator is under way; `Answered` adds the outcome that
the shard did its part and the answer was lost. `InitShard` takes the graph or
is refused. `Restart` gives a shard its graph back and breaks its connections.

`PowerIteration` is `pagerank::pagerank`: a vector, how many iterations were made,
whether it stopped moving. `Ranking!Single` maps the ranks of the shards of the
one run that leads them all to that vector. During an iteration's last exchange
some shards hold the new ranks and some the old; as every contribution has been
delivered by then, what the others will hold is determined, and the mapping
looks ahead of them. Every other exchange is a stutter.

### Scan

A behaviour indexes a sequence of documents at once, by two builders of which one
absorbs the other, or as two segments that are merged (`Index`, `Absorb`,
`Encode`, `Merge`); asks one query (`Ask`, `Open`, `OpenNothing`); and walks:
`Turn` is one turn of `Scan::run`'s loop with every cursor it moves, `Stop` the
test that no document can enter the heap any more, `DecodeWords` and
`ScoreCandidates` the positional path, `Finish` the sort. A posting is a document
with its positions in each field; a byte offset is the number of postings
before it. Blocks hold two postings, their first gap counted from the block's
base as in the file.

### Algorithms

One question per behaviour: each action of `Algorithms` computes in one step what
the code computes in one call, and the invariant compares it with a definition
that does not go by the code's steps. `RobotsRules` reads line after line as `parse`
does and finds each piece of a pattern where `path_matches` finds it, from the left
and at the first place; `Extract` folds over a scanner's items;
`Words`, `Snippet` count bytes of characters of one, two and three bytes, one of
which grows in lower case and one of which becomes two characters; `Wire` has a
table of what each message writes and another of what reading it expects, each
from its own function in `message.rs`, and lists no deeper than the two levels that
messages have; `SegmentFile` lays the sections out at
offsets and reads them back by offset.

## 3. The runs

| run | asks | instance | distinct states |
|---|---|---|---|
| `crawl` | nothing lost, nothing twice but through a redirect, links and anchor text kept, a finished index complete, whatever is killed and whichever write fails | 4 URLs with a redirect, a page that may fail and one not to be indexed; 2 workers, 2 lives, 1 fault | 2.7 million |
| `crawl_limits` | page and host budgets, the seed hosts, and that every crawl ends | 4 URLs, MaxPages 2, 1 per host, 3 lives | 282 thousand |
| `second_resume` | *violation*: a finished checkpoint rebuilds the index | 1 worker | |
| `leases` | slots, gaps, the shared rate, consent, robots.txt once per worker, every question ends | 2 crawlers, 3 workers, 1 host, 1 broken link, 1 change of mind, 1 cut answer | 765 thousand |
| `leases_alone` | *violation*: without its authority a crawl keeps its own delay | 1 worker | |
| `store` | the manifest is whole, each document once, only published indexes served, a replica that always opens | 2 labels, a stranger, a timer, 2 chunks, 1 clash, 1 fault, 1 kill | 3.1 million |
| `store_told` | a told replica is current; merges settle | 4 labels, a nudger, 1 fault, 1 kill | 489 thousand |
| `search` | answers to one's own requests, the best of what was held, as one index would answer, and an end to every query | 2 shards (one with 2 copies), 2 queries, 1 refresh, 1 death | 111 thousand |
| `ranking` | rank is conserved, one leader, every run ends, the steps of one process | 3 webs of 4 pages, 3 partitions over 2 shards, 2 coordinators, 2 restarts, 1 broken connection | 291 thousand |
| `scan` | the exhaustive ranking, cursors that read what is there, turns that get on | every sequence of 5 out of 5 kinds of documents, indexed in 3 ways; 3 queries, 2 limits, own or supplied statistics | 283 thousand |
| `scan_anchors` | *violation*: a phrase cannot straddle two links | the same | |
| `algorithms` | robots.txt, links, URLs and shards, queries and extracts, messages and files | every small input of each | 226 thousand |

**Why the bounds are enough to mean something.** Two workers are what it takes
for two to hold URLs, find the queue empty while the other fetches, or fill the
channel. `ChannelCap` 1 makes every page wait. `Interval` 2 lets a page be
spooled and not flushed when a snapshot falls; `crawl_limits` uses 1 so that
every page saves. Two lives are a crash and a resume at every step of it; `crawl_limits` has a third, for what only a crawl after a resumed or a finished one can spend. The
four URLs have a cycle, so that a page is found twice, by two workers at once,
with a redirect next to it. One fault is one failed append or flush at any
place. Two crawlers and three workers (two of one crawler, one of the other)
give two in a line, two crawlers at the authority, and one who asks for no delay
at all next to one who does; a unit of two ticks and delays of 3 and 4 make
rounding matter; a Ttl of one tick expires between two questions. Larger
instances of `Leases` (MaxTime 4, MaxTaken 3) were checked as well and take too
long to keep. Two segments are what a merge needs, four give a merge of merged
segments. In `store` the merger has no addresses to notify: a Refresh is the same
whoever sends it, and the stranger sends one to either shard at any time. The
stranger's sync and the timer's are two on one directory; two chunks are the
fewest that can be mixed or cut between; one clash is a truncation of what
another sync is writing, has verified, or is about to rename or remove, and all
that follows from it. `store_told` has one sync at a time, which meets no other,
and a chunk is a whole segment.

In `search` a refresh that adds documents and one that brings other parameters
fall between any two requests; a word is rare in one shard and common in the
other, so that statistics of one shard alone would order the answers
differently; a query asks for fewer than match. Two queries suffice for a task
to wait behind another's lock. In `ranking` a web has a hub, a dead end, a cycle
and a page that only links to itself; `Whole` is chosen so that no division
rounds in three iterations, and one web converges before the last. Partitions
include one that leaves a shard without pages. With the
damping of the code (`Num` 17, `Den` 20), `Whole` 1000, `Tolerance` 40, six iterations
and one coordinator nearly every division rounds, and `RanksAsOneProcess` and
`NoRankIsMade` hold as well (7 thousand states, some of whose webs converge and
some do not); that configuration is not kept, as theorems cover it.
Five documents in blocks of two give lists of three blocks, with the last one short; the threshold rises while
blocks remain, so that whole blocks are skipped. In `algorithms` the numbers of
the wire are below 32 in digits to the base 4, so that one to three bytes occur,
strings and collections are longer than a reader accepts (3 and 5, so that some
bytes are too many for a string and not for a collection), and every message is
also read cut at every byte and with one more. Hosts have up to three dots behind
them, and may be nothing but dots.

`crawl` reduces by the symmetry of the workers, which have no identity; no run
with a liveness property does. Deadlock is checked wherever the model should go
on: `Crawl`, `Ranking` and `Scan` have a step for what has ended. It is off in
`leases`, where clock, URLs and faults are bounded and everybody may be done, in
`store_told`, which may settle, in `search`, where all queries may have ended,
and in `algorithms`, where a behaviour is one question.

**Fairness.** Everything in a crawl is a task of one runtime that is polled while
it can move: weak fairness for each worker, the indexing loop and the command,
none for crashes or starts. In `Leases`, the tasks of each link and each worker,
and the clock; none for taking URLs, breaking, or a site's changes. In `Store`, a
command that has begun, the merger's loop, each refresh, sync and timer; none
for operators, strangers or faults. In `Search`, weak fairness of all tasks and
shards together, the weakest under which the system does not stop; a shard that
is alive answers, which the code needs too, as no call has a timeout. In
`Ranking`, each coordinator. A process that ends by itself needs no more than
this, and no property rests on an operator acting.

## 4. What is proved

For every value of the constants that satisfies the named assumptions, TLAPS
checks the theorems below: every safety property of `Crawl`, `Leases`, `Store`,
`Search`, `Scan` and `Ranking` that a run checks, and of `Algorithms`
`AddressesAreStable` and `RobotsObeyed`. No theorem rests on an axiom;
every ASSUME about constants is one that TLC evaluates in the runs, except the
hypotheses named with the theorem.

**How they are laid out.** The inductive invariants stand where TLC can read
them: `NoGapInv` in `Crawl`, `LimitsInv` and `ResumeInv` in `CrawlInvariants`,
`RulesInv` in `Leases`, `StoreInv`, `ServedInv` and `ToldInv` in `Store`, `Types`
and `RankInv` in `RankingProofs`, `GatherInv` and `MassInv` in `Ranking`. Listed as INVARIANT in
the run's configuration, each of them can be looked at on the small instance
before and after a change to the model; that is how they were found. `SearchInv`
and `AnswerInv` are in `SearchProofs`, as they quantify over any message, and
`ScanInv` in `ScanProofs`, which speaks of all numbers: with `Nat` replaced by the
numbers a small instance reaches, TLC evaluates it in every state.

### A crawl

* `TypeCorrect` (`CrawlProofs`): the types of `Crawl`; in particular the index in
  memory never holds a half-written record.
* `CheckpointNeverLeavesGap` (`CrawlProofs`), `Spec => []CheckpointLeavesNoGap`:
  what a trusted saved frontier calls seen is in its queue, among the spooled
  pages it accounts for, or was dropped for a budget. This is not inductive, since
  it says nothing of the process that will save. `NoGapInv` adds
  `TrustedProcess` (every URL seen is queued, in flight, spooled, buffered or
  waived; `written` counts spool and buffer; a page is completed only after it is
  spooled; the buffer is empty from the flush to the save) and
  `SnapshotLeavesNoGap` (the copy taken under the lock keeps its promise until it
  is renamed into place, although workers go on).
* `LimitsAreKept` (`CrawlProofs`), `Spec => []CrawlKeepsItsLimits`. `LimitsInv`
  reads the frontier's count as money: what was handed out pays for each URL a
  worker holds and each page passed on (`Paid`, `HostsPaid`), a URL that was
  handed out is in one pair of hands and not in the queue (`HeldOnce`), and a
  frontier that is saved has counted at least the pages it accounts for
  (`CountPromiseInv`), so that a process that resumes from it starts with its
  budgets rightly charged.
* `LinksAreKept`, `AnchorsAreKept`, `PagesAreIndexedOnce`,
  `FinishedIndexMissesNothing` (`CrawlProofs`): `CheckpointKeepsLinks`,
  `WaitingKeepAnchors`, `OnlyRedirectsIndexTwice`, `FinishedIndexIsComplete`. All
  four follow from `ResumeInv`, which says the same of the frontier at work and
  of a saved one: each page that went on has left its links and their texts with
  the frontier (`WholeInv`), a page that no other URL leads to is indexed once and
  no longer anywhere it could be fetched from (`OnceInv`), and whoever leaves
  last leaves an empty queue (`EndInv`). That a queue entry's depth is below the
  number of URLs seen is part of `LimitsInv`; it is why `MaxDepth` of the number
  of URLs never bites.

### Crawlers and their authority

* `LeasesTypeCorrect`, `GapsAlwaysKept`, `RequestsAreInTime`, `RateAlwaysHolds`
  (`LeasesProofs`). The type invariant holds the protocol of the links: whoever
  is in a line waits for that line's answer, once; an answer on a connection has
  somebody at the head of its line. `SlotsInv` then has three parts. `LedgerInv`:
  the n-th slot is at least (n - 1) floors after the first, and all lie before
  `nextAllowed`. `HeldInv`: a ticket in somebody's hands, on the connection or
  waiting, is granted, unused, held by nobody else, and its moment is no earlier
  than its slot - this is where the rounding lemma `WireUpFacts` is needed.
  `UsedInv`: requests are as many as the tickets used, whose slots have come. The
  rate follows by counting: n used tickets include one numbered n or more.
* `PagesHaveAnAnswer`, `RobotsAskedOnce` (`LeasesProofs`): `PagesNeedAnAnswer` and
  `RobotsOncePerWorker`. `RulesInv`: an answer that allows a host, wherever it
  is - in a worker's hands, a crawler's map, the shared cache, on a connection -
  was read by some crawler; and a worker that asked a host has the answer in its
  hands or its crawler's map has one, from which nothing is ever taken.

### The store

* `StoreTypeCorrect`: the types of `Store`.
* `ManifestStaysWhole`, `DocumentsAreKeptOnce`, for `Careful` and `NoEmptySegment`
  (points 8 and 9 of section 7): the manifest names files that are there, and each
  published document is in exactly one segment of it, however often the merger is
  killed. `StoreInv` adds what may be in the directory beside the manifest
  (leftovers whose documents the manifest has, and new segments of documents of
  their own), that a careful listing is not overtaken, and that the merger's plan
  is still in the manifest when it replaces it.
* `ReplicaAlwaysOpens`, for any operator, any number of syncs of one directory
  and any number of chunks: until a sync creates a temporary that another has in
  hand, a replica can be restarted at any moment. The code does not promise more
  (point 12 of section 7), and `ReplicaIsWhole` says so by `clashes = 0`. Its
  invariant is `TransferInv`, which holds as long: no two syncs have one
  temporary in hand (`Alone`); under its temporary name a sync finds exactly the
  parts it has written, and all of them once it reads back (`InHand`); what it has
  done with is whole under its own name (`Arrived`); no file there has a hole. What
  a cut transfer leaves is only ever under the temporary name, where the next one
  truncates it.
* `ServedIsPublished`, under the hypotheses of the manifest's theorems. `ServedInv`
  rests on one observation: nobody but operator and merger makes a list of
  segments, everything else copies one that was the manifest. That holds of the
  replica's manifest too, whenever it can be read, however many syncs clash: one
  that was written over another is refused by its count (`TornList`). Of what the
  replica's shard has in memory it is said, like `ReplicaIsWhole`, while
  `clashes = 0`, by `TransferInv`.
* `ToldReplicaStaysCurrent`, with `OneRefresh` besides (no stranger, no timer, one
  nudger, as `ToldReplicaIsCurrent` is meant): documents only go forward, from the
  manifest to the primary's shard, to the replica's directory, to its shard, and
  what a Refresh has in hand is between what it will replace and what it was
  taken from (`ForwardInv`); the merged ones have come as far as the merger was
  told (`AimInv`). A sync that meets no other never clashes (`OneSyncIsAlone`), so
  that `TransferInv` holds throughout.

### Queries

* `RepliesAlwaysMatch`, `Spec => []RepliesMatch`. `RepliesMatch` speaks of replies
  that were read; `SearchInv` follows them from the request on. A task is calling
  on a connection exactly if it holds its lock (`CallsHold`); a connection nobody
  holds is empty, and one that is held carries one message, of its holder, and of
  the round its holder's query is in if that query still is in one
  (`OneCallEach`: a query that failed leaves its calls to finish); a query that
  has not begun has no tasks (`BeginsFree`), and begins a round only when every
  task of the last has answered.
* `SearchTypeCorrect`, `AnswersAreBest` (`AnswersAreTopK`) and
  `ShardsAnswerAsOneIndex` (`AnswersAsOneIndex`), from `AnswerInv` on top of
  `SearchInv`: whatever a message, a reply or a query holds is what some version
  of the shards gave, on the scale the query was given in round one. That leaves
  two facts about lists. First, a cut *covers* what was there (`Covers`): what it
  leaves out is outdone by as many as were asked for. The top of a segment, which
  breaks ties by document id, and the list of a shard, which breaks them by uri,
  both cover what they were cut from (`LowestRanksCover`), covers of parts cover
  the whole and covers of covers are covers, so the coordinator's answer covers
  every hit of every segment (`FoundAtCovers`). Second, of two such cuts neither
  is better at any place (`NeitherIsBetter`, by the pigeonhole principle), so they
  have the same scores; and the statistics added shard by shard are those of one
  index (`StatsOfWhole`). No order of versions, segments or documents is assumed,
  and of ties only that each list breaks them somehow.
  Documents of a segment are distinct and the words of a query finitely many;
  both are in the assumptions of `Corpus` and `Search`.

### A search

`SearchIsExhaustive` (`Spec => []AnswerIsExhaustive`), `CursorsAreFaithful`
(`Spec => []CursorsReadTheList`) and `WalkGoesOn` (`Spec => TurnsAdvance`), in
`ScanProofs`, for blocks of any size, any documents, queries and limits. Beside
types, the assumptions are that a document has a uri, that what a query names is
finite, and that supplied statistics cover the segment: no word is said to be in
more documents than there are. That is what a coordinator's sums over all shards
give, this one among them, and what keeps an idf positive (scoring.rs:95). All three
follow from `ScanInv` (`SearchHolds`), whose argument has four parts.

* *The segment says what the documents say* (`SegmentInv`). Built at once, by a
  builder that absorbs another or by a merge of two segments, it is one and the
  same (`AbsorbedIs`, `MergedIs`), and each of its lists decodes to what was encoded
  (`SegmentDecodes`). A document's number is the sum of the gaps since its block
  began (`BlockSums`), by an induction over a set of numbers as in `Sums`.
* *A cursor stands on its list* (`Reads`): at its index it holds the posting of
  that index. Advancing, seeking and skipping a block keep this, and pass over
  nothing but what they mean to (`AdvancedOnward`, `SoughtOnward`, `SkippedOnward`): a
  seek leaves no document at or after its target behind, a skip only the rest of
  one block. What seeking computes is a recursive function over the cursor's steps
  (`SoughtFinds`).
* *A bound is a bound.* A block's is the largest of its postings, a word's ceiling
  the largest of its blocks, and the sum of the first ceilings the most those words
  could add together (`GainIsCapped`, `CapOf`), as long as the segment scores with the
  statistics it was written with; with others the walk uses no bounds, and nothing
  is claimed of them. So a hopeless block holds no document worth more than the
  threshold (`HopelessBlock`), nor does one that the essential words have too
  little of (`NotScoredEnough`).
* *What is left behind is not missed* (`WalkInv`). The answer is not in the heap
  until the walk ends, so the invariant speaks of some document `last` the walk has
  come to. Of the wanted documents up to it, each is in the heap or outdone by a
  full heap (`Kept`); those after it, unless outdone as well, lie ahead of every
  cursor (`NoneMissed`); a cursor at or before it belongs to a word that can no
  longer change anything (`BeyondLast`), and the excluded words have passed nothing
  after it (`NoneDropped`). A turn that skips a block keeps `last`, one that considers
  a document makes it the new one; a heap that grows better only raises the
  threshold. At the end nothing lies ahead, and a heap in which every wanted
  document is or is outdone is the best of them (`KeptIsBest`, `StopIsBest`).

The positional path has no walk: that positions in one field which follow each
other spell the phrase in the text is `PhraseRead`, and the candidates are the wanted
documents (`CandidatesAreWanted`). Ties by uri need nothing: both sides sort the same set.

### Ranking

* `RunsAreLedByOne`, `Spec => LedByOne`. `RankInv` says that a shard somebody
  initialised has given its graph away (`Taken`), and that a coordinator past
  RankInit of a shard, on a connection that is still open, is the one who holds
  it (`ClaimsHold`): a restart, which gives the graph back, breaks every
  connection, so whoever claimed the shard before claims it no more. A step of
  another coordinator that changes a shard would claim what the leader holds; a
  step of the leader's own changes its place.
* `RankingTypeCorrect`: the types, by `Types`.
* `ShardsRankAsOneProcess`, `Spec => RanksAsOneProcess`: the shards implement
  `PowerIteration`. `GatherInv` says, of the run that leads, exactly what has been
  gathered at each exchange: the dead ends of the shards already asked, the
  contributions of those that emitted, the incoming ranks of those that absorbed
  and of the others only what they kept for themselves. When the last has
  absorbed, every contribution has arrived exactly once, and the sum of a page's
  contributions, taken shard by shard, is the sum over its incoming links. Then
  each shard's Apply is its part of the abstract step; the exchange in which the
  mapping changes is one `Iterate`, all others stutter, and a new leader is
  `StartOver`.
* `MassHolds`, `Spec /\ []Single!NothingRounds => []MassIsConserved`, and
  `RankNeverGrows`, `Spec => []NoRankIsMade`. As the shards act as one process, it
  is enough to know what one iteration does to a vector (`MassFollows`): what is sent
  is the same added up by receiver or by sender (`SentToAll`, `SentByAll`), a sender's
  shares are at most the damped rank it had, and what damping takes and what dangles
  comes back in the base of all pages (`BaseIsShared`). Where a division rounds down
  something is lost, so the first theorem assumes that none does
  (`NothingRounds` of `PowerIteration`: neither `Whole` over the pages, nor the base, nor
  a share of the iteration to come); on the instance of `ranking` TLC finds this true
  in every state. The second assumes nothing. Both speak of the shards between
  iterations and of what a finished run has collected, and for that `MassInv`
  follows a run home: the ranks it has, completed by what the shards it has yet
  to ask hold, are among the vectors that are right as long as its connections
  to those shards are open. Whoever begins to collect over open connections
  leads every shard (`CollectingBegins`); nobody else changes or reopens anything
  meanwhile (`CollectsStays`). `MassInv` takes the right vectors as a parameter, as
  the argument is the same for both theorems.

### Links, shards and robots.txt

`AlgorithmsProofs` proves of all inputs what the run tries on small ones. Both
theorems are about one step from the question to the answer; the work is in what
the recursive functions of `Extract`, `Placement` and `RobotsRules` compute. For
each there is a lemma that such a function exists up to any number of steps, and
then one on what it is after so many, both by `NatIn` of `Sums`: an induction
over sets of numbers, not over formulas.

* `AddressesHold`, `Spec => []AddressesAreStable`. `AddressesAssumption` says which
  parts a URL has, and that a hash gives draws enough to pass the last shard.
  Removing tracking keeps the other parameters in their order (`WhatIsLeft`), so
  removing it again changes nothing, and what is left is what two links are
  compared by (`PickedIsLeft`). What is fetched is known by its scheme, host, dots
  less one, port, path and query alone (`ResolveIs`); from that, resolving twice
  resolves once where no more than one dot stands behind the host
  (`ResolveStays`; point 18 of section 7), and two links become one URL exactly if those agree
  (`ResolveTellsApart`). A jump always goes forward (`JumpGoesOn`, `JumpsRise`), so a
  key lands where the first jump that leaves the shards began (`JumpHashIs`), and a
  shard more either stops a jump that would have left, at itself, or changes
  nothing (`ShardsStay`).
* `RobotsHold`, `Spec => []RobotsObeyed`. `RobotsAssumption` says that a file is
  written group by group, each with a name and a line of what holds for it. What
  the reader holds after each line of a group is written down exactly (`State`), and
  at each group's first name the group before is closed (`GroupStands`); the
  rules kept after g groups are those of the last of the best among them
  (`GroupsRead`, `BestOfMore`). For a pattern, the cursor after each place is where
  the places up to there can stand (`LeadsSoundly`), and no way of placing them gets
  there earlier (`LeadsFirst`). So what matches is covered (`MatchIsCovered`), and
  what is covered matches (`PlainIsCovered`), unless the pattern has both a star and
  an end, where being first is the wrong thing to be (point 14 of section 7).
  Rules are then judged one after another, and the longest that covers the path
  decides, an `Allow` before a `Disallow` of its length (`DecidedOn`,
  `LongestRuleWins`).

### Sums

`Sums` proves what the proofs above need of `SumFunctionOnSet`, which the library
defines by a fold in an unknown order: any member may be taken first
(`SumTakesAny`), sums of disjoint sets add (`SumOfBoth`), renaming and grouping
change nothing (`SumRenamed`, `SumByGroups`). The induction is over sets, not
formulas: among the subsets of a finite set that are counterexamples one is
smallest (`SmallestSet`), and one member less is none; a set of numbers that has 0
and with each number the next has them all (`NatIn`). The lemmas on ranks are here
too: places in an order without ties are filled from the first (`RanksFill`), and
the members of a set of numbers have one order (`OneOrder`), which is how what is
kept of a sequence is known (`KeptInOrder`). So is what `MassHolds` needs of
division and of sums that are compared member by member (`DivisionRoundsDown`,
`SumsCompare`, `SumOfAlike`).

### What stays with TLC

* Liveness, which needs fairness and ENABLED: `CrawlEnds`, `MergesSettle`,
  `EveryQuestionEnds`, `QueriesEnd`, `RunsEnd`.
* `LinksKeepTheirText`, `MatchesAreShown` and `BytesReadBack` of `Algorithms`. Each
  relates several recursive definitions on lists to one another (a scanner and a
  text, a tokenizer and a snippet's windows, a writer and a reader). The
  library's induction theorems take an operator, which the provers at hand cannot
  instantiate, and the induction over sets that served for robots.txt would have
  to be made for every one of them.

## 5. What each property says

Crawl: `CheckpointLeavesNoGap` (a crash loses no page), `CheckpointKeepsLinks`
(a page that will not be fetched again has left its links on the frontier saved
with it), `WaitingKeepAnchors` (a URL still in the queue has the text of every
link to it), `OnlyRedirectsIndexTwice`, `FinishedIndexIsComplete` (a resumed
crawl indexes what an undisturbed one would), `CrawlKeepsItsLimits` (budgets and
seed hosts, across resumes), `CrawlEnds`.

Leases: `NoRequestBeforeItsSlot`, `GapsKept`, `SharedRateHolds` (at most one
request every floor, of all crawlers together), `PagesNeedAnAnswer` (consent was
read by somebody), `RobotsOncePerWorker`, `EveryQuestionEnds`.

Store: `ManifestIsWhole`, `EachDocumentOnce`, `ServedWasPublished`,
`ReplicaIsWhole` (a replica opens, and every byte of it is there, whatever was cut
or killed, as long as no two syncs had one temporary in hand),
`ToldReplicaIsCurrent` (one Refresh at a time), `MergesSettle`.

Search: `RepliesMatch`; `AnswersAreTopK` (of all the shards held when they
searched, nothing that matches scores higher than what is in the answer and was
left out, on the one scale of round one); `AnswersAsOneIndex` (where nothing moved
between the rounds, the scores are those of one index of everything);
`QueriesEnd`.

Ranking: `MassIsConserved` (between iterations the ranks are a distribution, and
a run that finished has one for every page), `NoRankIsMade` (they never are more,
whatever divisions round down; proved, in no run), `LedByOne`, `RunsEnd`, and the
refinement `RanksAsOneProcess` (same vectors, same number of iterations, same
decision to stop).

Scan: `AnswerIsExhaustive` (whatever was skipped and however the segment came to
be, the ranking computed from the documents alone), `CursorsReadTheList` (a cursor
that jumped reads what a plain decoder would have there), `TurnsAdvance` (a turn
leaves postings behind for good).

Algorithms: `RobotsObeyed`, `LinksKeepTheirText`, `AddressesAreStable` (a URL
resolved twice is resolved, but for dots behind its host, spellings of one page
agree, a shard more moves URLs only to it), `MatchesAreShown` (a query's words are
those the text was indexed under; nothing is cut within a character, be it where
an extract begins or ends or where whitespace is looked for; highlights lie between
characters and spell them), `BytesReadBack` (a
message or a file is read whole or refused).

## 6. What is left out

* In `Crawl`: robots.txt and leases appear as a fetch that gives nothing; they
  have a model of their own. PageRank at the end of a crawl.
* In `Leases`: leases of more than one permit, which no worker asks for; `sweep`
  of the robots cache, which nothing calls; the politeness of a crawl that has
  no authority.
* In `Store`: the order of manifest entries (document ids come from it). Of a
  segment with a hole in it only that it is not the segment. The temporaries of
  the primary's own files: `manifest` and the merger write MANIFEST through one
  name too (manifest.rs:140), and are only kept apart by a `Careful` operator, so
  `WriteListing` and `ReplaceManifest` are one step each.
* In `Search`: a shard that is alive and does not answer; the dictionary and
  postings behind a shard's scores, which are `Scan`'s; the prefix and snippet
  that the command line adds.
* In `Ranking` and in all scores: floating point. Divisions round down, each on
  its own, where f32 rounds to the nearest; sums are exact, which f32 sums in
  another order are not. So `NoRankIsMade` is about what is counted, not about the
  last bit. `Scan` takes
  the words in one fixed order of summation, as the code does. A segment's total
  length is exact in `Corpus`; the code keeps an f32 average and answers its product
  with the number of documents, truncated (segment.rs:404-406), which may be a token
  or more less. Both sides of `AnswersAsOneIndex` use the same totals.
* In `Scan`: memory mapping; the varints of a posting, which `Wire` has.
* In `Algorithms`: Unicode beyond a few characters of the kinds the code tells
  apart; how a tag's attributes are cut out; comments and the spelling of fields
  in robots.txt; the hash of a URL; the handshake; a hash or a digest is the
  value it is of. The unchecked sums of a segment's reader over a footer that was
  tampered with (`offset + count * 4`, segment.rs:290-300) keep no width here.
* The evaluation tools (arithmetic over recorded judgements) and the parsing of
  the command line.

## 7. Where documents and code disagree, and other observations

With a run that shows it:

1. `Spool::open` counts from 0 over a spool that has pages (checkpoint.rs:164):
   a second resume of a finished crawl rebuilds an empty index. `second_resume`.
   For the same reason a crawl begun afresh over an earlier crawl's spool appends
   to it, and a resume reads the earlier crawl's pages against its own per-host
   counts: a third life finds a host with more pages than its budget. This cannot
   be reached from the command line, which sets the per-host budget to the page
   budget (main.rs:597); the per-host half of `CrawlKeepsItsLimits` is stated of
   processes whose spool holds what their checkpoint counts.
2. Without its authority a crawl has no delay (politeness.rs:136-147): nothing
   applies the lease's spacing. `leases_alone`.
3. The texts of all links to a page are numbered on without a gap
   (builder.rs:150-152), so a phrase does straddle two links. `scan_anchors`.

Described here; what the passing runs assert is stated so as to allow them:

4. An append that fails is reported and the page completed all the same
   (main.rs:364-370): the next checkpoint has a gap. `CheckpointLeavesNoGap` is
   therefore stated of processes whose appends succeeded. A redirected URL is
   owed under one name and completed under another (main.rs:370): it is fetched
   again after a resume, and two URLs that lead to one page are both indexed.
5. A resumed crawl counts fetched pages that were put back in the queue against
   its budget again (checkpoint.rs:455), and so buys fewer pages.
6. Anchor text taken out of the frontier (lib.rs:359) is lost to a snapshot that
   falls before the page is completed. A worker that finds the queue empty
   leaves for good, even if another is about to fill it; the crawl goes on with
   fewer workers.
7. robots.txt is fetched once per worker that misses at the same moment, not once
   per host (lib.rs:393-427; README.md:69); a crawl's own map of rules never
   expires, whatever the shared cache's day (lib.rs:393); a robots.txt whose body
   is cut reads as an empty file (lib.rs:412), which allows everything and is
   shared for a day; a crawler does not reconnect to an authority that was
   restarted; redirect targets are fetched without rules or a lease.
8. A merge deletes by name what it replaced (merger.rs:124); where every segment
   but one is empty, the produced segment may bear one of those names. The
   proofs assume there are no empty segments. A merge of entries that are not
   adjacent does not keep the order it documents (merger.rs:102-104).
9. `manifest` lists every file, the product of a dead or running merge included
   (main.rs:660): run twice, it puts documents in twice. A manifest written
   while a merge is at work is overwritten at its end (merger.rs:73-118).
10. `sync --every` updates a directory and tells no shard (main.rs:869): after a
    lost nudge a replica does not converge. A nudge lost to the primary also
    makes each timer's sync fail, as the manifest it serves names files that are
    gone.
11. Shards must agree on scoring parameters in round one (coordinator.rs:177-199);
    in round two a refreshed shard scores with its new ones and nobody compares.
    A shard whose segments disagree reports the defaults (shard.rs:283), and so
    may agree with another by accident.
12. Two syncs of one directory, a nudge's and the timer's, share temporary names.
    Of a segment (replication.rs:71): the second creation truncates a file the
    first has verified and is about to rename, and goes on writing it under its
    final name. If it then dies, a manifest may name a file that does not open,
    against "a failed transfer leaves no half-segment anybody could open"
    (replication.rs:45-46); a later sync fetches it again. With a third
    sync, one may write its last chunk behind a hole into the file that another
    renames while the third, which truncated it, dies: such a file opens, and its
    footer has the right digest, so no later sync replaces it, as `sync_from`
    compares the footer and does not verify (replication.rs:187). Of the manifest
    (manifest.rs:140): one sync creates it empty and the other renames it, so that
    a reader finds a file being written, against manifest.rs:136-137. `Store` has
    all of this; `ReplicaIsWhole` is stated up to the first clash. Without its
    `clashes = 0`, TLC finds the second case in 13 states in the instance of
    `store`: two syncs fetch nothing, one renames the manifest the other has just
    created.
13. RankInit takes the graph (ranking.rs:60-64): after a run that failed, shards
    must be restarted before another can begin. `LedByOne` is what this buys.
14. robots.txt: a rule with a star and an end, `/*.php$`, takes the first `.php`
    it finds and does not try a later one (robots.rs:226-233): `/a.php/b.php` is
    not covered. `RobotsObeyed` claims no more than one direction for these.
15. A query is lowered before it is split into words, a document after
    (query.rs:74-76, 102-106; tokenizer.rs:95-104): a letter that lowercases to two
    characters, as I with a dot does, is cut differently, although a comment says
    the two are one (tokenizer.rs:84-88). A capital sharp s folds to the small one and
    not to ss (tokenizer.rs:101). A minus before a quote, or before a space,
    excludes the next word on its own.
16. What a writer does not cap a reader refuses: a string over MAX_STRING, a
    collection over MAX_COLLECTION (codec.rs). Contributions or results of more
    than four million pages, or a robots.txt of more than a mebibyte, cannot be
    sent, and the connection reports them as corrupt.
17. `verify` covers a segment's body and not its footer. The builder sums document
    lengths as f32, and so does not compute "exactly as" a search does
    (builder.rs:315) once they pass 2^24.
18. `resolve` strips one dot behind a host (normalize.rs:59-63), so that
    `http://example.com../` becomes `http://example.com./`, which is not the URL that
    `http://example.com./` itself becomes: "two URLs that fetch the same bytes must
    produce the same string" (normalize.rs:3-4) fails for what was resolved.
    `AddressesAreStable` says that resolving again changes nothing for at most one
    dot.

## 8. What is left to do

In order of use: a bound on what rounding loses in an iteration, by the pages and
links; that a number, and so a message, reads back for any base and
width (`BytesReadBack`), by the method of `AlgorithmsProofs`; an abstract index
that `Store` implements, with the refinement proved from `ServedInv`; an abstract
crawl that `Crawl` implements across crashes; the order of manifest entries in
`Store`, and the primary's own temporaries there.
