------------------------------- MODULE Crawl --------------------------------
(***************************************************************************)
(* One crawl on one machine, from start to index, across crashes.          *)
(*                                                                         *)
(*   workers  (crawl/src/lib.rs)   take a URL, fetch it, queue its links,  *)
(*                                 hand the page on through a bounded      *)
(*                                 channel;                                *)
(*   indexer  (cli/src/main.rs)    receives pages, indexes them in memory, *)
(*                                 appends them to the spool, and now and  *)
(*                                 then saves the frontier;                *)
(*   disk     (crawl/src/checkpoint.rs) the spool, the FRONTIER file and,  *)
(*                                 at the end, the segment.                *)
(*                                                                         *)
(* A process is killed at any step and started again, with or without      *)
(* --resume.  A page is named by the URL it was finally served from; what  *)
(* a fetch of it gives is fixed by the constants Target, Links and         *)
(* NoIndex, except that a URL of Flaky may also give nothing.              *)
(***************************************************************************)
EXTENDS Frontier

CONSTANTS
  Workers,       \* Config.concurrency tasks
  Target,        \* where a request for a URL ends, redirects followed
  Links,         \* the links on each page, after <base> and nofollow
  NoIndex,       \* pages that ask not to be indexed
  Flaky,         \* URLs that may be refused, unreachable or not text
  ChannelCap,    \* pages between the workers and the indexer: 64 in the code
  Interval,      \* --checkpoint-every
  MaxLives,      \* bound: how often the program is started
  MaxFaults,     \* bound: how many disk operations fail
  Torn,          \* a record that was half written
  None           \* no URL, no entry, no file

ASSUME CrawlAssumption ==
  /\ IsFiniteSet(Workers) /\ Workers # {}
  /\ Target \in [Urls -> Urls]
  /\ \A u \in Urls : Target[Target[u]] = Target[u]
  /\ Links \in [Urls -> SUBSET Urls]
  /\ NoIndex \subseteq Urls /\ Flaky \subseteq Urls
  /\ ChannelCap \in Nat \ {0}
  /\ Interval \in Nat
  /\ MaxLives \in Nat /\ MaxFaults \in Nat
  /\ Torn \notin Urls /\ None \notin Urls /\ Torn # None
  /\ None \notin Pending /\ None \notin SnapshotType

VARIABLES
  \* the process
  phase,       \* what cmd_crawl is doing
  frontier,    \* Shared.frontier, behind the one lock
  worker,      \* where each worker is, and the URL it holds
  channel,     \* pages sent and not yet received
  indexer,     \* where the indexing loop is
  builder,     \* the pages in the index being built, in order
  buffer,      \* spooled records still in the BufWriter
  written,     \* Spool.written
  snap,        \* the frontier about to be written by save()
  \* the disk
  spool,       \* the records of the SPOOL file
  saved,       \* the FRONTIER file
  segment,     \* the index that was written
  \* the environment
  lives,       \* times the program was started
  faults       \* disk operations that failed

(***************************************************************************)
(* History, read only by the properties.                                   *)
(*   whole    the process began afresh, or from a checkpoint worth trust   *)
(*   trusted  it did, found the spool empty and every append has succeeded *)
(*   waived   URLs that next_url dropped because a budget was used up      *)
(*   described  pages whose anchor text was taken out of the frontier      *)
(* snapNote and savedNote are the note that goes with snap and saved.      *)
(***************************************************************************)
VARIABLES note, snapNote, savedNote

disk    == <<spool, saved, segment>>
memory  == <<frontier, worker, channel, indexer, builder, buffer, written, snap>>
history == <<note, snapNote, savedNote>>
vars    == <<phase, memory, disk, lives, faults, history>>

Note ==
  [whole : BOOLEAN, trusted : BOOLEAN, waived : SUBSET Urls, described : SUBSET Urls]

Phases == {"down", "crawling", "indexed", "discarding", "finished", "refused"}

WorkerType ==
  [pc : {"idle", "fetching", "parsed", "sending", "gone"}, item : Pending \union {None}]

IndexerType ==
  [pc : {"receive", "complete", "flush", "snapshot", "write", "done"},
   doc : Urls \union {None}, since : Nat, closing : BOOLEAN]

TypeOK ==
  /\ phase \in Phases
  /\ frontier \in FrontierType /\ IsFiniteSet(frontier.inFlight)
  /\ worker \in [Workers -> WorkerType]
  /\ \A w \in Workers : worker[w].item = None <=> worker[w].pc \in {"idle", "gone"}
  /\ channel \in Seq(Urls)
  /\ indexer \in IndexerType
  /\ indexer.pc = "complete" => indexer.doc # None
  /\ builder \in Seq(Urls)
  /\ buffer \in Seq(Urls \union {Torn})
  /\ written \in Nat
  /\ snap \in SnapshotType \union {None}
  /\ indexer.pc = "write" => snap # None
  /\ spool \in Seq(Urls \union {Torn})
  /\ saved \in SnapshotType \union {None}
  /\ segment \in Seq(Urls) \union {None}
  /\ lives \in Nat /\ faults \in Nat
  /\ note \in Note /\ snapNote \in Note /\ savedNote \in Note

-----------------------------------------------------------------------------
(* The program starts, resumes, and dies. *)

IdleWorker   == [pc |-> "idle", item |-> None]
ReadyIndexer == [pc |-> "receive", doc |-> None, since |-> 0, closing |-> FALSE]
EmptyNote    == [whole |-> FALSE, trusted |-> FALSE, waived |-> {}, described |-> {}]

FreshMemory ==
  /\ worker' = [w \in Workers |-> IdleWorker]
  /\ channel' = <<>>
  /\ indexer' = ReadyIndexer
  /\ buffer' = <<>>
  /\ written' = 0
  /\ snap' = None
  /\ snapNote' = EmptyNote

Init ==
  /\ phase = "down"
  /\ frontier = NewFrontier
  /\ worker = [w \in Workers |-> IdleWorker]
  /\ channel = <<>>
  /\ indexer = ReadyIndexer
  /\ builder = <<>> /\ buffer = <<>> /\ written = 0 /\ snap = None
  /\ spool = <<>> /\ saved = None /\ segment = None
  /\ lives = 0 /\ faults = 0
  /\ note = EmptyNote /\ snapNote = EmptyNote /\ savedNote = EmptyNote

Stopped == phase \in {"down", "finished", "refused"}

(* Without --resume, or with it where no FRONTIER was saved.  The spool is  *)
(* opened for appending either way.                                         *)
StartFresh ==
  /\ Stopped /\ lives < MaxLives
  /\ phase' = "crawling"
  /\ lives' = lives + 1
  /\ frontier' = NewFrontier
  /\ builder' = <<>>
  /\ FreshMemory
  /\ note' = [EmptyNote EXCEPT !.whole = TRUE, !.trusted = spool = <<>>]
  /\ UNCHANGED <<disk, faults, savedNote>>

(* Seeded bug: a resume reads every record of the spool. *)
BugAccountedIsAll(c, records) == records

(* read_spool: the first records, as many as the frontier accounts for. *)
Accounted(c, records) == SubSeq(records, 1, c.spooled)

Readable(c, records) ==
  c.spooled <= Len(records) /\ \A i \in 1..c.spooled : records[i] # Torn

Resume ==
  /\ Stopped /\ lives < MaxLives
  /\ saved # None
  /\ Readable(saved, spool)
  /\ phase' = "crawling"
  /\ lives' = lives + 1
  /\ frontier' = Restore(saved)
  /\ builder' = Accounted(saved, spool)
  /\ FreshMemory
  /\ note' = [savedNote EXCEPT !.whole = savedNote.trusted, !.trusted = @ /\ spool = <<>>]
  /\ UNCHANGED <<disk, faults, savedNote>>

ResumeRefused ==
  /\ Stopped /\ lives < MaxLives
  /\ saved # None
  /\ ~Readable(saved, spool)
  /\ phase' = "refused"
  /\ lives' = lives + 1
  /\ UNCHANGED <<memory, disk, faults, history>>

(* What a dying process may leave of its buffer: some whole records, and    *)
(* perhaps the start of the next one.                                       *)
Spilled ==
  {spool \o SubSeq(buffer, 1, k) : k \in 0..Len(buffer)}
    \union {spool \o Append(SubSeq(buffer, 1, k), Torn) : k \in 0..(Len(buffer) - 1)}

Crash ==
  /\ ~Stopped /\ lives < MaxLives
  /\ phase' = "down"
  /\ spool' \in Spilled
  /\ frontier' = NewFrontier
  /\ builder' = <<>>
  /\ FreshMemory
  /\ note' = EmptyNote
  /\ UNCHANGED <<saved, segment, lives, faults, savedNote>>

-----------------------------------------------------------------------------
(* A worker's loop. *)

AtWork(w, pc) == phase = "crawling" /\ worker[w].pc = pc

MoveTo(w, pc, item) == worker' = [worker EXCEPT ![w] = [pc |-> pc, item |-> item]]

Take(w) ==
  /\ AtWork(w, "idle")
  /\ ~OverBudget(frontier)
  /\ \E k \in DOMAIN frontier.queue :
       /\ IsNext(frontier, k)
       /\ frontier' = HandOut(frontier, k)
       /\ MoveTo(w, "fetching", frontier.queue[k])
       /\ note' = [note EXCEPT !.waived = @ \union Waiting(SubSeq(frontier.queue, 1, k - 1))]
  /\ UNCHANGED <<phase, channel, indexer, builder, buffer, written, snap, disk,
                 lives, faults, snapNote, savedNote>>

(* next_url answers None: the worker returns, whatever the others are at. *)
Leave(w) ==
  /\ AtWork(w, "idle")
  /\ OverBudget(frontier) \/ ~\E k \in DOMAIN frontier.queue : IsNext(frontier, k)
  /\ frontier' = HandOutNothing(frontier)
  /\ MoveTo(w, "gone", None)
  /\ note' = [note EXCEPT !.waived =
                @ \union (Waiting(frontier.queue) \ Waiting(frontier'.queue))]
  /\ UNCHANGED <<phase, channel, indexer, builder, buffer, written, snap, disk,
                 lives, faults, snapNote, savedNote>>

(* No robots.txt to go by, disallowed, unreachable, or not text: on to the  *)
(* next URL, without telling the frontier.                                  *)
GiveUp(w) ==
  /\ AtWork(w, "fetching")
  /\ worker[w].item.url \in Flaky
  /\ MoveTo(w, "idle", None)
  /\ UNCHANGED <<phase, frontier, channel, indexer, builder, buffer, written, snap,
                 disk, lives, faults, history>>

Page(w) == Target[worker[w].item.url]

(* A page arrives: its links are queued under one lock, before anything     *)
(* else is done with it.  A noindex page goes no further.                   *)
Follow(w) ==
  LET depth == worker[w].item.depth + 1
  IN  /\ AtWork(w, "fetching")
      /\ \E order \in Orderings(Admitted(frontier, Links[Page(w)], depth)) :
           frontier' = Enqueue(frontier, Links[Page(w)], depth, Page(w), order)
      /\ IF Page(w) \in NoIndex THEN MoveTo(w, "idle", None)
                                ELSE MoveTo(w, "parsed", worker[w].item)
      /\ UNCHANGED <<phase, channel, indexer, builder, buffer, written, snap, disk,
                     lives, faults, history>>

Describe(w) ==
  /\ AtWork(w, "parsed")
  /\ frontier' = TakeAnchors(frontier, Page(w))
  /\ MoveTo(w, "sending", worker[w].item)
  /\ note' = [note EXCEPT !.described = @ \union {Page(w)}]
  /\ UNCHANGED <<phase, channel, indexer, builder, buffer, written, snap, disk,
                 lives, faults, snapNote, savedNote>>

Send(w) ==
  /\ AtWork(w, "sending")
  /\ Len(channel) < ChannelCap
  /\ channel' = Append(channel, Page(w))
  /\ MoveTo(w, "idle", None)
  /\ UNCHANGED <<phase, frontier, indexer, builder, buffer, written, snap, disk,
                 lives, faults, history>>

-----------------------------------------------------------------------------
(* The indexing loop. *)

Indexing(pc) == phase = "crawling" /\ indexer.pc = pc

Receive ==
  /\ Indexing("receive")
  /\ channel # <<>>
  /\ channel' = Tail(channel)
  /\ builder' = Append(builder, Head(channel))
  /\ indexer' = [indexer EXCEPT !.pc = "complete", !.doc = Head(channel)]
  /\ \/ /\ buffer' = Append(buffer, Head(channel))
        /\ written' = written + 1
        /\ UNCHANGED <<faults, note>>
     \/ \* The append fails, perhaps halfway through the record.  It is
        \* reported and the loop goes on.
        /\ faults < MaxFaults
        /\ faults' = faults + 1
        /\ buffer' \in {buffer, Append(buffer, Torn)}
        /\ note' = [note EXCEPT !.trusted = FALSE]
        /\ UNCHANGED written
  /\ UNCHANGED <<phase, frontier, worker, snap, disk, lives, snapNote, savedNote>>

(* The page is no longer owed; now and then a save follows. *)
Complete ==
  LET due == indexer.since + 1 >= Interval
  IN  /\ Indexing("complete")
      /\ frontier' = Completed(frontier, indexer.doc)
      /\ indexer' = [indexer EXCEPT !.pc    = IF due THEN "flush" ELSE "receive",
                                    !.doc   = None,
                                    !.since = IF due THEN 0 ELSE @ + 1]
      /\ UNCHANGED <<phase, worker, channel, builder, buffer, written, snap, disk,
                     lives, faults, history>>

(* Every sender is gone and nothing is left to receive: one last save. *)
Close ==
  /\ Indexing("receive")
  /\ channel = <<>>
  /\ \A w \in Workers : worker[w].pc = "gone"
  /\ indexer' = [indexer EXCEPT !.pc = "flush", !.closing = TRUE]
  /\ UNCHANGED <<phase, frontier, worker, channel, builder, buffer, written, snap,
                 disk, lives, faults, history>>

(* Seeded bug: the loop goes on after the last save. *)
BugAfterSaveGoesOn == [indexer EXCEPT !.pc = "receive"]

AfterSave == [indexer EXCEPT !.pc = IF indexer.closing THEN "done" ELSE "receive"]

Flush ==
  /\ Indexing("flush")
  /\ spool' = spool \o buffer
  /\ buffer' = <<>>
  /\ indexer' = [indexer EXCEPT !.pc = "snapshot"]
  /\ UNCHANGED <<phase, frontier, worker, channel, builder, written, snap, saved,
                 segment, lives, faults, history>>

FlushFails ==
  /\ Indexing("flush")
  /\ faults < MaxFaults
  /\ faults' = faults + 1
  /\ \E k \in 0..Len(buffer) :
       /\ spool' = spool \o SubSeq(buffer, 1, k)
       /\ buffer' = SubSeq(buffer, k + 1, Len(buffer))
  /\ indexer' = AfterSave
  /\ UNCHANGED <<phase, frontier, worker, channel, builder, written, snap, saved,
                 segment, lives, history>>

TakeSnapshot ==
  /\ Indexing("snapshot")
  /\ \E order \in Orderings(frontier.inFlight) :
       snap' = Snapshot(frontier, written, order)
  /\ snapNote' = note
  /\ indexer' = [indexer EXCEPT !.pc = "write"]
  /\ UNCHANGED <<phase, frontier, worker, channel, builder, buffer, written, disk,
                 lives, faults, note, savedNote>>

(* A temporary file and a rename: the old FRONTIER or the new one. *)
WriteFrontier ==
  /\ Indexing("write")
  /\ \/ /\ saved' = snap
        /\ savedNote' = snapNote
        /\ UNCHANGED faults
     \/ /\ faults < MaxFaults
        /\ faults' = faults + 1
        /\ UNCHANGED <<saved, savedNote>>
  /\ snap' = None
  /\ snapNote' = EmptyNote
  /\ indexer' = AfterSave
  /\ UNCHANGED <<phase, frontier, worker, channel, builder, buffer, written, spool,
                 segment, lives, note>>

-----------------------------------------------------------------------------
(* The end of the command: the spool is dropped, which flushes what a failed *)
(* flush left behind; the segment is written; the checkpoint is settled.     *)

WriteIndex ==
  /\ Indexing("done")
  /\ \E k \in 0..Len(buffer) : spool' = spool \o SubSeq(buffer, 1, k)
  /\ buffer' = <<>>
  /\ segment' = builder
  /\ phase' = "indexed"
  /\ UNCHANGED <<frontier, worker, channel, indexer, builder, written, snap, saved,
                 lives, faults, history>>

KeepCheckpoint ==
  /\ phase = "indexed"
  /\ phase' = "finished"
  /\ UNCHANGED <<memory, disk, lives, faults, history>>

(* --discard-checkpoint: the spool first, then the frontier, and neither    *)
(* where the index holds nothing.                                           *)
DiscardSpool ==
  /\ phase = "indexed"
  /\ Len(builder) > 0
  /\ phase' = "discarding"
  /\ spool' = <<>>
  /\ savedNote' = [savedNote EXCEPT !.trusted = FALSE]
  /\ UNCHANGED <<memory, saved, segment, lives, faults, note, snapNote>>

DiscardFrontier ==
  /\ phase = "discarding"
  /\ phase' = "finished"
  /\ saved' = None
  /\ UNCHANGED <<memory, spool, segment, lives, faults, history>>

-----------------------------------------------------------------------------
WorkerStep(w) ==
  Take(w) \/ Leave(w) \/ GiveUp(w) \/ Follow(w) \/ Describe(w) \/ Send(w)

IndexerStep ==
  Receive \/ Complete \/ Close \/ Flush \/ FlushFails \/ TakeSnapshot \/ WriteFrontier

CommandStep == WriteIndex \/ KeepCheckpoint \/ DiscardSpool \/ DiscardFrontier

(* The last process has ended: the bound MaxLives allows no other. *)
Ended ==
  /\ Stopped /\ lives = MaxLives
  /\ UNCHANGED vars

Next ==
  \/ StartFresh \/ Resume \/ ResumeRefused \/ Crash
  \/ \E w \in Workers : WorkerStep(w)
  \/ IndexerStep
  \/ CommandStep
  \/ Ended

Spec == Init /\ [][Next]_vars

(* Tasks of one runtime: each is polled again and again while it can move.  *)
(* Nothing is assumed of crashes or of the operator who starts the program. *)
FairSpec ==
  /\ Spec
  /\ \A w \in Workers : WF_vars(WorkerStep(w))
  /\ WF_vars(IndexerStep)
  /\ WF_vars(CommandStep)

-----------------------------------------------------------------------------
(* What the checkpoint promises (checkpoint.rs:12-26).                      *)

Covered(c, records) == Waiting(c.queue) \union Members(Accounted(c, records))

NoGap(c, records, waived) ==
  Readable(c, records) /\ c.seen \subseteq Covered(c, records) \union waived

(* A checkpoint written by a process that found the spool empty and lost no *)
(* append is readable whenever it is looked at, and every URL it calls seen *)
(* is in its queue, among the pages it accounts for, or was dropped because *)
(* a budget was used up.  A crash at this very step leaves no gap.          *)
CheckpointLeavesNoGap ==
  saved # None /\ savedNote.trusted => NoGap(saved, spool, savedNote.waived)

(* Why: while such a process runs, every URL seen is queued, in flight, in  *)
(* the spool or waived; a page is not taken off the frontier before it is   *)
(* in the spool; and nothing is buffered while the frontier is saved.       *)
NothingForgotten ==
  frontier.seen \subseteq Waiting(frontier.queue) \union UrlsOf(frontier.inFlight)
                          \union Members(spool) \union Members(buffer) \union note.waived

TrustedProcess ==
  phase = "crawling" /\ note.trusted =>
    /\ written = Len(spool) + Len(buffer)
    /\ Torn \notin Members(spool) \union Members(buffer)
    /\ NothingForgotten
    /\ indexer.pc = "complete" => indexer.doc \in Members(spool) \union Members(buffer)
    /\ indexer.pc \in {"snapshot", "write"} => buffer = <<>>

SnapshotLeavesNoGap ==
  phase = "crawling" /\ indexer.pc = "write" /\ snapNote.trusted =>
    NoGap(snap, spool, snapNote.waived)

NoGapInv == TrustedProcess /\ SnapshotLeavesNoGap /\ CheckpointLeavesNoGap

(* Links in scope, for a MaxDepth that no path through the web reaches.     *)
ScopedLinks(u) ==
  {v \in Links[u] : SameHostOnly => HostOf[v] \in {HostOf[s] : s \in Members(Seeds)}}

DepthNeverBites == MaxDepth >= Cardinality(Urls)

(* A page that will not be fetched again has left its links behind: the     *)
(* frontier saved with it has seen every one of them.                       *)
CheckpointKeepsLinks ==
  saved # None /\ savedNote.trusted /\ DepthNeverBites =>
    \A u \in Members(Accounted(saved, spool)) : ScopedLinks(u) \subseteq saved.seen

(* A URL still waiting in the queue has the text of every link to it from a *)
(* page already indexed, crashes and resumes included, unless its texts     *)
(* were taken by a fetch of it or the cap was reached.                      *)
WaitingKeepAnchors ==
  phase = "crawling" /\ note.whole =>
    \A u \in Members(builder) : \A v \in Links[u] \intersect Waiting(frontier.queue) :
      \/ u \in frontier.anchors[v]
      \/ Cardinality(frontier.anchors[v]) >= AnchorCap
      \/ v \in note.described

(* Where a page is indexed twice, another URL was redirected to it.         *)
OnlyRedirectsIndexTwice ==
  note.whole =>
    \A i, j \in DOMAIN builder :
      i # j /\ builder[i] = builder[j] => \E u \in Urls : u # builder[i] /\ Target[u] = builder[i]

(* The URLs a crawl without crashes is sure to ask for, and the pages it is *)
(* sure to index.                                                           *)
ClosedUnderLinks(S) ==
  Members(Seeds) \subseteq S /\ \A u \in S \ Flaky : ScopedLinks(Target[u]) \subseteq S

Reachable == {u \in Urls : \A S \in SUBSET Urls : ClosedUnderLinks(S) => u \in S}

SureToIndex == {Target[u] : u \in Reachable \ Flaky} \ NoIndex

(* A crawl that ends, begun afresh or resumed from a checkpoint worth its   *)
(* trust, has indexed every page a crawl without crashes would have.        *)
ResumedCrawlMisses(pages) ==
  phase = "finished" /\ note.whole /\ note.waived = {} /\ DepthNeverBites
    /\ ~(pages \subseteq Members(segment))

FinishedIndexIsComplete == ~ResumedCrawlMisses(SureToIndex)

(* The index holds no more pages than the budget, however often the crawl   *)
(* was resumed, and no more of one host than that host's, where the crawl   *)
(* began afresh or from a checkpoint worth trust; redirects can carry a     *)
(* page to another host.                                                    *)
PagesOf(s, h) == Cardinality({i \in DOMAIN s : HostOf[s[i]] = h})

NoRedirects == \A u \in Urls : Target[u] = u

IndexWithinBudget ==
  /\ Len(builder) + Len(channel) <= MaxPages
  /\ NoRedirects /\ note.whole => \A h \in Hosts : PagesOf(builder, h) <= MaxPagesPerHost

(* However often it is resumed, a crawl stays on the hosts it was seeded    *)
(* with.                                                                    *)
StaysOnSeedHosts ==
  SameHostOnly => {HostOf[u] : u \in frontier.seen} \subseteq {HostOf[u] : u \in Members(Seeds)}

(* Both limits of a crawl, killed and resumed as often as it may be: what   *)
(* is indexed stays within the budgets, what is followed on the seed hosts. *)
CrawlKeepsItsLimits == IndexWithinBudget /\ StaysOnSeedHosts

(* A crawl that is not killed comes to an end: no worker waits for room in  *)
(* the channel and no indexer for a page forever.                           *)
CrawlEnds == (phase = "crawling") ~> (phase # "crawling")

-----------------------------------------------------------------------------
(* What the documents say and the code does not do.                         *)

(* README.md:791: resuming over a finished checkpoint rebuilds the index.   *)
FinishedCheckpointRebuilds ==
  phase = "finished" /\ saved # None /\ faults = 0 =>
    Readable(saved, spool) /\ Accounted(saved, spool) = builder

=============================================================================
