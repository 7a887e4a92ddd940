-------------------------- MODULE CrawlInvariants ---------------------------
(***************************************************************************)
(* Why Crawl keeps what it promises: the invariants from which             *)
(* CrawlProofs derives its properties.  They say of a process what it has *)
(* done to the URLs it has seen, and of a checkpoint what the process that *)
(* resumes from it will find done.                                         *)
(***************************************************************************)
EXTENDS Crawl

(* The pages a worker has handed on, in the order they are indexed.         *)
Flow == builder \o channel

Busy == {w \in Workers : worker[w].pc \in {"fetching", "parsed", "sending"}}

BusyAt(h) == {w \in Busy : HostOf[worker[w].item.url] = h}

AllGone == \A w \in Workers : worker[w].pc = "gone"

Saving == phase = "crawling" /\ indexer.pc = "write"

SeedHosts == {HostOf[s] : s \in Members(Seeds)}

(* The links of a worker's page that the frontier would admit.              *)
NewLinks(w) == {v \in Links[Page(w)] : Admits(frontier, v, worker[w].item.depth + 1)}

-----------------------------------------------------------------------------
(* A trusted process has put what it indexed into an empty spool, and what  *)
(* it saves is of that process.                                             *)
TrustInv ==
  /\ note.trusted => note.whole
  /\ phase = "crawling" /\ note.trusted => builder = spool \o buffer
  /\ Saving => snapNote.trusted = note.trusted /\ snap.spooled = written

(* No URL is queued twice or was not seen, and a path to an entry has fewer  *)
(* links than URLs were seen.                                               *)
QueuedOnce(q, seen) ==
  /\ Waiting(q) \subseteq seen
  /\ \A i, j \in DOMAIN q : q[i].url = q[j].url => i = j
  /\ \A i \in DOMAIN q : q[i].depth < Cardinality(seen)

(* What holds of a frontier, at work or saved: its limits among it.         *)
Listed(f) ==
  /\ QueuedOnce(f.queue, f.seen)
  /\ Members(Seeds) \subseteq f.seen
  /\ f.seedHosts = SeedHosts
  /\ SameHostOnly => {HostOf[u] : u \in f.seen} \subseteq SeedHosts
  /\ f.handedOut <= MaxPages
  /\ \A h \in Hosts : f.perHost[h] <= MaxPagesPerHost

(* A URL that was handed out is queued no more, and a worker holds it alone. *)
Away(f) == f.seen \ Waiting(f.queue)

OwedOnce ==
  \A p \in frontier.inFlight :
    /\ p.url \in Away(frontier) /\ p.depth < Cardinality(frontier.seen)
    /\ \A q \in frontier.inFlight : q.url = p.url => q = p

HeldOnce ==
  \A w \in Busy :
    /\ worker[w].item.url \in Away(frontier)
    /\ worker[w].item.depth < Cardinality(frontier.seen)
    /\ \A v \in Busy : worker[v].item.url = worker[w].item.url => v = w

ListInv ==
  /\ Listed(frontier) /\ OwedOnce /\ HeldOnce
  /\ saved # None => Listed(saved)
  /\ snap # None => Listed(snap)

(* What was handed out pays for what is held and for what was indexed.      *)
Paid == Len(Flow) + Cardinality(Busy) <= frontier.handedOut

HostsPaid ==
  NoRedirects /\ note.whole =>
    \A h \in Hosts : PagesOf(Flow, h) + Cardinality(BusyAt(h)) <= frontier.perHost[h]

CountInv ==
  /\ Paid /\ HostsPaid
  /\ written <= Len(builder)
  /\ saved # None => saved.spooled <= saved.handedOut
  /\ snap # None => snap.spooled <= snap.handedOut

CountPromise(c, n) ==
  n.trusted /\ NoRedirects =>
    \A h \in Hosts : PagesOf(Accounted(c, spool), h) <= c.perHost[h]

CountPromiseInv ==
  /\ saved # None => CountPromise(saved, savedNote)
  /\ Saving => CountPromise(snap, snapNote)

LimitsInv == TrustInv /\ ListInv /\ CountInv /\ CountPromiseInv

-----------------------------------------------------------------------------
(* Pages whose links were queued: handed on, or still with a worker.        *)
Carriers == {w \in Workers : worker[w].pc \in {"parsed", "sending"}}

Followed == Members(Flow) \union {Page(w) : w \in Carriers}

(* The text of u's link to v waits with the frontier, unless v's texts were *)
(* taken or there were too many.                                            *)
TextKept(f, u, v, described) ==
  u \in f.anchors[v] \/ Cardinality(f.anchors[v]) >= AnchorCap \/ v \in described

(* Each of these pages has left its links and their texts with a frontier.  *)
Linked(f, pages, described) ==
  \A u \in pages :
    /\ Target[u] = u
    /\ DepthNeverBites => ScopedLinks(u) \subseteq f.seen
    /\ \A v \in Links[u] : TextKept(f, u, v, described)

(* A page that no other URL leads to is indexed once, and is not fetched     *)
(* again.                                                                   *)
Own(p) == \A u \in Urls : Target[u] = p => u = p

IndexedOnce(f, pages) ==
  \A i \in DOMAIN pages : Own(pages[i]) =>
    /\ pages[i] \in Away(f)
    /\ \A j \in DOMAIN pages : pages[j] = pages[i] => j = i

OnceInv ==
  note.whole =>
    /\ IndexedOnce(frontier, Flow)
    /\ \A p \in Members(Flow) : Own(p) => \A w \in Busy : worker[w].item.url # p
    /\ \A p \in Members(builder) : Own(p) /\ p \in UrlsOf(frontier.inFlight) =>
         indexer.pc = "complete" /\ indexer.doc = p

(* Where a URL that was seen can be.                                        *)
Settled(u) ==
  \/ u \in note.waived \union Waiting(frontier.queue) \union Flaky
  \/ \E w \in Workers : worker[w].pc = "fetching" /\ worker[w].item.url = u
  \/ /\ Target[u] \in NoIndex \union Followed
     /\ ScopedLinks(Target[u]) \subseteq frontier.seen

WholeInv ==
  note.whole =>
    /\ Linked(frontier, Followed, note.described)
    /\ DepthNeverBites => \A u \in frontier.seen : Settled(u)

(* The last worker leaves an empty queue, and the loop ends after it.        *)
EndInv ==
  /\ indexer.pc = "done" => indexer.closing
  /\ indexer.closing => AllGone /\ channel = <<>>
  /\ AllGone /\ note.waived = {} => frontier.queue = <<>>
  /\ phase \in {"indexed", "discarding", "finished"} => indexer.pc = "done" /\ segment = builder

PagesPromise(c, n) ==
  n.trusted =>
    /\ Linked(c, Members(Accounted(c, spool)), n.described)
    /\ IndexedOnce(c, Accounted(c, spool))

PagesPromiseInv ==
  /\ saved # None => PagesPromise(saved, savedNote)
  /\ Saving => PagesPromise(snap, snapNote)

ResumeInv == OnceInv /\ WholeInv /\ EndInv /\ PagesPromiseInv
=============================================================================
