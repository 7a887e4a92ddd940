------------------------------ MODULE Frontier ------------------------------
(***************************************************************************)
(* The crawl's to-do list: what is queued, what has been seen, what was    *)
(* handed to a worker and is still owed, the anchor text waiting for pages *)
(* nobody has fetched, and the page budgets.  src/crates/crawl/src/        *)
(* frontier.rs is a plain struct that its callers guard with one mutex, so *)
(* each of its methods is an operator here: from a frontier to the next.   *)
(* checkpoint.rs adds the two that take it to disk and back.               *)
(*                                                                         *)
(* A URL is an opaque value with a host.  An anchor text is named by the   *)
(* page it was written on.  Links of one page are a set: they are queued   *)
(* under one lock, in any order.                                           *)
(***************************************************************************)
EXTENDS Naturals, Sequences, FiniteSets

CONSTANTS
  Urls,              \* every URL the crawl can meet
  Hosts,             \* the hosts serving them
  HostOf,            \* the host of each URL
  Seeds,             \* the starting points, in the order given
  MaxPages,          \* Limits.max_pages
  MaxPagesPerHost,   \* Limits.max_pages_per_host
  MaxDepth,          \* Limits.max_depth
  SameHostOnly,      \* Limits.same_host_only
  AnchorCap          \* anchor texts kept for one URL: 32 in the code

ASSUME FrontierAssumption ==
  /\ IsFiniteSet(Urls)
  /\ HostOf \in [Urls -> Hosts]
  /\ Seeds \in Seq(Urls)
  /\ \A i, j \in DOMAIN Seeds : Seeds[i] = Seeds[j] => i = j
  /\ MaxPages \in Nat /\ MaxPagesPerHost \in Nat /\ MaxDepth \in Nat
  /\ SameHostOnly \in BOOLEAN
  /\ AnchorCap \in Nat

Pending == [url : Urls, depth : Nat]

FrontierType ==
  [queue     : Seq(Pending),
   seen      : SUBSET Urls,
   inFlight  : SUBSET Pending,
   anchors   : [Urls -> SUBSET Urls],
   perHost   : [Hosts -> Nat],
   seedHosts : SUBSET Hosts,
   handedOut : Nat]

UrlsOf(pendings) == {p.url : p \in pendings}

Members(s) == {s[i] : i \in DOMAIN s}

Waiting(queue) == {queue[i].url : i \in DOMAIN queue}

(***************************************************************************)
(* Every sequence that lists a finite set once: the order a HashMap        *)
(* iterates in, or that of the links on a page.                            *)
(***************************************************************************)
Orderings(S) ==
  {s \in [1..Cardinality(S) -> S] : \A x \in S : \E i \in DOMAIN s : s[i] = x}

-----------------------------------------------------------------------------
(* Starting. *)

NewFrontier ==
  [queue     |-> [i \in DOMAIN Seeds |-> [url |-> Seeds[i], depth |-> 0]],
   seen      |-> Members(Seeds),
   inFlight  |-> {},
   anchors   |-> [u \in Urls |-> {}],
   perHost   |-> [h \in Hosts |-> 0],
   seedHosts |-> {HostOf[u] : u \in Members(Seeds)},
   handedOut |-> 0]

-----------------------------------------------------------------------------
(* Enqueueing the links of a page. *)

InScope(f, u) == ~SameHostOnly \/ f.seedHosts = {} \/ HostOf[u] \in f.seedHosts

Admits(f, u, depth) == depth <= MaxDepth /\ InScope(f, u) /\ u \notin f.seen

(* Seeded bug: a text is kept only for a URL that is new. *)
BugAnchorOnlyIfNew(f, links, text) ==
  [u \in Urls |->
     IF u \in links \ f.seen /\ Cardinality(f.anchors[u]) < AnchorCap
       THEN f.anchors[u] \union {text} ELSE f.anchors[u]]

(* The text is kept even for a URL already seen, up to the cap. *)
WithAnchor(f, links, text) ==
  [u \in Urls |->
     IF u \in links /\ Cardinality(f.anchors[u]) < AnchorCap
       THEN f.anchors[u] \union {text} ELSE f.anchors[u]]

Admitted(f, links, depth) ==
  {[url |-> u, depth |-> depth] : u \in {v \in links : Admits(f, v, depth)}}

Enqueue(f, links, depth, text, order) ==
  [f EXCEPT !.queue   = @ \o order,
            !.seen    = @ \union UrlsOf(Admitted(f, links, depth)),
            !.anchors = WithAnchor(f, links, text)]

-----------------------------------------------------------------------------
(* Handing out work. *)

HostIsFull(f, u) == f.perHost[HostOf[u]] >= MaxPagesPerHost

OverBudget(f) == f.handedOut >= MaxPages

Counted(f, u) == [f.perHost EXCEPT ![HostOf[u]] = @ + 1]

(* k is the first queued entry whose host still has room. *)
IsNext(f, k) ==
  /\ k \in DOMAIN f.queue
  /\ ~HostIsFull(f, f.queue[k].url)
  /\ \A i \in 1..(k - 1) : HostIsFull(f, f.queue[i].url)

(* Seeded bug: what is handed out is not remembered as owed. *)
BugHandOutForgets(f, k) ==
  [f EXCEPT !.queue     = SubSeq(@, k + 1, Len(@)),
            !.perHost   = Counted(f, f.queue[k].url),
            !.handedOut = @ + 1]

HandOut(f, k) ==
  [f EXCEPT !.queue     = SubSeq(@, k + 1, Len(@)),
            !.inFlight  = @ \union {f.queue[k]},
            !.perHost   = Counted(f, f.queue[k].url),
            !.handedOut = @ + 1]

(* What a call that hands nothing out has popped on the way. *)
PoppedForNothing(f) == IF OverBudget(f) THEN 1 ELSE Len(f.queue)

HandOutNothing(f) ==
  [f EXCEPT !.queue = SubSeq(@, PoppedForNothing(f) + 1, Len(@))]

-----------------------------------------------------------------------------
(* Finishing a page. *)

TakeAnchors(f, u) == [f EXCEPT !.anchors[u] = {}]

(* Seeded bug: a finished page stays owed. *)
BugNeverCompleted(f, u) == f

Completed(f, u) == [f EXCEPT !.inFlight = {p \in @ : p.url # u}]

-----------------------------------------------------------------------------
(* To disk and back.  Whatever was in flight goes to the back of the queue; *)
(* a restored frontier has nothing in flight.                               *)

(* Seeded bug: what is in flight does not go back to the queue. *)
BugSnapshotDropsInFlight(f, spooled, order) ==
  [queue |-> f.queue, seen |-> f.seen, anchors |-> f.anchors, perHost |-> f.perHost,
   seedHosts |-> f.seedHosts, handedOut |-> f.handedOut, spooled |-> spooled]

(* Seeded bug: only what is still queued is saved as seen. *)
BugSnapshotSeenIsQueued(f, spooled, order) ==
  [queue |-> f.queue \o order, seen |-> Waiting(f.queue \o order), anchors |-> f.anchors,
   perHost |-> f.perHost, seedHosts |-> f.seedHosts, handedOut |-> f.handedOut,
   spooled |-> spooled]

(* Seeded bug: the seed hosts are not saved. *)
BugSnapshotForgetsSeedHosts(f, spooled, order) ==
  [queue |-> f.queue \o order, seen |-> f.seen, anchors |-> f.anchors,
   perHost |-> f.perHost, seedHosts |-> {}, handedOut |-> f.handedOut, spooled |-> spooled]

Snapshot(f, spooled, order) ==
  [queue     |-> f.queue \o order,
   seen      |-> f.seen,
   anchors   |-> f.anchors,
   perHost   |-> f.perHost,
   seedHosts |-> f.seedHosts,
   handedOut |-> f.handedOut,
   spooled   |-> spooled]

SnapshotType ==
  [queue     : Seq(Pending),
   seen      : SUBSET Urls,
   anchors   : [Urls -> SUBSET Urls],
   perHost   : [Hosts -> Nat],
   seedHosts : SUBSET Hosts,
   handedOut : Nat,
   spooled   : Nat]

(* Seeded bug: a resumed crawl counts its pages from zero. *)
BugRestoreForgetsCounts(c) ==
  [queue |-> c.queue, seen |-> c.seen, inFlight |-> {}, anchors |-> c.anchors,
   perHost |-> [h \in Hosts |-> 0], seedHosts |-> c.seedHosts, handedOut |-> 0]

Restore(c) ==
  [queue     |-> c.queue,
   seen      |-> c.seen,
   inFlight  |-> {},
   anchors   |-> c.anchors,
   perHost   |-> c.perHost,
   seedHosts |-> c.seedHosts,
   handedOut |-> c.handedOut]
=============================================================================
