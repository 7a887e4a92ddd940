---------------------------- MODULE CrawlProofs -----------------------------
(***************************************************************************)
(* What Crawl guarantees for every web, every number of workers, every     *)
(* budget, every channel and every number of crashes and disk faults:      *)
(* its types, that a checkpoint worth its trust leaves no gap, that a      *)
(* crawl keeps its limits, and that what it has done is neither lost nor   *)
(* done twice, however often it is killed and resumed.                     *)
(*                                                                         *)
(* NoGapInv is inductive: while a trusted process runs, each URL it has    *)
(* seen is queued, owed, spooled or waived, so the frontier it saves says  *)
(* of every URL where it is; and what a saved frontier accounts for is a   *)
(* prefix of the spool, which only grows.                                  *)
(*                                                                         *)
(* LimitsInv is inductive.  What the frontier has handed out pays for each *)
(* URL a worker holds and for each page handed on, and a frontier that is  *)
(* saved has counted at least the pages it accounts for, so the process    *)
(* that resumes from it starts with its budget rightly charged.            *)
(*                                                                         *)
(* ResumeInv is inductive, given those two.  It says the same of the       *)
(* frontier at work and of a saved one, so that what a resumed process     *)
(* finds is what it needs to go on.                                        *)
(***************************************************************************)
EXTENDS CrawlInvariants, FiniteSetTheorems, SequenceTheorems, TLAPS

-----------------------------------------------------------------------------
(* Sequences. *)

(* An ordering of a finite set is a sequence with that set's members. *)
LEMMA OrderingIsSequence ==
  ASSUME NEW S, IsFiniteSet(S), NEW s \in Orderings(S)
  PROVE  s \in Seq(S) /\ Members(s) = S
<1>1. Cardinality(S) \in Nat
  BY FS_CardinalityType
<1>2. s \in [1..Cardinality(S) -> S]
  BY DEF Orderings
<1>3. s \in Seq(S)
  BY <1>1, <1>2, SeqDef
<1>4. Members(s) = S
  BY <1>2 DEF Orderings, Members
<1>. QED  BY <1>3, <1>4

(* Concatenation joins the members. *)
LEMMA MembersOfConcat ==
  ASSUME NEW S, NEW s \in Seq(S), NEW t \in Seq(S)
  PROVE  Members(s \o t) = Members(s) \union Members(t)
<1>. DEFINE st == s \o t
<1>1. /\ st \in Seq(S) /\ Len(st) = Len(s) + Len(t)
      /\ \A i \in 1..Len(s) + Len(t) : st[i] = IF i <= Len(s) THEN s[i] ELSE t[i - Len(s)]
  BY ConcatProperties
<1>2. /\ DOMAIN st = 1..Len(st) /\ DOMAIN s = 1..Len(s) /\ DOMAIN t = 1..Len(t)
      /\ Len(s) \in Nat /\ Len(t) \in Nat
  BY <1>1, LenProperties
<1>. HIDE DEF st
<1>3. ASSUME NEW x \in Members(st)  PROVE x \in Members(s) \union Members(t)
  <2>1. PICK i \in 1..Len(st) : x = st[i]
    BY <1>2 DEF Members
  <2>2. CASE i <= Len(s)
    <3>1. i \in DOMAIN s /\ x = s[i]
      BY <1>1, <1>2, <2>1, <2>2
    <3>. QED  BY <3>1 DEF Members
  <2>3. CASE ~(i <= Len(s))
    <3>1. i - Len(s) \in DOMAIN t /\ x = t[i - Len(s)]
      BY <1>1, <1>2, <2>1, <2>3
    <3>. QED  BY <3>1 DEF Members
  <2>. QED  BY <2>2, <2>3
<1>4. ASSUME NEW x \in Members(s)  PROVE x \in Members(st)
  BY <1>1, <1>2 DEF Members
<1>5. ASSUME NEW x \in Members(t)  PROVE x \in Members(st)
  <2>1. PICK i \in 1..Len(t) : x = t[i]
    BY <1>2 DEF Members
  <2>2. i + Len(s) \in DOMAIN st /\ st[i + Len(s)] = t[i]
    BY <1>1, <1>2
  <2>. QED  BY <2>1, <2>2 DEF Members
<1>. QED  BY <1>3, <1>4, <1>5 DEF st

(* A slice of a sequence is a sequence of the same things. *)
LEMMA SliceIsSequence ==
  ASSUME NEW S, NEW s \in Seq(S), NEW m \in Nat \ {0}, NEW n \in Nat, n <= Len(s)
  PROVE  /\ SubSeq(s, m, n) \in Seq(S)
         /\ Len(SubSeq(s, m, n)) = IF m <= n THEN n - m + 1 ELSE 0
         /\ \A i \in 1..(n - m + 1) : SubSeq(s, m, n)[i] = s[m + i - 1]
<1>1. \A i \in m..n : s[i] \in S
  BY ElementOfSeq, LenProperties
<1>. QED  BY <1>1, SubSeqProperties

(* Cutting a sequence in two loses no member. *)
LEMMA MembersOfCut ==
  ASSUME NEW S, NEW s \in Seq(S), NEW k \in 0..Len(s)
  PROVE  /\ SubSeq(s, 1, k) \in Seq(S) /\ Len(SubSeq(s, 1, k)) = k
         /\ SubSeq(s, k + 1, Len(s)) \in Seq(S)
         /\ Len(SubSeq(s, k + 1, Len(s))) = Len(s) - k
         /\ Members(s) = Members(SubSeq(s, 1, k)) \union Members(SubSeq(s, k + 1, Len(s)))
<1>1. Len(s) \in Nat /\ k \in Nat /\ k <= Len(s)
  BY LenProperties
<1>2. /\ SubSeq(s, 1, k) \in Seq(S) /\ Len(SubSeq(s, 1, k)) = k
      /\ SubSeq(s, k + 1, Len(s)) \in Seq(S)
      /\ Len(SubSeq(s, k + 1, Len(s))) = Len(s) - k
  <2>1. SubSeq(s, 1, k) \in Seq(S) /\ Len(SubSeq(s, 1, k)) = IF 1 <= k THEN k - 1 + 1 ELSE 0
    BY <1>1, SliceIsSequence
  <2>2. PICK m \in Nat \ {0} : m = k + 1
    BY <1>1
  <2>3. SubSeq(s, m, Len(s)) \in Seq(S)
        /\ Len(SubSeq(s, m, Len(s))) = IF m <= Len(s) THEN Len(s) - m + 1 ELSE 0
    BY <1>1, SliceIsSequence
  <2>4. k = IF 1 <= k THEN k - 1 + 1 ELSE 0
    BY <1>1
  <2>5. Len(s) - k = IF m <= Len(s) THEN Len(s) - m + 1 ELSE 0
    BY <1>1, <2>2
  <2>. QED  BY <2>1, <2>2, <2>3, <2>4, <2>5
<1>3. SubSeq(s, 1, k) \o SubSeq(s, k + 1, Len(s)) = SubSeq(s, 1, Len(s))
  <2>1. 1 \in 1..Len(s) + 1 /\ k \in 1 - 1..Len(s) /\ Len(s) \in k..Len(s)
    BY <1>1
  <2>. QED  BY <2>1, ConcatAdjacentSubSeq
<1>4. s = SubSeq(s, 1, k) \o SubSeq(s, k + 1, Len(s))
  BY <1>3, SubSeqFull
<1>. QED  BY <1>2, <1>4, MembersOfConcat

(* The URLs of a queue are those of its members. *)
LEMMA WaitingIsUrlsOf ==
  ASSUME NEW q
  PROVE  Waiting(q) = UrlsOf(Members(q))
BY DEF Waiting, UrlsOf, Members

LEMMA WaitingType ==
  ASSUME NEW q \in Seq(Pending)
  PROVE  Waiting(q) \in SUBSET Urls
<1>1. \A i \in DOMAIN q : q[i] \in Pending
  BY ElementOfSeq, LenProperties
<1>. QED  BY <1>1 DEF Waiting, Pending

LEMMA WaitingOfConcat ==
  ASSUME NEW s \in Seq(Pending), NEW t \in Seq(Pending)
  PROVE  Waiting(s \o t) = Waiting(s) \union Waiting(t)
<1>1. Members(s \o t) = Members(s) \union Members(t)
  BY MembersOfConcat
<1>. QED  BY <1>1, WaitingIsUrlsOf DEF UrlsOf

-----------------------------------------------------------------------------
(* Each operator of Frontier keeps the type of a frontier. *)

LEMMA NewFrontierType == NewFrontier \in FrontierType /\ IsFiniteSet(NewFrontier.inFlight)
<1>1. [i \in DOMAIN Seeds |-> [url |-> Seeds[i], depth |-> 0]] \in Seq(Pending)
  <2>1. DOMAIN Seeds = 1..Len(Seeds) /\ Len(Seeds) \in Nat
    BY FrontierAssumption, LenProperties
  <2>2. \A i \in DOMAIN Seeds : Seeds[i] \in Urls
    BY FrontierAssumption, ElementOfSeq, <2>1
  <2>3. [i \in DOMAIN Seeds |-> [url |-> Seeds[i], depth |-> 0]] \in [1..Len(Seeds) -> Pending]
    BY <2>1, <2>2 DEF Pending
  <2>. QED  BY <2>1, <2>3, SeqDef
<1>2. Members(Seeds) \in SUBSET Urls
  BY FrontierAssumption, ElementOfSeq, LenProperties DEF Members
<1>3. {HostOf[u] : u \in Members(Seeds)} \in SUBSET Hosts
  BY <1>2, FrontierAssumption
<1>4. IsFiniteSet({})
  BY FS_EmptySet
<1>. QED  BY <1>1, <1>2, <1>3, <1>4 DEF NewFrontier, FrontierType

LEMMA AdmittedIsFinite ==
  ASSUME NEW f, NEW links \in SUBSET Urls, NEW depth \in Nat
  PROVE  /\ Admitted(f, links, depth) \in SUBSET Pending
         /\ IsFiniteSet(Admitted(f, links, depth))
<1>. DEFINE new == {v \in links : Admits(f, v, depth)}
            g == [v \in new |-> [url |-> v, depth |-> depth]]
<1>1. IsFiniteSet(new)
  BY FS_Subset, FrontierAssumption
<1>2. g \in Surjection(new, Admitted(f, links, depth))
  BY DEF Surjection, Admitted
<1>3. IsFiniteSet(Admitted(f, links, depth))
  BY <1>1, <1>2, FS_Surjection
<1>. QED  BY <1>3 DEF Admitted, Pending

LEMMA EnqueueType ==
  ASSUME NEW f \in FrontierType, NEW links \in SUBSET Urls, NEW depth \in Nat,
         NEW text \in Urls, NEW order \in Orderings(Admitted(f, links, depth))
  PROVE  /\ Enqueue(f, links, depth, text, order) \in FrontierType
         /\ order \in Seq(Pending)
         /\ Waiting(order) = UrlsOf(Admitted(f, links, depth))
<1>1. /\ order \in Seq(Admitted(f, links, depth))
      /\ Members(order) = Admitted(f, links, depth)
  BY AdmittedIsFinite, OrderingIsSequence
<1>2. order \in Seq(Pending)
  BY <1>1, AdmittedIsFinite, SeqMonotonic
<1>3. Waiting(order) = UrlsOf(Admitted(f, links, depth))
  BY <1>1, WaitingIsUrlsOf
<1>4. f.queue \o order \in Seq(Pending)
  BY <1>2, ConcatProperties DEF FrontierType
<1>5. UrlsOf(Admitted(f, links, depth)) \in SUBSET Urls
  BY AdmittedIsFinite DEF UrlsOf, Pending
<1>6. WithAnchor(f, links, text) \in [Urls -> SUBSET Urls]
  BY DEF WithAnchor, FrontierType
<1>. QED  BY <1>2, <1>3, <1>4, <1>5, <1>6 DEF Enqueue, FrontierType

LEMMA FrontierUpdate ==
  ASSUME NEW f \in FrontierType, NEW q \in Seq(Pending), NEW owed \in SUBSET Pending,
         NEW counts \in [Hosts -> Nat], NEW n \in Nat
  PROVE  [f EXCEPT !.queue = q, !.inFlight = owed, !.perHost = counts, !.handedOut = n]
           \in FrontierType
BY DEF FrontierType

LEMMA HandOutType ==
  ASSUME NEW f \in FrontierType, NEW k, IsNext(f, k), IsFiniteSet(f.inFlight)
  PROVE  /\ HandOut(f, k) \in FrontierType
         /\ IsFiniteSet(HandOut(f, k).inFlight)
         /\ k \in 1..Len(f.queue) /\ f.queue[k] \in Pending
<1>1. f.queue \in Seq(Pending) /\ k \in 1..Len(f.queue) /\ Len(f.queue) \in Nat
  BY LenProperties DEF FrontierType, IsNext
<1>2. f.queue[k] \in Pending
  BY <1>1, ElementOfSeq
<1>3. SubSeq(f.queue, k + 1, Len(f.queue)) \in Seq(Pending)
  BY <1>1, MembersOfCut
<1>4. IsFiniteSet(f.inFlight \union {f.queue[k]})
  BY FS_AddElement
<1>5. HostOf[f.queue[k].url] \in Hosts
  BY <1>2, FrontierAssumption DEF Pending
<1>6. Counted(f, f.queue[k].url) \in [Hosts -> Nat]
  BY <1>5 DEF Counted, FrontierType
<1>7. f.inFlight \union {f.queue[k]} \in SUBSET Pending
  BY <1>2 DEF FrontierType
<1>8. HandOut(f, k).inFlight = f.inFlight \union {f.queue[k]}
  BY DEF HandOut, FrontierType
<1>9. HandOut(f, k) \in FrontierType
  <2>1. f.handedOut + 1 \in Nat
    BY DEF FrontierType
  <2>. QED  BY <1>3, <1>6, <1>7, <2>1, FrontierUpdate DEF HandOut
<1>. QED  BY <1>1, <1>2, <1>4, <1>8, <1>9

LEMMA HandOutNothingType ==
  ASSUME NEW f \in FrontierType,
         OverBudget(f) \/ ~\E k \in DOMAIN f.queue : IsNext(f, k)
  PROVE  HandOutNothing(f) \in FrontierType /\ HandOutNothing(f).inFlight = f.inFlight
<1>1. f.queue \in Seq(Pending) /\ Len(f.queue) \in Nat
  BY LenProperties DEF FrontierType
<1>2. SubSeq(f.queue, PoppedForNothing(f) + 1, Len(f.queue)) \in Seq(Pending)
  BY <1>1, SliceIsSequence DEF PoppedForNothing
<1>. QED  BY <1>2 DEF HandOutNothing, FrontierType

LEMMA CompletedType ==
  ASSUME NEW f \in FrontierType, IsFiniteSet(f.inFlight), NEW u \in Urls
  PROVE  Completed(f, u) \in FrontierType /\ IsFiniteSet(Completed(f, u).inFlight)
<1>1. {p \in f.inFlight : p.url # u} \in SUBSET f.inFlight
  OBVIOUS
<1>2. IsFiniteSet({p \in f.inFlight : p.url # u})
  BY <1>1, FS_Subset
<1>. QED  BY <1>1, <1>2 DEF Completed, FrontierType

LEMMA TakeAnchorsType ==
  ASSUME NEW f \in FrontierType, NEW u \in Urls
  PROVE  TakeAnchors(f, u) \in FrontierType /\ TakeAnchors(f, u).inFlight = f.inFlight
BY DEF TakeAnchors, FrontierType

LEMMA SnapshotTypeCorrect ==
  ASSUME NEW f \in FrontierType, IsFiniteSet(f.inFlight), NEW n \in Nat,
         NEW order \in Orderings(f.inFlight)
  PROVE  /\ Snapshot(f, n, order) \in SnapshotType
         /\ order \in Seq(Pending)
         /\ Waiting(order) = UrlsOf(f.inFlight)
<1>1. order \in Seq(f.inFlight) /\ Members(order) = f.inFlight
  BY OrderingIsSequence
<1>2. order \in Seq(Pending)
  BY <1>1, SeqMonotonic DEF FrontierType
<1>3. f.queue \o order \in Seq(Pending)
  BY <1>2, ConcatProperties DEF FrontierType
<1>4. Waiting(order) = UrlsOf(f.inFlight)
  BY <1>1, WaitingIsUrlsOf
<1>. QED  BY <1>2, <1>3, <1>4 DEF Snapshot, SnapshotType, FrontierType

LEMMA RestoreType ==
  ASSUME NEW c \in SnapshotType
  PROVE  Restore(c) \in FrontierType /\ IsFiniteSet(Restore(c).inFlight)
BY FS_EmptySet DEF Restore, SnapshotType, FrontierType

-----------------------------------------------------------------------------
(* Types. *)

LEMMA EmptyNoteType == EmptyNote \in Note
BY DEF EmptyNote, Note

LEMMA FreshMemoryType ==
  FreshMemory => /\ worker' \in [Workers -> WorkerType]
                 /\ \A w \in Workers :
                      worker'[w].item = None <=> worker'[w].pc \in {"idle", "gone"}
                 /\ channel' \in Seq(Urls)
                 /\ indexer' \in IndexerType /\ indexer'.pc = "receive"
                 /\ buffer' \in Seq(Urls \union {Torn}) /\ buffer' = <<>>
                 /\ written' = 0 /\ snap' = None
                 /\ snapNote' \in Note
BY EmptyNoteType, EmptySeq DEF FreshMemory, IdleWorker, ReadyIndexer, WorkerType, IndexerType

LEMMA InitType == Init => TypeOK
BY NewFrontierType, EmptyNoteType, EmptySeq
   DEF Init, TypeOK, IdleWorker, ReadyIndexer, WorkerType, IndexerType, Phases

(* A worker that moves stays a worker. *)
LEMMA MoveToType ==
  ASSUME TypeOK, NEW w \in Workers,
         NEW pc \in {"idle", "fetching", "parsed", "sending", "gone"},
         NEW item \in Pending \union {None},
         item = None <=> pc \in {"idle", "gone"}, MoveTo(w, pc, item)
  PROVE  /\ worker' \in [Workers -> WorkerType]
         /\ \A v \in Workers :
               worker'[v].item = None <=> worker'[v].pc \in {"idle", "gone"}
BY DEF TypeOK, MoveTo, WorkerType

(* What a worker that is not idle holds is a URL, and the page is one too. *)
LEMMA HeldType ==
  ASSUME TypeOK, NEW w \in Workers, worker[w].pc \in {"fetching", "parsed", "sending"}
  PROVE  /\ worker[w].item \in Pending /\ worker[w].item # None
         /\ worker[w].item.url \in Urls /\ worker[w].item.depth \in Nat
         /\ Page(w) \in Urls /\ Links[Page(w)] \in SUBSET Urls
<1>1. worker[w].item \in Pending /\ worker[w].item # None
  BY DEF TypeOK, WorkerType
<1>2. worker[w].item.url \in Urls /\ worker[w].item.depth \in Nat
  BY <1>1 DEF Pending
<1>. QED  BY <1>1, <1>2, CrawlAssumption DEF Page

LEMMA WorkerStepType ==
  ASSUME TypeOK, NEW w \in Workers, WorkerStep(w)
  PROVE  TypeOK'
<1>0. None \notin Pending
  BY CrawlAssumption
<1>1. CASE Take(w)
  <2>1. PICK k \in DOMAIN frontier.queue :
          /\ IsNext(frontier, k)
          /\ frontier' = HandOut(frontier, k)
          /\ MoveTo(w, "fetching", frontier.queue[k])
          /\ note' = [note EXCEPT !.waived =
                        @ \union Waiting(SubSeq(frontier.queue, 1, k - 1))]
    BY <1>1 DEF Take
  <2>2. /\ frontier' \in FrontierType /\ IsFiniteSet(frontier'.inFlight)
        /\ k \in 1..Len(frontier.queue) /\ frontier.queue[k] \in Pending
    BY <2>1, HandOutType DEF TypeOK
  <2>3. Waiting(SubSeq(frontier.queue, 1, k - 1)) \in SUBSET Urls
    <3>1. frontier.queue \in Seq(Pending) /\ Len(frontier.queue) \in Nat
      BY LenProperties DEF TypeOK, FrontierType
    <3>2. SubSeq(frontier.queue, 1, k - 1) \in Seq(Pending)
      BY <2>2, <3>1, SliceIsSequence
    <3>. QED  BY <3>2, WaitingType
  <2>4. note' \in Note
    BY <2>1, <2>3 DEF TypeOK, Note
  <2>5. frontier.queue[k] # None
    BY <1>0, <2>2
  <2>6. /\ worker' \in [Workers -> WorkerType]
        /\ \A v \in Workers : worker'[v].item = None <=> worker'[v].pc \in {"idle", "gone"}
    BY <2>1, <2>2, <2>5, MoveToType
  <2>. QED  BY <1>1, <2>2, <2>4, <2>6 DEF Take, TypeOK, disk
<1>2. CASE Leave(w)
  <2>1. frontier' \in FrontierType /\ frontier'.inFlight = frontier.inFlight
    BY <1>2, HandOutNothingType DEF Leave, TypeOK
  <2>2. Waiting(frontier.queue) \in SUBSET Urls
    BY WaitingType DEF TypeOK, FrontierType
  <2>3. note' \in Note
    BY <1>2, <2>2 DEF Leave, TypeOK, Note
  <2>4. /\ worker' \in [Workers -> WorkerType]
        /\ \A v \in Workers : worker'[v].item = None <=> worker'[v].pc \in {"idle", "gone"}
    BY <1>2, MoveToType DEF Leave
  <2>. QED  BY <1>2, <2>1, <2>3, <2>4 DEF Leave, TypeOK, disk
<1>3. CASE GiveUp(w)
  <2>1. /\ worker' \in [Workers -> WorkerType]
        /\ \A v \in Workers : worker'[v].item = None <=> worker'[v].pc \in {"idle", "gone"}
    BY <1>3, MoveToType DEF GiveUp
  <2>. QED  BY <1>3, <2>1 DEF GiveUp, TypeOK, disk, history
<1>4. CASE Follow(w)
  <2>0. worker[w].pc = "fetching"
    BY <1>4 DEF Follow, AtWork
  <2>1. frontier' \in FrontierType /\ IsFiniteSet(frontier'.inFlight)
    <3>1. PICK order \in Orderings(Admitted(frontier, Links[Page(w)], worker[w].item.depth + 1)) :
            frontier' = Enqueue(frontier, Links[Page(w)], worker[w].item.depth + 1,
                                Page(w), order)
      BY <1>4 DEF Follow
    <3>2. frontier' \in FrontierType
      BY <2>0, <3>1, HeldType, EnqueueType DEF TypeOK
    <3>3. frontier'.inFlight = frontier.inFlight
      BY <3>1 DEF Enqueue, TypeOK, FrontierType
    <3>. QED  BY <3>2, <3>3 DEF TypeOK
  <2>2. /\ worker' \in [Workers -> WorkerType]
        /\ \A v \in Workers : worker'[v].item = None <=> worker'[v].pc \in {"idle", "gone"}
    <3>1. MoveTo(w, "idle", None) \/ MoveTo(w, "parsed", worker[w].item)
      BY <1>4 DEF Follow
    <3>. QED  BY <2>0, <3>1, HeldType, MoveToType
  <2>. QED  BY <1>4, <2>1, <2>2 DEF Follow, TypeOK, disk, history
<1>5. CASE Describe(w)
  <2>0. worker[w].pc = "parsed"
    BY <1>5 DEF Describe, AtWork
  <2>1. frontier' \in FrontierType /\ IsFiniteSet(frontier'.inFlight)
    BY <1>5, <2>0, HeldType, TakeAnchorsType DEF Describe, TypeOK
  <2>2. /\ worker' \in [Workers -> WorkerType]
        /\ \A v \in Workers : worker'[v].item = None <=> worker'[v].pc \in {"idle", "gone"}
    BY <1>5, <2>0, HeldType, MoveToType DEF Describe
  <2>3. note' \in Note
    BY <1>5, <2>0, HeldType DEF Describe, TypeOK, Note
  <2>. QED  BY <1>5, <2>1, <2>2, <2>3 DEF Describe, TypeOK, disk
<1>6. CASE Send(w)
  <2>0. worker[w].pc = "sending"
    BY <1>6 DEF Send, AtWork
  <2>1. channel' \in Seq(Urls)
    BY <1>6, <2>0, HeldType, AppendProperties DEF Send, TypeOK
  <2>2. /\ worker' \in [Workers -> WorkerType]
        /\ \A v \in Workers : worker'[v].item = None <=> worker'[v].pc \in {"idle", "gone"}
    BY <1>6, MoveToType DEF Send
  <2>. QED  BY <1>6, <2>1, <2>2 DEF Send, TypeOK, disk, history
<1>. QED  BY <1>1, <1>2, <1>3, <1>4, <1>5, <1>6 DEF WorkerStep

LEMMA IndexerStepType ==
  ASSUME TypeOK, IndexerStep
  PROVE  TypeOK'
<1>. DEFINE Records == Seq(Urls \union {Torn})
<1>1. CASE Receive
  <2>1. Head(channel) \in Urls /\ Tail(channel) \in Seq(Urls)
    BY <1>1, HeadTailProperties DEF Receive, TypeOK
  <2>2. builder' \in Seq(Urls) /\ channel' \in Seq(Urls)
    BY <1>1, <2>1, AppendProperties DEF Receive, TypeOK
  <2>3. Append(buffer, Head(channel)) \in Records /\ Append(buffer, Torn) \in Records
    BY <2>1, AppendProperties DEF TypeOK
  <2>4. buffer' \in Records
    BY <1>1, <2>3 DEF Receive, TypeOK
  <2>5. written' \in Nat /\ faults' \in Nat
    <3>1. /\ written' = written + 1 \/ written' = written
          /\ faults' = faults + 1 \/ faults' = faults
      BY <1>1 DEF Receive
    <3>2. written \in Nat /\ faults \in Nat
      BY DEF TypeOK
    <3>. QED  BY <3>1, <3>2
  <2>6. note' \in Note
    <3>1. note' = note \/ note' = [note EXCEPT !.trusted = FALSE]
      BY <1>1 DEF Receive
    <3>. QED  BY <3>1 DEF TypeOK, Note
  <2>7. Head(channel) # None
    BY <2>1, CrawlAssumption
  <2>8. indexer' \in IndexerType /\ indexer'.pc = "complete" /\ indexer'.doc # None
    BY <1>1, <2>1, <2>7 DEF Receive, TypeOK, IndexerType
  <2>. QED  BY <1>1, <2>2, <2>4, <2>5, <2>6, <2>8 DEF Receive, TypeOK, disk
<1>2. CASE Complete
  <2>1. indexer.doc \in Urls
    BY <1>2 DEF Complete, Indexing, TypeOK, IndexerType
  <2>2. frontier' \in FrontierType /\ IsFiniteSet(frontier'.inFlight)
    BY <1>2, <2>1, CompletedType DEF Complete, TypeOK
  <2>3. indexer' \in IndexerType /\ indexer'.pc \in {"flush", "receive"}
    <3>1. indexer \in IndexerType /\ indexer.since + 1 \in Nat
      BY DEF TypeOK, IndexerType
    <3>2. PICK due \in BOOLEAN :
            indexer' = [indexer EXCEPT !.pc    = IF due THEN "flush" ELSE "receive",
                                       !.doc   = None,
                                       !.since = IF due THEN 0 ELSE @ + 1]
      BY <1>2, Zenon DEF Complete
    <3>3. CASE due
      BY <3>1, <3>2, <3>3 DEF IndexerType
    <3>4. CASE ~due
      BY <3>1, <3>2, <3>4 DEF IndexerType
    <3>. QED  BY <3>3, <3>4
  <2>. QED  BY <1>2, <2>2, <2>3 DEF Complete, TypeOK, disk, history
<1>3. CASE Close
  <2>1. indexer' \in IndexerType /\ indexer'.pc = "flush"
    BY <1>3 DEF Close, TypeOK, IndexerType
  <2>. QED  BY <1>3, <2>1 DEF Close, TypeOK, disk, history
<1>4. CASE Flush
  <2>1. indexer' \in IndexerType /\ indexer'.pc = "snapshot"
    BY <1>4 DEF Flush, TypeOK, IndexerType
  <2>2. spool' \in Records /\ buffer' \in Records
    BY <1>4, ConcatProperties, EmptySeq DEF Flush, TypeOK
  <2>. QED  BY <1>4, <2>1, <2>2 DEF Flush, TypeOK, history
<1>5. CASE FlushFails
  <2>1. indexer' \in IndexerType /\ indexer'.pc \in {"done", "receive"}
    BY <1>5 DEF FlushFails, AfterSave, TypeOK, IndexerType
  <2>2. spool' \in Records /\ buffer' \in Records
    <3>1. PICK k \in 0..Len(buffer) : /\ spool' = spool \o SubSeq(buffer, 1, k)
                                      /\ buffer' = SubSeq(buffer, k + 1, Len(buffer))
      BY <1>5 DEF FlushFails
    <3>2. SubSeq(buffer, 1, k) \in Records /\ SubSeq(buffer, k + 1, Len(buffer)) \in Records
      BY MembersOfCut DEF TypeOK
    <3>. QED  BY <3>1, <3>2, ConcatProperties DEF TypeOK
  <2>3. faults' \in Nat
    BY <1>5 DEF FlushFails, TypeOK
  <2>. QED  BY <1>5, <2>1, <2>2, <2>3 DEF FlushFails, TypeOK, history
<1>6. CASE TakeSnapshot
  <2>1. snap' \in SnapshotType
    <3>1. PICK order \in Orderings(frontier.inFlight) :
            snap' = Snapshot(frontier, written, order)
      BY <1>6 DEF TakeSnapshot
    <3>. QED  BY <3>1, SnapshotTypeCorrect DEF TypeOK
  <2>2. snap' # None
    BY <2>1, CrawlAssumption
  <2>3. indexer' \in IndexerType /\ indexer'.pc = "write"
    BY <1>6 DEF TakeSnapshot, TypeOK, IndexerType
  <2>4. snapNote' \in Note
    BY <1>6 DEF TakeSnapshot, TypeOK
  <2>. QED  BY <1>6, <2>1, <2>2, <2>3, <2>4 DEF TakeSnapshot, TypeOK, disk
<1>7. CASE WriteFrontier
  <2>1. indexer' \in IndexerType /\ indexer'.pc \in {"done", "receive"}
    BY <1>7 DEF WriteFrontier, AfterSave, TypeOK, IndexerType
  <2>2. saved' \in SnapshotType \union {None} /\ savedNote' \in Note /\ faults' \in Nat
    BY <1>7 DEF WriteFrontier, TypeOK
  <2>3. snap' \in SnapshotType \union {None} /\ snapNote' \in Note
    BY <1>7, EmptyNoteType DEF WriteFrontier
  <2>. QED  BY <1>7, <2>1, <2>2, <2>3 DEF WriteFrontier, TypeOK
<1>. QED  BY <1>1, <1>2, <1>3, <1>4, <1>5, <1>6, <1>7 DEF IndexerStep

(* read_spool yields pages, never a torn record. *)
LEMMA AccountedType ==
  ASSUME NEW c \in SnapshotType, NEW records \in Seq(Urls \union {Torn}),
         Readable(c, records)
  PROVE  Accounted(c, records) \in Seq(Urls)
<1>1. c.spooled \in Nat /\ c.spooled <= Len(records) /\ Len(records) \in Nat
  BY LenProperties DEF SnapshotType, Readable
<1>2. \A i \in 1..c.spooled : records[i] \in Urls
  BY <1>1, ElementOfSeq DEF Readable
<1>. QED  BY <1>1, <1>2, SubSeqProperties DEF Accounted

LEMMA ProcessStepType ==
  ASSUME TypeOK, StartFresh \/ Resume \/ ResumeRefused \/ Crash \/ CommandStep
  PROVE  TypeOK'
<1>. DEFINE Records == Seq(Urls \union {Torn})
<1>1. CASE StartFresh
  <2>1. note' \in Note
    BY <1>1, EmptyNoteType DEF StartFresh, Note
  <2>. QED  BY <1>1, <2>1, FreshMemoryType, NewFrontierType, EmptySeq
            DEF StartFresh, TypeOK, disk, Phases
<1>2. CASE Resume
  <2>1. note' \in Note
    BY <1>2 DEF Resume, TypeOK, Note
  <2>2. saved \in SnapshotType
    BY <1>2 DEF Resume, TypeOK
  <2>3. builder' \in Seq(Urls)
    BY <1>2, <2>2, AccountedType DEF Resume, TypeOK
  <2>4. frontier' \in FrontierType /\ IsFiniteSet(frontier'.inFlight)
    BY <1>2, <2>2, RestoreType DEF Resume
  <2>. QED  BY <1>2, <2>1, <2>3, <2>4, FreshMemoryType DEF Resume, TypeOK, disk, Phases
<1>3. CASE ResumeRefused
  BY <1>3 DEF ResumeRefused, TypeOK, memory, disk, history, Phases
<1>4. CASE Crash
  <2>1. spool' \in Records
    <3>1. \A k \in 0..Len(buffer) : SubSeq(buffer, 1, k) \in Records
      BY MembersOfCut DEF TypeOK
    <3>2. Len(buffer) \in Nat
      BY LenProperties DEF TypeOK
    <3>3. \A k \in 0..(Len(buffer) - 1) : Append(SubSeq(buffer, 1, k), Torn) \in Records
      BY <3>1, <3>2, AppendProperties
    <3>4. \A k \in 0..Len(buffer) : spool \o SubSeq(buffer, 1, k) \in Records
      BY <3>1, ConcatProperties DEF TypeOK
    <3>5. \A k \in 0..(Len(buffer) - 1) : spool \o Append(SubSeq(buffer, 1, k), Torn) \in Records
      BY <3>3, ConcatProperties DEF TypeOK
    <3>6. \A x \in Spilled : x \in Records
      BY <3>4, <3>5 DEF Spilled
    <3>. QED  BY <1>4, <3>6 DEF Crash
  <2>. QED  BY <1>4, <2>1, FreshMemoryType, NewFrontierType, EmptyNoteType, EmptySeq
            DEF Crash, TypeOK, Phases
<1>5. CASE WriteIndex
  <2>1. spool' \in Records /\ buffer' \in Records
    <3>1. \A k \in 0..Len(buffer) : SubSeq(buffer, 1, k) \in Records
      BY MembersOfCut DEF TypeOK
    <3>. QED  BY <1>5, <3>1, ConcatProperties, EmptySeq DEF WriteIndex, TypeOK
  <2>. QED  BY <1>5, <2>1 DEF WriteIndex, TypeOK, history, Phases
<1>6. CASE KeepCheckpoint
  BY <1>6 DEF KeepCheckpoint, TypeOK, memory, disk, history, Phases
<1>7. CASE DiscardSpool
  <2>1. savedNote' \in Note
    BY <1>7 DEF DiscardSpool, TypeOK, Note
  <2>. QED  BY <1>7, <2>1, EmptySeq DEF DiscardSpool, TypeOK, memory, Phases
<1>8. CASE DiscardFrontier
  BY <1>8 DEF DiscardFrontier, TypeOK, memory, history, Phases
<1>. QED  BY <1>1, <1>2, <1>3, <1>4, <1>5, <1>6, <1>7, <1>8 DEF CommandStep

LEMMA NextType == TypeOK /\ [Next]_vars => TypeOK'
<1>1. CASE Next
  BY <1>1, WorkerStepType, IndexerStepType, ProcessStepType
     DEF Next, Ended, vars, memory, disk, history, TypeOK
<1>2. CASE UNCHANGED vars
  BY <1>2 DEF TypeOK, vars, memory, disk, history
<1>. QED  BY <1>1, <1>2

(* Every variable keeps its type: in particular the index in memory never   *)
(* holds a half-written record, a page being completed is a page, and what  *)
(* a save writes is a frontier.                                             *)
THEOREM TypeCorrect == Spec => []TypeOK
<1>1. Init => TypeOK
  BY InitType
<1>2. TypeOK /\ [Next]_vars => TypeOK'
  BY NextType
<1>. QED  BY <1>1, <1>2, PTL DEF Spec

Record == Urls \union {Torn}

-----------------------------------------------------------------------------
(* Sequences. *)

LEMMA MembersOfEmpty == Members(<<>>) = {} /\ Len(<<>>) = 0
BY DEF Members

LEMMA MembersOfAppend ==
  ASSUME NEW S, NEW s \in Seq(S), NEW x \in S
  PROVE  /\ Members(Append(s, x)) = Members(s) \union {x}
         /\ Len(Append(s, x)) = Len(s) + 1
<1>1. /\ Len(Append(s, x)) = Len(s) + 1 /\ Append(s, x) \in Seq(S)
      /\ \A i \in 1..Len(s) : Append(s, x)[i] = s[i]
      /\ Append(s, x)[Len(s) + 1] = x
  BY AppendProperties
<1>. DEFINE sx == Append(s, x)
<1>2. DOMAIN sx = 1..(Len(s) + 1) /\ DOMAIN s = 1..Len(s) /\ Len(s) \in Nat
  BY <1>1, LenProperties
<1>. HIDE DEF sx
<1>3. \A i \in 1..Len(s) : sx[i] = s[i]
  BY <1>1 DEF sx
<1>4. sx[Len(s) + 1] = x
  BY <1>1 DEF sx
<1>5. Members(sx) \subseteq Members(s) \union {x}
  BY <1>2, <1>3, <1>4 DEF Members
<1>6. x \in Members(sx) /\ Members(s) \subseteq Members(sx)
  BY <1>2, <1>3, <1>4 DEF Members
<1>. QED  BY <1>1, <1>5, <1>6 DEF sx

(* The pages a frontier accounts for are the first ones of the spool. *)
LEMMA MembersAccounted ==
  ASSUME NEW c \in SnapshotType, NEW r \in Seq(Record), c.spooled <= Len(r)
  PROVE  Members(Accounted(c, r)) = {r[i] : i \in 1..c.spooled}
<1>. DEFINE first == Accounted(c, r)
<1>1. c.spooled \in Nat /\ Len(r) \in Nat
  BY LenProperties DEF SnapshotType
<1>2. /\ first \in Seq(Record) /\ Len(first) = c.spooled
      /\ \A i \in 1..c.spooled : first[i] = r[i]
  <2>1. /\ first \in Seq(Record)
        /\ Len(first) = IF 1 <= c.spooled THEN c.spooled - 1 + 1 ELSE 0
        /\ \A i \in 1..(c.spooled - 1 + 1) : first[i] = r[1 + i - 1]
    BY <1>1, SliceIsSequence DEF Accounted
  <2>2. Len(first) = c.spooled
    BY <1>1, <2>1
  <2>3. \A i \in 1..c.spooled : first[i] = r[i]
    BY <1>1, <2>1
  <2>. QED  BY <2>1, <2>2, <2>3
<1>3. DOMAIN first = 1..c.spooled
  BY <1>2, LenProperties
<1>. HIDE DEF first
<1>4. Members(first) = {r[i] : i \in 1..c.spooled}
  BY <1>2, <1>3 DEF Members
<1>. QED  BY <1>4 DEF first

(* What follows in the spool changes nothing for a frontier saved before.  *)
LEMMA NoGapGrows ==
  ASSUME NEW c \in SnapshotType, NEW r \in Seq(Record), NEW t \in Seq(Record), NEW waived,
         NoGap(c, r, waived)
  PROVE  NoGap(c, r \o t, waived)
<1>1. /\ r \o t \in Seq(Record) /\ Len(r \o t) = Len(r) + Len(t)
      /\ \A i \in 1..Len(r) + Len(t) :
           (r \o t)[i] = IF i <= Len(r) THEN r[i] ELSE t[i - Len(r)]
  BY ConcatProperties
<1>2. c.spooled \in Nat /\ Len(r) \in Nat /\ Len(t) \in Nat /\ c.spooled <= Len(r)
  BY LenProperties DEF SnapshotType, NoGap, Readable
<1>3. \A i \in 1..c.spooled : (r \o t)[i] = r[i]
  BY <1>1, <1>2
<1>4. c.spooled <= Len(r \o t)
  BY <1>1, <1>2
<1>5. Members(Accounted(c, r \o t)) = Members(Accounted(c, r))
  <2>1. Members(Accounted(c, r \o t)) = {(r \o t)[i] : i \in 1..c.spooled}
    BY <1>1, <1>4, MembersAccounted
  <2>2. Members(Accounted(c, r)) = {r[i] : i \in 1..c.spooled}
    BY <1>2, MembersAccounted
  <2>. QED  BY <1>3, <2>1, <2>2
<1>6. Readable(c, r \o t)
  BY <1>3, <1>4 DEF NoGap, Readable
<1>. QED  BY <1>5, <1>6 DEF NoGap, Covered

-----------------------------------------------------------------------------
(* The disk: what was saved stays good while the spool grows. *)

LEMMA SavedStaysGood ==
  ASSUME TypeOK, CheckpointLeavesNoGap, NEW t \in Seq(Record),
         spool' = spool \o t, saved' = saved, savedNote' = savedNote
  PROVE  CheckpointLeavesNoGap'
<1>. SUFFICES ASSUME saved # None, savedNote.trusted
              PROVE  NoGap(saved, spool \o t, savedNote.waived)
  BY DEF CheckpointLeavesNoGap
<1>1. saved \in SnapshotType /\ spool \in Seq(Record)
  BY DEF TypeOK, Record
<1>2. NoGap(saved, spool, savedNote.waived)
  BY DEF CheckpointLeavesNoGap
<1>. QED  BY <1>1, <1>2, NoGapGrows

LEMMA SavedUntouched ==
  ASSUME CheckpointLeavesNoGap, UNCHANGED <<spool, saved, savedNote>>
  PROVE  CheckpointLeavesNoGap'
BY DEF CheckpointLeavesNoGap

LEMMA SnapUntouched ==
  ASSUME SnapshotLeavesNoGap, UNCHANGED <<phase, indexer, snap, snapNote, spool>>
  PROVE  SnapshotLeavesNoGap'
BY DEF SnapshotLeavesNoGap

(* A piece of the buffer is a sequence of records. *)
LEMMA PieceType ==
  ASSUME TypeOK, NEW k \in 0..Len(buffer)
  PROVE  /\ SubSeq(buffer, 1, k) \in Seq(Record)
         /\ SubSeq(buffer, k + 1, Len(buffer)) \in Seq(Record)
         /\ Append(SubSeq(buffer, 1, k), Torn) \in Seq(Record)
<1>1. buffer \in Seq(Record)
  BY DEF TypeOK, Record
<1>2. SubSeq(buffer, 1, k) \in Seq(Record) /\ SubSeq(buffer, k + 1, Len(buffer)) \in Seq(Record)
  BY <1>1, MembersOfCut
<1>. QED  BY <1>2, AppendProperties DEF Record

-----------------------------------------------------------------------------
(* The workers: no step of theirs lets a URL that was seen be forgotten. *)

(* A worker's step leaves alone all of TrustedProcess but NothingForgotten. *)
LEMMA WorkerKeepsTrust ==
  ASSUME NoGapInv, UNCHANGED <<phase, indexer, buffer, written, snap, spool, saved>>,
         UNCHANGED <<snapNote, savedNote>>, note'.trusted = note.trusted,
         phase = "crawling" /\ note.trusted => NothingForgotten'
  PROVE  NoGapInv'
<1>1. CheckpointLeavesNoGap'
  BY SavedUntouched DEF NoGapInv
<1>2. SnapshotLeavesNoGap'
  BY SnapUntouched DEF NoGapInv
<1>3. TrustedProcess'
  BY DEF NoGapInv, TrustedProcess
<1>. QED  BY <1>1, <1>2, <1>3 DEF NoGapInv

LEMMA TakeForgetsNothing ==
  ASSUME TypeOK, NoGapInv, NEW w \in Workers, Take(w), note.trusted
  PROVE  NothingForgotten'
<1>1. PICK k \in DOMAIN frontier.queue :
        /\ IsNext(frontier, k)
        /\ frontier' = HandOut(frontier, k)
        /\ note' = [note EXCEPT !.waived =
                      @ \union Waiting(SubSeq(frontier.queue, 1, k - 1))]
  BY DEF Take
<1>2. frontier.queue \in Seq(Pending) /\ Len(frontier.queue) \in Nat
  BY LenProperties DEF TypeOK, FrontierType
<1>3. k \in 1..Len(frontier.queue)
  BY <1>1, <1>2, LenProperties
<1>. DEFINE q == frontier.queue
            rest == SubSeq(q, k + 1, Len(q))
<1>4. \A u \in Waiting(q) : \/ u \in Waiting(SubSeq(q, 1, k - 1))
                            \/ u = q[k].url
                            \/ u \in Waiting(rest)
  <2>1. ASSUME NEW i \in DOMAIN q
        PROVE  \/ q[i] \in Members(SubSeq(q, 1, k - 1))
               \/ i = k
               \/ q[i] \in Members(rest)
    <3>0. k - 1 \in 0..Len(q) /\ k \in 0..Len(q)
      BY <1>2, <1>3
    <3>1. /\ SubSeq(q, 1, k - 1) \in Seq(Pending) /\ Len(SubSeq(q, 1, k - 1)) = k - 1
          /\ rest \in Seq(Pending) /\ Len(rest) = Len(q) - k
      <4>1. \A j \in 0..Len(q) :
              /\ SubSeq(q, 1, j) \in Seq(Pending) /\ Len(SubSeq(q, 1, j)) = j
              /\ SubSeq(q, j + 1, Len(q)) \in Seq(Pending)
              /\ Len(SubSeq(q, j + 1, Len(q))) = Len(q) - j
        BY <1>2, MembersOfCut
      <4>. QED  BY <3>0, <4>1
    <3>2. CASE i < k
      <4>1. k - 1 \in Nat /\ k - 1 <= Len(q) /\ i \in 1..(k - 1)
        BY <1>2, <1>3, <2>1, <3>2, LenProperties
      <4>2. \A j \in 1..(k - 1 - 1 + 1) : SubSeq(q, 1, k - 1)[j] = q[1 + j - 1]
        BY <1>2, <4>1, SliceIsSequence
      <4>3. SubSeq(q, 1, k - 1)[i] = q[i]
        BY <4>1, <4>2
      <4>4. DOMAIN SubSeq(q, 1, k - 1) = 1..(k - 1)
        BY <3>1, LenProperties
      <4>. QED  BY <4>1, <4>3, <4>4 DEF Members
    <3>3. CASE i > k
      <4>1. i - k \in 1..(Len(q) - k) /\ i \in Nat
        BY <1>2, <1>3, <2>1, <3>3, LenProperties
      <4>2. \A j \in 1..(Len(q) - (k + 1) + 1) : rest[j] = q[k + 1 + j - 1]
        <5>. DEFINE m == k + 1
        <5>1. m \in Nat \ {0} /\ Len(q) <= Len(q)
          BY <1>2, <1>3
        <5>. HIDE DEF m
        <5>2. \A j \in 1..(Len(q) - m + 1) : SubSeq(q, m, Len(q))[j] = q[m + j - 1]
          BY <1>2, <5>1, SliceIsSequence
        <5>. QED  BY <5>2 DEF m
      <4>3. rest[i - k] = q[i]
        <5>1. i - k \in 1..(Len(q) - (k + 1) + 1)
          BY <1>2, <1>3, <4>1
        <5>2. k + 1 + (i - k) - 1 = i
          BY <1>3, <4>1
        <5>3. rest[i - k] = q[k + 1 + (i - k) - 1]
          BY <4>2, <5>1
        <5>. QED  BY <5>2, <5>3
      <4>4. DOMAIN rest = 1..(Len(q) - k)
        BY <3>1, LenProperties
      <4>5. \E j \in DOMAIN rest : rest[j] = q[i]
        BY <4>1, <4>3, <4>4
      <4>. QED  BY <4>5 DEF Members
    <3>. QED  BY <1>2, <1>3, <2>1, <3>2, <3>3, LenProperties
  <2>. QED  BY <2>1 DEF Waiting, Members
<1>5. /\ frontier'.seen = frontier.seen /\ frontier'.queue = rest
      /\ frontier'.inFlight = frontier.inFlight \union {q[k]}
  BY <1>1 DEF HandOut, TypeOK, FrontierType
<1>6. note'.waived = note.waived \union Waiting(SubSeq(q, 1, k - 1))
  BY <1>1 DEF TypeOK, Note
<1>7. UrlsOf(frontier'.inFlight) = UrlsOf(frontier.inFlight) \union {q[k].url}
  BY <1>5 DEF UrlsOf
<1>8. NothingForgotten /\ spool' = spool /\ buffer' = buffer
  BY DEF NoGapInv, TrustedProcess, Take, AtWork, disk
<1>. HIDE DEF q, rest
<1>9. frontier.seen \subseteq Waiting(q) \union UrlsOf(frontier.inFlight) \union Members(spool)
                                \union Members(buffer) \union note.waived
  BY <1>8 DEF NothingForgotten, q
<1>. QED  BY <1>4, <1>5, <1>6, <1>7, <1>8, <1>9 DEF NothingForgotten

LEMMA LeaveForgetsNothing ==
  ASSUME TypeOK, NoGapInv, NEW w \in Workers, Leave(w), note.trusted
  PROVE  NothingForgotten'
<1>1. frontier'.seen = frontier.seen /\ frontier'.inFlight = frontier.inFlight
  BY DEF Leave, HandOutNothing, TypeOK, FrontierType
<1>2. note'.waived = note.waived \union (Waiting(frontier.queue) \ Waiting(frontier'.queue))
  BY DEF Leave, TypeOK, Note
<1>3. NothingForgotten /\ spool' = spool /\ buffer' = buffer
  BY DEF NoGapInv, TrustedProcess, Leave, AtWork, disk
<1>. QED  BY <1>1, <1>2, <1>3 DEF NothingForgotten

(* The links of a page become seen and queued together. *)
LEMMA FollowForgetsNothing ==
  ASSUME TypeOK, NoGapInv, NEW w \in Workers, Follow(w), note.trusted
  PROVE  NothingForgotten'
<1>. DEFINE links == Links[Page(w)]
            depth == worker[w].item.depth + 1
<1>1. /\ Page(w) \in Urls /\ links \in SUBSET Urls /\ depth \in Nat
  <2>1. worker[w].pc = "fetching"
    BY DEF Follow, AtWork
  <2>. QED  BY <2>1, HeldType
<1>2. PICK order \in Orderings(Admitted(frontier, links, depth)) :
        frontier' = Enqueue(frontier, links, depth, Page(w), order)
  BY DEF Follow
<1>3. order \in Seq(Pending) /\ Waiting(order) = UrlsOf(Admitted(frontier, links, depth))
  BY <1>1, EnqueueType DEF TypeOK
<1>4. /\ frontier'.seen = frontier.seen \union UrlsOf(Admitted(frontier, links, depth))
      /\ frontier'.queue = frontier.queue \o order
      /\ frontier'.inFlight = frontier.inFlight
  BY <1>2 DEF Enqueue, TypeOK, FrontierType
<1>5. Waiting(frontier'.queue) = Waiting(frontier.queue) \union Waiting(order)
  BY <1>3, <1>4, WaitingOfConcat DEF TypeOK, FrontierType
<1>6. NothingForgotten /\ spool' = spool /\ buffer' = buffer /\ note' = note
  BY DEF NoGapInv, TrustedProcess, Follow, AtWork, disk, history
<1>. QED  BY <1>3, <1>4, <1>5, <1>6 DEF NothingForgotten

LEMMA WorkerStepNoGap ==
  ASSUME TypeOK, NoGapInv, NEW w \in Workers, WorkerStep(w)
  PROVE  NoGapInv'
<1>1. CASE Take(w)
  <2>1. note'.trusted = note.trusted
    BY <1>1 DEF Take, TypeOK, Note
  <2>. QED  BY <1>1, <2>1, TakeForgetsNothing, WorkerKeepsTrust DEF Take, disk
<1>2. CASE Leave(w)
  <2>1. note'.trusted = note.trusted
    BY <1>2 DEF Leave, TypeOK, Note
  <2>. QED  BY <1>2, <2>1, LeaveForgetsNothing, WorkerKeepsTrust DEF Leave, disk
<1>3. CASE GiveUp(w)
  <2>1. phase = "crawling" /\ note.trusted => NothingForgotten'
    BY <1>3 DEF GiveUp, NoGapInv, TrustedProcess, NothingForgotten, disk, history
  <2>. QED  BY <1>3, <2>1, WorkerKeepsTrust DEF GiveUp, disk, history
<1>4. CASE Follow(w)
  BY <1>4, FollowForgetsNothing, WorkerKeepsTrust DEF Follow, disk, history
<1>5. CASE Describe(w)
  <2>1. /\ frontier'.seen = frontier.seen /\ frontier'.queue = frontier.queue
        /\ frontier'.inFlight = frontier.inFlight
    BY <1>5 DEF Describe, TakeAnchors, TypeOK, FrontierType
  <2>2. note'.trusted = note.trusted /\ note'.waived = note.waived
    BY <1>5 DEF Describe, TypeOK, Note
  <2>3. phase = "crawling" /\ note.trusted => NothingForgotten'
    BY <1>5, <2>1, <2>2 DEF Describe, NoGapInv, TrustedProcess, NothingForgotten, disk
  <2>. QED  BY <1>5, <2>2, <2>3, WorkerKeepsTrust DEF Describe, disk
<1>6. CASE Send(w)
  <2>1. phase = "crawling" /\ note.trusted => NothingForgotten'
    BY <1>6 DEF Send, NoGapInv, TrustedProcess, NothingForgotten, disk, history
  <2>. QED  BY <1>6, <2>1, WorkerKeepsTrust DEF Send, disk, history
<1>. QED  BY <1>1, <1>2, <1>3, <1>4, <1>5, <1>6 DEF WorkerStep

-----------------------------------------------------------------------------
(* The indexing loop. *)

LEMMA ReceiveNoGap ==
  ASSUME TypeOK, NoGapInv, Receive
  PROVE  NoGapInv'
<1>1. CheckpointLeavesNoGap'
  BY SavedUntouched DEF NoGapInv, Receive, disk
<1>2. SnapshotLeavesNoGap'
  BY DEF Receive, SnapshotLeavesNoGap
<1>3. ASSUME phase' = "crawling", note'.trusted
      PROVE  /\ note' = note /\ written' = written + 1
             /\ buffer' = Append(buffer, Head(channel))
  BY <1>3 DEF Receive, TypeOK, Note
<1>4. TrustedProcess'
  <2>. SUFFICES ASSUME phase' = "crawling", note'.trusted
                PROVE  /\ written' = Len(spool') + Len(buffer')
                       /\ Torn \notin Members(spool') \union Members(buffer')
                       /\ NothingForgotten'
                       /\ indexer'.pc = "complete"
                       /\ indexer'.doc \in Members(spool') \union Members(buffer')
    BY DEF TrustedProcess
  <2>1. /\ note' = note /\ written' = written + 1 /\ spool' = spool /\ frontier' = frontier
        /\ buffer' = Append(buffer, Head(channel))
    BY <1>3 DEF Receive, disk
  <2>2. Head(channel) \in Urls
    BY HeadTailProperties DEF Receive, TypeOK
  <2>3. Head(channel) # Torn /\ Head(channel) \in Record
    BY <2>2, CrawlAssumption DEF Record
  <2>4. buffer \in Seq(Record) /\ spool \in Seq(Record) /\ written \in Nat
    BY DEF TypeOK, Record
  <2>5. Members(buffer') = Members(buffer) \union {Head(channel)} /\ Len(buffer') = Len(buffer) + 1
    BY <2>1, <2>3, <2>4, MembersOfAppend
  <2>6. /\ written = Len(spool) + Len(buffer) /\ NothingForgotten
        /\ Torn \notin Members(spool) \union Members(buffer)
    BY <2>1 DEF NoGapInv, TrustedProcess, Receive, Indexing
  <2>7. indexer'.pc = "complete" /\ indexer'.doc = Head(channel)
    BY DEF Receive, TypeOK, IndexerType
  <2>8. Len(spool) \in Nat /\ Len(buffer) \in Nat
    BY <2>4, LenProperties
  <2>9. NothingForgotten'
    BY <2>1, <2>5, <2>6 DEF NothingForgotten
  <2>. QED  BY <2>1, <2>3, <2>4, <2>5, <2>6, <2>7, <2>8, <2>9
<1>. QED  BY <1>1, <1>2, <1>4 DEF NoGapInv

(* A page leaves the frontier only when it is in the spool. *)
LEMMA CompleteNoGap ==
  ASSUME TypeOK, NoGapInv, Complete
  PROVE  NoGapInv'
<1>1. CheckpointLeavesNoGap'
  BY SavedUntouched DEF NoGapInv, Complete, disk, history
<1>2. indexer'.pc \in {"flush", "receive"}
  <2>1. PICK due \in BOOLEAN :
          indexer' = [indexer EXCEPT !.pc    = IF due THEN "flush" ELSE "receive",
                                     !.doc   = None,
                                     !.since = IF due THEN 0 ELSE @ + 1]
    BY Zenon DEF Complete
  <2>. QED  BY <2>1 DEF TypeOK, IndexerType
<1>3. SnapshotLeavesNoGap'
  BY <1>2 DEF SnapshotLeavesNoGap
<1>4. TrustedProcess'
  <2>. SUFFICES ASSUME phase' = "crawling", note'.trusted
                PROVE  /\ written' = Len(spool') + Len(buffer')
                       /\ Torn \notin Members(spool') \union Members(buffer')
                       /\ NothingForgotten'
    BY <1>2 DEF TrustedProcess
  <2>1. /\ spool' = spool /\ buffer' = buffer /\ written' = written /\ note' = note
        /\ frontier' = Completed(frontier, indexer.doc)
        /\ phase = "crawling" /\ indexer.pc = "complete"
    BY DEF Complete, disk, history, Indexing
  <2>2. /\ written = Len(spool) + Len(buffer) /\ NothingForgotten
        /\ Torn \notin Members(spool) \union Members(buffer)
        /\ indexer.doc \in Members(spool) \union Members(buffer)
    BY <2>1 DEF NoGapInv, TrustedProcess
  <2>3. /\ frontier'.seen = frontier.seen /\ frontier'.queue = frontier.queue
        /\ frontier'.inFlight = {p \in frontier.inFlight : p.url # indexer.doc}
    BY <2>1 DEF Completed, TypeOK, FrontierType
  <2>4. UrlsOf(frontier.inFlight) \subseteq UrlsOf(frontier'.inFlight) \union {indexer.doc}
    BY <2>3 DEF UrlsOf
  <2>5. NothingForgotten'
    BY <2>1, <2>2, <2>3, <2>4 DEF NothingForgotten
  <2>. QED  BY <2>1, <2>2, <2>5
<1>. QED  BY <1>1, <1>3, <1>4 DEF NoGapInv

LEMMA FlushNoGap ==
  ASSUME TypeOK, NoGapInv, Flush
  PROVE  NoGapInv'
<1>0. buffer \in Seq(Record) /\ spool \in Seq(Record)
  BY DEF TypeOK, Record
<1>1. CheckpointLeavesNoGap'
  BY <1>0, SavedStaysGood DEF NoGapInv, Flush, history
<1>2. indexer'.pc = "snapshot"
  BY DEF Flush, TypeOK, IndexerType
<1>3. SnapshotLeavesNoGap'
  BY <1>2 DEF SnapshotLeavesNoGap
<1>4. /\ Members(spool') \union Members(buffer') = Members(spool) \union Members(buffer)
      /\ Len(spool') + Len(buffer') = Len(spool) + Len(buffer) /\ buffer' = <<>>
  <2>1. Members(spool') = Members(spool) \union Members(buffer) /\ buffer' = <<>>
    BY <1>0, MembersOfConcat DEF Flush
  <2>2. Len(spool') = Len(spool) + Len(buffer)
    BY <1>0, ConcatProperties DEF Flush
  <2>3. Len(spool) \in Nat /\ Len(buffer) \in Nat
    BY <1>0, LenProperties
  <2>. QED  BY <2>1, <2>2, <2>3, MembersOfEmpty
<1>5. TrustedProcess'
  <2>1. NothingForgotten /\ note' = note /\ frontier' = frontier => NothingForgotten'
    BY <1>4 DEF NothingForgotten
  <2>. QED  BY <1>2, <1>4, <2>1 DEF NoGapInv, TrustedProcess, Flush, Indexing, history
<1>. QED  BY <1>1, <1>3, <1>5 DEF NoGapInv

LEMMA FlushFailsNoGap ==
  ASSUME TypeOK, NoGapInv, FlushFails
  PROVE  NoGapInv'
<1>0. buffer \in Seq(Record) /\ spool \in Seq(Record)
  BY DEF TypeOK, Record
<1>k. PICK k \in 0..Len(buffer) : /\ spool' = spool \o SubSeq(buffer, 1, k)
                                  /\ buffer' = SubSeq(buffer, k + 1, Len(buffer))
  BY DEF FlushFails
<1>1. CheckpointLeavesNoGap'
  BY <1>k, PieceType, SavedStaysGood DEF NoGapInv, FlushFails, history
<1>2. indexer'.pc \in {"receive", "done"}
  BY DEF FlushFails, AfterSave, TypeOK, IndexerType
<1>3. SnapshotLeavesNoGap'
  BY <1>2 DEF SnapshotLeavesNoGap
<1>4. /\ Members(spool') \union Members(buffer') = Members(spool) \union Members(buffer)
      /\ Len(spool') + Len(buffer') = Len(spool) + Len(buffer)
  <2>1. /\ SubSeq(buffer, 1, k) \in Seq(Record) /\ Len(SubSeq(buffer, 1, k)) = k
        /\ Len(buffer') = Len(buffer) - k
        /\ Members(buffer) = Members(SubSeq(buffer, 1, k)) \union Members(buffer')
    BY <1>0, <1>k, MembersOfCut
  <2>2. Members(spool') = Members(spool) \union Members(SubSeq(buffer, 1, k))
    <3>. DEFINE piece == SubSeq(buffer, 1, k)
    <3>1. piece \in Seq(Record) /\ spool' = spool \o piece
      BY <1>k, <2>1
    <3>. HIDE DEF piece
    <3>2. Members(spool') = Members(spool) \union Members(piece)
      BY <1>0, <3>1, MembersOfConcat
    <3>. QED  BY <3>2 DEF piece
  <2>3. Len(spool') = Len(spool) + k
    BY <1>0, <1>k, <2>1, ConcatProperties
  <2>4. Len(spool) \in Nat /\ Len(buffer) \in Nat
    BY <1>0, LenProperties
  <2>5. Len(spool') + Len(buffer') = Len(spool) + Len(buffer)
    <3>1. k \in Nat
      OBVIOUS
    <3>. QED  BY <2>1, <2>3, <2>4, <3>1
  <2>6. Members(spool') \union Members(buffer') = Members(spool) \union Members(buffer)
    BY <2>1, <2>2, Zenon
  <2>. QED  BY <2>5, <2>6
<1>5. TrustedProcess'
  <2>1. NothingForgotten /\ note' = note /\ frontier' = frontier => NothingForgotten'
    BY <1>4 DEF NothingForgotten
  <2>. QED  BY <1>2, <1>4, <2>1 DEF NoGapInv, TrustedProcess, FlushFails, Indexing, history
<1>. QED  BY <1>1, <1>3, <1>5 DEF NoGapInv

(* The frontier about to be saved accounts for the whole spool. *)
LEMMA TakeSnapshotNoGap ==
  ASSUME TypeOK, NoGapInv, TakeSnapshot
  PROVE  NoGapInv'
<1>1. CheckpointLeavesNoGap'
  BY SavedUntouched DEF NoGapInv, TakeSnapshot, disk
<1>2. indexer'.pc = "write"
  BY DEF TakeSnapshot, TypeOK, IndexerType
<1>3. phase = "crawling" /\ indexer.pc = "snapshot" /\ note' = note /\ snapNote' = note
      /\ UNCHANGED <<phase, frontier, buffer, written, spool>>
  BY DEF TakeSnapshot, Indexing, disk
<1>4. TrustedProcess'
  BY <1>2, <1>3 DEF NoGapInv, TrustedProcess, NothingForgotten
<1>5. SnapshotLeavesNoGap'
  <2>. SUFFICES ASSUME note.trusted
                PROVE  NoGap(snap', spool, note.waived)
    BY <1>3 DEF SnapshotLeavesNoGap
  <2>1. PICK order \in Orderings(frontier.inFlight) :
          snap' = Snapshot(frontier, written, order)
    BY DEF TakeSnapshot
  <2>2. /\ snap' \in SnapshotType /\ order \in Seq(Pending)
        /\ Waiting(order) = UrlsOf(frontier.inFlight)
    BY <2>1, SnapshotTypeCorrect DEF TypeOK
  <2>3. /\ snap'.queue = frontier.queue \o order /\ snap'.seen = frontier.seen
        /\ snap'.spooled = written
    BY <2>1 DEF Snapshot
  <2>4. Waiting(snap'.queue) = Waiting(frontier.queue) \union UrlsOf(frontier.inFlight)
    BY <2>2, <2>3, WaitingOfConcat DEF TypeOK, FrontierType
  <2>5. /\ written = Len(spool) + Len(buffer) /\ Torn \notin Members(spool)
        /\ NothingForgotten /\ buffer = <<>>
    BY <1>3 DEF NoGapInv, TrustedProcess
  <2>6. spool \in Seq(Record) /\ Len(spool) \in Nat
    BY LenProperties DEF TypeOK, Record
  <2>7. snap'.spooled = Len(spool) /\ Members(buffer) = {}
    BY <2>3, <2>5, <2>6, MembersOfEmpty
  <2>8. Members(Accounted(snap', spool)) = Members(spool)
    <3>1. snap' \in SnapshotType /\ spool \in Seq(Record) /\ snap'.spooled <= Len(spool)
      BY <2>2, <2>6, <2>7
    <3>2. Members(Accounted(snap', spool)) = {spool[i] : i \in 1..snap'.spooled}
      BY <3>1, MembersAccounted
    <3>3. Members(Accounted(snap', spool)) = {spool[i] : i \in 1..Len(spool)}
      BY <2>7, <3>2
    <3>. QED  BY <3>3, <2>6, LenProperties DEF Members
  <2>9. Readable(snap', spool)
    <3>1. \A i \in 1..Len(spool) : spool[i] \in Members(spool)
      BY <2>6, LenProperties DEF Members
    <3>. QED  BY <2>5, <2>6, <2>7, <3>1 DEF Readable
  <2>. QED  BY <2>3, <2>4, <2>5, <2>7, <2>8, <2>9 DEF NoGap, Covered, NothingForgotten
<1>. QED  BY <1>1, <1>4, <1>5 DEF NoGapInv

LEMMA WriteFrontierNoGap ==
  ASSUME TypeOK, NoGapInv, WriteFrontier
  PROVE  NoGapInv'
<1>1. indexer'.pc \in {"receive", "done"}
  BY DEF WriteFrontier, AfterSave, TypeOK, IndexerType
<1>2. CheckpointLeavesNoGap'
  <2>1. CASE saved' = snap /\ savedNote' = snapNote
    BY <2>1 DEF NoGapInv, SnapshotLeavesNoGap, CheckpointLeavesNoGap, WriteFrontier, Indexing
  <2>2. CASE UNCHANGED <<saved, savedNote>>
    BY <2>2, SavedUntouched DEF NoGapInv, WriteFrontier
  <2>. QED  BY <2>1, <2>2 DEF WriteFrontier
<1>3. SnapshotLeavesNoGap'
  BY <1>1 DEF SnapshotLeavesNoGap
<1>4. TrustedProcess'
  BY <1>1 DEF NoGapInv, TrustedProcess, NothingForgotten, WriteFrontier, Indexing
<1>. QED  BY <1>2, <1>3, <1>4 DEF NoGapInv

LEMMA IndexerStepNoGap ==
  ASSUME TypeOK, NoGapInv, IndexerStep
  PROVE  NoGapInv'
<1>1. CASE Close
  <2>1. indexer'.pc = "flush"
    BY <1>1 DEF Close, TypeOK, IndexerType
  <2>2. CheckpointLeavesNoGap'
    BY <1>1, SavedUntouched DEF NoGapInv, Close, disk, history
  <2>3. SnapshotLeavesNoGap'
    BY <2>1 DEF SnapshotLeavesNoGap
  <2>4. TrustedProcess'
    BY <1>1, <2>1 DEF NoGapInv, TrustedProcess, NothingForgotten, Close, disk, history
  <2>. QED  BY <2>2, <2>3, <2>4 DEF NoGapInv
<1>. QED  BY <1>1, ReceiveNoGap, CompleteNoGap, FlushNoGap, FlushFailsNoGap,
             TakeSnapshotNoGap, WriteFrontierNoGap DEF IndexerStep

-----------------------------------------------------------------------------
(* The program starts, resumes, dies and ends. *)

(* Outside a crawl, and where one begins with nothing buffered, only the   *)
(* saved frontier is at stake.                                             *)
LEMMA OutsideCrawl ==
  ASSUME CheckpointLeavesNoGap', phase' # "crawling"
  PROVE  NoGapInv'
BY DEF NoGapInv, TrustedProcess, SnapshotLeavesNoGap

LEMMA BegunCrawl ==
  ASSUME CheckpointLeavesNoGap', FreshMemory,
         note'.trusted => spool' = <<>> /\ frontier'.seen \subseteq Waiting(frontier'.queue)
                                                                    \union note'.waived
  PROVE  NoGapInv'
<1>1. /\ buffer' = <<>> /\ written' = 0 /\ indexer'.pc = "receive"
  BY DEF FreshMemory, ReadyIndexer
<1>2. SnapshotLeavesNoGap'
  BY <1>1 DEF SnapshotLeavesNoGap
<1>3. TrustedProcess'
  BY <1>1, MembersOfEmpty DEF TrustedProcess, NothingForgotten
<1>. QED  BY <1>2, <1>3 DEF NoGapInv

LEMMA StartFreshNoGap ==
  ASSUME TypeOK, NoGapInv, StartFresh
  PROVE  NoGapInv'
<1>1. CheckpointLeavesNoGap'
  BY SavedUntouched DEF NoGapInv, StartFresh, disk
<1>2. NewFrontier.seen \subseteq Waiting(NewFrontier.queue)
  BY DEF NewFrontier, Waiting, Members
<1>3. note'.trusted => spool' = <<>>
  BY DEF StartFresh, EmptyNote, disk
<1>. QED  BY <1>1, <1>2, <1>3, BegunCrawl DEF StartFresh

(* A crawl that is trusted again found no spool: everything its checkpoint *)
(* has seen is queued or waived.                                           *)
LEMMA ResumeNoGap ==
  ASSUME TypeOK, NoGapInv, Resume
  PROVE  NoGapInv'
<1>1. CheckpointLeavesNoGap'
  BY SavedUntouched DEF NoGapInv, Resume, disk
<1>2. ASSUME note'.trusted
      PROVE  /\ spool' = <<>>
             /\ frontier'.seen \subseteq Waiting(frontier'.queue) \union note'.waived
  <2>1. savedNote.trusted /\ spool = <<>> /\ note'.waived = savedNote.waived
    BY <1>2 DEF Resume, TypeOK, Note
  <2>2. NoGap(saved, spool, savedNote.waived) /\ saved \in SnapshotType
    BY <2>1 DEF NoGapInv, CheckpointLeavesNoGap, Resume, TypeOK
  <2>3. saved.spooled \in Nat /\ saved.spooled <= 0
    BY <2>1, <2>2, MembersOfEmpty DEF NoGap, Readable, SnapshotType
  <2>4. Members(Accounted(saved, spool)) = {}
    <3>1. spool \in Seq(Record) /\ saved.spooled <= Len(spool)
      BY <2>2 DEF TypeOK, Record, NoGap, Readable
    <3>2. Members(Accounted(saved, spool)) = {spool[i] : i \in 1..saved.spooled}
      BY <2>2, <3>1, MembersAccounted
    <3>3. 1..saved.spooled = {}
      BY <2>3
    <3>. QED  BY <3>2, <3>3
  <2>5. frontier'.seen = saved.seen /\ frontier'.queue = saved.queue /\ spool' = spool
    BY DEF Resume, Restore, disk
  <2>. QED  BY <2>1, <2>2, <2>4, <2>5 DEF NoGap, Covered
<1>. QED  BY <1>1, <1>2, BegunCrawl DEF Resume

(* Whatever a dying process leaves of its buffer goes to the spool's end.  *)
LEMMA CrashSpills ==
  ASSUME TypeOK, Crash
  PROVE  \E t \in Seq(Record) : spool' = spool \o t
<1>1. Len(buffer) \in Nat
  BY LenProperties DEF TypeOK
<1>2. \/ \E k \in 0..Len(buffer) : spool' = spool \o SubSeq(buffer, 1, k)
      \/ \E k \in 0..(Len(buffer) - 1) : spool' = spool \o Append(SubSeq(buffer, 1, k), Torn)
  BY DEF Crash, Spilled
<1>3. \A k \in 0..(Len(buffer) - 1) : k \in 0..Len(buffer)
  BY <1>1
<1>. QED  BY <1>2, <1>3, PieceType

LEMMA CrashNoGap ==
  ASSUME TypeOK, NoGapInv, Crash
  PROVE  NoGapInv'
<1>1. CheckpointLeavesNoGap'
  BY CrashSpills, SavedStaysGood DEF NoGapInv, Crash
<1>. QED  BY <1>1, OutsideCrawl DEF Crash

LEMMA CommandStepNoGap ==
  ASSUME TypeOK, NoGapInv, CommandStep
  PROVE  NoGapInv'
<1>1. CASE WriteIndex
  <2>1. CheckpointLeavesNoGap'
    BY <1>1, PieceType, SavedStaysGood DEF NoGapInv, WriteIndex, history
  <2>. QED  BY <1>1, <2>1, OutsideCrawl DEF WriteIndex
<1>2. CASE KeepCheckpoint
  <2>1. CheckpointLeavesNoGap'
    BY <1>2, SavedUntouched DEF NoGapInv, KeepCheckpoint, disk, history
  <2>. QED  BY <1>2, <2>1, OutsideCrawl DEF KeepCheckpoint
<1>3. CASE DiscardSpool
  <2>1. CheckpointLeavesNoGap'
    BY <1>3 DEF DiscardSpool, CheckpointLeavesNoGap, TypeOK, Note
  <2>. QED  BY <1>3, <2>1, OutsideCrawl DEF DiscardSpool
<1>4. CASE DiscardFrontier
  <2>1. CheckpointLeavesNoGap'
    BY <1>4 DEF DiscardFrontier, CheckpointLeavesNoGap
  <2>. QED  BY <1>4, <2>1, OutsideCrawl DEF DiscardFrontier
<1>. QED  BY <1>1, <1>2, <1>3, <1>4 DEF CommandStep

LEMMA NextNoGap == TypeOK /\ NoGapInv /\ [Next]_vars => NoGapInv'
<1>. SUFFICES ASSUME TypeOK, NoGapInv, [Next]_vars  PROVE NoGapInv'
  OBVIOUS
<1>1. CASE UNCHANGED vars
  BY <1>1 DEF vars, memory, disk, history, NoGapInv, TrustedProcess, NothingForgotten,
              SnapshotLeavesNoGap, CheckpointLeavesNoGap
<1>2. CASE ResumeRefused
  <2>1. CheckpointLeavesNoGap'
    BY <1>2, SavedUntouched DEF NoGapInv, ResumeRefused, disk, history
  <2>. QED  BY <1>2, <2>1, OutsideCrawl DEF ResumeRefused
<1>3. CASE Next
  BY <1>1, <1>2, <1>3, WorkerStepNoGap, IndexerStepNoGap, CommandStepNoGap, StartFreshNoGap,
     ResumeNoGap, CrashNoGap DEF Next, Ended
<1>. QED  BY <1>1, <1>3

LEMMA NoGapHolds == Spec => []NoGapInv
<1>1. Init => NoGapInv
  BY DEF Init, NoGapInv, TrustedProcess, SnapshotLeavesNoGap, CheckpointLeavesNoGap
<1>. QED  BY <1>1, NextNoGap, TypeCorrect, PTL DEF Spec

(* Every URL a trusted frontier on disk calls seen is in its queue, among   *)
(* the readable pages it accounts for, or was dropped for the budget: a     *)
(* crash at any step, between any two writes, loses no page.                *)
THEOREM CheckpointNeverLeavesGap == Spec => []CheckpointLeavesNoGap
<1>1. NoGapInv => CheckpointLeavesNoGap
  BY DEF NoGapInv
<1>. QED  BY <1>1, NoGapHolds, PTL

-----------------------------------------------------------------------------
(* Cuts of sequences. *)

LEMMA PrefixOf ==
  ASSUME NEW S, NEW s \in Seq(S), NEW k \in 0..Len(s)
  PROVE  /\ SubSeq(s, 1, k) \in Seq(S) /\ Len(SubSeq(s, 1, k)) = k
         /\ DOMAIN SubSeq(s, 1, k) = 1..k
         /\ \A i \in 1..k : SubSeq(s, 1, k)[i] = s[i]
<1>1. Len(s) \in Nat /\ k \in Nat /\ k <= Len(s)
  BY LenProperties
<1>2. SubSeq(s, 1, k) \in Seq(S) /\ Len(SubSeq(s, 1, k)) = k
  BY MembersOfCut
<1>3. \A i \in 1..(k - 1 + 1) : SubSeq(s, 1, k)[i] = s[1 + i - 1]
  BY <1>1, SliceIsSequence
<1>4. \A i \in 1..k : SubSeq(s, 1, k)[i] = s[i]
  BY <1>1, <1>3
<1>. QED  BY <1>2, <1>4, LenProperties

LEMMA SuffixOf ==
  ASSUME NEW S, NEW s \in Seq(S), NEW k \in 0..Len(s)
  PROVE  /\ SubSeq(s, k + 1, Len(s)) \in Seq(S)
         /\ Len(SubSeq(s, k + 1, Len(s))) = Len(s) - k
         /\ DOMAIN SubSeq(s, k + 1, Len(s)) = 1..(Len(s) - k)
         /\ \A i \in 1..(Len(s) - k) : SubSeq(s, k + 1, Len(s))[i] = s[k + i]
<1>1. Len(s) \in Nat /\ k \in Nat /\ k <= Len(s)
  BY LenProperties
<1>2. /\ SubSeq(s, k + 1, Len(s)) \in Seq(S)
      /\ Len(SubSeq(s, k + 1, Len(s))) = Len(s) - k
  BY MembersOfCut
<1>. DEFINE m == k + 1
<1>3. m \in Nat \ {0} /\ Len(s) <= Len(s)
  BY <1>1
<1>. HIDE DEF m
<1>4. \A i \in 1..(Len(s) - m + 1) : SubSeq(s, m, Len(s))[i] = s[m + i - 1]
  BY <1>1, <1>3, SliceIsSequence
<1>5. \A i \in 1..(Len(s) - k) : i \in 1..(Len(s) - m + 1) /\ m + i - 1 = k + i
  BY <1>1 DEF m
<1>6. \A i \in 1..(Len(s) - k) : SubSeq(s, m, Len(s))[i] = s[k + i]
  BY <1>4, <1>5
<1>. QED  BY <1>2, <1>6, LenProperties DEF m

(* Moving the head of one sequence to the end of another moves nothing.     *)
LEMMA HandOver ==
  ASSUME NEW S, NEW b \in Seq(S), NEW c \in Seq(S), c # <<>>
  PROVE  Append(b, Head(c)) \o Tail(c) = b \o c
<1>1. /\ Head(c) \in S /\ Tail(c) \in Seq(S) /\ Len(Tail(c)) = Len(c) - 1
      /\ \A i \in 1..Len(Tail(c)) : Tail(c)[i] = c[i + 1]
  BY HeadTailProperties
<1>2. Head(c) = c[1]
  OBVIOUS
<1>. DEFINE bh == Append(b, Head(c))
<1>3. /\ bh \in Seq(S) /\ Len(bh) = Len(b) + 1 /\ \A i \in 1..Len(b) : bh[i] = b[i]
      /\ bh[Len(b) + 1] = c[1]
  BY <1>1, <1>2, AppendProperties
<1>. HIDE DEF bh
<1>4. Len(b) \in Nat /\ Len(c) \in Nat \ {0}
  BY LenProperties, EmptySeq
<1>5. /\ bh \o Tail(c) \in Seq(S) /\ Len(bh \o Tail(c)) = Len(bh) + Len(Tail(c))
      /\ \A i \in 1..Len(bh) + Len(Tail(c)) :
           (bh \o Tail(c))[i] = IF i <= Len(bh) THEN bh[i] ELSE Tail(c)[i - Len(bh)]
  BY <1>1, <1>3, ConcatProperties
<1>6. /\ b \o c \in Seq(S) /\ Len(b \o c) = Len(b) + Len(c)
      /\ \A i \in 1..Len(b) + Len(c) :
           (b \o c)[i] = IF i <= Len(b) THEN b[i] ELSE c[i - Len(b)]
  BY ConcatProperties
<1>7. Len(bh) + Len(Tail(c)) = Len(b) + Len(c)
  BY <1>1, <1>3, <1>4
<1>8. ASSUME NEW i \in 1..Len(b) + Len(c)
      PROVE  (bh \o Tail(c))[i] = (b \o c)[i]
  <2>1. CASE i <= Len(b)
    BY <1>3, <1>4, <1>5, <1>6, <1>7, <2>1
  <2>2. CASE i = Len(b) + 1
    BY <1>3, <1>4, <1>5, <1>6, <1>7, <2>2
  <2>3. CASE i > Len(b) + 1
    <3>1. i - Len(bh) \in 1..Len(Tail(c)) /\ i - Len(bh) + 1 = i - Len(b)
      BY <1>1, <1>3, <1>4, <2>3
    <3>2. Tail(c)[i - Len(bh)] = c[i - Len(b)]
      BY <1>1, <3>1
    <3>. QED  BY <1>3, <1>4, <1>5, <1>6, <1>7, <2>3, <3>2
  <2>4. i <= Len(b) \/ i = Len(b) + 1 \/ i > Len(b) + 1
    BY <1>4
  <2>. QED  BY <2>1, <2>2, <2>3, <2>4
<1>9. bh \o Tail(c) = b \o c
  BY <1>5, <1>6, <1>7, <1>8, SeqEqual
<1>. QED  BY <1>9 DEF bh

(* Append at the end of a concatenation. *)
LEMMA AppendToConcat ==
  ASSUME NEW S, NEW b \in Seq(S), NEW c \in Seq(S), NEW x \in S
  PROVE  b \o Append(c, x) = Append(b \o c, x)
<1>1. <<x>> \in Seq(S)
  OBVIOUS
<1>2. b \o c \in Seq(S)
  BY ConcatProperties
<1>3. Append(c, x) = c \o <<x>> /\ Append(b \o c, x) = (b \o c) \o <<x>>
  BY <1>2, AppendIsConcat
<1>. QED  BY <1>1, <1>3, ConcatAssociative

(* An ordering lists no element twice. *)
LEMMA OrderingListsOnce ==
  ASSUME NEW S, IsFiniteSet(S), NEW s \in Orderings(S)
  PROVE  \A i, j \in DOMAIN s : s[i] = s[j] => i = j
<1>. DEFINE n == Cardinality(S)
<1>1. n \in Nat
  BY FS_CardinalityType
<1>2. IsFiniteSet(1..n) /\ Cardinality(1..n) = n
  BY <1>1, FS_Interval
<1>3. s \in [1..n -> S] /\ \A x \in S : \E i \in 1..n : s[i] = x
  BY DEF Orderings
<1>4. s \in Surjection(1..n, S)
  BY <1>3 DEF Surjection
<1>5. s \in Injection(1..n, S)
  BY <1>2, <1>4, FS_SurjSameCardinalityImpliesInj
<1>6. \A i, j \in 1..n : s[i] = s[j] => i = j
  BY <1>5 DEF Injection, IsInjective
<1>. QED  BY <1>3, <1>6

-----------------------------------------------------------------------------
(* Pages of one host. *)

LEMMA PagesOfType ==
  ASSUME NEW s \in Seq(Urls), NEW h \in Hosts
  PROVE  /\ IsFiniteSet({i \in DOMAIN s : HostOf[s[i]] = h})
         /\ PagesOf(s, h) \in Nat
<1>1. DOMAIN s = 1..Len(s) /\ Len(s) \in Nat
  BY LenProperties
<1>2. IsFiniteSet(1..Len(s))
  BY <1>1, FS_Interval
<1>3. {i \in DOMAIN s : HostOf[s[i]] = h} \in SUBSET (1..Len(s))
  BY <1>1
<1>. QED  BY <1>2, <1>3, FS_Subset, FS_CardinalityType DEF PagesOf

LEMMA PagesOfEmpty ==
  ASSUME NEW h \in Hosts
  PROVE  PagesOf(<<>>, h) = 0
<1>1. {i \in DOMAIN <<>> : HostOf[<<>>[i]] = h} = {}
  OBVIOUS
<1>. QED  BY <1>1, FS_EmptySet DEF PagesOf

LEMMA PagesOfAppend ==
  ASSUME NEW s \in Seq(Urls), NEW u \in Urls, NEW h \in Hosts
  PROVE  PagesOf(Append(s, u), h) = IF HostOf[u] = h THEN PagesOf(s, h) + 1 ELSE PagesOf(s, h)
<1>. DEFINE su == Append(s, u)
            old == {i \in DOMAIN s : HostOf[s[i]] = h}
            new == {i \in DOMAIN su : HostOf[su[i]] = h}
<1>1. /\ su \in Seq(Urls) /\ Len(su) = Len(s) + 1 /\ \A i \in 1..Len(s) : su[i] = s[i]
      /\ su[Len(s) + 1] = u
  BY AppendProperties
<1>2. DOMAIN s = 1..Len(s) /\ DOMAIN su = 1..(Len(s) + 1) /\ Len(s) \in Nat
  BY <1>1, LenProperties
<1>. HIDE DEF su
<1>3. new = IF HostOf[u] = h THEN old \union {Len(s) + 1} ELSE old
  BY <1>1, <1>2
<1>4. Len(s) + 1 \notin old
  BY <1>2
<1>5. IsFiniteSet(old)
  BY PagesOfType
<1>. HIDE DEF old, new
<1>6. Cardinality(new) = IF HostOf[u] = h THEN Cardinality(old) + 1 ELSE Cardinality(old)
  BY <1>3, <1>4, <1>5, FS_AddElement
<1>. QED  BY <1>6 DEF PagesOf, old, new, su

(* What is in front holds no more. *)
LEMMA PagesOfConcat ==
  ASSUME NEW s \in Seq(Urls), NEW t \in Seq(Urls), NEW h \in Hosts
  PROVE  PagesOf(s, h) <= PagesOf(s \o t, h)
<1>. DEFINE st == s \o t
            old == {i \in DOMAIN s : HostOf[s[i]] = h}
            new == {i \in DOMAIN st : HostOf[st[i]] = h}
<1>1. /\ st \in Seq(Urls) /\ Len(st) = Len(s) + Len(t)
      /\ \A i \in 1..Len(s) + Len(t) : st[i] = IF i <= Len(s) THEN s[i] ELSE t[i - Len(s)]
  BY ConcatProperties
<1>2. /\ DOMAIN s = 1..Len(s) /\ DOMAIN st = 1..Len(st) /\ Len(s) \in Nat /\ Len(t) \in Nat
  BY <1>1, LenProperties
<1>3. IsFiniteSet(new)
  BY <1>1, PagesOfType
<1>. HIDE DEF st
<1>4. \A i \in 1..Len(s) : i \in DOMAIN st /\ st[i] = s[i]
  BY <1>1, <1>2
<1>5. old \in SUBSET new
  BY <1>2, <1>4
<1>6. Cardinality(old) <= Cardinality(new)
  BY <1>3, <1>5, FS_Subset
<1>. QED  BY <1>6 DEF PagesOf, st

-----------------------------------------------------------------------------
(* What the operators of Frontier do to a queue that lists no URL twice. *)

LEMMA SeenIsFinite ==
  ASSUME NEW seen \in SUBSET Urls
  PROVE  IsFiniteSet(seen) /\ Cardinality(seen) \in Nat
BY FrontierAssumption, FS_Subset, FS_CardinalityType

LEMMA SeenGrows ==
  ASSUME NEW seen \in SUBSET Urls, NEW more \in SUBSET Urls, seen \subseteq more
  PROVE  /\ Cardinality(seen) <= Cardinality(more)
         /\ seen # more => Cardinality(seen) < Cardinality(more)
<1>1. IsFiniteSet(more) /\ Cardinality(more) \in Nat /\ Cardinality(seen) \in Nat
  BY SeenIsFinite
<1>2. seen \in SUBSET more
  OBVIOUS
<1>3. Cardinality(seen) <= Cardinality(more)
  BY <1>1, <1>2, FS_Subset
<1>4. Cardinality(more) = Cardinality(seen) => more = seen
  BY <1>1, <1>2, FS_Subset
<1>. QED  BY <1>1, <1>3, <1>4

LEMMA RestQueuedOnce ==
  ASSUME NEW q \in Seq(Pending), NEW seen, NEW k \in 0..Len(q), QueuedOnce(q, seen)
  PROVE  /\ QueuedOnce(SubSeq(q, k + 1, Len(q)), seen)
         /\ Waiting(SubSeq(q, k + 1, Len(q))) \subseteq Waiting(q)
         /\ k # 0 => q[k].url \notin Waiting(SubSeq(q, k + 1, Len(q)))
<1>. DEFINE rest == SubSeq(q, k + 1, Len(q))
<1>1. DOMAIN q = 1..Len(q) /\ Len(q) \in Nat /\ k \in Nat /\ k <= Len(q)
  BY LenProperties
<1>2. DOMAIN rest = 1..(Len(q) - k) /\ \A i \in 1..(Len(q) - k) : rest[i] = q[k + i]
  BY SuffixOf
<1>3. \A i \in DOMAIN rest : i \in Nat /\ k + i \in DOMAIN q /\ k + i # k /\ rest[i] = q[k + i]
  BY <1>1, <1>2
<1>. HIDE DEF rest
<1>4. /\ Waiting(q) \subseteq seen
      /\ \A i, j \in DOMAIN q : q[i].url = q[j].url => i = j
      /\ \A i \in DOMAIN q : q[i].depth < Cardinality(seen)
  BY DEF QueuedOnce
<1>5. Waiting(rest) \subseteq Waiting(q)
  BY <1>3 DEF Waiting
<1>6. ASSUME NEW i \in DOMAIN rest, NEW j \in DOMAIN rest, rest[i].url = rest[j].url
      PROVE  i = j
  <2>1. k + i = k + j
    BY <1>3, <1>4, <1>6
  <2>. QED  BY <1>1, <1>3, <2>1
<1>7. \A i \in DOMAIN rest : rest[i].depth < Cardinality(seen)
  BY <1>3, <1>4
<1>8. k # 0 => q[k].url \notin Waiting(rest)
  <2>. SUFFICES ASSUME k # 0, NEW i \in DOMAIN rest, q[k].url = rest[i].url
                PROVE  FALSE
    BY DEF Waiting
  <2>1. k \in DOMAIN q
    BY <1>1
  <2>2. k = k + i
    BY <1>3, <1>4, <2>1
  <2>. QED  BY <1>3, <2>2
<1>. QED  BY <1>4, <1>5, <1>6, <1>7, <1>8 DEF QueuedOnce, rest

LEMMA ConcatQueuedOnce ==
  ASSUME NEW q \in Seq(Pending), NEW t \in Seq(Pending),
         NEW seen \in SUBSET Urls, NEW more \in SUBSET Urls, seen \subseteq more,
         QueuedOnce(q, seen),
         Waiting(t) \subseteq more \ Waiting(q),
         \A i, j \in DOMAIN t : t[i].url = t[j].url => i = j,
         \A i \in DOMAIN t : t[i].depth < Cardinality(more)
  PROVE  QueuedOnce(q \o t, more)
<1>. DEFINE qt == q \o t
<1>1. /\ qt \in Seq(Pending) /\ Len(qt) = Len(q) + Len(t)
      /\ \A i \in 1..Len(q) + Len(t) : qt[i] = IF i <= Len(q) THEN q[i] ELSE t[i - Len(q)]
  BY ConcatProperties
<1>2. /\ DOMAIN q = 1..Len(q) /\ DOMAIN t = 1..Len(t) /\ DOMAIN qt = 1..(Len(q) + Len(t))
      /\ Len(q) \in Nat /\ Len(t) \in Nat
  BY <1>1, LenProperties
<1>. HIDE DEF qt
<1>3. ASSUME NEW i \in DOMAIN qt
      PROVE  \/ i \in DOMAIN q /\ qt[i] = q[i]
             \/ i \in Int /\ i - Len(q) \in DOMAIN t /\ qt[i] = t[i - Len(q)]
  BY <1>1, <1>2
<1>4. /\ Waiting(q) \subseteq seen
      /\ \A i, j \in DOMAIN q : q[i].url = q[j].url => i = j
      /\ \A i \in DOMAIN q : q[i].depth < Cardinality(seen) /\ q[i] \in Pending
  BY <1>2, ElementOfSeq DEF QueuedOnce
<1>5. Waiting(qt) \subseteq more
  BY <1>3, <1>4 DEF Waiting
<1>6. ASSUME NEW i \in DOMAIN qt, NEW j \in DOMAIN qt, qt[i].url = qt[j].url
      PROVE  i = j
  <2>1. \A m \in DOMAIN q, n \in DOMAIN t : q[m].url # t[n].url
    BY DEF Waiting
  <2>. QED  BY <1>2, <1>3, <1>4, <1>6, <2>1
<1>7. ASSUME NEW i \in DOMAIN qt
      PROVE  qt[i].depth < Cardinality(more)
  <2>1. /\ Cardinality(seen) <= Cardinality(more)
        /\ Cardinality(seen) \in Nat /\ Cardinality(more) \in Nat
    BY SeenGrows, SeenIsFinite
  <2>2. \A m \in DOMAIN q : q[m].depth \in Nat
    BY <1>4 DEF Pending
  <2>3. \A m \in DOMAIN q : q[m].depth < Cardinality(more)
    BY <1>4, <2>1, <2>2
  <2>. QED  BY <1>3, <2>3
<1>. QED  BY <1>5, <1>6, <1>7 DEF QueuedOnce, qt

LEMMA SeedsAreUrls ==
  Members(Seeds) \in SUBSET Urls /\ SeedHosts \in SUBSET Hosts
BY FrontierAssumption, ElementOfSeq, LenProperties DEF Members, SeedHosts

LEMMA NewFrontierListed == Listed(NewFrontier)
<1>1. DOMAIN Seeds = 1..Len(Seeds) /\ \A i \in DOMAIN Seeds : Seeds[i] \in Members(Seeds)
  BY FrontierAssumption, LenProperties DEF Members
<1>2. /\ NewFrontier.queue = [i \in DOMAIN Seeds |-> [url |-> Seeds[i], depth |-> 0]]
      /\ NewFrontier.seen = Members(Seeds) /\ NewFrontier.seedHosts = SeedHosts
      /\ NewFrontier.handedOut = 0 /\ NewFrontier.perHost = [h \in Hosts |-> 0]
  BY DEF NewFrontier, SeedHosts
<1>. DEFINE q == NewFrontier.queue
<1>3. DOMAIN q = DOMAIN Seeds /\ \A i \in DOMAIN q : q[i].url = Seeds[i] /\ q[i].depth = 0
  BY <1>2
<1>. HIDE DEF q
<1>4. \A i \in DOMAIN Seeds : Cardinality(Members(Seeds)) > 0
  <2>1. IsFiniteSet(Members(Seeds)) /\ Cardinality(Members(Seeds)) \in Nat
    BY SeedsAreUrls, SeenIsFinite
  <2>2. Members(Seeds) # {} => Cardinality(Members(Seeds)) # 0
    BY <2>1, FS_EmptySet
  <2>. QED  BY <1>1, <2>1, <2>2
<1>5. Waiting(q) \subseteq Members(Seeds)
  BY <1>1, <1>3 DEF Waiting
<1>6. QueuedOnce(q, Members(Seeds))
  BY <1>3, <1>4, <1>5, FrontierAssumption DEF QueuedOnce
<1>7. {HostOf[u] : u \in Members(Seeds)} \subseteq SeedHosts
  BY DEF SeedHosts
<1>. QED  BY <1>2, <1>6, <1>7, FrontierAssumption DEF Listed, q

(* The URL next_url hands out leaves the queue, within both budgets; what   *)
(* it popped on the way is waived.                                          *)
LEMMA TakeDoes ==
  ASSUME TypeOK, Listed(frontier), NEW w \in Workers, Take(w)
  PROVE  \E p \in Pending :
           /\ p.url \in Waiting(frontier.queue) /\ p.depth < Cardinality(frontier.seen)
           /\ frontier'.seen = frontier.seen
           /\ QueuedOnce(frontier'.queue, frontier.seen)
           /\ Waiting(frontier'.queue) \subseteq Waiting(frontier.queue) \ {p.url}
           /\ Waiting(frontier.queue) \subseteq
                Waiting(frontier'.queue) \union {p.url} \union note'.waived
           /\ frontier'.inFlight = frontier.inFlight \union {p}
           /\ frontier'.handedOut = frontier.handedOut + 1 /\ frontier.handedOut < MaxPages
           /\ frontier'.perHost = Counted(frontier, p.url)
           /\ frontier.perHost[HostOf[p.url]] < MaxPagesPerHost
           /\ frontier'.seedHosts = frontier.seedHosts /\ frontier'.anchors = frontier.anchors
           /\ MoveTo(w, "fetching", p)
<1>1. PICK k \in DOMAIN frontier.queue :
        /\ IsNext(frontier, k)
        /\ frontier' = HandOut(frontier, k)
        /\ MoveTo(w, "fetching", frontier.queue[k])
        /\ note' = [note EXCEPT !.waived =
                      @ \union Waiting(SubSeq(frontier.queue, 1, k - 1))]
  BY DEF Take
<1>. DEFINE q == frontier.queue
            p == q[k]
            rest == SubSeq(q, k + 1, Len(q))
            front == SubSeq(q, 1, k - 1)
<1>2. q \in Seq(Pending) /\ DOMAIN q = 1..Len(q) /\ Len(q) \in Nat
  BY LenProperties DEF TypeOK, FrontierType
<1>3. k \in 1..Len(q) /\ k \in 0..Len(q) /\ k - 1 \in 0..Len(q) /\ k # 0
  BY <1>1, <1>2
<1>4. p \in Pending /\ p.url \in Waiting(q)
  BY <1>2, <1>3, ElementOfSeq DEF Waiting
<1>5. QueuedOnce(q, frontier.seen)
  BY DEF Listed
<1>6. /\ QueuedOnce(rest, frontier.seen) /\ Waiting(rest) \subseteq Waiting(q)
      /\ p.url \notin Waiting(rest)
  BY <1>2, <1>3, <1>5, RestQueuedOnce
<1>7. p.depth < Cardinality(frontier.seen)
  BY <1>2, <1>3, <1>5 DEF QueuedOnce
<1>8. Waiting(q) \subseteq Waiting(rest) \union {p.url} \union Waiting(front)
  <2>1. DOMAIN front = 1..(k - 1) /\ \A i \in 1..(k - 1) : front[i] = q[i]
    BY <1>2, <1>3, PrefixOf
  <2>2. DOMAIN rest = 1..(Len(q) - k) /\ \A i \in 1..(Len(q) - k) : rest[i] = q[k + i]
    BY <1>2, <1>3, SuffixOf
  <2>. HIDE DEF q, front, rest
  <2>3. ASSUME NEW i \in DOMAIN q
        PROVE  q[i].url \in Waiting(rest) \union {p.url} \union Waiting(front)
    <3>1. CASE i < k
      <4>1. i \in DOMAIN front /\ front[i] = q[i]
        BY <1>2, <1>3, <2>1, <3>1
      <4>. QED  BY <4>1 DEF Waiting
    <3>2. CASE i = k
      BY <3>2
    <3>3. CASE i > k
      <4>1. i - k \in DOMAIN rest /\ rest[i - k] = q[i]
        BY <1>2, <1>3, <2>2, <3>3
      <4>. QED  BY <4>1 DEF Waiting
    <3>. QED  BY <1>2, <1>3, <3>1, <3>2, <3>3
  <2>. QED  BY <2>3 DEF Waiting
<1>9. /\ frontier'.seen = frontier.seen /\ frontier'.queue = rest
      /\ frontier'.inFlight = frontier.inFlight \union {p}
      /\ frontier'.handedOut = frontier.handedOut + 1
      /\ frontier'.perHost = Counted(frontier, p.url)
      /\ frontier'.seedHosts = frontier.seedHosts /\ frontier'.anchors = frontier.anchors
  BY <1>1 DEF HandOut, TypeOK, FrontierType
<1>10. Waiting(front) \subseteq note'.waived
  BY <1>1 DEF TypeOK, Note
<1>11. frontier.handedOut < MaxPages
  BY FrontierAssumption DEF Take, OverBudget, TypeOK, FrontierType
<1>12. frontier.perHost[HostOf[p.url]] < MaxPagesPerHost
  <2>1. HostOf[p.url] \in Hosts
    BY <1>4, FrontierAssumption DEF Pending
  <2>2. frontier.perHost[HostOf[p.url]] \in Nat
    BY <2>1 DEF TypeOK, FrontierType
  <2>. QED  BY <1>1, <2>2, FrontierAssumption DEF IsNext, HostIsFull
<1>13. MoveTo(w, "fetching", p)
  BY <1>1
<1>. HIDE DEF q, rest, front
<1>14. Waiting(q) \subseteq Waiting(rest) \union {p.url} \union note'.waived
  BY <1>8, <1>10
<1>15. Waiting(rest) \subseteq Waiting(q) \ {p.url}
  BY <1>6
<1>16. /\ p.url \in Waiting(frontier.queue)
       /\ QueuedOnce(frontier'.queue, frontier.seen)
       /\ Waiting(frontier'.queue) \subseteq Waiting(frontier.queue) \ {p.url}
       /\ Waiting(frontier.queue) \subseteq
            Waiting(frontier'.queue) \union {p.url} \union note'.waived
  BY <1>4, <1>6, <1>9, <1>14, <1>15 DEF q
<1>. HIDE DEF p
<1>. QED  BY <1>4, <1>7, <1>9, <1>11, <1>12, <1>13, <1>16

LEMMA LeaveDoes ==
  ASSUME TypeOK, Listed(frontier), NEW w \in Workers, Leave(w)
  PROVE  /\ frontier'.seen = frontier.seen
         /\ QueuedOnce(frontier'.queue, frontier.seen)
         /\ Waiting(frontier'.queue) \subseteq Waiting(frontier.queue)
         /\ Waiting(frontier.queue) \subseteq Waiting(frontier'.queue) \union note'.waived
         /\ frontier'.inFlight = frontier.inFlight
         /\ frontier'.handedOut = frontier.handedOut
         /\ frontier'.perHost = frontier.perHost
         /\ frontier'.seedHosts = frontier.seedHosts
         /\ frontier'.anchors = frontier.anchors
         /\ frontier'.queue = <<>> \/ note'.waived # {}
         /\ MoveTo(w, "gone", None)
<1>. DEFINE q == frontier.queue
            n == PoppedForNothing(frontier)
<1>1. q \in Seq(Pending) /\ DOMAIN q = 1..Len(q) /\ Len(q) \in Nat
  BY LenProperties DEF TypeOK, FrontierType
<1>2. /\ frontier'.seen = frontier.seen /\ frontier'.inFlight = frontier.inFlight
      /\ frontier'.handedOut = frontier.handedOut /\ frontier'.perHost = frontier.perHost
      /\ frontier'.seedHosts = frontier.seedHosts /\ frontier'.anchors = frontier.anchors
      /\ frontier'.queue = SubSeq(q, n + 1, Len(q))
  BY DEF Leave, HandOutNothing, TypeOK, FrontierType
<1>3. note'.waived = note.waived \union (Waiting(q) \ Waiting(frontier'.queue))
  BY DEF Leave, TypeOK, Note
<1>4. MoveTo(w, "gone", None)
  BY DEF Leave
<1>5. QueuedOnce(q, frontier.seen)
  BY DEF Listed
<1>6. CASE n \in 0..Len(q)
  <2>. HIDE DEF q, n
  <2>1. /\ QueuedOnce(SubSeq(q, n + 1, Len(q)), frontier.seen)
        /\ Waiting(SubSeq(q, n + 1, Len(q))) \subseteq Waiting(q)
        /\ n # 0 => q[n].url \notin Waiting(SubSeq(q, n + 1, Len(q)))
    BY <1>1, <1>5, <1>6, RestQueuedOnce
  <2>2. frontier'.queue = <<>> \/ note'.waived # {}
    <3>0. CASE q = <<>>
      <4>1. n + 1 \in Int /\ Len(q) \in Int /\ Len(q) < n + 1
        BY <1>1, <1>6, <3>0, EmptySeq
      <4>. QED  BY <1>2, <4>1, SubSeqEmpty DEF q
    <3>1. CASE OverBudget(frontier)
      <4>1. n = 1 /\ q[n].url \in Waiting(q)
        BY <1>1, <1>6, <3>1 DEF n, PoppedForNothing, Waiting
      <4>. QED  BY <1>2, <1>3, <2>1, <4>1
    <3>2. CASE ~OverBudget(frontier)
      <4>1. n = Len(q)
        BY <3>2 DEF n, q, PoppedForNothing
      <4>2. n + 1 \in Int /\ Len(q) \in Int /\ Len(q) < n + 1
        BY <1>1, <4>1
      <4>. QED  BY <1>2, <4>2, SubSeqEmpty
    <3>. QED  BY <3>0, <3>1, <3>2
  <2>. QED  BY <1>2, <1>3, <1>4, <2>1, <2>2 DEF q
<1>7. CASE n \notin 0..Len(q)
  <2>1. Len(q) = 0 /\ n = 1
    BY <1>1, <1>7 DEF PoppedForNothing
  <2>2. q = <<>> /\ Waiting(q) = {}
    BY <1>1, <2>1, EmptySeq DEF Waiting
  <2>3. n + 1 \in Int /\ Len(q) \in Int /\ Len(q) < n + 1
    BY <2>1
  <2>. HIDE DEF q, n
  <2>4. frontier'.queue = <<>>
    BY <1>2, <2>3, SubSeqEmpty
  <2>5. Waiting(<<>>) = {} /\ QueuedOnce(<<>>, frontier.seen)
    BY <1>5, <2>2
  <2>. QED  BY <1>2, <1>4, <2>2, <2>4, <2>5 DEF q
<1>. QED  BY <1>6, <1>7

(* A page's links become seen and queued together, each once.               *)
LEMMA FollowDoes ==
  ASSUME TypeOK, Listed(frontier), NEW w \in Workers, Follow(w),
         worker[w].item.depth < Cardinality(frontier.seen)
  PROVE  /\ NewLinks(w) \subseteq Urls \ frontier.seen
         /\ frontier'.seen = frontier.seen \union NewLinks(w)
         /\ QueuedOnce(frontier'.queue, frontier'.seen)
         /\ Waiting(frontier'.queue) = Waiting(frontier.queue) \union NewLinks(w)
         /\ frontier'.inFlight = frontier.inFlight
         /\ frontier'.handedOut = frontier.handedOut
         /\ frontier'.perHost = frontier.perHost
         /\ frontier'.seedHosts = frontier.seedHosts
         /\ frontier'.anchors = WithAnchor(frontier, Links[Page(w)], Page(w))
         /\ \/ Page(w) \in NoIndex /\ MoveTo(w, "idle", None)
            \/ Page(w) \notin NoIndex /\ MoveTo(w, "parsed", worker[w].item)
<1>. DEFINE links == Links[Page(w)]
            depth == worker[w].item.depth + 1
            new == Admitted(frontier, links, depth)
<1>1. /\ Page(w) \in Urls /\ links \in SUBSET Urls /\ depth \in Nat
      /\ worker[w].item.depth \in Nat
  <2>1. worker[w].pc = "fetching"
    BY DEF Follow, AtWork
  <2>. QED  BY <2>1, HeldType
<1>2. PICK order \in Orderings(new) :
        frontier' = Enqueue(frontier, links, depth, Page(w), order)
  BY DEF Follow
<1>3. UrlsOf(new) = NewLinks(w)
  <2>1. NewLinks(w) = {v \in links : Admits(frontier, v, depth)}
    BY DEF NewLinks
  <2>2. new = {[url |-> v, depth |-> depth] : v \in NewLinks(w)}
    BY <2>1 DEF Admitted
  <2>3. \A p \in new : p.url \in NewLinks(w)
    BY <2>2
  <2>. HIDE DEF new
  <2>4. ASSUME NEW v \in NewLinks(w)
        PROVE  \E p \in new : p.url = v
    <3>1. [url |-> v, depth |-> depth] \in new
      BY <2>2
    <3>. QED  BY <3>1
  <2>. QED  BY <2>3, <2>4 DEF UrlsOf
<1>4. NewLinks(w) \subseteq Urls \ frontier.seen
  BY <1>1 DEF NewLinks, Admits
<1>5. order \in Seq(Pending) /\ Waiting(order) = NewLinks(w)
  BY <1>1, <1>3, EnqueueType DEF TypeOK
<1>6. /\ frontier'.seen = frontier.seen \union NewLinks(w)
      /\ frontier'.queue = frontier.queue \o order
      /\ frontier'.inFlight = frontier.inFlight
      /\ frontier'.handedOut = frontier.handedOut /\ frontier'.perHost = frontier.perHost
      /\ frontier'.seedHosts = frontier.seedHosts
      /\ frontier'.anchors = WithAnchor(frontier, links, Page(w))
  BY <1>2, <1>3 DEF Enqueue, TypeOK, FrontierType
<1>7. frontier.queue \in Seq(Pending) /\ frontier.seen \in SUBSET Urls
  BY DEF TypeOK, FrontierType
<1>8. Waiting(frontier'.queue) = Waiting(frontier.queue) \union NewLinks(w)
  BY <1>5, <1>6, <1>7, WaitingOfConcat
<1>9. IsFiniteSet(new) /\ order \in Seq(new)
  BY <1>1, AdmittedIsFinite, OrderingIsSequence
<1>10. \A i \in DOMAIN order : order[i] \in new
  BY <1>9, ElementOfSeq, LenProperties
<1>11. \A i \in DOMAIN order : order[i] = [url |-> order[i].url, depth |-> depth]
  BY <1>10 DEF Admitted
<1>12. \A i, j \in DOMAIN order : order[i].url = order[j].url => i = j
  <2>1. \A i, j \in DOMAIN order : order[i] = order[j] => i = j
    BY <1>9, OrderingListsOnce
  <2>. QED  BY <1>11, <2>1
<1>13. ASSUME NEW i \in DOMAIN order
       PROVE  order[i].depth < Cardinality(frontier'.seen)
  <2>1. order[i].url \in NewLinks(w) /\ order[i].depth = depth
    BY <1>5, <1>11 DEF Waiting
  <2>2. frontier'.seen \in SUBSET Urls /\ frontier.seen # frontier'.seen
    BY <1>4, <1>6, <1>7, <2>1
  <2>3. Cardinality(frontier.seen) < Cardinality(frontier'.seen)
    BY <1>6, <1>7, <2>2, SeenGrows
  <2>4. Cardinality(frontier.seen) \in Nat /\ Cardinality(frontier'.seen) \in Nat
    BY <1>7, <2>2, SeenIsFinite
  <2>. QED  BY <1>1, <2>1, <2>3, <2>4
<1>14. QueuedOnce(frontier'.queue, frontier'.seen)
  <2>1. frontier'.seen \in SUBSET Urls
    BY <1>4, <1>6, <1>7
  <2>2. QueuedOnce(frontier.queue, frontier.seen) /\ Waiting(frontier.queue) \subseteq frontier.seen
    BY DEF Listed, QueuedOnce
  <2>3. /\ Waiting(order) \subseteq frontier'.seen \ Waiting(frontier.queue)
        /\ frontier.seen \subseteq frontier'.seen
    BY <1>4, <1>5, <1>6, <2>2
  <2>4. \A i \in DOMAIN order : order[i].depth < Cardinality(frontier'.seen)
    BY <1>13
  <2>. HIDE DEF links, depth, new
  <2>5. QueuedOnce(frontier.queue \o order, frontier'.seen)
    BY <1>5, <1>7, <1>12, <2>1, <2>2, <2>3, <2>4, ConcatQueuedOnce
  <2>. QED  BY <1>6, <2>5
<1>15. \/ Page(w) \in NoIndex /\ MoveTo(w, "idle", None)
       \/ Page(w) \notin NoIndex /\ MoveTo(w, "parsed", worker[w].item)
  BY DEF Follow
<1>. QED  BY <1>4, <1>6, <1>8, <1>14, <1>15

-----------------------------------------------------------------------------
(* The workers: what each holds. *)

LEMMA MoveDoes ==
  ASSUME TypeOK, NEW w \in Workers, NEW pc, NEW item, MoveTo(w, pc, item)
  PROVE  /\ worker'[w].pc = pc /\ worker'[w].item = item
         /\ \A v \in Workers : v # w => worker'[v] = worker[v]
         /\ pc \in {"fetching", "parsed", "sending"} => Busy' = Busy \union {w}
         /\ pc \in {"idle", "gone"} => Busy' = Busy \ {w}
<1>1. /\ worker'[w].pc = pc /\ worker'[w].item = item
      /\ \A v \in Workers : v # w => worker'[v] = worker[v]
  BY DEF MoveTo, TypeOK
<1>2. pc \in {"fetching", "parsed", "sending"} => Busy' = Busy \union {w}
  BY <1>1 DEF Busy
<1>3. pc \in {"idle", "gone"} => Busy' = Busy \ {w}
  BY <1>1 DEF Busy
<1>. QED  BY <1>1, <1>2, <1>3

LEMMA BusyIsFinite ==
  /\ Busy \in SUBSET Workers /\ IsFiniteSet(Busy) /\ Cardinality(Busy) \in Nat
  /\ \A h \in Hosts : /\ BusyAt(h) \in SUBSET Busy /\ IsFiniteSet(BusyAt(h))
                      /\ Cardinality(BusyAt(h)) \in Nat
<1>1. Busy \in SUBSET Workers /\ \A h \in Hosts : BusyAt(h) \in SUBSET Busy
  BY DEF Busy, BusyAt
<1>2. IsFiniteSet(Busy) /\ Cardinality(Busy) \in Nat
  BY <1>1, CrawlAssumption, FS_Subset, FS_CardinalityType
<1>. QED  BY <1>1, <1>2, FS_Subset, FS_CardinalityType

(* What was away stays away while the frontier only grows around it. *)
LEMMA OwedStays ==
  ASSUME TypeOK, TypeOK', OwedOnce, frontier'.inFlight \subseteq frontier.inFlight,
         Away(frontier) \subseteq Away(frontier'),
         frontier.seen \subseteq frontier'.seen
  PROVE  OwedOnce'
<1>1. /\ Cardinality(frontier.seen) <= Cardinality(frontier'.seen)
      /\ Cardinality(frontier.seen) \in Nat /\ Cardinality(frontier'.seen) \in Nat
  BY SeenGrows, SeenIsFinite DEF TypeOK, FrontierType
<1>2. ASSUME NEW p \in frontier'.inFlight
      PROVE  /\ p.url \in Away(frontier') /\ p.depth < Cardinality(frontier'.seen)
             /\ \A q \in frontier'.inFlight : q.url = p.url => q = p
  <2>1. /\ p.url \in Away(frontier) /\ p.depth < Cardinality(frontier.seen)
        /\ \A q \in frontier.inFlight : q.url = p.url => q = p
    BY DEF OwedOnce
  <2>2. p.depth \in Nat
    BY DEF TypeOK, FrontierType, Pending
  <2>. QED  BY <1>1, <2>1, <2>2
<1>. QED  BY <1>2 DEF OwedOnce

LEMMA HeldAfterMove ==
  ASSUME TypeOK, TypeOK', HeldOnce, NEW w \in Workers, NEW pc, NEW item, MoveTo(w, pc, item),
         Away(frontier) \subseteq Away(frontier'),
         frontier.seen \subseteq frontier'.seen,
         \/ pc \in {"idle", "gone"}
         \/ /\ pc \in {"fetching", "parsed", "sending"}
            /\ item.url \in Away(frontier') /\ item.depth < Cardinality(frontier'.seen)
            /\ \A v \in Busy \ {w} : worker[v].item.url # item.url
  PROVE  HeldOnce'
<1>1. /\ Cardinality(frontier.seen) <= Cardinality(frontier'.seen)
      /\ Cardinality(frontier.seen) \in Nat /\ Cardinality(frontier'.seen) \in Nat
  BY SeenGrows, SeenIsFinite DEF TypeOK, FrontierType
<1>2. /\ worker'[w].pc = pc /\ worker'[w].item = item
      /\ \A v \in Workers : v # w => worker'[v] = worker[v]
  BY MoveDoes
<1>3. \/ Busy' = Busy \ {w}
      \/ /\ Busy' = Busy \union {w}
         /\ item.url \in Away(frontier') /\ item.depth < Cardinality(frontier'.seen)
         /\ \A v \in Busy \ {w} : worker[v].item.url # item.url
  BY MoveDoes
<1>4. ASSUME NEW v \in Busy', v # w
      PROVE  /\ v \in Busy /\ worker'[v].item = worker[v].item
             /\ worker'[v].item.url \in Away(frontier')
             /\ worker'[v].item.depth < Cardinality(frontier'.seen)
  <2>1. v \in Busy /\ v \in Workers /\ worker'[v].item = worker[v].item
    BY <1>2, <1>3, <1>4 DEF Busy
  <2>2. worker[v].item.url \in Away(frontier) /\ worker[v].item.depth < Cardinality(frontier.seen)
    BY <2>1 DEF HeldOnce
  <2>3. worker[v].item.depth \in Nat
    BY <2>1, HeldType DEF Busy
  <2>. QED  BY <1>1, <2>1, <2>2, <2>3
<1>5. ASSUME NEW v \in Busy', NEW x \in Busy', worker'[x].item.url = worker'[v].item.url
      PROVE  x = v
  <2>1. CASE x # w /\ v # w
    BY <1>4, <1>5, <2>1 DEF HeldOnce
  <2>2. CASE x = w /\ v # w
    BY <1>2, <1>3, <1>4, <1>5, <2>2
  <2>3. CASE x # w /\ v = w
    BY <1>2, <1>3, <1>4, <1>5, <2>3
  <2>. QED  BY <2>1, <2>2, <2>3
<1>6. ASSUME NEW v \in Busy'
      PROVE  /\ worker'[v].item.url \in Away(frontier')
             /\ worker'[v].item.depth < Cardinality(frontier'.seen)
  BY <1>2, <1>3, <1>4
<1>. QED  BY <1>5, <1>6 DEF HeldOnce

(* A worker touches neither the index nor the disk. *)
LEMMA WorkerFrame ==
  ASSUME TypeOK, NEW w \in Workers, WorkerStep(w)
  PROVE  /\ UNCHANGED <<phase, indexer, builder, buffer, written, snap, spool, saved, segment>>
         /\ UNCHANGED <<snapNote, savedNote>>
         /\ phase = "crawling"
         /\ note'.whole = note.whole /\ note'.trusted = note.trusted
         /\ note.waived \subseteq note'.waived /\ note.described \subseteq note'.described
<1>1. note'.whole = note.whole /\ note'.trusted = note.trusted
      /\ note.waived \subseteq note'.waived /\ note.described \subseteq note'.described
  <2>1. CASE Take(w)
    BY <2>1 DEF Take, TypeOK, Note
  <2>2. CASE Leave(w)
    BY <2>2 DEF Leave, TypeOK, Note
  <2>3. CASE Describe(w)
    BY <2>3 DEF Describe, TypeOK, Note
  <2>4. CASE GiveUp(w) \/ Follow(w) \/ Send(w)
    BY <2>4 DEF GiveUp, Follow, Send, history
  <2>. QED  BY <2>1, <2>2, <2>3, <2>4 DEF WorkerStep
<1>2. /\ UNCHANGED <<phase, indexer, builder, buffer, written, snap, spool, saved, segment>>
      /\ UNCHANGED <<snapNote, savedNote>>
      /\ phase = "crawling"
  BY DEF WorkerStep, Take, Leave, GiveUp, Follow, Describe, Send, AtWork, disk, history
<1>. QED  BY <1>1, <1>2

(* The moves that neither take a URL nor follow a page's links. *)
LEMMA IdleMoves ==
  ASSUME TypeOK, NEW w \in Workers, GiveUp(w) \/ Describe(w) \/ Send(w)
  PROVE  /\ frontier'.queue = frontier.queue /\ frontier'.seen = frontier.seen
         /\ frontier'.inFlight = frontier.inFlight
         /\ frontier'.handedOut = frontier.handedOut /\ frontier'.perHost = frontier.perHost
         /\ frontier'.seedHosts = frontier.seedHosts
         /\ w \in Busy
         /\ \/ GiveUp(w) /\ MoveTo(w, "idle", None)
            \/ Describe(w) /\ MoveTo(w, "sending", worker[w].item)
            \/ Send(w) /\ MoveTo(w, "idle", None)
<1>1. CASE GiveUp(w)
  BY <1>1 DEF GiveUp, AtWork, Busy
<1>2. CASE Describe(w)
  BY <1>2 DEF Describe, TakeAnchors, TypeOK, FrontierType, AtWork, Busy
<1>3. CASE Send(w)
  BY <1>3 DEF Send, AtWork, Busy
<1>. QED  BY <1>1, <1>2, <1>3

LEMMA WorkerStepAway ==
  ASSUME TypeOK, ListInv, NEW w \in Workers, WorkerStep(w)
  PROVE  /\ Away(frontier) \subseteq Away(frontier')
         /\ frontier.seen \subseteq frontier'.seen
<1>0. Listed(frontier)
  BY DEF ListInv
<1>1. CASE Take(w)
  BY <1>0, <1>1, TakeDoes DEF Away
<1>2. CASE Leave(w)
  BY <1>0, <1>2, LeaveDoes DEF Away
<1>3. CASE Follow(w)
  <2>1. worker[w].item.depth < Cardinality(frontier.seen)
    BY <1>3 DEF ListInv, HeldOnce, Busy, Follow, AtWork
  <2>. QED  BY <1>0, <1>3, <2>1, FollowDoes DEF Away
<1>4. CASE GiveUp(w) \/ Describe(w) \/ Send(w)
  BY <1>4, IdleMoves DEF Away
<1>. QED  BY <1>1, <1>2, <1>3, <1>4 DEF WorkerStep

LEMMA TakeListed ==
  ASSUME TypeOK, TypeOK', ListInv, NEW w \in Workers, Take(w)
  PROVE  Listed(frontier') /\ OwedOnce' /\ HeldOnce'
<1>1. Listed(frontier) /\ OwedOnce /\ HeldOnce
  BY DEF ListInv
<1>2. PICK p \in Pending :
        /\ p.url \in Waiting(frontier.queue) /\ p.depth < Cardinality(frontier.seen)
        /\ frontier'.seen = frontier.seen
        /\ QueuedOnce(frontier'.queue, frontier.seen)
        /\ Waiting(frontier'.queue) \subseteq Waiting(frontier.queue) \ {p.url}
        /\ frontier'.inFlight = frontier.inFlight \union {p}
        /\ frontier'.handedOut = frontier.handedOut + 1 /\ frontier.handedOut < MaxPages
        /\ frontier'.perHost = Counted(frontier, p.url)
        /\ frontier.perHost[HostOf[p.url]] < MaxPagesPerHost
        /\ frontier'.seedHosts = frontier.seedHosts
        /\ MoveTo(w, "fetching", p)
  BY <1>1, TakeDoes
<1>3. /\ Away(frontier) \subseteq Away(frontier') /\ p.url \in Away(frontier')
      /\ p.url \notin Away(frontier)
  BY <1>1, <1>2 DEF Away, Listed, QueuedOnce
<1>4. Listed(frontier')
  <2>0. /\ frontier.handedOut \in Nat /\ frontier.perHost \in [Hosts -> Nat]
        /\ MaxPages \in Nat /\ MaxPagesPerHost \in Nat
    BY FrontierAssumption DEF TypeOK, FrontierType
  <2>1. frontier'.handedOut <= MaxPages
    BY <1>2, <2>0
  <2>2. HostOf[p.url] \in Hosts
    BY <1>2, FrontierAssumption DEF Pending
  <2>3. ASSUME NEW h \in Hosts
        PROVE  frontier'.perHost[h] <= MaxPagesPerHost
    <3>1. frontier.perHost[h] \in Nat /\ frontier.perHost[h] <= MaxPagesPerHost
      BY <1>1, <2>0 DEF Listed
    <3>2. frontier'.perHost[h] = IF h = HostOf[p.url] THEN frontier.perHost[h] + 1
                                                      ELSE frontier.perHost[h]
      BY <1>2, <2>0, <2>2 DEF Counted
    <3>. QED  BY <1>2, <2>0, <3>1, <3>2
  <2>. QED  BY <1>1, <1>2, <2>1, <2>3 DEF Listed
<1>5. OwedOnce'
  <2>1. ASSUME NEW q \in frontier'.inFlight
        PROVE  /\ q.url \in Away(frontier') /\ q.depth < Cardinality(frontier'.seen)
               /\ q # p => q.url # p.url
    BY <1>1, <1>2, <1>3 DEF OwedOnce
  <2>2. ASSUME NEW q \in frontier'.inFlight, NEW r \in frontier'.inFlight, r.url = q.url
        PROVE  r = q
    BY <1>1, <1>2, <2>1, <2>2 DEF OwedOnce
  <2>. QED  BY <2>1, <2>2 DEF OwedOnce
<1>6. HeldOnce'
  <2>1. \A v \in Busy \ {w} : worker[v].item.url # p.url
    BY <1>1, <1>3 DEF HeldOnce
  <2>2. p.depth < Cardinality(frontier'.seen) /\ frontier.seen \subseteq frontier'.seen
    BY <1>2
  <2>. QED  BY <1>1, <1>2, <1>3, <2>1, <2>2, HeldAfterMove
<1>. QED  BY <1>4, <1>5, <1>6

LEMMA FollowListed ==
  ASSUME TypeOK, TypeOK', ListInv, NEW w \in Workers, Follow(w)
  PROVE  Listed(frontier') /\ OwedOnce' /\ HeldOnce'
<1>1. Listed(frontier) /\ OwedOnce /\ HeldOnce /\ w \in Busy
  BY DEF ListInv, Follow, AtWork, Busy
<1>2. /\ worker[w].item.url \in Away(frontier)
      /\ worker[w].item.depth < Cardinality(frontier.seen)
      /\ \A v \in Busy \ {w} : worker[v].item.url # worker[w].item.url
  BY <1>1 DEF HeldOnce
<1>3. /\ NewLinks(w) \subseteq Urls \ frontier.seen
      /\ frontier'.seen = frontier.seen \union NewLinks(w)
      /\ QueuedOnce(frontier'.queue, frontier'.seen)
      /\ Waiting(frontier'.queue) = Waiting(frontier.queue) \union NewLinks(w)
      /\ frontier'.inFlight = frontier.inFlight
      /\ frontier'.handedOut = frontier.handedOut
      /\ frontier'.perHost = frontier.perHost
      /\ frontier'.seedHosts = frontier.seedHosts
      /\ MoveTo(w, "idle", None) \/ MoveTo(w, "parsed", worker[w].item)
  BY <1>1, <1>2, FollowDoes
<1>4. Away(frontier) \subseteq Away(frontier') /\ frontier.seen \subseteq frontier'.seen
  BY <1>3 DEF Away
<1>5. Listed(frontier')
  <2>1. SameHostOnly => {HostOf[u] : u \in frontier'.seen} \subseteq SeedHosts
    <3>1. ASSUME SameHostOnly, NEW u \in NewLinks(w)  PROVE HostOf[u] \in SeedHosts
      <4>1. frontier.seedHosts = {} \/ HostOf[u] \in frontier.seedHosts
        BY <3>1 DEF NewLinks, Admits, InScope
      <4>2. frontier.seedHosts = SeedHosts
        BY <1>1 DEF Listed
      <4>3. SeedHosts # {}
        <5>1. {HostOf[x] : x \in frontier.seen} \subseteq SeedHosts
          BY <1>1, <3>1 DEF Listed
        <5>2. worker[w].item.url \in frontier.seen
          BY <1>2 DEF Away
        <5>. QED  BY <5>1, <5>2
      <4>. QED  BY <4>1, <4>2, <4>3
    <3>2. SameHostOnly => {HostOf[u] : u \in frontier.seen} \subseteq SeedHosts
      BY <1>1 DEF Listed
    <3>. QED  BY <1>3, <3>1, <3>2
  <2>. QED  BY <1>1, <1>3, <1>4, <2>1 DEF Listed
<1>6. OwedOnce'
  BY <1>1, <1>3, <1>4, OwedStays
<1>7. HeldOnce'
  <2>1. CASE MoveTo(w, "idle", None)
    BY <1>1, <1>4, <2>1, HeldAfterMove
  <2>2. CASE MoveTo(w, "parsed", worker[w].item)
    <3>1. worker[w].item.url \in Away(frontier')
      BY <1>2, <1>4
    <3>2. worker[w].item.depth < Cardinality(frontier'.seen)
      <4>1. /\ Cardinality(frontier.seen) <= Cardinality(frontier'.seen)
            /\ Cardinality(frontier.seen) \in Nat /\ Cardinality(frontier'.seen) \in Nat
        BY <1>4, SeenGrows, SeenIsFinite DEF TypeOK, FrontierType
      <4>2. worker[w].item.depth \in Nat
        BY <1>1, HeldType DEF Busy
      <4>. QED  BY <1>2, <4>1, <4>2
    <3>. QED  BY <1>1, <1>2, <1>4, <2>2, <3>1, <3>2, HeldAfterMove
  <2>. QED  BY <1>3, <2>1, <2>2
<1>. QED  BY <1>5, <1>6, <1>7

LEMMA WorkerStepListed ==
  ASSUME TypeOK, TypeOK', ListInv, NEW w \in Workers, WorkerStep(w)
  PROVE  ListInv'
<1>0. /\ Listed(frontier) /\ OwedOnce /\ HeldOnce
      /\ saved' = saved /\ snap' = snap
      /\ saved # None => Listed(saved)
      /\ snap # None => Listed(snap)
  BY WorkerFrame DEF ListInv
<1>1. CASE Take(w) \/ Follow(w)
  BY <1>0, <1>1, TakeListed, FollowListed DEF ListInv
<1>2. Away(frontier) \subseteq Away(frontier') /\ frontier.seen \subseteq frontier'.seen
  BY WorkerStepAway
<1>3. CASE Leave(w)
  <2>1. /\ frontier'.seen = frontier.seen /\ frontier'.inFlight = frontier.inFlight
        /\ QueuedOnce(frontier'.queue, frontier.seen)
        /\ frontier'.handedOut = frontier.handedOut /\ frontier'.perHost = frontier.perHost
        /\ frontier'.seedHosts = frontier.seedHosts
        /\ MoveTo(w, "gone", None)
    BY <1>0, <1>3, LeaveDoes
  <2>2. Listed(frontier')
    BY <1>0, <2>1 DEF Listed
  <2>3. OwedOnce'
    BY <1>0, <1>2, <2>1, OwedStays
  <2>4. HeldOnce'
    BY <1>0, <1>2, <2>1, HeldAfterMove
  <2>. QED  BY <1>0, <2>2, <2>3, <2>4 DEF ListInv
<1>4. CASE GiveUp(w) \/ Describe(w) \/ Send(w)
  <2>1. /\ frontier'.queue = frontier.queue /\ frontier'.seen = frontier.seen
        /\ frontier'.inFlight = frontier.inFlight
        /\ frontier'.handedOut = frontier.handedOut /\ frontier'.perHost = frontier.perHost
        /\ frontier'.seedHosts = frontier.seedHosts
        /\ w \in Busy
        /\ MoveTo(w, "idle", None) \/ MoveTo(w, "sending", worker[w].item)
    BY <1>4, IdleMoves
  <2>2. Listed(frontier')
    BY <1>0, <2>1 DEF Listed
  <2>3. OwedOnce'
    BY <1>0, <1>2, <2>1, OwedStays
  <2>4. HeldOnce'
    <3>1. CASE MoveTo(w, "idle", None)
      BY <1>0, <1>2, <3>1, HeldAfterMove
    <3>2. CASE MoveTo(w, "sending", worker[w].item)
      <4>1. /\ worker[w].item.url \in Away(frontier)
            /\ worker[w].item.depth < Cardinality(frontier'.seen)
            /\ \A v \in Busy \ {w} : worker[v].item.url # worker[w].item.url
        BY <1>0, <2>1 DEF HeldOnce
      <4>2. worker[w].item.url \in Away(frontier')
        BY <1>2, <4>1
      <4>. QED  BY <1>0, <1>2, <3>2, <4>1, <4>2, HeldAfterMove
    <3>. QED  BY <2>1, <3>1, <3>2
  <2>. QED  BY <1>0, <2>2, <2>3, <2>4 DEF ListInv
<1>. QED  BY <1>1, <1>3, <1>4 DEF WorkerStep

-----------------------------------------------------------------------------
(* The workers: what each page and each URL held costs. *)

LEMMA FlowType ==
  ASSUME TypeOK
  PROVE  /\ Flow \in Seq(Urls) /\ Len(Flow) = Len(builder) + Len(channel)
         /\ Len(Flow) \in Nat /\ Len(builder) \in Nat /\ Len(channel) \in Nat
         /\ Len(builder) <= Len(Flow)
         /\ \A h \in Hosts : PagesOf(builder, h) <= PagesOf(Flow, h)
<1>1. builder \in Seq(Urls) /\ channel \in Seq(Urls)
  BY DEF TypeOK
<1>2. /\ Flow \in Seq(Urls) /\ Len(Flow) = Len(builder) + Len(channel)
      /\ Len(builder) \in Nat /\ Len(channel) \in Nat
  BY <1>1, ConcatProperties, LenProperties DEF Flow
<1>3. \A h \in Hosts : PagesOf(builder, h) <= PagesOf(Flow, h)
  BY <1>1, PagesOfConcat DEF Flow
<1>. QED  BY <1>2, <1>3

(* Send alone lengthens the flow of pages. *)
LEMMA WorkerFlow ==
  ASSUME TypeOK, NEW w \in Workers, WorkerStep(w)
  PROVE  IF Send(w) THEN Flow' = Append(Flow, Page(w)) /\ Page(w) \in Urls ELSE Flow' = Flow
<1>1. builder' = builder
  BY WorkerFrame
<1>2. CASE Send(w)
  <2>1. Page(w) \in Urls
    BY <1>2, HeldType DEF Send, AtWork
  <2>2. builder \o Append(channel, Page(w)) = Append(builder \o channel, Page(w))
    BY <2>1, AppendToConcat DEF TypeOK
  <2>. QED  BY <1>1, <1>2, <2>1, <2>2 DEF Flow, Send
<1>3. CASE ~Send(w)
  BY <1>1, <1>3 DEF WorkerStep, Take, Leave, GiveUp, Follow, Describe, Flow
<1>. QED  BY <1>2, <1>3

LEMMA BusyAtMoves ==
  ASSUME TypeOK, NEW w \in Workers, NEW pc, NEW item, MoveTo(w, pc, item), NEW h \in Hosts
  PROVE  /\ pc \in {"idle", "gone"} => BusyAt(h)' = BusyAt(h) \ {w}
         /\ pc \in {"fetching", "parsed", "sending"} /\ w \notin Busy =>
              BusyAt(h)' = IF HostOf[item.url] = h THEN BusyAt(h) \union {w} ELSE BusyAt(h)
         /\ pc \in {"fetching", "parsed", "sending"} /\ w \in Busy /\ item = worker[w].item =>
              BusyAt(h)' = BusyAt(h)
<1>1. /\ worker'[w].item = item
      /\ \A v \in Workers : v # w => worker'[v] = worker[v]
      /\ pc \in {"fetching", "parsed", "sending"} => Busy' = Busy \union {w}
      /\ pc \in {"idle", "gone"} => Busy' = Busy \ {w}
  BY MoveDoes
<1>2. \A v \in Busy \ {w} : worker'[v] = worker[v]
  BY <1>1 DEF Busy
<1>3. BusyAt(h)' = {v \in Busy' : HostOf[worker'[v].item.url] = h}
  BY DEF BusyAt
<1>4. BusyAt(h) = {v \in Busy : HostOf[worker[v].item.url] = h}
  BY DEF BusyAt
<1>5. CASE pc \in {"idle", "gone"}
  <2>1. BusyAt(h)' = BusyAt(h) \ {w}
    BY <1>1, <1>2, <1>3, <1>4, <1>5
  <2>. QED  BY <1>5, <2>1
<1>6. CASE pc \in {"fetching", "parsed", "sending"} /\ w \notin Busy
  <2>1. BusyAt(h)' = IF HostOf[item.url] = h THEN BusyAt(h) \union {w} ELSE BusyAt(h)
    BY <1>1, <1>2, <1>3, <1>4, <1>6
  <2>. QED  BY <1>6, <2>1
<1>7. CASE pc \in {"fetching", "parsed", "sending"} /\ w \in Busy /\ item = worker[w].item
  <2>1. BusyAt(h)' = BusyAt(h)
    BY <1>1, <1>2, <1>3, <1>4, <1>7
  <2>. QED  BY <1>7, <2>1
<1>. QED  BY <1>5, <1>6, <1>7

LEMMA WorkerStepPaid ==
  ASSUME TypeOK, ListInv, Paid, NEW w \in Workers, WorkerStep(w)
  PROVE  Paid'
<1>0. /\ Listed(frontier) /\ frontier.handedOut \in Nat /\ Len(Flow) \in Nat
      /\ IsFiniteSet(Busy) /\ Cardinality(Busy) \in Nat
      /\ Len(Flow) + Cardinality(Busy) <= frontier.handedOut
  BY FlowType, BusyIsFinite DEF ListInv, Paid, TypeOK, FrontierType
<1>1. Cardinality(Busy \ {w}) = IF w \in Busy THEN Cardinality(Busy) - 1 ELSE Cardinality(Busy)
  BY <1>0, FS_RemoveElement
<1>2. Cardinality(Busy \union {w}) = IF w \in Busy THEN Cardinality(Busy) ELSE Cardinality(Busy) + 1
  BY <1>0, FS_AddElement
<1>3. Send(w) => Len(Flow') = Len(Flow) + 1
  <2>1. CASE Send(w)
    <3>1. Flow' = Append(Flow, Page(w)) /\ Page(w) \in Urls /\ Flow \in Seq(Urls)
      BY <2>1, WorkerFlow, FlowType
    <3>. QED  BY <3>1, AppendProperties
  <2>. QED  BY <2>1
<1>4. ~Send(w) => Len(Flow') = Len(Flow)
  BY WorkerFlow
<1>5. CASE Take(w)
  <2>1. w \notin Busy /\ ~Send(w)
    BY <1>5 DEF Take, Send, AtWork, Busy
  <2>2. PICK p : MoveTo(w, "fetching", p) /\ frontier'.handedOut = frontier.handedOut + 1
    BY <1>0, <1>5, TakeDoes
  <2>3. Busy' = Busy \union {w}
    BY <2>2, MoveDoes
  <2>. QED  BY <1>0, <1>2, <1>4, <2>1, <2>2, <2>3 DEF Paid
<1>6. CASE Leave(w)
  <2>1. w \notin Busy /\ ~Send(w)
    BY <1>6 DEF Leave, Send, AtWork, Busy
  <2>2. MoveTo(w, "gone", None) /\ frontier'.handedOut = frontier.handedOut
    BY <1>0, <1>6, LeaveDoes
  <2>3. Busy' = Busy \ {w}
    BY <2>2, MoveDoes
  <2>. QED  BY <1>0, <1>1, <1>4, <2>1, <2>2, <2>3 DEF Paid
<1>7. CASE Follow(w)
  <2>1. w \in Busy /\ ~Send(w)
    BY <1>7 DEF Follow, Send, AtWork, Busy
  <2>2. worker[w].item.depth < Cardinality(frontier.seen)
    BY <2>1 DEF ListInv, HeldOnce
  <2>3. /\ MoveTo(w, "idle", None) \/ MoveTo(w, "parsed", worker[w].item)
        /\ frontier'.handedOut = frontier.handedOut
    BY <1>0, <1>7, <2>2, FollowDoes
  <2>4. Busy' = Busy \ {w} \/ Busy' = Busy \union {w}
    BY <2>3, MoveDoes
  <2>5. Cardinality(Busy') \in Nat /\ Cardinality(Busy') <= Cardinality(Busy)
    <3>1. CASE Busy' = Busy \ {w}
      BY <1>0, <1>1, <2>1, <3>1, BusyIsFinite, FS_RemoveElement, FS_CardinalityType
    <3>2. CASE Busy' = Busy \union {w}
      BY <1>0, <1>2, <2>1, <3>2
    <3>. QED  BY <2>4, <3>1, <3>2
  <2>. QED  BY <1>0, <1>4, <2>1, <2>3, <2>5 DEF Paid
<1>8. CASE GiveUp(w) \/ Describe(w) \/ Send(w)
  <2>1. /\ w \in Busy /\ frontier'.handedOut = frontier.handedOut
        /\ Send(w) => MoveTo(w, "idle", None)
        /\ MoveTo(w, "idle", None) \/ MoveTo(w, "sending", worker[w].item)
    BY <1>8, IdleMoves DEF Send
  <2>2. /\ Busy' = Busy \ {w} \/ Busy' = Busy \union {w}
        /\ Send(w) => Busy' = Busy \ {w}
    BY <2>1, MoveDoes
  <2>3. CASE Busy' = Busy \ {w}
    <3>1. Cardinality(Busy') = Cardinality(Busy) - 1
      BY <1>1, <2>1, <2>3
    <3>2. Len(Flow') = Len(Flow) \/ Len(Flow') = Len(Flow) + 1
      BY <1>3, <1>4
    <3>. QED  BY <1>0, <2>1, <3>1, <3>2 DEF Paid
  <2>4. CASE Busy' = Busy \union {w} /\ ~Send(w)
    <3>1. Cardinality(Busy') = Cardinality(Busy)
      BY <1>2, <2>1, <2>4
    <3>. QED  BY <1>0, <1>4, <2>1, <2>4, <3>1 DEF Paid
  <2>. QED  BY <2>2, <2>3, <2>4
<1>. QED  BY <1>5, <1>6, <1>7, <1>8 DEF WorkerStep

LEMMA WorkerStepHostsPaid ==
  ASSUME TypeOK, ListInv, HostsPaid, NEW w \in Workers, WorkerStep(w)
  PROVE  HostsPaid'
<1>. SUFFICES ASSUME NoRedirects, note'.whole, NEW h \in Hosts
              PROVE  PagesOf(Flow', h) + Cardinality(BusyAt(h)') <= frontier'.perHost[h]
  BY DEF HostsPaid, NoRedirects
<1>. DEFINE held == BusyAt(h)
            paid == frontier.perHost[h]
<1>0. /\ Listed(frontier) /\ paid \in Nat /\ PagesOf(Flow, h) \in Nat
      /\ IsFiniteSet(held) /\ Cardinality(held) \in Nat
      /\ PagesOf(Flow, h) + Cardinality(held) <= paid
  <2>1. note.whole
    BY WorkerFrame
  <2>2. PagesOf(Flow, h) \in Nat
    BY FlowType, PagesOfType
  <2>. QED  BY <2>1, <2>2, BusyIsFinite DEF HostsPaid, ListInv, TypeOK, FrontierType
<1>1. Cardinality(held \ {w}) = IF w \in held THEN Cardinality(held) - 1 ELSE Cardinality(held)
  BY <1>0, FS_RemoveElement
<1>2. Cardinality(held \union {w}) = IF w \in held THEN Cardinality(held) ELSE Cardinality(held) + 1
  BY <1>0, FS_AddElement
<1>3. w \in held <=> w \in Busy /\ HostOf[worker[w].item.url] = h
  BY DEF BusyAt
<1>4. CASE Send(w)
  <2>1. Flow' = Append(Flow, Page(w)) /\ Page(w) \in Urls /\ Flow \in Seq(Urls)
    BY <1>4, WorkerFlow, FlowType
  <2>2. PagesOf(Flow', h) = IF HostOf[Page(w)] = h THEN PagesOf(Flow, h) + 1 ELSE PagesOf(Flow, h)
    BY <2>1, PagesOfAppend
  <2>3. /\ MoveTo(w, "idle", None) /\ frontier'.perHost = frontier.perHost
        /\ w \in Busy /\ worker[w].item.url \in Urls
    BY <1>4, IdleMoves, HeldType DEF Send, AtWork
  <2>4. BusyAt(h)' = held \ {w}
    BY <2>3, BusyAtMoves
  <2>5. HostOf[Page(w)] = HostOf[worker[w].item.url]
    BY <2>3 DEF NoRedirects, Page
  <2>. HIDE DEF held
  <2>. QED  BY <1>0, <1>1, <1>3, <2>2, <2>3, <2>4, <2>5
<1>5. CASE ~Send(w)
  <2>0. PagesOf(Flow', h) = PagesOf(Flow, h)
    BY <1>5, WorkerFlow
  <2>1. CASE Take(w)
    <3>1. PICK p \in Pending : /\ MoveTo(w, "fetching", p)
                               /\ frontier'.perHost = Counted(frontier, p.url)
      BY <1>0, <2>1, TakeDoes
    <3>2. w \notin Busy
      BY <2>1 DEF Take, AtWork, Busy
    <3>3. BusyAt(h)' = IF HostOf[p.url] = h THEN held \union {w} ELSE held
      BY <3>1, <3>2, BusyAtMoves
    <3>4. HostOf[p.url] \in Hosts /\ frontier.perHost \in [Hosts -> Nat]
      BY FrontierAssumption DEF Pending, TypeOK, FrontierType
    <3>5. frontier'.perHost[h] = IF HostOf[p.url] = h THEN paid + 1 ELSE paid
      BY <3>1, <3>4 DEF Counted
    <3>. HIDE DEF held, paid
    <3>. QED  BY <1>0, <1>2, <1>3, <2>0, <3>2, <3>3, <3>5
  <2>2. CASE ~Take(w)
    <3>1. /\ frontier'.perHost = frontier.perHost
          /\ \/ MoveTo(w, "idle", None) \/ MoveTo(w, "gone", None)
             \/ w \in Busy /\ \E pc \in {"parsed", "sending"} : MoveTo(w, pc, worker[w].item)
      <4>1. CASE Leave(w)
        BY <1>0, <4>1, LeaveDoes
      <4>2. CASE Follow(w)
        <5>1. w \in Busy
          BY <4>2 DEF Follow, AtWork, Busy
        <5>2. worker[w].item.depth < Cardinality(frontier.seen)
          BY <5>1 DEF ListInv, HeldOnce
        <5>. QED  BY <1>0, <4>2, <5>1, <5>2, FollowDoes
      <4>3. CASE GiveUp(w) \/ Describe(w)
        BY <4>3, IdleMoves
      <4>. QED  BY <1>5, <2>2, <4>1, <4>2, <4>3 DEF WorkerStep
    <3>2. BusyAt(h)' = held \ {w} \/ BusyAt(h)' = held
      BY <3>1, BusyAtMoves
    <3>3. frontier'.perHost[h] = paid
      BY <3>1
    <3>4. Cardinality(BusyAt(h)') \in Nat /\ Cardinality(BusyAt(h)') <= Cardinality(held)
      <4>1. Cardinality(held \ {w}) \in Nat
        BY <1>0, FS_RemoveElement, FS_CardinalityType
      <4>2. Cardinality(held \ {w}) <= Cardinality(held)
        BY <1>0, <1>1, <4>1
      <4>3. CASE BusyAt(h)' = held \ {w}
        BY <4>1, <4>2, <4>3
      <4>4. CASE BusyAt(h)' = held
        BY <1>0, <4>4
      <4>. QED  BY <3>2, <4>3, <4>4
    <3>. HIDE DEF held, paid
    <3>. QED  BY <1>0, <2>0, <3>3, <3>4
  <2>. QED  BY <2>1, <2>2
<1>. QED  BY <1>4, <1>5

-----------------------------------------------------------------------------
(* The indexing loop hands pages from the channel to the index, and the     *)
(* spool only grows.                                                        *)

LEMMA IndexerFrame ==
  ASSUME TypeOK, IndexerStep
  PROVE  /\ phase = "crawling" /\ UNCHANGED <<phase, worker, segment>> /\ Flow' = Flow
         /\ note'.whole = note.whole /\ (note'.trusted => note.trusted)
         /\ note'.waived = note.waived /\ note'.described = note.described
         /\ \/ frontier' = frontier
            \/ Complete /\ indexer.doc \in Urls /\ frontier' = Completed(frontier, indexer.doc)
         /\ \E t \in Seq(Record) : spool' = spool \o t
         /\ \/ UNCHANGED <<saved, savedNote>>
            \/ Saving /\ saved' = snap /\ savedNote' = snapNote
         /\ \/ snap' = None /\ indexer'.pc # "write"
            \/ snap' = snap /\ indexer'.pc # "write"
            \/ TakeSnapshot
<1>0. /\ channel \in Seq(Urls) /\ builder \in Seq(Urls)
      /\ buffer \in Seq(Record) /\ spool \in Seq(Record)
      /\ spool = spool \o <<>> /\ <<>> \in Seq(Record)
  BY ConcatEmptySeq, EmptySeq DEF TypeOK, Record
<1>1. CASE Receive
  <2>1. Append(builder, Head(channel)) \o Tail(channel) = builder \o channel
    BY <1>0, <1>1, HandOver DEF Receive
  <2>2. Flow' = Flow
    BY <1>1, <2>1 DEF Receive, Flow
  <2>3. /\ note'.whole = note.whole /\ (note'.trusted => note.trusted)
        /\ note'.waived = note.waived /\ note'.described = note.described
    <3>1. note' = note \/ note' = [note EXCEPT !.trusted = FALSE]
      BY <1>1 DEF Receive
    <3>. QED  BY <3>1 DEF TypeOK, Note
  <2>4. indexer'.pc # "write"
    BY <1>1 DEF Receive, TypeOK, IndexerType
  <2>. QED  BY <1>0, <1>1, <2>2, <2>3, <2>4 DEF Receive, Indexing, disk
<1>2. CASE Complete
  <2>1. indexer'.pc # "write"
    <3>1. PICK due \in BOOLEAN :
            indexer' = [indexer EXCEPT !.pc    = IF due THEN "flush" ELSE "receive",
                                       !.doc   = None,
                                       !.since = IF due THEN 0 ELSE @ + 1]
      BY <1>2, Zenon DEF Complete
    <3>. QED  BY <3>1 DEF TypeOK, IndexerType
  <2>2. indexer.doc \in Urls
    BY <1>2 DEF Complete, Indexing, TypeOK, IndexerType
  <2>. QED  BY <1>0, <1>2, <2>1, <2>2 DEF Complete, Indexing, Flow, disk, history
<1>3. CASE Close
  <2>1. indexer'.pc # "write"
    BY <1>3 DEF Close, TypeOK, IndexerType
  <2>. QED  BY <1>0, <1>3, <2>1 DEF Close, Indexing, Flow, disk, history
<1>4. CASE Flush
  <2>1. indexer'.pc # "write"
    BY <1>4 DEF Flush, TypeOK, IndexerType
  <2>. QED  BY <1>0, <1>4, <2>1 DEF Flush, Indexing, Flow, history
<1>5. CASE FlushFails
  <2>1. indexer'.pc # "write"
    BY <1>5 DEF FlushFails, AfterSave, TypeOK, IndexerType
  <2>2. \E t \in Seq(Record) : spool' = spool \o t
    BY <1>5, PieceType DEF FlushFails
  <2>. QED  BY <1>5, <2>1, <2>2 DEF FlushFails, Indexing, Flow, history
<1>6. CASE TakeSnapshot
  <2>1. /\ phase = "crawling" /\ UNCHANGED <<phase, worker, segment>> /\ Flow' = Flow
        /\ note' = note /\ frontier' = frontier /\ spool' = spool
        /\ UNCHANGED <<saved, savedNote>>
    BY <1>6 DEF TakeSnapshot, Indexing, Flow, disk
  <2>. QED  BY <1>0, <1>6, <2>1
<1>7. CASE WriteFrontier
  <2>1. indexer'.pc # "write"
    BY <1>7 DEF WriteFrontier, AfterSave, TypeOK, IndexerType
  <2>2. UNCHANGED <<saved, savedNote>> \/ (Saving /\ saved' = snap /\ savedNote' = snapNote)
    <3>1. Saving
      BY <1>7 DEF WriteFrontier, Indexing, Saving
    <3>. QED  BY <1>7, <3>1 DEF WriteFrontier
  <2>3. /\ phase = "crawling" /\ UNCHANGED <<phase, worker, segment>> /\ Flow' = Flow
        /\ note' = note /\ frontier' = frontier /\ spool' = spool /\ snap' = None
    BY <1>7 DEF WriteFrontier, Indexing, Flow
  <2>. QED  BY <1>0, <2>1, <2>2, <2>3
<1>. QED  BY <1>1, <1>2, <1>3, <1>4, <1>5, <1>6, <1>7 DEF IndexerStep

(* A process begins with nothing in hand. *)
LEMMA BeginsEmpty ==
  ASSUME FreshMemory
  PROVE  /\ Busy' = {} /\ \A h \in Hosts : BusyAt(h)' = {}
         /\ channel' = <<>> /\ buffer' = <<>> /\ written' = 0 /\ snap' = None
         /\ indexer' = ReadyIndexer /\ indexer'.pc = "receive"
         /\ \A w \in Workers : worker'[w].pc = "idle"
<1>1. \A w \in Workers : worker'[w].pc = "idle"
  BY DEF FreshMemory, IdleWorker
<1>2. Busy' = {}
  BY <1>1 DEF Busy
<1>3. \A h \in Hosts : BusyAt(h)' = {}
  BY <1>2 DEF BusyAt
<1>. QED  BY <1>1, <1>2, <1>3 DEF FreshMemory, ReadyIndexer

(* Neither the end of the command nor a refused resume touches the memory   *)
(* the properties speak of.                                                 *)
LEMMA CommandFrame ==
  ASSUME TypeOK, CommandStep \/ ResumeRefused
  PROVE  /\ UNCHANGED <<frontier, worker, channel, indexer, builder, written, snap, note, snapNote>>
         /\ phase' # "crawling" /\ Flow' = Flow
         /\ saved' = saved \/ saved' = None
         /\ \/ savedNote' = savedNote /\ \E t \in Seq(Record) : spool' = spool \o t
            \/ ~savedNote'.trusted
<1>0. spool = spool \o <<>> /\ <<>> \in Seq(Record)
  BY ConcatEmptySeq, EmptySeq DEF TypeOK, Record
<1>1. CASE WriteIndex
  BY <1>1, PieceType DEF WriteIndex, Flow, history
<1>2. CASE KeepCheckpoint
  BY <1>0, <1>2 DEF KeepCheckpoint, Flow, memory, disk, history
<1>3. CASE DiscardSpool
  BY <1>3 DEF DiscardSpool, Flow, memory, TypeOK, Note
<1>4. CASE DiscardFrontier
  BY <1>0, <1>4 DEF DiscardFrontier, Flow, memory, history
<1>5. CASE ResumeRefused
  BY <1>0, <1>5 DEF ResumeRefused, Flow, memory, disk, history
<1>. QED  BY <1>1, <1>2, <1>3, <1>4, <1>5 DEF CommandStep

-----------------------------------------------------------------------------
(* What a saved frontier accounts for, and what was true of it when it was  *)
(* saved.                                                                   *)

LEMMA AccountedGrows ==
  ASSUME NEW c \in SnapshotType, NEW r \in Seq(Record), NEW t \in Seq(Record), Readable(c, r)
  PROVE  Accounted(c, r \o t) = Accounted(c, r)
<1>1. c.spooled \in Nat /\ Len(r) \in Nat /\ Len(t) \in Nat /\ c.spooled <= Len(r)
  BY LenProperties DEF SnapshotType, Readable
<1>2. /\ r \o t \in Seq(Record) /\ Len(r \o t) = Len(r) + Len(t)
      /\ \A i \in 1..Len(r) + Len(t) :
           (r \o t)[i] = IF i <= Len(r) THEN r[i] ELSE t[i - Len(r)]
  BY ConcatProperties
<1>3. c.spooled \in 0..Len(r) /\ c.spooled \in 0..Len(r \o t)
  BY <1>1, <1>2
<1>. DEFINE n == c.spooled
            long == SubSeq(r \o t, 1, n)
            short == SubSeq(r, 1, n)
<1>4. short \in Seq(Record) /\ Len(short) = n /\ \A i \in 1..n : short[i] = r[i]
  BY <1>3, PrefixOf
<1>5. long \in Seq(Record) /\ Len(long) = n /\ \A i \in 1..n : long[i] = (r \o t)[i]
  BY <1>2, <1>3, PrefixOf
<1>6. \A i \in 1..n : (r \o t)[i] = r[i]
  BY <1>1, <1>2
<1>. HIDE DEF long, short
<1>7. long = short
  BY <1>4, <1>5, <1>6, SeqEqual
<1>. QED  BY <1>7 DEF long, short, Accounted

LEMMA AccountedStays ==
  ASSUME TypeOK, NoGapInv, NEW t \in Seq(Record), spool' = spool \o t
  PROVE  /\ saved # None /\ savedNote.trusted =>
              Accounted(saved, spool') = Accounted(saved, spool)
         /\ Saving /\ snapNote.trusted => Accounted(snap, spool') = Accounted(snap, spool)
<1>1. spool \in Seq(Record)
  BY DEF TypeOK, Record
<1>2. ASSUME saved # None, savedNote.trusted
      PROVE  saved \in SnapshotType /\ Readable(saved, spool)
  BY <1>2 DEF NoGapInv, CheckpointLeavesNoGap, NoGap, TypeOK
<1>3. ASSUME Saving, snapNote.trusted
      PROVE  snap \in SnapshotType /\ Readable(snap, spool)
  BY <1>3 DEF NoGapInv, SnapshotLeavesNoGap, NoGap, TypeOK, Saving
<1>. QED  BY <1>1, <1>2, <1>3, AccountedGrows

(* A trusted frontier on disk was there before, or was just written; either *)
(* way it accounts for the same pages.                                      *)
LEMMA SavedMoves ==
  ASSUME TypeOK, NoGapInv, [Next]_vars, saved' # None, savedNote'.trusted
  PROVE  \/ /\ saved # None /\ savedNote.trusted
            /\ saved' = saved /\ savedNote' = savedNote
            /\ Accounted(saved', spool') = Accounted(saved, spool)
         \/ /\ Saving /\ saved' = snap /\ savedNote' = snapNote
            /\ Accounted(saved', spool') = Accounted(snap, spool)
<1>1. ASSUME UNCHANGED <<spool, saved, savedNote>>
      PROVE  /\ saved # None /\ savedNote.trusted /\ saved' = saved /\ savedNote' = savedNote
             /\ Accounted(saved', spool') = Accounted(saved, spool)
  BY <1>1
<1>2. ASSUME UNCHANGED <<saved, savedNote>>, NEW t \in Seq(Record), spool' = spool \o t
      PROVE  /\ saved # None /\ savedNote.trusted /\ saved' = saved /\ savedNote' = savedNote
             /\ Accounted(saved', spool') = Accounted(saved, spool)
  BY <1>2, AccountedStays
<1>3. CASE \E w \in Workers : WorkerStep(w)
  BY <1>1, <1>3, WorkerFrame
<1>4. CASE IndexerStep
  <2>1. PICK t \in Seq(Record) : spool' = spool \o t
    BY <1>4, IndexerFrame
  <2>2. CASE UNCHANGED <<saved, savedNote>>
    BY <1>2, <2>1, <2>2
  <2>3. CASE Saving /\ saved' = snap /\ savedNote' = snapNote
    BY <2>1, <2>3, AccountedStays
  <2>. QED  BY <1>4, <2>2, <2>3, IndexerFrame
<1>5. CASE CommandStep \/ ResumeRefused
  BY <1>2, <1>5, CommandFrame
<1>6. CASE StartFresh \/ Resume
  BY <1>1, <1>6 DEF StartFresh, Resume, disk
<1>7. CASE Crash
  BY <1>2, <1>7, CrashSpills DEF Crash
<1>8. CASE UNCHANGED vars
  BY <1>1, <1>8 DEF vars, disk, history
<1>. QED  BY <1>3, <1>4, <1>5, <1>6, <1>7, <1>8 DEF Next, Ended

(* A frontier about to be saved is the one that was taken, and it accounts  *)
(* for the whole index.                                                     *)
LEMMA SnapMoves ==
  ASSUME TypeOK, NoGapInv, TrustInv, [Next]_vars, Saving', snapNote'.trusted
  PROVE  \/ /\ Saving /\ snapNote.trusted /\ snap' = snap /\ snapNote' = snapNote
            /\ Accounted(snap', spool') = Accounted(snap, spool)
         \/ /\ TakeSnapshot /\ snapNote' = note /\ note.trusted /\ phase = "crawling"
            /\ Accounted(snap', spool') = builder
            /\ \E order \in Orderings(frontier.inFlight) :
                 snap' = Snapshot(frontier, written, order)
<1>1. CASE \E w \in Workers : WorkerStep(w)
  BY <1>1, WorkerFrame DEF Saving
<1>2. CASE IndexerStep
  <2>1. TakeSnapshot
    BY <1>2, IndexerFrame DEF Saving
  <2>2. /\ phase = "crawling" /\ indexer.pc = "snapshot" /\ snapNote' = note
        /\ note.trusted /\ spool' = spool
    BY <2>1 DEF TakeSnapshot, Indexing, disk
  <2>3. PICK order \in Orderings(frontier.inFlight) :
          snap' = Snapshot(frontier, written, order)
    BY <2>1 DEF TakeSnapshot
  <2>4. written = Len(spool) + Len(buffer) /\ buffer = <<>> /\ builder = spool \o buffer
    BY <2>2 DEF NoGapInv, TrustedProcess, TrustInv
  <2>5. /\ builder = spool /\ snap'.spooled = Len(spool)
    <3>1. spool \in Seq(Record) /\ Len(spool) \in Nat
      BY LenProperties DEF TypeOK, Record
    <3>2. snap'.spooled = written
      BY <2>3 DEF Snapshot
    <3>. QED  BY <2>4, <3>1, <3>2, ConcatEmptySeq, EmptySeq
  <2>6. SubSeq(spool, 1, Len(spool)) = spool
    BY SubSeqFull DEF TypeOK
  <2>7. Accounted(snap', spool') = builder
    BY <2>2, <2>5, <2>6 DEF Accounted
  <2>. QED  BY <2>1, <2>2, <2>3, <2>7
<1>3. CASE CommandStep \/ ResumeRefused
  BY <1>3, CommandFrame DEF Saving
<1>4. CASE StartFresh \/ Resume \/ Crash
  BY <1>4, BeginsEmpty DEF StartFresh, Resume, Crash, Saving
<1>5. CASE UNCHANGED vars
  BY <1>5 DEF vars, memory, disk, history, Saving
<1>. QED  BY <1>1, <1>2, <1>3, <1>4, <1>5 DEF Next, Ended

-----------------------------------------------------------------------------
(* LimitsInv holds at every step: the trusted process. *)

LEMMA NextTrust ==
  ASSUME TypeOK, NoGapInv, TrustInv, [Next]_vars
  PROVE  TrustInv'
<1>0. /\ note.trusted => note.whole
      /\ phase = "crawling" /\ note.trusted => builder = spool \o buffer
      /\ Saving => snapNote.trusted = note.trusted /\ snap.spooled = written
  BY DEF TrustInv
<1>1. CASE \E w \in Workers : WorkerStep(w)
  <2>1. /\ UNCHANGED <<phase, indexer, builder, written, snap, spool, snapNote>>
        /\ buffer' = buffer
        /\ note'.whole = note.whole /\ note'.trusted = note.trusted
    BY <1>1, WorkerFrame
  <2>. QED  BY <1>0, <2>1 DEF TrustInv, Saving
<1>2. CASE IndexerStep
  <2>1. note'.trusted => note'.whole
    BY <1>0, <1>2, IndexerFrame
  <2>2. ASSUME note'.trusted
        PROVE  builder' = spool' \o buffer'
    <3>0. /\ builder = spool \o buffer
          /\ spool \in Seq(Record) /\ buffer \in Seq(Record)
      BY <1>0, <1>2, <2>2, IndexerFrame DEF TypeOK, Record
    <3>1. CASE Receive
      <4>1. Head(channel) \in Record
        BY <3>1, HeadTailProperties DEF Receive, TypeOK, Record
      <4>2. buffer' = Append(buffer, Head(channel)) /\ spool' = spool
            /\ builder' = Append(builder, Head(channel))
        BY <2>2, <3>1 DEF Receive, disk, TypeOK, Note
      <4>. QED  BY <3>0, <4>1, <4>2, AppendToConcat
    <3>2. CASE Flush
      <4>1. spool \o buffer \in Seq(Record)
        BY <3>0, ConcatProperties
      <4>. QED  BY <3>0, <3>2, <4>1, ConcatEmptySeq DEF Flush
    <3>3. CASE FlushFails
      <4>1. PICK k \in 0..Len(buffer) : /\ spool' = spool \o SubSeq(buffer, 1, k)
                                        /\ buffer' = SubSeq(buffer, k + 1, Len(buffer))
        BY <3>3 DEF FlushFails
      <4>. DEFINE piece == SubSeq(buffer, 1, k)
                  rest == SubSeq(buffer, k + 1, Len(buffer))
      <4>2. piece \in Seq(Record) /\ rest \in Seq(Record)
        BY <3>0, <4>1, MembersOfCut
      <4>3. piece \o rest = buffer
        <5>1. Len(buffer) \in Nat
          BY <3>0, LenProperties
        <5>2. 1 \in 1..Len(buffer) + 1 /\ k \in 1 - 1..Len(buffer) /\ Len(buffer) \in k..Len(buffer)
          BY <5>1
        <5>. QED  BY <3>0, <5>2, ConcatAdjacentSubSeq, SubSeqFull
      <4>4. spool' = spool \o piece /\ buffer' = rest /\ builder' = builder
        BY <3>3, <4>1 DEF FlushFails
      <4>. HIDE DEF piece, rest
      <4>5. (spool \o piece) \o rest = spool \o (piece \o rest)
        BY <3>0, <4>2, ConcatAssociative
      <4>. QED  BY <3>0, <4>3, <4>4, <4>5
    <3>4. CASE Complete \/ Close \/ TakeSnapshot \/ WriteFrontier
      BY <3>0, <3>4 DEF Complete, Close, TakeSnapshot, WriteFrontier, disk
    <3>. QED  BY <1>2, <3>1, <3>2, <3>3, <3>4 DEF IndexerStep
  <2>3. Saving' => snapNote'.trusted = note'.trusted /\ snap'.spooled = written'
    <3>. SUFFICES ASSUME Saving'  PROVE snapNote'.trusted = note'.trusted /\ snap'.spooled = written'
      OBVIOUS
    <3>1. TakeSnapshot
      BY <1>2, IndexerFrame DEF Saving
    <3>2. PICK order \in Orderings(frontier.inFlight) :
            snap' = Snapshot(frontier, written, order)
      BY <3>1 DEF TakeSnapshot
    <3>3. snap'.spooled = written
      BY <3>2 DEF Snapshot
    <3>4. snapNote' = note /\ note' = note /\ written' = written
      BY <3>1 DEF TakeSnapshot
    <3>. QED  BY <3>3, <3>4
  <2>. QED  BY <2>1, <2>2, <2>3 DEF TrustInv
<1>3. CASE CommandStep \/ ResumeRefused
  <2>1. note' = note /\ phase' # "crawling"
    BY <1>3, CommandFrame
  <2>. QED  BY <1>0, <2>1 DEF TrustInv, Saving
<1>4. CASE StartFresh
  <2>1. note'.whole /\ (note'.trusted => spool' = <<>>) /\ builder' = <<>>
        /\ buffer' = <<>> /\ indexer'.pc = "receive"
    BY <1>4, BeginsEmpty DEF StartFresh, EmptyNote, disk
  <2>2. <<>> \o <<>> = <<>>
    BY EmptySeq, ConcatEmptySeq
  <2>. QED  BY <2>1, <2>2 DEF TrustInv, Saving
<1>5. CASE Resume
  <2>1. /\ note'.whole = savedNote.trusted /\ note'.trusted = (savedNote.trusted /\ spool = <<>>)
        /\ spool' = spool /\ buffer' = <<>> /\ indexer'.pc = "receive"
        /\ builder' = Accounted(saved, spool)
    BY <1>5, BeginsEmpty DEF Resume, TypeOK, Note, disk
  <2>2. spool = <<>> => builder' = <<>>
    <3>1. saved.spooled \in Nat /\ saved.spooled <= Len(spool)
      BY <1>5 DEF Resume, Readable, TypeOK, SnapshotType
    <3>2. spool = <<>> => saved.spooled \in Int /\ saved.spooled < 1
      BY <3>1, EmptySeq
    <3>. QED  BY <2>1, <3>2, SubSeqEmpty DEF Accounted
  <2>3. <<>> \o <<>> = <<>>
    BY EmptySeq, ConcatEmptySeq
  <2>. QED  BY <2>1, <2>2, <2>3 DEF TrustInv, Saving
<1>6. CASE Crash
  <2>1. note' = EmptyNote /\ phase' = "down"
    BY <1>6 DEF Crash
  <2>. QED  BY <2>1 DEF TrustInv, Saving, EmptyNote
<1>7. CASE UNCHANGED vars
  BY <1>0, <1>7 DEF vars, memory, disk, history, TrustInv, Saving
<1>. QED  BY <1>1, <1>2, <1>3, <1>4, <1>5, <1>6, <1>7 DEF Next, Ended

-----------------------------------------------------------------------------
(* LimitsInv holds at every step: each URL once. *)

LEMMA SnapshotListed ==
  ASSUME TypeOK, ListInv, NEW n \in Nat, NEW order \in Orderings(frontier.inFlight)
  PROVE  /\ Listed(Snapshot(frontier, n, order))
         /\ Waiting(Snapshot(frontier, n, order).queue)
              = Waiting(frontier.queue) \union UrlsOf(frontier.inFlight)
<1>1. /\ frontier \in FrontierType /\ IsFiniteSet(frontier.inFlight)
      /\ frontier.queue \in Seq(Pending) /\ frontier.seen \in SUBSET Urls
      /\ frontier.inFlight \in SUBSET Pending
  BY DEF TypeOK, FrontierType
<1>2. Listed(frontier) /\ OwedOnce /\ QueuedOnce(frontier.queue, frontier.seen)
  BY DEF ListInv, Listed
<1>3. /\ order \in Seq(Pending) /\ order \in Seq(frontier.inFlight)
      /\ Waiting(order) = UrlsOf(frontier.inFlight)
      /\ \A i \in DOMAIN order : order[i] \in frontier.inFlight
      /\ \A i, j \in DOMAIN order : order[i] = order[j] => i = j
  <2>1. order \in Seq(Pending) /\ Waiting(order) = UrlsOf(frontier.inFlight)
    BY <1>1, SnapshotTypeCorrect
  <2>2. order \in Seq(frontier.inFlight)
    BY <1>1, OrderingIsSequence
  <2>3. \A i \in DOMAIN order : order[i] \in frontier.inFlight
    BY <2>2, ElementOfSeq, LenProperties
  <2>4. \A i, j \in DOMAIN order : order[i] = order[j] => i = j
    BY <1>1, OrderingListsOnce
  <2>. QED  BY <2>1, <2>2, <2>3, <2>4
<1>4. Waiting(order) \subseteq frontier.seen \ Waiting(frontier.queue)
  BY <1>2, <1>3 DEF OwedOnce, Away, UrlsOf
<1>5. \A i, j \in DOMAIN order : order[i].url = order[j].url => i = j
  BY <1>2, <1>3 DEF OwedOnce
<1>6. \A i \in DOMAIN order : order[i].depth < Cardinality(frontier.seen)
  BY <1>2, <1>3 DEF OwedOnce
<1>7. QueuedOnce(frontier.queue \o order, frontier.seen)
  BY <1>1, <1>2, <1>3, <1>4, <1>5, <1>6, ConcatQueuedOnce
<1>8. Waiting(frontier.queue \o order) = Waiting(frontier.queue) \union Waiting(order)
  BY <1>1, <1>3, WaitingOfConcat
<1>. QED  BY <1>2, <1>3, <1>7, <1>8 DEF Snapshot, Listed

LEMMA CompletedDoes ==
  ASSUME TypeOK, NEW u
  PROVE  /\ Completed(frontier, u).inFlight = {p \in frontier.inFlight : p.url # u}
         /\ Completed(frontier, u).queue = frontier.queue
         /\ Completed(frontier, u).seen = frontier.seen
         /\ Completed(frontier, u).anchors = frontier.anchors
         /\ Completed(frontier, u).perHost = frontier.perHost
         /\ Completed(frontier, u).seedHosts = frontier.seedHosts
         /\ Completed(frontier, u).handedOut = frontier.handedOut
BY DEF Completed, TypeOK, FrontierType

(* A process that begins holds nothing. *)
LEMMA BegunListed ==
  ASSUME ListInv, FreshMemory, Listed(frontier'), frontier'.inFlight = {}, saved' = saved
  PROVE  ListInv'
<1>1. Busy' = {} /\ snap' = None
  BY BeginsEmpty
<1>2. OwedOnce' /\ HeldOnce'
  BY <1>1 DEF OwedOnce, HeldOnce
<1>. QED  BY <1>1, <1>2 DEF ListInv

LEMMA NextListed ==
  ASSUME TypeOK, TypeOK', ListInv, [Next]_vars
  PROVE  ListInv'
<1>0. /\ Listed(frontier) /\ OwedOnce /\ HeldOnce
      /\ saved # None => Listed(saved)
      /\ snap # None => Listed(snap)
  BY DEF ListInv
<1>1. ASSUME UNCHANGED <<frontier, worker, snap>>, saved' = saved \/ saved' = None
      PROVE  ListInv'
  BY <1>0, <1>1 DEF ListInv, OwedOnce, HeldOnce, Busy
<1>2. CASE \E w \in Workers : WorkerStep(w)
  BY <1>2, WorkerStepListed
<1>3. CASE IndexerStep
  <2>1. worker' = worker
    BY <1>3, IndexerFrame
  <2>2. /\ frontier'.queue = frontier.queue /\ frontier'.seen = frontier.seen
        /\ frontier'.inFlight \subseteq frontier.inFlight
        /\ frontier'.perHost = frontier.perHost /\ frontier'.seedHosts = frontier.seedHosts
        /\ frontier'.handedOut = frontier.handedOut
    <3>1. CASE frontier' = frontier
      BY <3>1
    <3>2. CASE frontier' = Completed(frontier, indexer.doc)
      BY <3>2, CompletedDoes
    <3>. QED  BY <1>3, <3>1, <3>2, IndexerFrame
  <2>3. Listed(frontier')
    BY <1>0, <2>2 DEF Listed
  <2>4. OwedOnce'
    BY <1>0, <2>2, OwedStays DEF Away
  <2>5. HeldOnce'
    <3>1. Busy' = Busy
      BY <2>1 DEF Busy
    <3>. QED  BY <1>0, <2>1, <2>2, <3>1 DEF HeldOnce, Away
  <2>6. saved' # None => Listed(saved')
    <3>1. CASE saved' = saved
      BY <1>0, <3>1
    <3>2. CASE Saving /\ saved' = snap
      BY <1>0, <3>2
    <3>. QED  BY <1>3, <3>1, <3>2, IndexerFrame
  <2>7. snap' # None => Listed(snap')
    <3>1. CASE snap' = None \/ snap' = snap
      BY <1>0, <3>1
    <3>2. CASE TakeSnapshot
      <4>1. PICK order \in Orderings(frontier.inFlight) :
              snap' = Snapshot(frontier, written, order)
        BY <3>2 DEF TakeSnapshot
      <4>2. written \in Nat
        BY DEF TypeOK
      <4>. QED  BY <4>1, <4>2, SnapshotListed
    <3>. QED  BY <1>3, <3>1, <3>2, IndexerFrame
  <2>. QED  BY <2>3, <2>4, <2>5, <2>6, <2>7 DEF ListInv
<1>4. CASE CommandStep \/ ResumeRefused
  <2>1. UNCHANGED <<frontier, worker, snap>> /\ (saved' = saved \/ saved' = None)
    BY <1>4, CommandFrame
  <2>. QED  BY <1>1, <2>1
<1>5. CASE StartFresh \/ Crash
  <2>1. frontier' = NewFrontier /\ FreshMemory /\ saved' = saved
    BY <1>5 DEF StartFresh, Crash, disk
  <2>2. NewFrontier.inFlight = {}
    BY DEF NewFrontier
  <2>. QED  BY <2>1, <2>2, NewFrontierListed, BegunListed
<1>6. CASE Resume
  <2>1. frontier' = Restore(saved) /\ FreshMemory /\ saved' = saved /\ saved # None
    BY <1>6 DEF Resume, disk
  <2>2. Listed(Restore(saved)) /\ Restore(saved).inFlight = {}
    BY <1>0, <2>1 DEF Restore, Listed
  <2>. QED  BY <2>1, <2>2, BegunListed
<1>7. CASE UNCHANGED vars
  BY <1>1, <1>7 DEF vars, memory, disk
<1>. QED  BY <1>2, <1>3, <1>4, <1>5, <1>6, <1>7 DEF Next, Ended

-----------------------------------------------------------------------------
(* LimitsInv holds at every step: what was handed out pays for every page. *)

(* A process that begins with some pages is charged for each of them.       *)
LEMMA BegunPaid ==
  ASSUME TypeOK', FreshMemory, NEW pages \in Seq(Urls), builder' = pages,
         Len(pages) <= frontier'.handedOut,
         NoRedirects /\ note'.whole =>
           \A h \in Hosts : PagesOf(pages, h) <= frontier'.perHost[h]
  PROVE  Paid' /\ HostsPaid' /\ written' <= Len(builder')
<1>1. /\ Busy' = {} /\ \A h \in Hosts : BusyAt(h)' = {}
      /\ channel' = <<>> /\ written' = 0
  BY BeginsEmpty
<1>2. Flow' = pages
  BY <1>1, ConcatEmptySeq DEF Flow
<1>3. Cardinality({}) = 0 /\ Len(pages) \in Nat
  BY FS_EmptySet, LenProperties
<1>4. Paid'
  BY <1>1, <1>2, <1>3 DEF Paid
<1>5. HostsPaid'
  <2>. SUFFICES ASSUME NoRedirects, note'.whole, NEW h \in Hosts
                PROVE  PagesOf(Flow', h) + Cardinality(BusyAt(h)') <= frontier'.perHost[h]
    BY DEF HostsPaid, NoRedirects
  <2>1. PagesOf(pages, h) \in Nat
    BY PagesOfType
  <2>2. Cardinality(BusyAt(h)') = 0
    BY <1>1, <1>3
  <2>. QED  BY <1>2, <2>1, <2>2
<1>. QED  BY <1>1, <1>3, <1>4, <1>5

(* read_spool yields as many pages as the frontier accounts for.            *)
LEMMA AccountedLength ==
  ASSUME TypeOK, saved # None, Readable(saved, spool)
  PROVE  /\ Accounted(saved, spool) \in Seq(Urls)
         /\ Len(Accounted(saved, spool)) = saved.spooled
<1>1. saved \in SnapshotType /\ spool \in Seq(Urls \union {Torn})
  BY DEF TypeOK
<1>2. saved.spooled \in 0..Len(spool)
  BY <1>1, LenProperties DEF SnapshotType, Readable
<1>. QED  BY <1>1, <1>2, AccountedType, PrefixOf DEF Accounted

LEMMA NextCounts ==
  ASSUME TypeOK, TypeOK', ListInv, CountInv, CountPromiseInv, [Next]_vars
  PROVE  CountInv'
<1>0. /\ Paid /\ HostsPaid /\ written <= Len(builder)
      /\ saved # None => saved.spooled <= saved.handedOut
      /\ snap # None => snap.spooled <= snap.handedOut
  BY DEF CountInv
<1>1. CASE \E w \in Workers : WorkerStep(w)
  <2>1. UNCHANGED <<builder, written, saved, snap>>
    BY <1>1, WorkerFrame
  <2>2. Paid' /\ HostsPaid'
    BY <1>0, <1>1, WorkerStepPaid, WorkerStepHostsPaid
  <2>. QED  BY <1>0, <2>1, <2>2 DEF CountInv
<1>2. ASSUME Flow' = Flow, worker' = worker, note'.whole = note.whole,
             frontier'.handedOut = frontier.handedOut, frontier'.perHost = frontier.perHost
      PROVE  Paid' /\ HostsPaid'
  <2>1. Busy' = Busy /\ \A h \in Hosts : BusyAt(h)' = BusyAt(h)
    BY <1>2 DEF Busy, BusyAt
  <2>2. Paid'
    BY <1>0, <1>2, <2>1 DEF Paid
  <2>3. HostsPaid'
    <3>. SUFFICES ASSUME NoRedirects, note'.whole, NEW h \in Hosts
                  PROVE  PagesOf(Flow', h) + Cardinality(BusyAt(h)') <= frontier'.perHost[h]
      BY DEF HostsPaid, NoRedirects
    <3>1. PagesOf(Flow, h) + Cardinality(BusyAt(h)) <= frontier.perHost[h]
      BY <1>0, <1>2 DEF HostsPaid
    <3>. QED  BY <1>2, <2>1, <3>1
  <2>. QED  BY <2>2, <2>3
<1>3. CASE IndexerStep
  <2>1. /\ Flow' = Flow /\ worker' = worker /\ note'.whole = note.whole
        /\ frontier'.handedOut = frontier.handedOut /\ frontier'.perHost = frontier.perHost
    <3>1. frontier' = frontier \/ frontier' = Completed(frontier, indexer.doc)
      BY <1>3, IndexerFrame
    <3>. QED  BY <1>3, <3>1, IndexerFrame, CompletedDoes
  <2>2. Paid' /\ HostsPaid'
    BY <1>2, <2>1
  <2>3. written' <= Len(builder')
    <3>1. CASE Receive
      <4>1. /\ builder' = Append(builder, Head(channel)) /\ Head(channel) \in Urls
            /\ written' = written \/ written' = written + 1
        BY <3>1, HeadTailProperties DEF Receive, TypeOK
      <4>2. Len(builder') = Len(builder) + 1
        BY <4>1, AppendProperties DEF TypeOK
      <4>3. written \in Nat /\ Len(builder) \in Nat
        BY FlowType DEF TypeOK
      <4>. QED  BY <1>0, <4>1, <4>2, <4>3
    <3>2. CASE ~Receive
      <4>1. builder' = builder /\ written' = written
        BY <1>3, <3>2 DEF IndexerStep, Complete, Close, Flush, FlushFails, TakeSnapshot,
                          WriteFrontier
      <4>. QED  BY <1>0, <4>1
    <3>. QED  BY <3>1, <3>2
  <2>4. saved' # None => saved'.spooled <= saved'.handedOut
    <3>1. CASE saved' = saved
      BY <1>0, <3>1
    <3>2. CASE saved' = snap
      BY <1>0, <3>2
    <3>. QED  BY <1>3, <3>1, <3>2, IndexerFrame
  <2>5. snap' # None => snap'.spooled <= snap'.handedOut
    <3>1. CASE snap' = None \/ snap' = snap
      BY <1>0, <3>1
    <3>2. CASE TakeSnapshot
      <4>1. PICK order \in Orderings(frontier.inFlight) :
              snap' = Snapshot(frontier, written, order)
        BY <3>2 DEF TakeSnapshot
      <4>2. snap'.spooled = written /\ snap'.handedOut = frontier.handedOut
        BY <4>1 DEF Snapshot
      <4>3. /\ written \in Nat /\ Len(builder) <= Len(Flow)
            /\ Len(builder) \in Nat /\ Len(Flow) \in Nat /\ Cardinality(Busy) \in Nat
            /\ frontier.handedOut \in Nat
        BY FlowType, BusyIsFinite DEF TypeOK, FrontierType
      <4>. QED  BY <1>0, <4>2, <4>3 DEF Paid
    <3>. QED  BY <1>3, <3>1, <3>2, IndexerFrame
  <2>. QED  BY <2>2, <2>3, <2>4, <2>5 DEF CountInv
<1>4. CASE CommandStep \/ ResumeRefused
  <2>1. /\ UNCHANGED <<frontier, worker, builder, written, snap, note>> /\ Flow' = Flow
        /\ saved' = saved \/ saved' = None
    BY <1>4, CommandFrame
  <2>2. Paid' /\ HostsPaid'
    BY <1>2, <2>1
  <2>. QED  BY <1>0, <2>1, <2>2 DEF CountInv
<1>5. CASE StartFresh \/ Crash
  <2>1. frontier' = NewFrontier /\ FreshMemory /\ saved' = saved /\ builder' = <<>>
    BY <1>5 DEF StartFresh, Crash, disk
  <2>2. /\ Len(<<>>) <= frontier'.handedOut
        /\ \A h \in Hosts : PagesOf(<<>>, h) <= frontier'.perHost[h]
    BY <2>1, PagesOfEmpty, EmptySeq DEF NewFrontier
  <2>3. <<>> \in Seq(Urls)
    BY EmptySeq
  <2>4. Paid' /\ HostsPaid' /\ written' <= Len(builder')
    BY <2>1, <2>2, <2>3, BegunPaid
  <2>5. snap' = None
    BY <2>1, BeginsEmpty
  <2>. QED  BY <1>0, <2>1, <2>4, <2>5 DEF CountInv
<1>6. CASE Resume
  <2>1. /\ frontier' = Restore(saved) /\ FreshMemory /\ saved' = saved /\ saved # None
        /\ Readable(saved, spool) /\ builder' = Accounted(saved, spool)
        /\ note'.whole = savedNote.trusted
    BY <1>6 DEF Resume, disk, TypeOK, Note
  <2>2. Accounted(saved, spool) \in Seq(Urls) /\ Len(Accounted(saved, spool)) = saved.spooled
    BY <2>1, AccountedLength
  <2>3. Len(Accounted(saved, spool)) <= frontier'.handedOut
    BY <1>0, <2>1, <2>2 DEF Restore
  <2>4. NoRedirects /\ note'.whole =>
          \A h \in Hosts : PagesOf(Accounted(saved, spool), h) <= frontier'.perHost[h]
    BY <2>1 DEF CountPromiseInv, CountPromise, Restore
  <2>5. Paid' /\ HostsPaid' /\ written' <= Len(builder')
    BY <2>1, <2>2, <2>3, <2>4, BegunPaid
  <2>6. snap' = None
    BY <2>1, BeginsEmpty
  <2>. QED  BY <1>0, <2>1, <2>5, <2>6 DEF CountInv
<1>7. CASE UNCHANGED vars
  <2>1. UNCHANGED <<frontier, worker, channel, builder, written, snap, saved, note>>
    BY <1>7 DEF vars, memory, disk, history
  <2>2. Paid' /\ HostsPaid'
    BY <1>2, <2>1 DEF Flow
  <2>. QED  BY <1>0, <2>1, <2>2 DEF CountInv
<1>. QED  BY <1>1, <1>3, <1>4, <1>5, <1>6, <1>7 DEF Next, Ended

LEMMA NextCountPromise ==
  ASSUME TypeOK, NoGapInv, TrustInv, CountInv, CountPromiseInv, [Next]_vars
  PROVE  CountPromiseInv'
<1>1. ASSUME saved' # None, savedNote'.trusted, NoRedirects, NEW h \in Hosts
      PROVE  PagesOf(Accounted(saved', spool'), h) <= saved'.perHost[h]
  BY <1>1, SavedMoves DEF CountPromiseInv, CountPromise
<1>2. ASSUME Saving', snapNote'.trusted, NoRedirects, NEW h \in Hosts
      PROVE  PagesOf(Accounted(snap', spool'), h) <= snap'.perHost[h]
  <2>1. CASE /\ Saving /\ snapNote.trusted /\ snap' = snap
             /\ Accounted(snap', spool') = Accounted(snap, spool)
    BY <1>2, <2>1 DEF CountPromiseInv, CountPromise
  <2>2. CASE /\ note.trusted /\ Accounted(snap', spool') = builder
             /\ \E order \in Orderings(frontier.inFlight) :
                  snap' = Snapshot(frontier, written, order)
    <3>1. note.whole
      BY <2>2 DEF TrustInv
    <3>2. snap'.perHost = frontier.perHost
      BY <2>2 DEF Snapshot
    <3>3. PagesOf(Flow, h) + Cardinality(BusyAt(h)) <= frontier.perHost[h]
      BY <1>2, <3>1 DEF CountInv, HostsPaid
    <3>4. PagesOf(builder, h) <= PagesOf(Flow, h)
      BY FlowType
    <3>5. PagesOf(Flow, h) \in Nat /\ PagesOf(builder, h) \in Nat /\ Cardinality(BusyAt(h)) \in Nat
      BY FlowType, PagesOfType, BusyIsFinite DEF TypeOK
    <3>6. frontier.perHost[h] \in Nat
      BY DEF TypeOK, FrontierType
    <3>. QED  BY <2>2, <3>2, <3>3, <3>4, <3>5, <3>6
  <2>. QED  BY <1>2, <2>1, <2>2, SnapMoves
<1>. QED  BY <1>1, <1>2 DEF CountPromiseInv, CountPromise, NoRedirects

-----------------------------------------------------------------------------
LEMMA InitLimits == Init => LimitsInv
<1>. SUFFICES ASSUME Init  PROVE LimitsInv
  OBVIOUS
<1>1. /\ frontier = NewFrontier /\ Busy = {} /\ \A h \in Hosts : BusyAt(h) = {}
      /\ builder = <<>> /\ channel = <<>> /\ written = 0
      /\ saved = None /\ snap = None /\ phase = "down" /\ note = EmptyNote
  BY DEF Init, IdleWorker, Busy, BusyAt
<1>2. Flow = <<>> /\ Len(<<>>) = 0
  BY <1>1, EmptySeq, ConcatEmptySeq DEF Flow
<1>3. TrustInv /\ CountPromiseInv
  BY <1>1 DEF TrustInv, CountPromiseInv, Saving, EmptyNote
<1>4. ListInv
  BY <1>1, NewFrontierListed DEF ListInv, OwedOnce, HeldOnce, NewFrontier
<1>5. CountInv
  <2>1. Paid
    BY <1>1, <1>2, FS_EmptySet DEF Paid, NewFrontier
  <2>2. HostsPaid
    BY <1>1 DEF HostsPaid, EmptyNote
  <2>. QED  BY <1>1, <1>2, <2>1, <2>2 DEF CountInv
<1>. QED  BY <1>3, <1>4, <1>5 DEF LimitsInv

LEMMA NextLimits ==
  TypeOK /\ TypeOK' /\ NoGapInv /\ LimitsInv /\ [Next]_vars => LimitsInv'
BY NextTrust, NextListed, NextCounts, NextCountPromise DEF LimitsInv

LEMMA LimitsKept ==
  TypeOK /\ LimitsInv => CrawlKeepsItsLimits
<1>. SUFFICES ASSUME TypeOK, LimitsInv  PROVE CrawlKeepsItsLimits
  OBVIOUS
<1>1. Listed(frontier) /\ Paid /\ HostsPaid
  BY DEF LimitsInv, ListInv, CountInv
<1>2. /\ Len(Flow) = Len(builder) + Len(channel) /\ Len(Flow) \in Nat
      /\ Len(builder) \in Nat /\ Len(channel) \in Nat /\ Cardinality(Busy) \in Nat
      /\ frontier.handedOut \in Nat /\ MaxPages \in Nat
  BY FlowType, BusyIsFinite, FrontierAssumption DEF TypeOK, FrontierType
<1>3. Len(builder) + Len(channel) <= MaxPages
  BY <1>1, <1>2 DEF Paid, Listed
<1>4. ASSUME NoRedirects, note.whole, NEW h \in Hosts
      PROVE  PagesOf(builder, h) <= MaxPagesPerHost
  <2>1. PagesOf(Flow, h) + Cardinality(BusyAt(h)) <= frontier.perHost[h]
    BY <1>1, <1>4 DEF HostsPaid
  <2>2. /\ PagesOf(builder, h) <= PagesOf(Flow, h) /\ frontier.perHost[h] <= MaxPagesPerHost
        /\ PagesOf(builder, h) \in Nat /\ PagesOf(Flow, h) \in Nat
        /\ Cardinality(BusyAt(h)) \in Nat /\ frontier.perHost[h] \in Nat
    BY <1>1, FlowType, PagesOfType, BusyIsFinite DEF Listed, TypeOK, FrontierType
  <2>. QED  BY <2>1, <2>2, FrontierAssumption
<1>5. StaysOnSeedHosts
  BY <1>1 DEF Listed, StaysOnSeedHosts, SeedHosts
<1>. QED  BY <1>3, <1>4, <1>5 DEF CrawlKeepsItsLimits, IndexWithinBudget

LEMMA LimitsHold == Spec => []LimitsInv
BY NextLimits, InitLimits, NoGapHolds, TypeCorrect, PTL DEF Spec

(* Killed and resumed as often as it may be, a crawl never indexes more     *)
(* pages than the budget, nor, where no redirect leads astray, more of a    *)
(* host than that host's; and it never leaves the hosts it was seeded with. *)
THEOREM LimitsAreKept == Spec => []CrawlKeepsItsLimits
BY LimitsKept, LimitsHold, TypeCorrect, PTL

-----------------------------------------------------------------------------
(* The end of a crawl. *)

LEMMA WorkerStepEnd ==
  ASSUME TypeOK, ListInv, EndInv, NEW w \in Workers, WorkerStep(w)
  PROVE  EndInv'
<1>0. Listed(frontier) /\ UNCHANGED <<phase, indexer>> /\ phase = "crawling"
  BY WorkerFrame DEF ListInv
<1>1. worker[w].pc # "gone"
  BY DEF WorkerStep, Take, Leave, GiveUp, Follow, Describe, Send, AtWork
<1>2. ~indexer'.closing /\ indexer'.pc # "done"
  BY <1>0, <1>1 DEF EndInv, AllGone
<1>3. CASE Leave(w)
  <2>1. frontier'.queue = <<>> \/ note'.waived # {}
    BY <1>0, <1>3, LeaveDoes
  <2>. QED  BY <1>0, <1>2, <2>1 DEF EndInv
<1>4. CASE ~Leave(w)
  <2>1. worker'[w].pc # "gone"
    BY <1>4 DEF WorkerStep, Take, GiveUp, Follow, Describe, Send, MoveTo, TypeOK
  <2>. QED  BY <1>0, <1>2, <2>1 DEF EndInv, AllGone
<1>. QED  BY <1>3, <1>4

LEMMA IndexerStepEnd ==
  ASSUME TypeOK, EndInv, IndexerStep
  PROVE  EndInv'
<1>0. /\ phase' = "crawling" /\ worker' = worker /\ note'.waived = note.waived
      /\ frontier'.queue = frontier.queue
  BY IndexerFrame, CompletedDoes
<1>1. indexer \in IndexerType
  BY DEF TypeOK
<1>2. CASE Receive
  <2>1. ~indexer.closing
    BY <1>2 DEF Receive, EndInv
  <2>2. indexer'.closing = indexer.closing /\ indexer'.pc = "complete"
    BY <1>1, <1>2 DEF Receive, IndexerType
  <2>. QED  BY <1>0, <2>1, <2>2 DEF EndInv, AllGone
<1>3. CASE Close
  <2>1. indexer'.pc = "flush" /\ channel' = <<>> /\ AllGone
    BY <1>1, <1>3 DEF Close, IndexerType, AllGone
  <2>. QED  BY <1>0, <2>1 DEF EndInv, AllGone
<1>4. ASSUME channel' = channel, indexer'.closing = indexer.closing,
             indexer'.pc = "done" => indexer'.closing
      PROVE  EndInv'
  BY <1>0, <1>4 DEF EndInv, AllGone
<1>5. CASE Complete
  <2>1. indexer'.closing = indexer.closing /\ channel' = channel
    BY <1>1, <1>5 DEF Complete, IndexerType
  <2>2. indexer'.pc # "done"
    <3>1. PICK due \in BOOLEAN :
            indexer' = [indexer EXCEPT !.pc    = IF due THEN "flush" ELSE "receive",
                                       !.doc   = None,
                                       !.since = IF due THEN 0 ELSE @ + 1]
      BY <1>5, Zenon DEF Complete
    <3>. QED  BY <1>1, <3>1 DEF IndexerType
  <2>. QED  BY <1>4, <2>1, <2>2
<1>6. CASE Flush \/ TakeSnapshot
  <2>1. /\ channel' = channel /\ indexer'.closing = indexer.closing
        /\ indexer'.pc \in {"snapshot", "write"}
    BY <1>1, <1>6 DEF Flush, TakeSnapshot, IndexerType
  <2>. QED  BY <1>4, <2>1
<1>7. CASE FlushFails \/ WriteFrontier
  <2>1. channel' = channel /\ indexer' = AfterSave
    BY <1>7 DEF FlushFails, WriteFrontier
  <2>2. indexer'.closing = indexer.closing /\ (indexer'.pc = "done" => indexer'.closing)
    BY <1>1, <2>1 DEF AfterSave, IndexerType
  <2>. QED  BY <1>4, <2>1, <2>2
<1>. QED  BY <1>2, <1>3, <1>5, <1>6, <1>7 DEF IndexerStep

LEMMA NextEnd ==
  ASSUME TypeOK, ListInv, EndInv, [Next]_vars
  PROVE  EndInv'
<1>1. ASSUME FreshMemory, phase' \in {"crawling", "down"}
      PROVE  EndInv'
  <2>1. /\ indexer' = ReadyIndexer /\ \A w \in Workers : worker'[w].pc = "idle"
    BY <1>1, BeginsEmpty
  <2>2. ~AllGone'
    BY <2>1, CrawlAssumption DEF AllGone
  <2>. QED  BY <1>1, <2>1, <2>2 DEF EndInv, ReadyIndexer
<1>2. CASE StartFresh \/ Resume \/ Crash
  BY <1>1, <1>2 DEF StartFresh, Resume, Crash
<1>3. CASE ResumeRefused
  BY <1>3 DEF ResumeRefused, EndInv, AllGone, memory, history
<1>4. CASE \E w \in Workers : WorkerStep(w)
  BY <1>4, WorkerStepEnd
<1>5. CASE IndexerStep
  BY <1>5, IndexerStepEnd
<1>6. CASE CommandStep
  <2>1. CASE WriteIndex
    BY <2>1 DEF WriteIndex, Indexing, EndInv, AllGone, history
  <2>2. CASE KeepCheckpoint
    BY <2>2 DEF KeepCheckpoint, EndInv, AllGone, memory, disk, history
  <2>3. CASE DiscardSpool
    BY <2>3 DEF DiscardSpool, EndInv, AllGone, memory
  <2>4. CASE DiscardFrontier
    BY <2>4 DEF DiscardFrontier, EndInv, AllGone, memory, history
  <2>. QED  BY <1>6, <2>1, <2>2, <2>3, <2>4 DEF CommandStep
<1>7. CASE UNCHANGED vars
  BY <1>7 DEF vars, memory, disk, history, EndInv, AllGone
<1>. QED  BY <1>2, <1>3, <1>4, <1>5, <1>6, <1>7 DEF Next, Ended

-----------------------------------------------------------------------------
(* A page that is its own is indexed once. *)

LEMMA FlowHolds ==
  ASSUME TypeOK
  PROVE  /\ Members(Flow) = Members(builder) \union Members(channel)
         /\ Members(builder) \subseteq Urls
         /\ \A i \in DOMAIN builder : i \in DOMAIN Flow /\ Flow[i] = builder[i]
<1>1. builder \in Seq(Urls) /\ channel \in Seq(Urls)
  BY DEF TypeOK
<1>2. Members(Flow) = Members(builder) \union Members(channel)
  BY <1>1, MembersOfConcat DEF Flow
<1>3. \A i \in DOMAIN builder : builder[i] \in Urls
  BY <1>1, ElementOfSeq, LenProperties
<1>4. /\ DOMAIN builder = 1..Len(builder) /\ Len(builder) \in Nat /\ Len(channel) \in Nat
      /\ DOMAIN Flow = 1..Len(Flow) /\ Len(Flow) = Len(builder) + Len(channel)
      /\ \A i \in 1..Len(builder) + Len(channel) :
           Flow[i] = IF i <= Len(builder) THEN builder[i] ELSE channel[i - Len(builder)]
  BY <1>1, ConcatProperties, LenProperties DEF Flow
<1>5. \A i \in DOMAIN builder : i \in DOMAIN Flow /\ Flow[i] = builder[i]
  BY <1>4
<1>. QED  BY <1>2, <1>3, <1>5 DEF Members

LEMMA OnceStays ==
  ASSUME NEW f, NEW g, NEW pages, IndexedOnce(f, pages), Away(f) \subseteq Away(g)
  PROVE  IndexedOnce(g, pages)
BY DEF IndexedOnce

LEMMA OnceAppended ==
  ASSUME NEW f, NEW pages \in Seq(Urls), NEW u \in Urls, IndexedOnce(f, pages),
         Own(u) => u \in Away(f) /\ u \notin Members(pages)
  PROVE  IndexedOnce(f, Append(pages, u))
<1>. DEFINE longer == Append(pages, u)
<1>1. /\ longer \in Seq(Urls) /\ Len(longer) = Len(pages) + 1
      /\ \A i \in 1..Len(pages) : longer[i] = pages[i]
      /\ longer[Len(pages) + 1] = u
  BY AppendProperties
<1>2. /\ DOMAIN pages = 1..Len(pages) /\ Len(pages) \in Nat
      /\ DOMAIN longer = 1..(Len(pages) + 1)
  BY <1>1, LenProperties
<1>. HIDE DEF longer
<1>3. \A i \in DOMAIN longer : \/ i \in DOMAIN pages /\ longer[i] = pages[i]
                               \/ i = Len(pages) + 1 /\ longer[i] = u
  BY <1>1, <1>2
<1>4. ASSUME NEW i \in DOMAIN longer, Own(longer[i])
      PROVE  longer[i] \in Away(f) /\ \A j \in DOMAIN longer : longer[j] = longer[i] => j = i
  <2>1. CASE i \in DOMAIN pages /\ longer[i] = pages[i]
    <3>1. pages[i] \in Members(pages)
      BY <2>1 DEF Members
    <3>. QED  BY <1>3, <1>4, <2>1, <3>1 DEF IndexedOnce
  <2>2. CASE i = Len(pages) + 1 /\ longer[i] = u
    <3>1. \A j \in DOMAIN pages : pages[j] # u
      BY <1>4, <2>2 DEF Members
    <3>. QED  BY <1>3, <1>4, <2>2, <3>1
  <2>. QED  BY <1>3, <2>1, <2>2
<1>. QED  BY <1>4 DEF IndexedOnce, longer

(* A page handed on or owed, that is its own, is not in the queue. *)
LEMMA OwnIsAway ==
  ASSUME TypeOK, IndexedOnce(frontier, Flow), NEW p \in Members(Flow), Own(p)
  PROVE  p \in Away(frontier)
BY DEF IndexedOnce, Members

LEMMA WorkerStepOnce ==
  ASSUME TypeOK, ListInv, OnceInv, NEW w \in Workers, WorkerStep(w)
  PROVE  OnceInv'
<1>. SUFFICES ASSUME note.whole
              PROVE  /\ IndexedOnce(frontier', Flow')
                     /\ \A p \in Members(Flow') : Own(p) =>
                          \A v \in Busy' : worker'[v].item.url # p
                     /\ \A p \in Members(builder') : Own(p) /\ p \in UrlsOf(frontier'.inFlight) =>
                          indexer'.pc = "complete" /\ indexer'.doc = p
  BY WorkerFrame DEF OnceInv, IndexedOnce, Own, Away
<1>0. /\ IndexedOnce(frontier, Flow)
      /\ \A p \in Members(Flow) : Own(p) => \A v \in Busy : worker[v].item.url # p
      /\ \A p \in Members(builder) : Own(p) /\ p \in UrlsOf(frontier.inFlight) =>
           indexer.pc = "complete" /\ indexer.doc = p
      /\ builder' = builder /\ indexer' = indexer
      /\ Listed(frontier) /\ HeldOnce
  BY WorkerFrame DEF OnceInv, ListInv
<1>1. Away(frontier) \subseteq Away(frontier')
  BY WorkerStepAway
<1>2. Members(builder) \subseteq Members(Flow)
  BY FlowHolds
<1>3. CASE Send(w)
  <2>1. /\ Flow' = Append(Flow, Page(w)) /\ Page(w) \in Urls /\ Flow \in Seq(Urls)
        /\ frontier' = frontier
    BY <1>3, WorkerFlow, FlowType DEF Send
  <2>2. w \in Busy /\ MoveTo(w, "idle", None) /\ worker[w].item.url \in Urls
    BY <1>3, HeldType DEF Send, AtWork, Busy
  <2>3. Busy' = Busy \ {w} /\ \A v \in Busy' : worker'[v] = worker[v] /\ v \in Busy /\ v # w
    BY <2>2, MoveDoes DEF Busy
  <2>4. ASSUME Own(Page(w))
        PROVE  /\ worker[w].item.url = Page(w) /\ Page(w) \in Away(frontier)
               /\ Page(w) \notin Members(Flow)
               /\ \A v \in Busy' : worker'[v].item.url # Page(w)
    <3>1. worker[w].item.url = Page(w)
      BY <2>2, <2>4 DEF Own, Page
    <3>. QED  BY <1>0, <2>2, <2>3, <2>4, <3>1 DEF HeldOnce
  <2>5. IndexedOnce(frontier, Append(Flow, Page(w)))
    BY <1>0, <2>1, <2>4, OnceAppended
  <2>6. Members(Flow') = Members(Flow) \union {Page(w)}
    BY <2>1, MembersOfAppend
  <2>. QED  BY <1>0, <2>1, <2>3, <2>4, <2>5, <2>6
<1>4. CASE Take(w)
  <2>1. PICK p \in Pending :
          /\ p.url \in Waiting(frontier.queue)
          /\ frontier'.inFlight = frontier.inFlight \union {p}
          /\ MoveTo(w, "fetching", p)
    BY <1>0, <1>4, TakeDoes
  <2>2. Flow' = Flow
    BY <1>4, WorkerFlow DEF Take, Send, AtWork
  <2>3. ASSUME NEW u \in Members(Flow), Own(u)  PROVE u # p.url
    <3>1. u \in Away(frontier)
      BY <1>0, <2>3, OwnIsAway
    <3>. QED  BY <2>1, <3>1 DEF Away
  <2>4. Busy' = Busy \union {w} /\ worker'[w].item = p
    BY <2>1, MoveDoes
  <2>5. \A v \in Busy' : v = w \/ (v \in Busy /\ worker'[v] = worker[v])
    BY <2>1, <2>4, MoveDoes DEF Busy
  <2>6. UrlsOf(frontier'.inFlight) = UrlsOf(frontier.inFlight) \union {p.url}
    BY <2>1 DEF UrlsOf
  <2>7. IndexedOnce(frontier', Flow')
    BY <1>0, <1>1, <2>2, OnceStays
  <2>8. ASSUME NEW u \in Members(Flow'), Own(u), NEW v \in Busy'
        PROVE  worker'[v].item.url # u
    BY <1>0, <2>2, <2>3, <2>4, <2>5, <2>8
  <2>9. ASSUME NEW u \in Members(builder'), Own(u), u \in UrlsOf(frontier'.inFlight)
        PROVE  indexer'.pc = "complete" /\ indexer'.doc = u
    BY <1>0, <1>2, <2>3, <2>6, <2>9
  <2>. QED  BY <2>7, <2>8, <2>9
<1>5. CASE Leave(w) \/ GiveUp(w) \/ Follow(w) \/ Describe(w)
  <2>1. Flow' = Flow
    BY <1>5, WorkerFlow DEF Leave, GiveUp, Follow, Describe, Flow
  <2>2. frontier'.inFlight = frontier.inFlight
    <3>1. CASE Leave(w)
      BY <1>0, <3>1, LeaveDoes
    <3>2. CASE Follow(w)
      <4>1. worker[w].item.depth < Cardinality(frontier.seen)
        BY <1>0, <3>2 DEF HeldOnce, Busy, Follow, AtWork
      <4>. QED  BY <1>0, <3>2, <4>1, FollowDoes
    <3>3. CASE GiveUp(w) \/ Describe(w)
      BY <3>3, IdleMoves
    <3>. QED  BY <1>5, <3>1, <3>2, <3>3
  <2>3. \A v \in Busy' : v \in Busy /\ worker'[v].item = worker[v].item
    <3>1. CASE Leave(w) \/ GiveUp(w)
      <4>1. MoveTo(w, "gone", None) \/ MoveTo(w, "idle", None)
        BY <3>1 DEF Leave, GiveUp
      <4>. QED  BY <4>1, MoveDoes DEF Busy
    <3>2. CASE Follow(w) \/ Describe(w)
      <4>1. /\ w \in Busy
            /\ \/ MoveTo(w, "idle", None) \/ MoveTo(w, "parsed", worker[w].item)
               \/ MoveTo(w, "sending", worker[w].item)
        BY <3>2 DEF Follow, Describe, AtWork, Busy
      <4>2. CASE MoveTo(w, "idle", None)
        BY <4>2, MoveDoes DEF Busy
      <4>3. CASE MoveTo(w, "parsed", worker[w].item) \/ MoveTo(w, "sending", worker[w].item)
        BY <4>1, <4>3, MoveDoes DEF Busy
      <4>. QED  BY <4>1, <4>2, <4>3
    <3>. QED  BY <1>5, <3>1, <3>2
  <2>4. IndexedOnce(frontier', Flow')
    BY <1>0, <1>1, <2>1, OnceStays
  <2>. QED  BY <1>0, <2>1, <2>2, <2>3, <2>4
<1>. QED  BY <1>3, <1>4, <1>5 DEF WorkerStep

LEMMA IndexerStepOnce ==
  ASSUME TypeOK, OnceInv, IndexerStep
  PROVE  OnceInv'
<1>. SUFFICES ASSUME note.whole
              PROVE  /\ IndexedOnce(frontier', Flow')
                     /\ \A p \in Members(Flow') : Own(p) =>
                          \A v \in Busy' : worker'[v].item.url # p
                     /\ \A p \in Members(builder') : Own(p) /\ p \in UrlsOf(frontier'.inFlight) =>
                          indexer'.pc = "complete" /\ indexer'.doc = p
  BY IndexerFrame DEF OnceInv, IndexedOnce, Own, Away
<1>0. /\ IndexedOnce(frontier, Flow)
      /\ \A p \in Members(Flow) : Own(p) => \A v \in Busy : worker[v].item.url # p
      /\ \A p \in Members(builder) : Own(p) /\ p \in UrlsOf(frontier.inFlight) =>
           indexer.pc = "complete" /\ indexer.doc = p
      /\ Flow' = Flow /\ worker' = worker /\ Busy' = Busy
  BY IndexerFrame DEF OnceInv, Busy
<1>1. IndexedOnce(frontier', Flow')
  <2>1. Away(frontier) \subseteq Away(frontier')
    BY IndexerFrame, CompletedDoes DEF Away
  <2>. QED  BY <1>0, <2>1, OnceStays
<1>2. ASSUME NEW p \in Members(builder'), Own(p), p \in UrlsOf(frontier'.inFlight)
      PROVE  indexer'.pc = "complete" /\ indexer'.doc = p
  <2>1. CASE Receive
    <3>1. /\ builder' = Append(builder, Head(channel)) /\ frontier' = frontier
          /\ indexer.pc = "receive" /\ channel # <<>>
          /\ indexer'.pc = "complete" /\ indexer'.doc = Head(channel)
      BY <2>1 DEF Receive, Indexing, TypeOK, IndexerType
    <3>2. Head(channel) \in Urls
      BY <3>1, HeadTailProperties DEF TypeOK
    <3>3. Members(builder') = Members(builder) \union {Head(channel)}
      BY <3>1, <3>2, MembersOfAppend DEF TypeOK
    <3>. QED  BY <1>0, <1>2, <3>1, <3>3
  <2>2. CASE Complete
    <3>1. /\ builder' = builder /\ indexer.pc = "complete"
          /\ frontier'.inFlight = {q \in frontier.inFlight : q.url # indexer.doc}
      BY <2>2, CompletedDoes DEF Complete, Indexing
    <3>2. p \in UrlsOf(frontier.inFlight) /\ p # indexer.doc
      BY <1>2, <3>1 DEF UrlsOf
    <3>. QED  BY <1>0, <1>2, <3>1, <3>2
  <2>3. CASE ~Receive /\ ~Complete
    <3>1. builder' = builder /\ frontier' = frontier /\ indexer.pc # "complete"
      BY <2>3 DEF IndexerStep, Close, Flush, FlushFails, TakeSnapshot, WriteFrontier, Indexing
    <3>. QED  BY <1>0, <1>2, <3>1
  <2>. QED  BY <2>1, <2>2, <2>3
<1>. QED  BY <1>0, <1>1, <1>2

(* A process that begins owes nothing and holds nothing. *)
LEMMA BegunOnce ==
  ASSUME FreshMemory, NEW pages \in Seq(Urls), builder' = pages,
         frontier'.inFlight = {}, note'.whole => IndexedOnce(frontier', pages)
  PROVE  OnceInv'
<1>1. Busy' = {} /\ channel' = <<>>
  BY BeginsEmpty
<1>2. Flow' = pages
  BY <1>1, ConcatEmptySeq DEF Flow
<1>3. UrlsOf(frontier'.inFlight) = {}
  BY DEF UrlsOf
<1>4. note'.whole => IndexedOnce(frontier, Flow)'
  BY <1>2 DEF IndexedOnce, Own, Away
<1>. QED  BY <1>1, <1>3, <1>4 DEF OnceInv

LEMMA NextOnce ==
  ASSUME TypeOK, ListInv, OnceInv, PagesPromiseInv, [Next]_vars
  PROVE  OnceInv'
<1>1. CASE StartFresh
  <2>1. IndexedOnce(frontier', <<>>)
    BY DEF IndexedOnce
  <2>2. frontier'.inFlight = {} /\ builder' = <<>> /\ FreshMemory /\ <<>> \in Seq(Urls)
    BY <1>1, EmptySeq DEF StartFresh, NewFrontier
  <2>. QED  BY <2>1, <2>2, BegunOnce
<1>2. CASE Resume
  <2>1. /\ saved # None /\ Readable(saved, spool) /\ FreshMemory
        /\ builder' = Accounted(saved, spool)
        /\ frontier'.inFlight = {} /\ frontier'.seen = saved.seen
        /\ frontier'.queue = saved.queue
    BY <1>2 DEF Resume, Restore
  <2>2. note'.whole => savedNote.trusted
    BY <1>2 DEF Resume, TypeOK, Note
  <2>3. Accounted(saved, spool) \in Seq(Urls)
    BY <2>1, AccountedLength
  <2>4. note'.whole => IndexedOnce(saved, Accounted(saved, spool))
    BY <2>1, <2>2 DEF PagesPromiseInv, PagesPromise
  <2>5. note'.whole => IndexedOnce(frontier', Accounted(saved, spool))
    BY <2>1, <2>4, OnceStays DEF Away
  <2>. QED  BY <2>1, <2>3, <2>5, BegunOnce
<1>3. CASE Crash
  BY <1>3 DEF Crash, EmptyNote, OnceInv
<1>4. CASE ResumeRefused \/ CommandStep
  BY <1>4, CommandFrame DEF OnceInv, IndexedOnce, Own, Away, Busy
<1>5. CASE \E w \in Workers : WorkerStep(w)
  BY <1>5, WorkerStepOnce
<1>6. CASE IndexerStep
  BY <1>6, IndexerStepOnce
<1>7. CASE UNCHANGED vars
  BY <1>7 DEF vars, memory, history, OnceInv, IndexedOnce, Own, Away, Busy, Flow
<1>. QED  BY <1>1, <1>2, <1>3, <1>4, <1>5, <1>6, <1>7 DEF Next, Ended

-----------------------------------------------------------------------------
(* A page that was followed leaves its links, and their text, behind. *)

LEMMA LinkedStays ==
  ASSUME NEW f, NEW g, NEW pages, NEW fewer \in SUBSET pages, NEW d, NEW e,
         Linked(f, pages, d), f.seen \subseteq g.seen,
         \A u \in fewer : \A v \in Links[u] : TextKept(f, u, v, d) => TextKept(g, u, v, e)
  PROVE  Linked(g, fewer, e)
BY DEF Linked

LEMMA AnchorsType ==
  ASSUME TypeOK, NEW v \in Urls
  PROVE  /\ frontier.anchors[v] \in SUBSET Urls /\ IsFiniteSet(frontier.anchors[v])
         /\ Cardinality(frontier.anchors[v]) \in Nat
BY SeenIsFinite DEF TypeOK, FrontierType

(* A step loses no text but of a URL it takes the texts of. *)
LEMMA WorkerStepTexts ==
  ASSUME TypeOK, TypeOK', ListInv, NEW w \in Workers, WorkerStep(w),
         NEW u \in Urls, NEW v \in Urls, TextKept(frontier, u, v, note.described)
  PROVE  TextKept(frontier', u, v, note'.described)
<1>0. Listed(frontier) /\ note.described \subseteq note'.described
  BY WorkerFrame DEF ListInv
<1>1. ASSUME frontier'.anchors[v] = frontier.anchors[v]
      PROVE  TextKept(frontier', u, v, note'.described)
  BY <1>0, <1>1 DEF TextKept
<1>2. CASE Take(w) \/ Leave(w) \/ GiveUp(w) \/ Send(w)
  <2>1. frontier'.anchors = frontier.anchors
    BY <1>0, <1>2, TakeDoes, LeaveDoes DEF GiveUp, Send
  <2>. QED  BY <1>1, <2>1
<1>3. CASE Follow(w)
  <2>1. worker[w].item.depth < Cardinality(frontier.seen)
    BY <1>3 DEF ListInv, HeldOnce, Busy, Follow, AtWork
  <2>2. frontier'.anchors = WithAnchor(frontier, Links[Page(w)], Page(w))
    BY <1>0, <1>3, <2>1, FollowDoes
  <2>3. frontier.anchors[v] \subseteq frontier'.anchors[v]
    BY <2>2 DEF WithAnchor
  <2>4. /\ frontier.anchors[v] \in SUBSET Urls /\ frontier'.anchors[v] \in SUBSET Urls
        /\ Cardinality(frontier.anchors[v]) \in Nat
        /\ Cardinality(frontier'.anchors[v]) \in Nat
    BY AnchorsType, SeenIsFinite DEF TypeOK, FrontierType
  <2>5. Cardinality(frontier.anchors[v]) <= Cardinality(frontier'.anchors[v])
    BY <2>3, <2>4, SeenGrows
  <2>6. Cardinality(frontier.anchors[v]) >= AnchorCap =>
          Cardinality(frontier'.anchors[v]) >= AnchorCap
    BY <2>4, <2>5, FrontierAssumption
  <2>. QED  BY <1>0, <2>3, <2>6 DEF TextKept
<1>4. CASE Describe(w)
  <2>1. frontier' = TakeAnchors(frontier, Page(w)) /\ Page(w) \in note'.described
    BY <1>4 DEF Describe, TypeOK, Note
  <2>2. v # Page(w) => frontier'.anchors[v] = frontier.anchors[v]
    BY <2>1 DEF TakeAnchors, TypeOK, FrontierType
  <2>3. v = Page(w) => v \in note'.described
    BY <2>1
  <2>. QED  BY <1>1, <2>2, <2>3 DEF TextKept
<1>. QED  BY <1>2, <1>3, <1>4 DEF WorkerStep

(* A worker's page is in Followed from when its links are queued. *)
LEMMA FollowedMoves ==
  ASSUME TypeOK, NEW w \in Workers, WorkerStep(w)
  PROVE  /\ Followed \subseteq Followed'
         /\ IF Follow(w) /\ Page(w) \notin NoIndex
              THEN Followed' = Followed \union {Page(w)} ELSE Followed' = Followed
<1>. DEFINE page(v) == Target[worker[v].item.url]
            page2(v) == Target[worker'[v].item.url]
<1>0. /\ Followed = Members(Flow) \union {page(v) : v \in Carriers}
      /\ Followed' = Members(Flow') \union {page2(v) : v \in Carriers'}
  BY DEF Followed, Page
<1>1. \A v \in Workers \ {w} : worker'[v] = worker[v]
  BY DEF WorkerStep, Take, Leave, GiveUp, Follow, Describe, Send, MoveTo, TypeOK
<1>2. Carriers' \ {w} = Carriers \ {w} /\ \A v \in Carriers \ {w} : page2(v) = page(v)
  BY <1>1 DEF Carriers
<1>3. ASSUME worker[w].pc \notin {"parsed", "sending"}, worker'[w].pc \notin {"parsed", "sending"},
             Flow' = Flow
      PROVE  Followed' = Followed
  <2>1. Carriers' = Carriers /\ \A v \in Carriers : page2(v) = page(v)
    BY <1>2, <1>3 DEF Carriers
  <2>. QED  BY <1>0, <1>3, <2>1
<1>4. CASE Take(w) \/ Leave(w) \/ GiveUp(w) \/ (Follow(w) /\ Page(w) \in NoIndex)
  <2>1. /\ worker[w].pc \notin {"parsed", "sending"} /\ worker'[w].pc \notin {"parsed", "sending"}
        /\ ~(Follow(w) /\ Page(w) \notin NoIndex)
    BY <1>4 DEF Take, Leave, GiveUp, Follow, AtWork, MoveTo, TypeOK
  <2>2. Flow' = Flow
    BY <1>4, WorkerFlow DEF Take, Leave, GiveUp, Follow, Flow
  <2>. QED  BY <1>3, <2>1, <2>2
<1>5. CASE Follow(w) /\ Page(w) \notin NoIndex
  <2>1. /\ Flow' = Flow /\ w \notin Carriers /\ w \in Carriers'
        /\ worker'[w].item = worker[w].item
    BY <1>5 DEF Follow, AtWork, MoveTo, Flow, Carriers, TypeOK
  <2>2. Carriers' = Carriers \union {w} /\ page2(w) = page(w) /\ page(w) = Page(w)
    BY <1>2, <2>1 DEF Page
  <2>3. {page2(v) : v \in Carriers'} = {page(v) : v \in Carriers} \union {Page(w)}
    BY <1>2, <2>1, <2>2
  <2>. QED  BY <1>0, <1>5, <2>1, <2>3
<1>6. CASE Describe(w)
  <2>1. /\ Flow' = Flow /\ w \in Carriers /\ w \in Carriers' /\ worker'[w].item = worker[w].item
    BY <1>6 DEF Describe, AtWork, MoveTo, Flow, Carriers, TypeOK
  <2>2. Carriers' = Carriers /\ \A v \in Carriers : page2(v) = page(v)
    BY <1>2, <2>1
  <2>3. ~Follow(w)
    BY <1>6 DEF Describe, Follow, AtWork
  <2>. QED  BY <1>0, <2>1, <2>2, <2>3
<1>7. CASE Send(w)
  <2>1. /\ w \in Carriers /\ w \notin Carriers'
    BY <1>7 DEF Send, AtWork, MoveTo, Carriers, TypeOK
  <2>2. Flow' = Append(Flow, page(w)) /\ page(w) \in Urls /\ Flow \in Seq(Urls)
    BY <1>7, WorkerFlow, FlowType DEF Page
  <2>3. Members(Flow') = Members(Flow) \union {page(w)}
    BY <2>2, MembersOfAppend
  <2>4. Carriers = Carriers' \union {w} /\ \A v \in Carriers' : page2(v) = page(v)
    BY <1>2, <2>1
  <2>5. {page(v) : v \in Carriers} = {page2(v) : v \in Carriers'} \union {page(w)}
    BY <2>4
  <2>6. ~Follow(w)
    BY <1>7 DEF Send, Follow, AtWork
  <2>. QED  BY <1>0, <2>3, <2>5, <2>6
<1>. QED  BY <1>4, <1>5, <1>6, <1>7 DEF WorkerStep

(* No path through the web has more links than there are URLs, so a depth   *)
(* no path reaches keeps no link out.                                       *)
LEMMA FollowSeesLinks ==
  ASSUME TypeOK, ListInv, NEW w \in Workers, Follow(w)
  PROVE  /\ Page(w) \in Urls /\ Target[Page(w)] = Page(w)
         /\ DepthNeverBites => ScopedLinks(Page(w)) \subseteq frontier'.seen
         /\ \A v \in Links[Page(w)] : TextKept(frontier', Page(w), v, note'.described)
         /\ frontier'.seen = frontier.seen \union NewLinks(w)
         /\ Waiting(frontier'.queue) = Waiting(frontier.queue) \union NewLinks(w)
<1>0. Listed(frontier) /\ worker[w].item.depth < Cardinality(frontier.seen)
  BY DEF ListInv, HeldOnce, Busy, Follow, AtWork
<1>1. /\ frontier'.seen = frontier.seen \union NewLinks(w)
      /\ Waiting(frontier'.queue) = Waiting(frontier.queue) \union NewLinks(w)
      /\ frontier'.anchors = WithAnchor(frontier, Links[Page(w)], Page(w))
  BY <1>0, FollowDoes
<1>2. /\ worker[w].item.url \in Urls /\ worker[w].item.depth \in Nat
      /\ Page(w) \in Urls
  BY HeldType DEF Follow, AtWork
<1>3. Target[Page(w)] = Page(w) /\ Links[Page(w)] \in SUBSET Urls
  BY <1>2, CrawlAssumption DEF Page
<1>4. ASSUME DepthNeverBites, NEW v \in ScopedLinks(Page(w))
      PROVE  v \in frontier'.seen
  <2>1. v \in Links[Page(w)] /\ (SameHostOnly => HostOf[v] \in frontier.seedHosts)
    BY <1>0, <1>4 DEF ScopedLinks, Listed, SeedHosts
  <2>2. worker[w].item.depth + 1 <= MaxDepth
    <3>1. /\ frontier.seen \in SUBSET Urls /\ Urls \in SUBSET Urls
          /\ Cardinality(frontier.seen) \in Nat /\ Cardinality(Urls) \in Nat
          /\ Cardinality(frontier.seen) <= Cardinality(Urls)
      BY SeenGrows, SeenIsFinite DEF TypeOK, FrontierType
    <3>2. MaxDepth \in Nat /\ MaxDepth >= Cardinality(Urls)
      BY <1>4, FrontierAssumption DEF DepthNeverBites
    <3>. QED  BY <1>0, <1>2, <3>1, <3>2
  <2>3. v \notin frontier.seen => v \in NewLinks(w)
    BY <2>1, <2>2 DEF NewLinks, Admits, InScope
  <2>. QED  BY <1>1, <2>3
<1>5. ASSUME NEW v \in Links[Page(w)]
      PROVE  TextKept(frontier', Page(w), v, note'.described)
  <2>1. frontier'.anchors[v] = IF Cardinality(frontier.anchors[v]) < AnchorCap
                                 THEN frontier.anchors[v] \union {Page(w)}
                                 ELSE frontier.anchors[v]
    BY <1>1, <1>3, <1>5 DEF WithAnchor
  <2>2. Cardinality(frontier.anchors[v]) \in Nat /\ AnchorCap \in Nat
    BY <1>3, <1>5, AnchorsType, FrontierAssumption
  <2>. QED  BY <2>1, <2>2 DEF TextKept
<1>. QED  BY <1>1, <1>2, <1>3, <1>4, <1>5

LEMMA WorkerStepLinked ==
  ASSUME TypeOK, TypeOK', ListInv, NEW w \in Workers, WorkerStep(w),
         Linked(frontier, Followed, note.described)
  PROVE  Linked(frontier', Followed', note'.described)
<1>1. Followed \subseteq Urls
  <2>1. Members(Flow) \subseteq Urls
    BY FlowType, ElementOfSeq, LenProperties DEF Members
  <2>2. \A v \in Carriers : Page(v) \in Urls
    BY HeldType DEF Carriers
  <2>. QED  BY <2>1, <2>2 DEF Followed
<1>2. Linked(frontier', Followed, note'.described)
  <2>1. frontier.seen \subseteq frontier'.seen
    BY WorkerStepAway
  <2>2. ASSUME NEW u \in Followed, NEW v \in Links[u], TextKept(frontier, u, v, note.described)
        PROVE  TextKept(frontier', u, v, note'.described)
    BY <1>1, <2>2, WorkerStepTexts, CrawlAssumption
  <2>. QED  BY <2>1, <2>2, LinkedStays
<1>3. CASE Follow(w) /\ Page(w) \notin NoIndex
  BY <1>2, <1>3, FollowedMoves, FollowSeesLinks DEF Linked
<1>4. CASE ~(Follow(w) /\ Page(w) \notin NoIndex)
  BY <1>2, <1>4, FollowedMoves
<1>. QED  BY <1>3, <1>4

(* Wherever a URL was, it is accounted for after the step. *)
LEMMA WorkerStepSettled ==
  ASSUME TypeOK, ListInv, NEW w \in Workers, WorkerStep(w), DepthNeverBites,
         NEW u \in frontier.seen, Settled(u)
  PROVE  Settled(u)'
<1>0. /\ Listed(frontier) /\ note.waived \subseteq note'.waived
      /\ frontier.seen \subseteq frontier'.seen /\ Followed \subseteq Followed'
      /\ \A v \in Workers \ {w} : worker'[v] = worker[v]
  <2>1. \A v \in Workers \ {w} : worker'[v] = worker[v]
    BY DEF WorkerStep, Take, Leave, GiveUp, Follow, Describe, Send, MoveTo, TypeOK
  <2>. QED  BY <2>1, WorkerFrame, WorkerStepAway, FollowedMoves DEF ListInv
<1>1. Settled(u)' <=> \/ u \in note'.waived \union Waiting(frontier'.queue) \union Flaky
                      \/ \E v \in Workers : worker'[v].pc = "fetching" /\ worker'[v].item.url = u
                      \/ /\ Target[u] \in NoIndex \union Followed'
                         /\ ScopedLinks(Target[u]) \subseteq frontier'.seen
  BY DEF Settled, ScopedLinks
<1>2. CASE u \in note.waived \union Flaky
  BY <1>0, <1>1, <1>2
<1>3. CASE u \in Waiting(frontier.queue)
  <2>1. CASE Take(w)
    <3>1. PICK p \in Pending :
            /\ Waiting(frontier.queue) \subseteq
                 Waiting(frontier'.queue) \union {p.url} \union note'.waived
            /\ MoveTo(w, "fetching", p)
      BY <1>0, <2>1, TakeDoes
    <3>2. worker'[w].pc = "fetching" /\ worker'[w].item.url = p.url
      BY <3>1, MoveDoes
    <3>. QED  BY <1>1, <1>3, <3>1, <3>2
  <2>2. CASE Leave(w)
    BY <1>0, <1>1, <1>3, <2>2, LeaveDoes
  <2>3. CASE Follow(w)
    BY <1>1, <1>3, <2>3, FollowSeesLinks
  <2>4. CASE GiveUp(w) \/ Describe(w) \/ Send(w)
    BY <1>1, <1>3, <2>4, IdleMoves
  <2>. QED  BY <2>1, <2>2, <2>3, <2>4 DEF WorkerStep
<1>4. CASE \E v \in Workers : worker[v].pc = "fetching" /\ worker[v].item.url = u
  <2>1. PICK v \in Workers : worker[v].pc = "fetching" /\ worker[v].item.url = u
    BY <1>4
  <2>2. CASE v # w
    BY <1>0, <1>1, <2>1, <2>2
  <2>3. CASE v = w /\ GiveUp(w)
    BY <1>1, <2>1, <2>3 DEF GiveUp
  <2>4. CASE v = w /\ Follow(w)
    <3>1. Target[u] = Page(w)
      BY <2>1, <2>4 DEF Page
    <3>2. Page(w) \in NoIndex \union Followed'
      BY <2>4, FollowedMoves
    <3>3. ScopedLinks(Page(w)) \subseteq frontier'.seen
      BY <2>4, FollowSeesLinks
    <3>. QED  BY <1>1, <3>1, <3>2, <3>3
  <2>5. v = w => GiveUp(w) \/ Follow(w)
    BY <2>1 DEF WorkerStep, Take, Leave, Describe, Send, AtWork
  <2>. QED  BY <2>2, <2>3, <2>4, <2>5
<1>5. CASE Target[u] \in NoIndex \union Followed /\ ScopedLinks(Target[u]) \subseteq frontier.seen
  BY <1>0, <1>1, <1>5
<1>. QED  BY <1>2, <1>3, <1>4, <1>5 DEF Settled

LEMMA WorkerStepWhole ==
  ASSUME TypeOK, TypeOK', ListInv, WholeInv, NEW w \in Workers, WorkerStep(w)
  PROVE  WholeInv'
<1>. SUFFICES ASSUME note.whole
              PROVE  /\ Linked(frontier', Followed', note'.described)
                     /\ DepthNeverBites => \A u \in frontier'.seen : Settled(u)'
  BY WorkerFrame DEF WholeInv, Linked, TextKept, ScopedLinks, DepthNeverBites
<1>0. /\ Linked(frontier, Followed, note.described)
      /\ DepthNeverBites => \A u \in frontier.seen : Settled(u)
  BY DEF WholeInv
<1>1. Linked(frontier', Followed', note'.described)
  BY <1>0, WorkerStepLinked
<1>2. ASSUME DepthNeverBites, NEW u \in frontier'.seen
      PROVE  Settled(u)'
  <2>1. CASE u \in frontier.seen
    BY <1>0, <1>2, <2>1, WorkerStepSettled
  <2>2. CASE u \notin frontier.seen
    <3>1. CASE Follow(w)
      <4>1. u \in Waiting(frontier'.queue)
        BY <1>2, <2>2, <3>1, FollowSeesLinks
      <4>. QED  BY <4>1 DEF Settled
    <3>2. CASE ~Follow(w)
      <4>1. frontier'.seen = frontier.seen
        BY <3>2, TakeDoes, LeaveDoes, IdleMoves DEF WorkerStep, ListInv
      <4>. QED  BY <1>2, <2>2, <4>1
    <3>. QED  BY <3>1, <3>2
  <2>. QED  BY <2>1, <2>2
<1>. QED  BY <1>1, <1>2

(* What neither a worker nor a start does to a frontier forgets nothing. *)
LEMMA WholeStays ==
  ASSUME TypeOK, WholeInv, Flow' = Flow, worker' = worker,
         frontier'.queue = frontier.queue, frontier'.seen = frontier.seen,
         frontier'.anchors = frontier.anchors, note'.whole = note.whole,
         note'.waived = note.waived, note'.described = note.described
  PROVE  WholeInv'
<1>1. Followed' = Followed
  BY DEF Followed, Carriers, Page
<1>. QED  BY <1>1 DEF WholeInv, Linked, TextKept, ScopedLinks, DepthNeverBites, Settled

LEMMA BegunWhole ==
  ASSUME FreshMemory, NEW pages \in Seq(Urls), builder' = pages,
         note'.whole =>
           /\ Linked(frontier', Members(pages), note'.described)
           /\ frontier'.seen \subseteq Waiting(frontier'.queue) \union note'.waived
                                                               \union Members(pages)
  PROVE  WholeInv'
<1>1. Busy' = {} /\ channel' = <<>>
  BY BeginsEmpty
<1>2. Flow' = pages /\ Carriers' = {}
  BY <1>1, ConcatEmptySeq DEF Flow, Carriers, Busy
<1>3. Followed' = Members(pages)
  BY <1>2 DEF Followed
<1>. SUFFICES ASSUME note'.whole
              PROVE  /\ Linked(frontier', Followed', note'.described)
                     /\ DepthNeverBites => \A u \in frontier'.seen : Settled(u)'
  BY DEF WholeInv, Linked, TextKept, ScopedLinks, DepthNeverBites
<1>4. ASSUME DepthNeverBites, NEW u \in frontier'.seen
      PROVE  Settled(u)'
  <2>1. CASE u \in Waiting(frontier'.queue) \union note'.waived
    BY <2>1 DEF Settled
  <2>2. CASE u \in Members(pages)
    <3>1. Target[u] = u /\ ScopedLinks(u) \subseteq frontier'.seen
      BY <1>4, <2>2 DEF Linked
    <3>2. Target[u] \in Followed' /\ ScopedLinks(Target[u]) \subseteq frontier'.seen
      BY <1>3, <2>2, <3>1
    <3>. QED  BY <3>2 DEF Settled, ScopedLinks
  <2>. QED  BY <1>4, <2>1, <2>2
<1>. QED  BY <1>3, <1>4

LEMMA NextWhole ==
  ASSUME TypeOK, TypeOK', NoGapInv, ListInv, WholeInv, PagesPromiseInv, [Next]_vars
  PROVE  WholeInv'
<1>1. CASE StartFresh
  <2>1. FreshMemory /\ builder' = <<>> /\ <<>> \in Seq(Urls) /\ frontier' = NewFrontier
    BY <1>1, EmptySeq DEF StartFresh
  <2>2. NewFrontier.seen \subseteq Waiting(NewFrontier.queue)
    BY DEF NewFrontier, Waiting, Members
  <2>3. Linked(frontier', Members(<<>>), note'.described)
    BY MembersOfEmpty DEF Linked
  <2>. QED  BY <2>1, <2>2, <2>3, BegunWhole
<1>2. CASE Resume
  <2>1. /\ saved # None /\ Readable(saved, spool) /\ FreshMemory
        /\ builder' = Accounted(saved, spool)
        /\ frontier'.seen = saved.seen /\ frontier'.queue = saved.queue
        /\ frontier'.anchors = saved.anchors
    BY <1>2 DEF Resume, Restore
  <2>2. /\ note'.whole => savedNote.trusted
        /\ note'.waived = savedNote.waived /\ note'.described = savedNote.described
    BY <1>2 DEF Resume, TypeOK, Note
  <2>3. Accounted(saved, spool) \in Seq(Urls)
    BY <2>1, AccountedLength
  <2>4. ASSUME note'.whole
        PROVE  /\ Linked(saved, Members(Accounted(saved, spool)), savedNote.described)
               /\ NoGap(saved, spool, savedNote.waived)
    BY <2>1, <2>2, <2>4 DEF PagesPromiseInv, PagesPromise, NoGapInv, CheckpointLeavesNoGap
  <2>5. ASSUME note'.whole
        PROVE  Linked(frontier', Members(Accounted(saved, spool)), note'.described)
    BY <2>1, <2>2, <2>4, <2>5 DEF Linked, TextKept
  <2>6. ASSUME note'.whole
        PROVE  frontier'.seen \subseteq Waiting(frontier'.queue) \union note'.waived
                                          \union Members(Accounted(saved, spool))
    BY <2>1, <2>2, <2>4, <2>6 DEF NoGap, Covered
  <2>. QED  BY <2>1, <2>3, <2>5, <2>6, BegunWhole
<1>3. CASE Crash
  BY <1>3 DEF Crash, EmptyNote, WholeInv
<1>4. CASE ResumeRefused \/ CommandStep
  BY <1>4, CommandFrame, WholeStays
<1>5. CASE \E w \in Workers : WorkerStep(w)
  BY <1>5, WorkerStepWhole
<1>6. CASE IndexerStep
  <2>1. /\ frontier'.queue = frontier.queue /\ frontier'.seen = frontier.seen
        /\ frontier'.anchors = frontier.anchors
    BY <1>6, IndexerFrame, CompletedDoes
  <2>. QED  BY <1>6, <2>1, IndexerFrame, WholeStays
<1>7. CASE UNCHANGED vars
  <2>1. UNCHANGED <<frontier, worker, note>> /\ Flow' = Flow
    BY <1>7 DEF vars, memory, history, Flow
  <2>. QED  BY <2>1, WholeStays
<1>. QED  BY <1>1, <1>2, <1>3, <1>4, <1>5, <1>6, <1>7 DEF Next, Ended

-----------------------------------------------------------------------------
(* What a saved frontier promises of the pages it accounts for. *)

LEMMA SnapshotPromises ==
  ASSUME TypeOK, OnceInv, WholeInv, note.whole, indexer.pc # "complete",
         NEW n \in Nat, NEW order \in Orderings(frontier.inFlight)
  PROVE  /\ Linked(Snapshot(frontier, n, order), Members(builder), note.described)
         /\ IndexedOnce(Snapshot(frontier, n, order), builder)
<1>. DEFINE shot == Snapshot(frontier, n, order)
<1>1. shot.seen = frontier.seen /\ shot.anchors = frontier.anchors
      /\ shot.queue = frontier.queue \o order
  BY DEF Snapshot
<1>2. Members(builder) \subseteq Followed
  BY FlowHolds DEF Followed
<1>3. Waiting(shot.queue) = Waiting(frontier.queue) \union UrlsOf(frontier.inFlight)
  <2>1. order \in Seq(Pending) /\ Waiting(order) = UrlsOf(frontier.inFlight)
    BY SnapshotTypeCorrect DEF TypeOK
  <2>. QED  BY <1>1, <2>1, WaitingOfConcat DEF TypeOK, FrontierType
<1>. HIDE DEF shot
<1>4. Linked(shot, Members(builder), note.described)
  BY <1>1, <1>2 DEF WholeInv, Linked, TextKept
<1>5. ASSUME NEW i \in DOMAIN builder, Own(builder[i])
      PROVE  /\ builder[i] \in Away(shot)
             /\ \A j \in DOMAIN builder : builder[j] = builder[i] => j = i
  <2>1. /\ builder[i] \in Members(builder)
        /\ \A j \in DOMAIN builder : j \in DOMAIN Flow /\ Flow[j] = builder[j]
    BY FlowHolds DEF Members
  <2>2. /\ builder[i] \in Away(frontier)
        /\ \A j \in DOMAIN builder : builder[j] = builder[i] => j = i
    BY <1>5, <2>1 DEF OnceInv, IndexedOnce
  <2>3. builder[i] \notin UrlsOf(frontier.inFlight)
    BY <1>5, <2>1 DEF OnceInv
  <2>. QED  BY <1>1, <1>3, <2>2, <2>3 DEF Away
<1>. QED  BY <1>4, <1>5 DEF IndexedOnce, shot

LEMMA NextPagesPromise ==
  ASSUME TypeOK, NoGapInv, TrustInv, OnceInv, WholeInv, PagesPromiseInv, [Next]_vars
  PROVE  PagesPromiseInv'
<1>1. ASSUME saved' # None, savedNote'.trusted
      PROVE  /\ Linked(saved', Members(Accounted(saved', spool')), savedNote'.described)
             /\ IndexedOnce(saved', Accounted(saved', spool'))
  BY <1>1, SavedMoves DEF PagesPromiseInv, PagesPromise
<1>2. ASSUME Saving', snapNote'.trusted
      PROVE  /\ Linked(snap', Members(Accounted(snap', spool')), snapNote'.described)
             /\ IndexedOnce(snap', Accounted(snap', spool'))
  <2>1. CASE /\ Saving /\ snapNote.trusted /\ snap' = snap /\ snapNote' = snapNote
             /\ Accounted(snap', spool') = Accounted(snap, spool)
    BY <1>2, <2>1 DEF PagesPromiseInv, PagesPromise
  <2>2. CASE /\ TakeSnapshot /\ snapNote' = note /\ note.trusted
             /\ Accounted(snap', spool') = builder
             /\ \E order \in Orderings(frontier.inFlight) :
                  snap' = Snapshot(frontier, written, order)
    <3>1. note.whole /\ indexer.pc # "complete" /\ written \in Nat
      BY <2>2 DEF TrustInv, TakeSnapshot, Indexing, TypeOK
    <3>. QED  BY <2>2, <3>1, SnapshotPromises
  <2>. QED  BY <1>2, <2>1, <2>2, SnapMoves
<1>3. ASSUME saved' # None  PROVE PagesPromise(saved, savedNote)'
  BY <1>1, <1>3 DEF PagesPromise, Linked, TextKept, IndexedOnce, Own, Away, ScopedLinks,
                    DepthNeverBites, Accounted
<1>4. ASSUME Saving'  PROVE PagesPromise(snap, snapNote)'
  BY <1>2, <1>4 DEF PagesPromise, Linked, TextKept, IndexedOnce, Own, Away, ScopedLinks,
                    DepthNeverBites, Accounted
<1>. QED  BY <1>3, <1>4 DEF PagesPromiseInv

-----------------------------------------------------------------------------
LEMMA InitResume == Init => ResumeInv
<1>. SUFFICES ASSUME Init  PROVE ResumeInv
  OBVIOUS
<1>1. /\ \A w \in Workers : worker[w].pc = "idle"
      /\ indexer = ReadyIndexer /\ phase = "down" /\ note = EmptyNote
      /\ saved = None
  BY DEF Init, IdleWorker
<1>2. ~AllGone
  BY <1>1, CrawlAssumption DEF AllGone
<1>3. EndInv
  BY <1>1, <1>2 DEF EndInv, ReadyIndexer
<1>. QED  BY <1>1, <1>3 DEF ResumeInv, OnceInv, WholeInv, PagesPromiseInv, EmptyNote, Saving

LEMMA NextResume ==
  TypeOK /\ TypeOK' /\ NoGapInv /\ LimitsInv /\ ResumeInv /\ [Next]_vars => ResumeInv'
BY NextEnd, NextOnce, NextWhole, NextPagesPromise DEF ResumeInv, LimitsInv

LEMMA ResumeHolds == Spec => []ResumeInv
BY NextResume, InitResume, LimitsHold, NoGapHolds, TypeCorrect, PTL DEF Spec

(* A page that a trusted frontier on disk accounts for, and that no resumed *)
(* crawl will fetch again, has left behind every link of its that is in     *)
(* scope: a crash between indexing a page and saving the frontier costs no  *)
(* part of the web.                                                         *)
THEOREM LinksAreKept == Spec => []CheckpointKeepsLinks
<1>1. ResumeInv => CheckpointKeepsLinks
  BY DEF ResumeInv, PagesPromiseInv, PagesPromise, Linked, CheckpointKeepsLinks
<1>. QED  BY <1>1, ResumeHolds, PTL

(* Whatever still waits to be fetched keeps the text of each link to it from *)
(* the pages indexed before, through every crash and resume.                *)
THEOREM AnchorsAreKept == Spec => []WaitingKeepAnchors
<1>1. TypeOK /\ ResumeInv => WaitingKeepAnchors
  <2>. SUFFICES ASSUME TypeOK, ResumeInv, note.whole, NEW u \in Members(builder),
                       NEW v \in Links[u]
                PROVE  TextKept(frontier, u, v, note.described)
    BY DEF WaitingKeepAnchors, TextKept
  <2>1. u \in Followed
    BY FlowHolds DEF Followed
  <2>. QED  BY <2>1 DEF ResumeInv, WholeInv, Linked
<1>. QED  BY <1>1, ResumeHolds, TypeCorrect, PTL

(* A page is indexed twice only where two URLs lead to it: neither two       *)
(* workers nor a crawl and the one that resumes it index a page again.      *)
THEOREM PagesAreIndexedOnce == Spec => []OnlyRedirectsIndexTwice
<1>1. TypeOK /\ ResumeInv => OnlyRedirectsIndexTwice
  <2>. SUFFICES ASSUME TypeOK, ResumeInv, note.whole, NEW i \in DOMAIN builder,
                       NEW j \in DOMAIN builder, i # j, builder[i] = builder[j]
                PROVE  \E u \in Urls : u # builder[i] /\ Target[u] = builder[i]
    BY DEF OnlyRedirectsIndexTwice
  <2>1. /\ i \in DOMAIN Flow /\ j \in DOMAIN Flow
        /\ Flow[i] = builder[i] /\ Flow[j] = builder[j]
    BY FlowHolds
  <2>2. ~Own(builder[i])
    BY <2>1 DEF ResumeInv, OnceInv, IndexedOnce
  <2>. QED  BY <2>2 DEF Own
<1>. QED  BY <1>1, ResumeHolds, TypeCorrect, PTL

(* A crawl that ends, after whatever crashes, with no URL dropped for the    *)
(* budget, has indexed every page a crawl without a crash is sure to index. *)
THEOREM FinishedIndexMissesNothing == Spec => []FinishedIndexIsComplete
<1>1. TypeOK /\ LimitsInv /\ ResumeInv => FinishedIndexIsComplete
  <2>. SUFFICES ASSUME TypeOK, LimitsInv, ResumeInv, phase = "finished", note.whole,
                       note.waived = {}, DepthNeverBites
                PROVE  SureToIndex \subseteq Members(segment)
    BY DEF FinishedIndexIsComplete, ResumedCrawlMisses
  <2>1. /\ segment = builder /\ channel = <<>> /\ AllGone /\ frontier.queue = <<>>
    BY DEF ResumeInv, EndInv
  <2>2. Followed = Members(segment) /\ Waiting(frontier.queue) = {}
    <3>1. Carriers = {}
      BY <2>1 DEF Carriers, AllGone
    <3>2. Members(Flow) = Members(builder)
      BY <2>1, FlowHolds, MembersOfEmpty
    <3>. QED  BY <2>1, <3>1, <3>2 DEF Followed, Waiting
  <2>3. ASSUME NEW u \in frontier.seen \ Flaky
        PROVE  /\ Target[u] \in NoIndex \union Members(segment)
               /\ ScopedLinks(Target[u]) \subseteq frontier.seen
    <3>1. Settled(u)
      BY DEF ResumeInv, WholeInv
    <3>2. \A w \in Workers : worker[w].pc # "fetching"
      BY <2>1 DEF AllGone
    <3>. QED  BY <2>2, <2>3, <3>1, <3>2 DEF Settled
  <2>4. ClosedUnderLinks(frontier.seen) /\ frontier.seen \in SUBSET Urls
    BY <2>3 DEF ClosedUnderLinks, LimitsInv, ListInv, Listed, TypeOK, FrontierType
  <2>5. Reachable \subseteq frontier.seen
    BY <2>4 DEF Reachable
  <2>. QED  BY <2>3, <2>5 DEF SureToIndex
<1>. QED  BY <1>1, ResumeHolds, LimitsHold, TypeCorrect, PTL
=============================================================================
