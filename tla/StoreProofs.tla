---------------------------- MODULE StoreProofs -----------------------------
(***************************************************************************)
(* What Store guarantees for any documents, any sizes, any merge policy's  *)
(* constants, any number of connections and timers, any number of crashes  *)
(* and failures: its types; and, for a careful operator who adds no empty  *)
(* segment, that a manifest names only files that are there, that no       *)
(* document is lost or twice, and that what a shard serves was published.  *)
(***************************************************************************)
EXTENDS Store, FiniteSetTheorems, TLAPS

-----------------------------------------------------------------------------
(* Sets of segments. *)

LEMMA DocsOfUnion ==
  ASSUME NEW S, NEW T  PROVE DocsOf(S \union T) = DocsOf(S) \union DocsOf(T)
BY DEF DocsOf

LEMMA DocsGrow ==
  ASSUME NEW S, NEW T, S \subseteq T  PROVE DocsOf(S) \subseteq DocsOf(T)
BY DEF DocsOf

LEMMA DocsOfSegments ==
  ASSUME NEW S, S \subseteq Segment  PROVE DocsOf(S) \subseteq Docs
BY DEF DocsOf, Segment

LEMMA MadeIsSegment ==
  ASSUME NEW l \in Labels  PROVE Made(l) \in Segment /\ Made(l).docs = Batch[l]
BY StoreAssumption DEF Made, Segment

LEMMA ProducedIsSegment ==
  ASSUME NEW P, P \subseteq Segment
  PROVE  Produced(P) \in Segment /\ Produced(P).docs = DocsOf(P)
BY DocsOfSegments DEF Produced, Segment

(* What the policy proposes are at least two segments of the manifest. *)
LEMMA MergesAreOfTwo ==
  ASSUME NEW m, NEW P \in NextMerges(m)
  PROVE  P \subseteq m /\ \E s, t \in P : s # t
<1>1. PICK t : P \in Taken(m, t)
  BY DEF NextMerges
<1>2. P \subseteq m /\ Cardinality(P) \in 2..PerTier
  BY <1>1 DEF Taken, Group
<1>3. Cardinality(P) # 0 /\ Cardinality(P) # 1
  BY <1>2, StoreAssumption
<1>4. P # {}
  BY <1>3, FS_EmptySet
<1>5. \A x : P # {x}
  BY <1>3, FS_Singleton
<1>. QED  BY <1>2, <1>4, <1>5

(* Replacing segments by their merge keeps the documents. *)
LEMMA ReplacedDocs ==
  ASSUME NEW m, NEW P, P \subseteq m
  PROVE  DocsOf(Replaced(m, P)) = DocsOf(m)
<1>1. DocsOf({Produced(P)}) = DocsOf(P)
  BY DEF Produced, DocsOf
<1>2. m = (m \ P) \union P
  OBVIOUS
<1>3. DocsOf(m) = DocsOf(m \ P) \union DocsOf(P)
  BY <1>2, DocsOfUnion
<1>4. DocsOf(Replaced(m, P)) = DocsOf(m \ P) \union DocsOf({Produced(P)})
  BY DocsOfUnion DEF Replaced
<1>. QED  BY <1>1, <1>3, <1>4

LEMMA ReplacedApart ==
  ASSUME NEW m, NEW P, P \subseteq m, Apart(m)
  PROVE  Apart(Replaced(m, P))
<1>1. \A s \in m \ P : s.docs \intersect DocsOf(P) = {}
  BY DEF Apart, DocsOf
<1>2. Produced(P).docs = DocsOf(P)
  BY DEF Produced
<1>. QED  BY <1>1, <1>2 DEF Apart, Replaced

(* Where no segment is empty, a merge of two is none of those it merges: a  *)
(* file is not deleted that the new manifest names.                         *)
LEMMA MergeIsNew ==
  ASSUME NEW m, Apart(m), \A s \in m : s.docs # {},
         NEW P, P \subseteq m, \E s, t \in P : s # t
  PROVE  Produced(P) \notin P
<1>. SUFFICES ASSUME Produced(P) \in P  PROVE FALSE
  OBVIOUS
<1>1. PICK s \in P : s # Produced(P)
  OBVIOUS
<1>2. s.docs \intersect Produced(P).docs = {}
  BY <1>1 DEF Apart
<1>3. s.docs \subseteq Produced(P).docs
  BY DEF Produced, DocsOf
<1>. QED  BY <1>2, <1>3

-----------------------------------------------------------------------------
(* Types. *)

LEMMA RecordTypes ==
  /\ IdleMerger \in MergerType
  /\ NoListing \in [open : BOOLEAN, found : SUBSET Segment]
  /\ Quiet \in CallType /\ Asked(Quiet) \in CallType
<1>1. IdleMerger \in MergerType
  <2>1. 0 \in 0..2
    OBVIOUS
  <2>. QED  BY <2>1 DEF IdleMerger, MergerType
<1>2. NoListing \in [open : BOOLEAN, found : SUBSET Segment]
  BY DEF NoListing
<1>3. Quiet \in CallType /\ Asked(Quiet) \in CallType
  BY DEF Quiet, Asked, CallType
<1>. QED  BY <1>1, <1>2, <1>3

(* A call keeps its type as its fields are set one by one. *)
LEMMA CallFields ==
  ASSUME NEW r \in CallType, NEW S \in SUBSET Segment,
         NEW pc \in {"idle", "asked", "reopen", "opened"}
  PROVE  /\ [[r EXCEPT !.pc = pc] EXCEPT !.read = S] \in CallType
         /\ [r EXCEPT !.ok = FALSE] \in CallType
         /\ [r EXCEPT !.pc = pc] \in CallType
BY DEF CallType

LEMMA OpenedType ==
  ASSUME NEW S \in SUBSET Segment, NEW T  PROVE Opened(S, T) \in CallType
BY DEF Opened, Quiet, CallType

LEMMA NoSyncType ==
  /\ NoSync \in SyncType /\ Asked(NoSync) \in SyncType /\ FailedSync \in SyncType
  /\ \A s : AfterInstall(s) \in SyncType
<1>1. NoSync \in SyncType
  BY StoreAssumption DEF NoSync, SyncType
<1>2. Asked(NoSync) \in SyncType /\ FailedSync \in SyncType
  BY <1>1 DEF Asked, FailedSync, SyncType
<1>3. [NoSync EXCEPT !.pc = "reopen"] \in SyncType
  BY <1>1 DEF SyncType
<1>. QED  BY <1>1, <1>2, <1>3 DEF AfterInstall

(* Where the file another sync has open is now changes nothing else of it. *)
LEMMA MovedType ==
  ASSUME NEW r \in SyncType, NEW to \in {"final", "gone"}
  PROVE  /\ Moved(r, to) \in SyncType
         /\ Moved(r, to).pc = r.pc /\ Moved(r, to).read = r.read /\ Moved(r, to).todo = r.todo
         /\ Moved(r, to).name = r.name /\ Moved(r, to).sent = r.sent /\ Moved(r, to).ok = r.ok
<1>1. ASSUME NEW at \in {"closed", "temporary", "final", "gone"}
      PROVE  /\ [r EXCEPT !.at = at] \in SyncType
             /\ [r EXCEPT !.at = at].pc = r.pc /\ [r EXCEPT !.at = at].read = r.read
             /\ [r EXCEPT !.at = at].todo = r.todo /\ [r EXCEPT !.at = at].name = r.name
             /\ [r EXCEPT !.at = at].sent = r.sent /\ [r EXCEPT !.at = at].ok = r.ok
  BY DEF SyncType
<1>2. PICK at \in {"closed", "temporary", "final", "gone"} : Moved(r, to) = [r EXCEPT !.at = at]
  BY DEF Moved, SyncType
<1>. QED  BY <1>1, <1>2

LEMMA ListTypes ==
  /\ NoList \in ListType /\ CreatedList \in ListType /\ TornList \in ListType
  /\ \A S \in SUBSET Segment : Listing(S) \in ListType
BY DEF NoList, CreatedList, TornList, Listing, ListType

LEMMA InitType == Init => TypeOK
<1>. SUFFICES ASSUME Init  PROVE TypeOK
  OBVIOUS
<1>1. Made(First) \in Segment
  BY StoreAssumption, MadeIsSegment
<1>2. call \in [Callers -> CallType] /\ sync \in [Syncers -> SyncType]
  BY RecordTypes, NoSyncType DEF Init
<1>3. merger.by = None /\ merger.pc = "idle" /\ merger.told = 0
  BY DEF Init, IdleMerger
<1>4. copies \in [Segment -> File] /\ fetching \in [Segment -> File]
  BY DEF Init, File
<1>5. copiedManifest \in ListType /\ listed \in ListType
  BY <1>1, ListTypes DEF Init
<1>. QED  BY <1>1, <1>2, <1>3, <1>4, <1>5, StoreAssumption, RecordTypes DEF Init, TypeOK

LEMMA AddressesBound == \A told \in 0..2 : told < Addresses => told < 2
BY DEF Addresses

LEMMA OperatorType == TypeOK /\ Operator => TypeOK'
<1>. SUFFICES ASSUME TypeOK, Operator  PROVE TypeOK'
  OBVIOUS
<1>1. CASE AddSegment
  BY <1>1, MadeIsSegment DEF AddSegment, TypeOK, primary, replica, disk
<1>2. CASE ListSegments
  BY <1>2 DEF ListSegments, TypeOK, directory, primary, replica, disk
<1>3. CASE WriteListing
  <2>1. listing.found \subseteq Segment
    BY DEF TypeOK
  <2>. QED  BY <1>3, <2>1, RecordTypes, DocsOfSegments DEF WriteListing, TypeOK, primary, replica, disk
<1>4. CASE RemoveOrphans
  BY <1>4 DEF RemoveOrphans, TypeOK, primary, replica, disk
<1>. QED  BY <1>1, <1>2, <1>3, <1>4 DEF Operator

LEMMA MergerType_ == TypeOK /\ (MergerStep \/ MergerDies) => TypeOK'
<1>. SUFFICES ASSUME TypeOK, MergerStep \/ MergerDies  PROVE TypeOK'
  OBVIOUS
<1>. USE DEF TypeOK
<1>1. CASE PlanMerge
  <2>1. PICK P \in NextMerges(manifest) :
          merger' = [merger EXCEPT !.pc = "write", !.base = manifest, !.plan = P]
    BY <1>1 DEF PlanMerge
  <2>2. P \subseteq Segment
    BY MergesAreOfTwo
  <2>. QED  BY <1>1, <2>1, <2>2 DEF PlanMerge, MergerType, directory, primary, replica, disk
<1>2. CASE WriteMerged
  <2>1. Produced(merger.plan) \in Segment
    BY ProducedIsSegment DEF MergerType
  <2>. QED  BY <1>2, <2>1 DEF WriteMerged, MergerType, primary, replica, disk
<1>3. CASE ReplaceManifest
  <2>1. manifest' \subseteq Segment
    BY <1>3, ProducedIsSegment DEF ReplaceManifest, Replaced, MergerType
  <2>2. merger' \in MergerType /\ merger'.by = merger.by /\ merger'.told = merger.told
        /\ merger'.pc = "delete" /\ merger.pc = "replace"
    BY <1>3 DEF ReplaceManifest, MergerType
  <2>3. editions' \subseteq SUBSET Docs
    BY <1>3, <2>1, DocsOfSegments DEF ReplaceManifest
  <2>. QED  BY <1>3, <2>1, <2>2, <2>3 DEF ReplaceManifest, primary, replica, disk
<1>4. CASE DeleteOld
  <2>1. files' \subseteq Segment /\ faults' \in Nat
    BY <1>4 DEF DeleteOld, Fault
  <2>2. merger' \in MergerType /\ merger'.by = merger.by /\ merger'.told = merger.told
        /\ merger'.pc \in {"idle", "delete"} /\ merger.pc = "delete"
    <3>1. PICK s \in merger.plan :
            merger' = [merger EXCEPT !.plan = @ \ {s},
                                     !.pc = IF merger.plan = {s} THEN "idle" ELSE "delete"]
      BY <1>4 DEF DeleteOld
    <3>2. merger.plan \ {s} \in SUBSET Segment
      BY DEF MergerType
    <3>. QED  BY <1>4, <3>1, <3>2 DEF DeleteOld, MergerType
  <2>. QED  BY <1>4, <2>1, <2>2 DEF DeleteOld, primary, replica, disk
<1>5. CASE Announce
  <2>1. DocsOf(manifest) \subseteq Docs
    BY DocsOfSegments
  <2>. QED  BY <1>5, <2>1 DEF Announce, IdleMerger, MergerType, directory, primary, replica, disk
<1>6. CASE Nudge
  <2>1. call' \in [Callers -> CallType] /\ sync' \in [Syncers -> SyncType]
    <3>1. ASSUME NEW c
          PROVE  /\ [call EXCEPT ![c] = Asked(Quiet)] \in [Callers -> CallType]
                 /\ [sync EXCEPT ![c] = Asked(NoSync)] \in [Syncers -> SyncType]
      BY RecordTypes, NoSyncType
    <3>2. \/ \E c \in Nudgers : call' = [call EXCEPT ![c] = Asked(Quiet)] /\ sync' = sync
          \/ \E c \in Nudgers : sync' = [sync EXCEPT ![c] = Asked(NoSync)] /\ call' = call
          \/ call' = call /\ sync' = sync
      BY <1>6 DEF Nudge
    <3>. QED  BY <3>1, <3>2
  <2>2. faults' \in Nat
    <3>1. faults' = faults \/ Fault
      BY <1>6 DEF Nudge
    <3>. QED  BY <3>1 DEF Fault
  <2>3. ASSUME NEW c \in Nudgers, merger' = [merger EXCEPT !.pc = "await", !.by = c]
        PROVE  /\ merger' \in MergerType
               /\ merger'.by # None /\ merger'.pc = "await" /\ merger'.told = merger.told
    BY <2>3, StoreAssumption DEF MergerType, Callers
  <2>4. ASSUME merger' = [merger EXCEPT !.told = @ + 1, !.whole = FALSE]
        PROVE  /\ merger' \in MergerType
               /\ merger'.by = merger.by /\ merger'.pc = merger.pc
    <3>1. merger.told \in 0..2 /\ merger.told < 2
      BY <1>6, AddressesBound DEF Nudge, MergerType
    <3>2. merger.told + 1 \in 0..2
      BY <3>1
    <3>. QED  BY <2>4, <3>2 DEF MergerType
  <2>5. /\ merger' \in MergerType
        /\ merger'.by = None <=> merger'.pc # "await"
        /\ merger'.pc \in {"nudge", "await"}
        /\ merger'.pc = "await" => merger'.told < 2
    <3>1. merger.pc = "nudge" /\ merger.by = None /\ merger.told < 2
      BY <1>6, AddressesBound DEF Nudge, MergerType
    <3>2. \/ \E c \in Nudgers : merger' = [merger EXCEPT !.pc = "await", !.by = c]
          \/ merger' = [merger EXCEPT !.told = @ + 1, !.whole = FALSE]
      BY <1>6 DEF Nudge
    <3>. QED  BY <2>3, <2>4, <3>1, <3>2
  <2>. QED  BY <1>6, <2>1, <2>2, <2>5 DEF Nudge, directory, disk
<1>7. CASE Answered
  <2>1. merger.by \in Callers
    BY <1>7 DEF Answered, MergerType
  <2>2. call[merger.by].ok \in BOOLEAN /\ sync[merger.by].ok \in BOOLEAN
    BY <2>1 DEF CallType, SyncType, Syncers
  <2>3. merger.told \in 0..2 
    BY DEF MergerType
  <2>4. merger.told + 1 \in 0..2
    BY <1>7, <2>3 DEF Answered
  <2>5. /\ merger' \in MergerType
        /\ merger'.by = None /\ merger'.pc = "nudge"
    BY <1>7, <2>2, <2>4 DEF Answered, MergerType
  <2>. QED  BY <1>7, <2>5 DEF Answered, directory, primary, replica, disk
<1>8. CASE AllTold
  <2>1. delivered' \subseteq Docs
    BY <1>8 DEF AllTold, MergerType
  <2>. QED  BY <1>8, <2>1, RecordTypes DEF AllTold, IdleMerger, directory, primary, replica, disk
<1>9. CASE MergerDies
  BY <1>9, RecordTypes DEF MergerDies, IdleMerger, directory, primary, replica, disk
<1>. QED  BY <1>1, <1>2, <1>3, <1>4, <1>5, <1>6, <1>7, <1>8, <1>9 DEF MergerStep

LEMMA CallType_ ==
  ASSUME NEW c \in Callers, TypeOK, StrayNudge(c) \/ CallStep(c)  PROVE TypeOK'
<1>. USE DEF TypeOK
<1>1. CASE StrayNudge(c)
  BY <1>1, RecordTypes, NoSyncType DEF StrayNudge, directory, disk
<1>2. CASE ReadManifest(c)
  <2>1. [[call[c] EXCEPT !.pc = "reopen"] EXCEPT !.read = manifest] \in CallType
    BY CallFields
  <2>2. call' \in [Callers -> CallType]
    BY <1>2, <2>1 DEF ReadManifest
  <2>. QED  BY <1>2, <2>2 DEF ReadManifest, directory, replica, disk
<1>3. CASE OpenSegments(c)
  <2>1. Opened(call[c].read, files) \in CallType
    BY OpenedType DEF CallType
  <2>. QED  BY <1>3, <2>1 DEF OpenSegments, directory, replica, disk
<1>4. CASE Swap(c)
  BY <1>4, RecordTypes DEF Swap, CallType, directory, replica, disk
<1>. QED  BY <1>1, <1>2, <1>3, <1>4 DEF CallStep

(* What a transfer writes are parts of the file, and what it leaves of the   *)
(* manifest it reads are segments.                                           *)
LEMMA FetchType ==
  ASSUME NEW s \in Syncers, TypeOK, Fetch(s)
  PROVE  /\ sync' \in [Syncers -> SyncType] /\ clashes' \in Nat
         /\ copies' \in [Segment -> File] /\ fetching' \in [Segment -> File]
         /\ UNCHANGED <<copiedManifest, listed>>
<1>. USE DEF TypeOK
<1>1. sync[s] \in SyncType /\ sync[s].todo \subseteq Segment /\ sync[s].sent \in 0..(Parts - 1)
  BY DEF SyncType
<1>2. {0} \in File /\ {} \in File /\ \A f \in File, k \in 0..Parts : f \union {k} \in File
  BY StoreAssumption DEF File
<1>3. CASE Check(s)
  <2>1. PICK n \in sync[s].todo :
          \/ sync' = [sync EXCEPT ![s].todo = @ \ {n}]
          \/ sync' = [sync EXCEPT ![s].pc = "missing", ![s].name = n]
    BY <1>3 DEF Check
  <2>2. n \in Segment \union {None} /\ sync[s].todo \ {n} \in SUBSET Segment
    BY <1>1, <2>1
  <2>3. [sync[s] EXCEPT !.todo = sync[s].todo \ {n}] \in SyncType
    BY <1>1, <2>2 DEF SyncType
  <2>4. [sync[s] EXCEPT !.pc = "missing", !.name = n] \in SyncType
    BY <1>1, <2>2 DEF SyncType, Transferring
  <2>5. sync' \in [Syncers -> SyncType]
    BY <2>1, <2>3, <2>4
  <2>. QED  BY <1>3, <2>5 DEF Check, disk
<1>4. CASE Create(s)
  <2>1. [sync[s] EXCEPT !.pc = "transfer", !.at = "temporary"] \in SyncType
    BY <1>1 DEF SyncType, Transferring
  <2>2. sync' \in [Syncers -> SyncType] /\ fetching' \in [Segment -> File]
    BY <1>2, <1>4, <2>1, NoSyncType DEF Create
  <2>3. clashes' \in Nat
    BY <1>4 DEF Create, Clash
  <2>. QED  BY <1>4, <2>2, <2>3 DEF Create
<1>5. CASE Receive(s)
  <2>. DEFINE n == sync[s].name
              part == sync[s].sent + 1
              At(place) == IF sync[s].at = place THEN {part} ELSE {}
  <2>1. part \in 0..Parts /\ (part # Parts => part \in 0..(Parts - 1))
    BY <1>1, StoreAssumption
  <2>2. \A place : \A f \in File : f \union At(place) \in File
    BY <1>2, <2>1
  <2>3. /\ [sync[s] EXCEPT !.pc = "read", !.sent = 0, !.at = "closed"] \in SyncType
        /\ part # Parts => [sync[s] EXCEPT !.sent = part] \in SyncType
    <3>1. 0 \in 0..(Parts - 1)
      BY StoreAssumption
    <3>2. [sync[s] EXCEPT !.pc = "read", !.sent = 0, !.at = "closed"] \in SyncType
      BY <1>1, <3>1 DEF SyncType, Transferring
    <3>3. ASSUME NEW k \in 0..(Parts - 1)  PROVE [sync[s] EXCEPT !.sent = k] \in SyncType
      BY <1>1 DEF SyncType
    <3>. HIDE DEF part
    <3>. QED  BY <2>1, <3>2, <3>3
  <2>4. \/ sync' = [sync EXCEPT ![s] = FailedSync] /\ UNCHANGED <<fetching, copies>>
        \/ /\ fetching' = [fetching EXCEPT ![n] = @ \union At("temporary")]
           /\ copies' = [copies EXCEPT ![n] = @ \union At("final")]
           /\ sync' = [sync EXCEPT ![s] =
                IF part = Parts THEN [@ EXCEPT !.pc = "read", !.sent = 0, !.at = "closed"]
                                ELSE [@ EXCEPT !.sent = part]]
    BY <1>5 DEF Receive
  <2>. HIDE DEF n, part, At
  <2>5. sync' \in [Syncers -> SyncType]
    BY <2>3, <2>4, NoSyncType
  <2>6. copies' \in [Segment -> File] /\ fetching' \in [Segment -> File]
    BY <2>2, <2>4
  <2>7. UNCHANGED <<copiedManifest, listed, clashes>>
    BY <1>5 DEF Receive
  <2>. QED  BY <2>5, <2>6, <2>7
<1>6. CASE Verify(s)
  <2>1. [sync[s] EXCEPT !.pc = "verified"] \in SyncType /\ [sync[s] EXCEPT !.pc = "discard"] \in SyncType
    BY <1>1 DEF SyncType, Transferring
  <2>. QED  BY <1>6, <2>1, NoSyncType DEF Verify, disk
<1>7. CASE Discard(s)
  <2>1. sync' \in [Syncers -> SyncType]
    BY <1>7, NoSyncType, MovedType DEF Discard
  <2>. QED  BY <1>2, <1>7, <2>1 DEF Discard
<1>8. CASE Rename(s)
  <2>. DEFINE n == sync[s].name
              done == [sync[s] EXCEPT !.pc = "fetch", !.todo = @ \ {n}, !.name = None]
  <2>1. done \in SyncType
    BY <1>1 DEF SyncType, Transferring
  <2>2. \/ sync' = [sync EXCEPT ![s] = FailedSync] /\ UNCHANGED <<copies, fetching>>
        \/ /\ copies' = [copies EXCEPT ![n] = fetching[n]]
           /\ fetching' = [fetching EXCEPT ![n] = {}]
           /\ sync' = [t \in Syncers |-> IF t = s THEN done
                                         ELSE IF sync[t].name = n THEN Moved(sync[t], "final") ELSE sync[t]]
    BY <1>8 DEF Rename
  <2>3. UNCHANGED <<copiedManifest, listed, clashes>>
    BY <1>8 DEF Rename
  <2>. HIDE DEF n, done
  <2>4. sync' \in [Syncers -> SyncType]
    BY <2>1, <2>2, NoSyncType, MovedType
  <2>5. copies \in [Segment -> File] /\ fetching \in [Segment -> File]
    OBVIOUS
  <2>. HIDE DEF TypeOK
  <2>6. copies' \in [Segment -> File] /\ fetching' \in [Segment -> File]
    BY <1>2, <2>2, <2>5
  <2>. QED  BY <2>3, <2>4, <2>6 DEF TypeOK
<1>. QED  BY <1>3, <1>4, <1>5, <1>6, <1>7, <1>8 DEF Fetch

LEMMA InstallType ==
  ASSUME NEW s \in Syncers, TypeOK, Install(s)
  PROVE  /\ sync' \in [Syncers -> SyncType] /\ clashes' \in Nat
         /\ copiedManifest' \in ListType /\ listed' \in ListType
         /\ UNCHANGED <<copies, fetching>>
<1>. USE DEF TypeOK
<1>1. sync[s] \in SyncType /\ sync[s].read \in SUBSET Segment
  BY DEF SyncType
<1>2. CASE CreateManifest(s)
  <2>1. [sync[s] EXCEPT !.pc = "list", !.at = "temporary"] \in SyncType
    BY <1>1 DEF SyncType, Transferring
  <2>2. clashes' \in Nat
    BY <1>2 DEF CreateManifest, Clash
  <2>. QED  BY <1>2, <2>1, <2>2, ListTypes DEF CreateManifest
<1>3. CASE WriteManifest(s)
  <2>1. [sync[s] EXCEPT !.pc = "rename", !.at = "closed"] \in SyncType
    BY <1>1 DEF SyncType, Transferring
  <2>2. \A list : Over(list, sync[s].read) \subseteq ListType
    BY <1>1, ListTypes DEF Over
  <2>3. copiedManifest' \in ListType /\ listed' \in ListType
    BY <1>3, <2>2 DEF WriteManifest
  <2>. QED  BY <1>3, <2>1, <2>3 DEF WriteManifest
<1>4. CASE RenameManifest(s)
  <2>1. sync' \in [Syncers -> SyncType]
    BY <1>4, NoSyncType, MovedType DEF RenameManifest
  <2>. QED  BY <1>4, <2>1, ListTypes DEF RenameManifest
<1>. QED  BY <1>2, <1>3, <1>4 DEF Install

LEMMA SyncType_ ==
  ASSUME NEW s \in Syncers, TypeOK, TimerFires(s) \/ SyncStep(s)  PROVE TypeOK'
<1>. USE DEF TypeOK
<1>1. CASE TimerFires(s)
  BY <1>1, NoSyncType DEF TimerFires, directory, primary, disk
<1>2. CASE AskManifest(s)
  <2>1. [NoSync EXCEPT !.pc = "fetch", !.read = shown, !.todo = shown] \in SyncType
    BY NoSyncType DEF SyncType, Transferring
  <2>. QED  BY <1>2, <2>1 DEF AskManifest, directory, primary, disk
<1>3. CASE Fetch(s)
  BY <1>3, FetchType DEF Fetch, directory, primary
<1>4. CASE SyncFails(s)
  BY <1>4, NoSyncType DEF SyncFails, Fault, directory, primary, disk
<1>5. CASE Install(s)
  BY <1>5, InstallType DEF Install, directory, primary
<1>6. CASE ReopenReplica(s)
  <2>1. \A n \in copiedManifest.names : AsRead(n) \in Segment
    <3>1. \A n \in Segment : [n EXCEPT !.docs = {}] \in Segment
      BY DEF Segment
    <3>. QED  BY <3>1 DEF ListType, AsRead
  <2>2. [NoSync EXCEPT !.pc = "opened", !.read = {AsRead(n) : n \in copiedManifest.names}] \in SyncType
    <3>1. \A S \in SUBSET Segment : [NoSync EXCEPT !.pc = "opened", !.read = S] \in SyncType
      BY NoSyncType DEF SyncType
    <3>2. {AsRead(n) : n \in copiedManifest.names} \in SUBSET Segment
      BY <2>1
    <3>. HIDE DEF SyncType
    <3>. QED  BY <3>1, <3>2
  <2>. QED  BY <1>6, <2>2, NoSyncType DEF ReopenReplica, directory, primary, disk
<1>7. CASE SwapReplica(s)
  BY <1>7, NoSyncType DEF SwapReplica, SyncType, directory, primary, disk
<1>. QED  BY <1>1, <1>2, <1>3, <1>4, <1>5, <1>6, <1>7 DEF SyncStep

LEMMA NextType == TypeOK /\ [Next]_vars => TypeOK'
<1>. SUFFICES ASSUME TypeOK, [Next]_vars  PROVE TypeOK'
  OBVIOUS
<1>1. CASE UNCHANGED vars
  BY <1>1 DEF TypeOK, vars, directory, primary, replica, disk
<1>2. CASE \E c \in Strangers : StrayNudge(c)
  BY <1>2, CallType_ DEF Callers
<1>3. CASE \E s \in Timers : TimerFires(s)
  BY <1>3, SyncType_ DEF Syncers
<1>. QED  BY <1>1, <1>2, <1>3, OperatorType, MergerType_, CallType_, SyncType_ DEF Next

(* Every variable keeps its type: the merger waits for an answer on the     *)
(* connection it asked on and on no other, and every round of nudges begins *)
(* with the first address.                                                  *)
THEOREM StoreTypeCorrect == Spec => []TypeOK
BY InitType, NextType, PTL DEF Spec

-----------------------------------------------------------------------------
(* The transfers, while no two syncs have had a temporary in hand.  A sync   *)
(* keeps what it has when another one works on other files, ...              *)
LEMMA OtherSyncStays ==
  ASSUME NEW t \in Syncers, InHand(sync[t]), Arrived(sync[t]),
         /\ sync'[t].pc = sync[t].pc /\ sync'[t].read = sync[t].read
         /\ sync'[t].todo = sync[t].todo /\ sync'[t].name = sync[t].name
         /\ sync'[t].sent = sync[t].sent,
         sync[t].pc \in {"transfer", "list"} => sync'[t].at = sync[t].at,
         HasSegment(t) => fetching'[sync[t].name] = fetching[sync[t].name],
         HasList(t) => listed' = listed,
         \A n \in sync[t].read : Whole(copies[n]) => Whole(copies'[n])
  PROVE  InHand(sync[t])' /\ Arrived(sync[t])'
<1>1. InHand(sync[t])'
  BY DEF InHand, HasSegment, HasList, Whole
<1>2. Arrived(sync[t])'
  BY DEF Arrived, Transferring
<1>. QED  BY <1>1, <1>2

LEMMA AloneStays ==
  ASSUME Alone, NEW s \in Syncers,
         \A t \in Syncers \ {s} : /\ HasSegment(t)' => HasSegment(t)
                                  /\ HasList(t)' => HasList(t)
                                  /\ sync'[t].name = sync[t].name,
         HasSegment(s)' => HasSegment(s) /\ sync'[s].name = sync[s].name,
         HasList(s)' => HasList(s)
  PROVE  Alone'
<1>1. \A t \in Syncers : /\ HasSegment(t)' => HasSegment(t) /\ sync'[t].name = sync[t].name
                         /\ HasList(t)' => HasList(t)
  BY DEF HasSegment, HasList
<1>2. ASSUME NEW t \in Syncers, NEW u \in Syncers,
             HasSegment(t)', HasSegment(u)', sync'[t].name = sync'[u].name
      PROVE  t = u
  <2>1. HasSegment(t) /\ HasSegment(u) /\ sync[t].name = sync[u].name
    BY <1>1, <1>2 DEF HasSegment, HasList
  <2>. QED  BY <2>1 DEF Alone
<1>3. ASSUME NEW t \in Syncers, NEW u \in Syncers, HasList(t)', HasList(u)'  PROVE t = u
  <2>1. HasList(t) /\ HasList(u)
    BY <1>1, <1>3 DEF HasSegment, HasList
  <2>. QED  BY <2>1 DEF Alone
<1>. QED  BY <1>2, <1>3 DEF Alone

(* ... and whoever has nothing in hand disturbs nobody.                      *)
LEMMA TransferStays ==
  ASSUME TransferInv, UNCHANGED disk,
         \A t \in Syncers :
            \/ sync'[t] = sync[t]
            \/ sync'[t].pc \in {"idle", "asked", "reopen", "opened"}
            \/ /\ sync'[t].pc = "fetch" /\ sync'[t].name = None /\ sync'[t].sent = 0
               /\ sync'[t].todo = sync'[t].read
  PROVE  TransferInv'
<1>1. Alone'
  BY DEF TransferInv, Alone, HasSegment, HasList
<1>2. ASSUME NEW t \in Syncers  PROVE InHand(sync[t])' /\ Arrived(sync[t])'
  <2>1. CASE sync'[t] = sync[t]
    BY <2>1, OtherSyncStays DEF TransferInv, disk
  <2>2. CASE sync'[t].pc \in {"idle", "asked", "reopen", "opened"}
    BY <2>2 DEF InHand, Arrived, Transferring
  <2>3. CASE /\ sync'[t].pc = "fetch" /\ sync'[t].name = None /\ sync'[t].sent = 0
             /\ sync'[t].todo = sync'[t].read
    BY <2>3 DEF InHand, Arrived
  <2>. QED  BY <2>1, <2>2, <2>3
<1>. QED  BY <1>1, <1>2 DEF TransferInv, Installed, disk

LEMMA FailedHoldsNothing ==
  /\ FailedSync.pc = "idle" /\ ~FailedSync.ok /\ NoSync.pc = "idle"
  /\ Asked(NoSync).pc = "asked" /\ Asked(NoSync).ok
  /\ \A s : AfterInstall(s).pc \in {"idle", "reopen"}
  /\ \A s \in Syncers \ Timers : AfterInstall(s).pc = "reopen"
BY DEF FailedSync, NoSync, Asked, AfterInstall

LEMMA CheckTransfer ==
  ASSUME NEW s \in Syncers, TypeOK, TransferInv, Check(s)  PROVE TransferInv'
<1>0. sync[s] \in SyncType /\ sync[s].pc = "fetch" /\ UNCHANGED disk
      /\ sync[s].todo \subseteq Segment /\ sync[s].name = None /\ sync[s].sent = 0
  BY DEF TypeOK, SyncType, Check, TransferInv, InHand
<1>1. PICK n \in sync[s].todo :
        \/ Readable(copies[n]) /\ sync' = [sync EXCEPT ![s].todo = @ \ {n}]
        \/ sync' = [sync EXCEPT ![s].pc = "missing", ![s].name = n]
  BY DEF Check
<1>2. Readable(copies[n]) => Whole(copies[n])
  BY <1>0, <1>1 DEF TransferInv, Readable
<1>3. \A t \in Syncers \ {s} : sync'[t] = sync[t]
  BY <1>1 DEF TypeOK
<1>4. /\ sync'[s].read = sync[s].read /\ sync'[s].sent = sync[s].sent
      /\ \/ /\ sync'[s].pc = "fetch" /\ sync'[s].name = None
            /\ sync'[s].todo = sync[s].todo \ {n} /\ Whole(copies[n])
         \/ sync'[s].pc = "missing" /\ sync'[s].name = n /\ sync'[s].todo = sync[s].todo
  BY <1>0, <1>1, <1>2 DEF TypeOK, SyncType
<1>5. Alone'
  BY <1>3, <1>4 DEF TransferInv, Alone, HasSegment, HasList
<1>6. InHand(sync[s])' /\ Arrived(sync[s])'
  <2>1. InHand(sync[s])'
    BY <1>0, <1>1, <1>4 DEF InHand
  <2>2. Arrived(sync[s])'
    BY <1>0, <1>4 DEF Arrived, TransferInv, disk, Transferring
  <2>. QED  BY <2>1, <2>2
<1>7. \A t \in Syncers \ {s} : InHand(sync[t])' /\ Arrived(sync[t])'
  BY <1>0, <1>3, OtherSyncStays DEF TransferInv, disk
<1>. QED  BY <1>0, <1>5, <1>6, <1>7 DEF TransferInv, Installed, disk

LEMMA CreateTransfer ==
  ASSUME NEW s \in Syncers, TypeOK, TransferInv, Create(s), clashes' = clashes  PROVE TransferInv'
<1>. DEFINE n == sync[s].name
<1>0. /\ sync[s] \in SyncType /\ sync[s].pc = "missing" /\ n \in Segment /\ n \in sync[s].todo
      /\ sync[s].sent = 0 /\ UNCHANGED <<copies, copiedManifest, listed>>
  BY DEF TypeOK, Create, TransferInv, InHand
<1>1. CASE ~Sends(n)
  BY <1>1, TransferStays, FailedHoldsNothing DEF Create, TypeOK, disk
<1>2. CASE Sends(n)
  <2>1. /\ sync' = [sync EXCEPT ![s].pc = "transfer", ![s].at = "temporary"]
        /\ fetching' = [fetching EXCEPT ![n] = {0}]
        /\ Clash(\E t \in Syncers : HasSegment(t) /\ sync[t].name = n)
    BY <1>2 DEF Create
  <2>2. ~\E t \in Syncers : HasSegment(t) /\ sync[t].name = n
    BY <2>1 DEF Clash, TypeOK
  <2>3. \A t \in Syncers \ {s} : sync'[t] = sync[t]
    BY <2>1 DEF TypeOK
  <2>4. /\ sync'[s].pc = "transfer" /\ sync'[s].at = "temporary" /\ sync'[s].name = n
        /\ sync'[s].read = sync[s].read /\ sync'[s].todo = sync[s].todo /\ sync'[s].sent = 0
    BY <1>0, <2>1 DEF TypeOK, SyncType
  <2>5. fetching'[n] = 0..0 /\ \A m \in Segment \ {n} : fetching'[m] = fetching[m]
    <3>1. {0} = 0..0
      OBVIOUS
    <3>. HIDE DEF n
    <3>. QED  BY <1>0, <2>1, <3>1 DEF TypeOK
  <2>6. Alone'
    <3>1. \A t \in Syncers \ {s} : HasSegment(t)' => HasSegment(t) /\ sync[t].name # n
      BY <2>2, <2>3 DEF HasSegment
    <3>2. \A t \in Syncers : HasList(t)' => HasList(t)
      BY <2>3, <2>4 DEF HasList
    <3>. HIDE DEF n
    <3>. QED  BY <2>3, <2>4, <3>1, <3>2 DEF TransferInv, Alone
  <2>7. InHand(sync[s])' /\ Arrived(sync[s])'
    <3>1. InHand(sync[s])'
      BY <1>0, <2>4, <2>5 DEF InHand
    <3>2. Arrived(sync[s])'
      BY <1>0, <2>4 DEF Arrived, TransferInv, Transferring
    <3>. QED  BY <3>1, <3>2
  <2>8. ASSUME NEW t \in Syncers \ {s}  PROVE InHand(sync[t])' /\ Arrived(sync[t])'
    <3>1. HasSegment(t) => fetching'[sync[t].name] = fetching[sync[t].name]
      BY <2>2, <2>5 DEF TransferInv, InHand, HasSegment
    <3>. QED  BY <1>0, <2>3, <3>1, OtherSyncStays DEF TransferInv
  <2>. QED  BY <1>0, <2>6, <2>7, <2>8 DEF TransferInv, Installed
<1>. QED  BY <1>1, <1>2

LEMMA ReceiveTransfer ==
  ASSUME NEW s \in Syncers, TypeOK, TransferInv, Receive(s)  PROVE TransferInv'
<1>. DEFINE n == sync[s].name
            part == sync[s].sent + 1
<1>0. /\ sync[s] \in SyncType /\ sync[s].pc = "transfer" /\ n \in Segment /\ n \in sync[s].todo
      /\ sync[s].at = "temporary" /\ fetching[n] = 0..sync[s].sent
      /\ UNCHANGED <<copiedManifest, listed>>
  BY DEF TypeOK, Receive, TransferInv, InHand
<1>1. CASE ~Sends(n)
  BY <1>1, TransferStays, FailedHoldsNothing DEF Receive, TypeOK, disk
<1>2. CASE Sends(n)
  <2>1. /\ sync' = [sync EXCEPT ![s] =
             IF part = Parts THEN [@ EXCEPT !.pc = "read", !.sent = 0, !.at = "closed"]
                             ELSE [@ EXCEPT !.sent = part]]
        /\ fetching' = [fetching EXCEPT ![n] = @ \union {part}]
        /\ copies' = [copies EXCEPT ![n] = @ \union {}]
    BY <1>0, <1>2 DEF Receive
  <2>2. copies' = copies
    BY <2>1 DEF TypeOK
  <2>3. sync[s].sent \in 0..(Parts - 1)
    BY <1>0 DEF SyncType
  <2>4. fetching'[n] = 0..part /\ \A m \in Segment \ {n} : fetching'[m] = fetching[m]
    <3>1. (0..sync[s].sent) \union {part} = 0..part
      BY <2>3, StoreAssumption
    <3>. HIDE DEF n, part
    <3>. QED  BY <1>0, <2>1, <3>1 DEF TypeOK
  <2>5. \A t \in Syncers \ {s} : sync'[t] = sync[t]
    BY <2>1 DEF TypeOK
  <2>6. /\ sync'[s].name = n /\ sync'[s].read = sync[s].read /\ sync'[s].todo = sync[s].todo
        /\ \/ part = Parts /\ sync'[s].pc = "read" /\ sync'[s].sent = 0
           \/ sync'[s].pc = "transfer" /\ sync'[s].sent = part /\ sync'[s].at = "temporary"
    <3>1. CASE part = Parts
      <4>1. sync' = [sync EXCEPT ![s] = [@ EXCEPT !.pc = "read", !.sent = 0, !.at = "closed"]]
        BY <2>1, <3>1
      <4>. QED  BY <1>0, <3>1, <4>1 DEF TypeOK, SyncType
    <3>2. CASE part # Parts
      <4>1. sync' = [sync EXCEPT ![s] = [@ EXCEPT !.sent = part]]
        BY <2>1, <3>2
      <4>. QED  BY <1>0, <4>1 DEF TypeOK, SyncType
    <3>. QED  BY <3>1, <3>2
  <2>. HIDE DEF n, part
  <2>7. Alone'
    <3>1. HasSegment(s) /\ ~HasList(s)' /\ sync'[s].name = sync[s].name
      BY <1>0, <2>6 DEF HasSegment, HasList, n
    <3>2. \A t \in Syncers \ {s} : /\ HasSegment(t)' => HasSegment(t)
                                   /\ HasList(t)' => HasList(t)
                                   /\ sync'[t].name = sync[t].name
      BY <2>5 DEF HasSegment, HasList
    <3>. QED  BY <3>1, <3>2, AloneStays DEF TransferInv
  <2>8. InHand(sync[s])' /\ Arrived(sync[s])'
    <3>1. InHand(sync[s])'
      BY <1>0, <2>4, <2>6 DEF InHand, Whole, n
    <3>2. Arrived(sync[s])'
      BY <1>0, <2>2, <2>6 DEF Arrived, TransferInv, Transferring
    <3>. QED  BY <3>1, <3>2
  <2>9. ASSUME NEW t \in Syncers \ {s}  PROVE InHand(sync[t])' /\ Arrived(sync[t])'
    <3>1. HasSegment(t) => sync[t].name \in Segment \ {n}
      BY <1>0 DEF TransferInv, InHand, Alone, HasSegment, n
    <3>. QED  BY <1>0, <2>2, <2>4, <2>5, <3>1, OtherSyncStays DEF TransferInv
  <2>. QED  BY <1>0, <2>2, <2>7, <2>8, <2>9 DEF TransferInv, Installed
<1>. QED  BY <1>1, <1>2

LEMMA VerifyTransfer ==
  ASSUME NEW s \in Syncers, TypeOK, TransferInv, Verify(s)  PROVE TransferInv'
<1>0. /\ sync[s] \in SyncType /\ sync[s].pc = "read" /\ Whole(fetching[sync[s].name])
      /\ sync[s].name \in Segment /\ sync[s].name \in sync[s].todo /\ sync[s].sent = 0
      /\ UNCHANGED disk
  BY DEF TypeOK, Verify, TransferInv, InHand
<1>1. sync' = [sync EXCEPT ![s] = [@ EXCEPT !.pc = "verified"]]
  BY <1>0 DEF Verify
<1>2. \A t \in Syncers \ {s} : sync'[t] = sync[t]
  BY <1>1 DEF TypeOK
<1>3. /\ sync'[s].pc = "verified" /\ sync'[s].name = sync[s].name /\ sync'[s].sent = 0
      /\ sync'[s].read = sync[s].read /\ sync'[s].todo = sync[s].todo
  BY <1>0, <1>1 DEF TypeOK, SyncType
<1>4. Alone'
  <2>1. HasSegment(s) /\ ~HasList(s)'
    BY <1>0, <1>3 DEF HasSegment, HasList
  <2>2. \A t \in Syncers \ {s} : /\ HasSegment(t)' => HasSegment(t)
                                 /\ HasList(t)' => HasList(t)
    BY <1>2 DEF HasSegment, HasList
  <2>. QED  BY <1>2, <1>3, <2>1, <2>2, AloneStays DEF TransferInv
<1>5. InHand(sync[s])' /\ Arrived(sync[s])'
  <2>1. InHand(sync[s])'
    BY <1>0, <1>3 DEF InHand, disk
  <2>2. Arrived(sync[s])'
    BY <1>0, <1>3 DEF Arrived, TransferInv, disk, Transferring
  <2>. QED  BY <2>1, <2>2
<1>6. \A t \in Syncers \ {s} : InHand(sync[t])' /\ Arrived(sync[t])'
  BY <1>0, <1>2, OtherSyncStays DEF TransferInv, disk
<1>. QED  BY <1>0, <1>4, <1>5, <1>6 DEF TransferInv, Installed, disk

LEMMA RenameTransfer ==
  ASSUME NEW s \in Syncers, TypeOK, TransferInv, Rename(s)  PROVE TransferInv'
<1>. DEFINE n == sync[s].name
            done == [sync[s] EXCEPT !.pc = "fetch", !.todo = @ \ {n}, !.name = None]
<1>0. /\ sync[s] \in SyncType /\ sync[s].pc = "verified" /\ Whole(fetching[n])
      /\ n \in Segment /\ n \in sync[s].todo /\ sync[s].sent = 0
      /\ UNCHANGED <<copiedManifest, listed>>
  BY DEF TypeOK, Rename, TransferInv, InHand
<1>1. 0 \in fetching[n]
  BY <1>0, StoreAssumption DEF Whole
<1>2. /\ copies' = [copies EXCEPT ![n] = fetching[n]]
      /\ fetching' = [fetching EXCEPT ![n] = {}]
      /\ sync' = [t \in Syncers |-> IF t = s THEN done
                                    ELSE IF sync[t].name = n THEN Moved(sync[t], "final") ELSE sync[t]]
  BY <1>1 DEF Rename
<1>3. /\ done.pc = "fetch" /\ done.name = None /\ done.sent = 0
      /\ done.read = sync[s].read /\ done.todo = sync[s].todo \ {n}
  BY <1>0 DEF SyncType
<1>. HIDE DEF done
<1>4. sync'[s] = done
  BY <1>2
<1>5. ASSUME NEW t \in Syncers \ {s}
      PROVE  /\ sync'[t].pc = sync[t].pc /\ sync'[t].read = sync[t].read
             /\ sync'[t].todo = sync[t].todo /\ sync'[t].name = sync[t].name
             /\ sync'[t].sent = sync[t].sent
             /\ sync[t].name # n => sync'[t] = sync[t]
             /\ HasSegment(t) => sync[t].name \in Segment \ {n}
             /\ sync[t].pc \in {"transfer", "list"} => sync'[t].at = sync[t].at
  <2>1. HasSegment(t) => sync[t].name \in Segment \ {n}
    BY <1>0 DEF TransferInv, InHand, Alone, HasSegment
  <2>2. HasList(t) /\ sync[t].pc # "rename" => sync[t].name = None
    BY DEF TransferInv, InHand, HasList
  <2>3. sync[t] \in SyncType
    BY DEF TypeOK
  <2>4. /\ sync[t].name # n => sync'[t] = sync[t]
        /\ sync[t].name = n => sync'[t] = Moved(sync[t], "final")
    <3>. HIDE DEF n
    <3>. QED  BY <1>2
  <2>5. sync[t].pc \in {"transfer", "list"} => sync[t].name # n
    BY <1>0, <2>1, <2>2, StoreAssumption DEF HasSegment, HasList
  <2>. HIDE DEF n
  <2>. QED  BY <2>1, <2>3, <2>4, <2>5, MovedType
<1>6. /\ Whole(copies'[n]) /\ \A m \in Segment \ {n} : copies'[m] = copies[m]
      /\ \A m \in Segment \ {n} : fetching'[m] = fetching[m]
  <2>. HIDE DEF n
  <2>. QED  BY <1>0, <1>2 DEF TypeOK
<1>. HIDE DEF n
<1>7. Alone'
  <2>1. ~HasSegment(s)' /\ ~HasList(s)'
    BY <1>3, <1>4 DEF HasSegment, HasList
  <2>2. \A t \in Syncers \ {s} : /\ HasSegment(t)' => HasSegment(t)
                                 /\ HasList(t)' => HasList(t)
                                 /\ sync'[t].name = sync[t].name
    BY <1>5 DEF HasSegment, HasList
  <2>. QED  BY <2>1, <2>2, AloneStays DEF TransferInv
<1>8. \A m \in Segment : Whole(copies[m]) => Whole(copies'[m])
  BY <1>6
<1>9. InHand(sync[s])' /\ Arrived(sync[s])'
  <2>1. InHand(sync[s])'
    BY <1>3, <1>4 DEF InHand
  <2>2. Arrived(sync[s])
    BY DEF TransferInv
  <2>3. sync[s].read \subseteq Segment
    BY <1>0 DEF SyncType
  <2>4. Arrived(sync[s])'
    BY <1>0, <1>3, <1>4, <1>6, <1>8, <2>2, <2>3 DEF Arrived, Transferring
  <2>. QED  BY <2>1, <2>4
<1>10. ASSUME NEW t \in Syncers \ {s}  PROVE InHand(sync[t])' /\ Arrived(sync[t])'
  <2>1. sync[t].read \subseteq Segment
    BY DEF TypeOK, SyncType
  <2>2. HasSegment(t) => fetching'[sync[t].name] = fetching[sync[t].name]
    BY <1>5, <1>6
  <2>. QED  BY <1>0, <1>5, <1>8, <2>1, <2>2, OtherSyncStays DEF TransferInv
<1>11. Installed'
  <2>1. copiedManifest.names \subseteq Segment
    BY DEF TypeOK, ListType
  <2>. QED  BY <1>0, <1>8, <2>1 DEF TransferInv, Installed
<1>12. \A m \in Segment : copies'[m] = {} \/ Whole(copies'[m])
  BY <1>6 DEF TransferInv
<1>. QED  BY <1>7, <1>9, <1>10, <1>11, <1>12 DEF TransferInv

LEMMA CreateManifestTransfer ==
  ASSUME NEW s \in Syncers, TypeOK, TransferInv, CreateManifest(s), clashes' = clashes
  PROVE  TransferInv'
<1>0. /\ sync[s] \in SyncType /\ sync[s].pc = "fetch" /\ sync[s].todo = {} /\ sync[s].name = None
      /\ UNCHANGED <<copies, copiedManifest, fetching>> /\ listed' = CreatedList
      /\ sync' = [sync EXCEPT ![s].pc = "list", ![s].at = "temporary"]
      /\ Clash(\E t \in Syncers : HasList(t))
  BY DEF TypeOK, CreateManifest, TransferInv, InHand
<1>1. ~\E t \in Syncers : HasList(t)
  BY <1>0 DEF Clash, TypeOK
<1>2. \A t \in Syncers \ {s} : sync'[t] = sync[t]
  BY <1>0 DEF TypeOK
<1>3. /\ sync'[s].pc = "list" /\ sync'[s].at = "temporary" /\ sync'[s].name = None
      /\ sync'[s].read = sync[s].read /\ sync'[s].todo = {}
  BY <1>0 DEF TypeOK, SyncType
<1>4. Alone'
  <2>1. ~HasSegment(s)'
    BY <1>3 DEF HasSegment
  <2>2. \A t \in Syncers \ {s} : (HasSegment(t)' => HasSegment(t)) /\ ~HasList(t)'
    BY <1>1, <1>2 DEF HasSegment, HasList
  <2>. QED  BY <1>2, <2>1, <2>2 DEF TransferInv, Alone
<1>5. InHand(sync[s])' /\ Arrived(sync[s])'
  <2>1. InHand(sync[s])'
    BY <1>0, <1>3 DEF InHand
  <2>2. Arrived(sync[s])'
    BY <1>0, <1>3 DEF Arrived, TransferInv, Transferring
  <2>. QED  BY <2>1, <2>2
<1>6. \A t \in Syncers \ {s} : InHand(sync[t])' /\ Arrived(sync[t])'
  BY <1>0, <1>1, <1>2, OtherSyncStays DEF TransferInv
<1>. QED  BY <1>0, <1>4, <1>5, <1>6 DEF TransferInv, Installed

LEMMA WriteManifestTransfer ==
  ASSUME NEW s \in Syncers, TypeOK, TransferInv, WriteManifest(s)  PROVE TransferInv'
<1>0. /\ sync[s] \in SyncType /\ sync[s].pc = "list" /\ sync[s].todo = {}
      /\ sync[s].at = "temporary" /\ listed = CreatedList
      /\ UNCHANGED <<copies, fetching>>
      /\ sync' = [sync EXCEPT ![s].pc = "rename", ![s].at = "closed"]
  BY DEF TypeOK, WriteManifest, TransferInv, InHand, Arrived
<1>1. listed' = Listing(sync[s].read) /\ UNCHANGED copiedManifest
  BY <1>0 DEF WriteManifest, Over
<1>2. \A t \in Syncers \ {s} : sync'[t] = sync[t] /\ ~HasList(t)
  BY <1>0 DEF TypeOK, TransferInv, Alone, HasList
<1>3. sync'[s].pc = "rename" /\ sync'[s].read = sync[s].read /\ sync'[s].todo = {}
  BY <1>0 DEF TypeOK, SyncType
<1>4. Alone'
  <2>1. ~HasSegment(s)'
    BY <1>3 DEF HasSegment
  <2>2. \A t \in Syncers \ {s} : (HasSegment(t)' => HasSegment(t)) /\ ~HasList(t)'
    BY <1>2 DEF HasSegment, HasList
  <2>. QED  BY <1>2, <2>1, <2>2 DEF TransferInv, Alone
<1>5. InHand(sync[s])' /\ Arrived(sync[s])'
  <2>1. InHand(sync[s])'
    BY <1>1, <1>3 DEF InHand
  <2>2. Arrived(sync[s])'
    BY <1>0, <1>3 DEF Arrived, TransferInv, Transferring
  <2>. QED  BY <2>1, <2>2
<1>6. \A t \in Syncers \ {s} : InHand(sync[t])' /\ Arrived(sync[t])'
  BY <1>0, <1>2, OtherSyncStays DEF TransferInv
<1>. QED  BY <1>0, <1>1, <1>4, <1>5, <1>6 DEF TransferInv, Installed

LEMMA RenameManifestTransfer ==
  ASSUME NEW s \in Syncers, TypeOK, TransferInv, RenameManifest(s)
  PROVE  TransferInv' /\ copiedManifest' = Listing(sync[s].read)
<1>0. /\ sync[s].pc = "rename" /\ sync[s].todo = {} /\ listed = Listing(sync[s].read)
      /\ UNCHANGED <<copies, fetching>>
  BY DEF RenameManifest, TransferInv, InHand, Arrived
<1>1. listed # NoList
  BY <1>0 DEF Listing, NoList
<1>2. /\ copiedManifest' = Listing(sync[s].read)
      /\ sync' = [t \in Syncers |-> IF t = s THEN AfterInstall(s)
                                    ELSE IF sync[t].pc = "list" THEN Moved(sync[t], "final") ELSE sync[t]]
  BY <1>0, <1>1 DEF RenameManifest
<1>3. \A t \in Syncers \ {s} : sync'[t] = sync[t] /\ ~HasList(t)
  BY <1>0, <1>2 DEF TransferInv, Alone, HasList
<1>4. sync'[s].pc \in {"idle", "reopen"}
  BY <1>2, FailedHoldsNothing
<1>5. Alone'
  BY <1>3, <1>4 DEF TransferInv, Alone, HasSegment, HasList
<1>6. InHand(sync[s])' /\ Arrived(sync[s])'
  BY <1>4 DEF InHand, Arrived, Transferring
<1>7. \A t \in Syncers \ {s} : InHand(sync[t])' /\ Arrived(sync[t])'
  BY <1>0, <1>3, OtherSyncStays DEF TransferInv
<1>8. Installed'
  <2>1. \A n \in sync[s].read : Whole(copies[n])
    BY <1>0 DEF TransferInv, Arrived, Transferring
  <2>. QED  BY <1>0, <1>2, <2>1 DEF Installed, Listing
<1>. QED  BY <1>0, <1>2, <1>5, <1>6, <1>7, <1>8 DEF TransferInv

(* What a reopening reads is what the manifest names. *)
LEMMA ReopenDoes ==
  ASSUME TypeOK, NEW s \in Syncers, ReopenReplica(s)
  PROVE  \/ sync'[s].pc = "idle" /\ ~sync'[s].ok
         \/ /\ sync'[s].pc = "opened" /\ copiedManifest.is = "list"
            /\ sync'[s].read = {AsRead(n) : n \in copiedManifest.names}
<1>. DEFINE S == {AsRead(n) : n \in copiedManifest.names}
            opened == [NoSync EXCEPT !.pc = "opened", !.read = S]
<1>1. \/ sync' = [sync EXCEPT ![s] = opened] /\ copiedManifest.is = "list"
      \/ sync' = [sync EXCEPT ![s] = FailedSync]
  BY DEF ReopenReplica
<1>2. opened.pc = "opened" /\ opened.read = S
  <2>. HIDE DEF S
  <2>. QED  BY DEF NoSync
<1>. HIDE DEF opened, S
<1>3. \/ sync'[s] = opened /\ copiedManifest.is = "list"
      \/ sync'[s] = FailedSync
  BY <1>1 DEF TypeOK
<1>4. CASE sync'[s] = opened /\ copiedManifest.is = "list"
  BY <1>2, <1>4 DEF S
<1>. QED  BY <1>3, <1>4, FailedHoldsNothing

(* Nobody else touches the replica's disk or a transfer. *)
LEMMA OthersLeaveTransfers ==
  ASSUME TypeOK, [Next]_vars, ~\E s \in Syncers : Fetch(s) \/ Install(s)
  PROVE  /\ UNCHANGED <<disk, clashes>>
         /\ \A t \in Syncers :
              \/ sync'[t] = sync[t]
              \/ sync'[t].pc \in {"idle", "asked", "reopen", "opened"}
              \/ /\ sync'[t].pc = "fetch" /\ sync'[t].name = None /\ sync'[t].sent = 0
                 /\ sync'[t].todo = sync'[t].read
<1>1. CASE Operator \/ MergerStep \/ MergerDies \/ UNCHANGED vars
  <2>1. UNCHANGED <<disk, clashes>>
    BY <1>1 DEF Operator, AddSegment, ListSegments, WriteListing, RemoveOrphans, MergerStep,
       PlanMerge, WriteMerged, ReplaceManifest, DeleteOld, Announce, Nudge, Answered, AllTold,
       MergerDies, vars, replica
  <2>2. sync' = sync \/ \E c : sync' = [sync EXCEPT ![c] = Asked(NoSync)]
    BY <1>1 DEF Operator, AddSegment, ListSegments, WriteListing, RemoveOrphans, MergerStep,
       PlanMerge, WriteMerged, ReplaceManifest, DeleteOld, Announce, Nudge, Answered, AllTold,
       MergerDies, vars, replica
  <2>. QED  BY <2>1, <2>2, FailedHoldsNothing DEF TypeOK
<1>2. CASE \E c \in Strangers : StrayNudge(c)
  BY <1>2, FailedHoldsNothing DEF StrayNudge, TypeOK
<1>3. CASE \E c \in Callers : CallStep(c)
  BY <1>3 DEF CallStep, ReadManifest, OpenSegments, Swap, replica
<1>4. CASE \E s \in Timers : TimerFires(s)
  BY <1>4, FailedHoldsNothing DEF TimerFires, TypeOK
<1>5. CASE \E s \in Syncers : SyncStep(s)
  <2>1. PICK s \in Syncers : AskManifest(s) \/ SyncFails(s) \/ ReopenReplica(s) \/ SwapReplica(s)
    BY <1>5 DEF SyncStep
  <2>2. UNCHANGED <<disk, clashes>> /\ \A t \in Syncers \ {s} : sync'[t] = sync[t]
    BY <2>1 DEF AskManifest, SyncFails, ReopenReplica, SwapReplica, TypeOK
  <2>3. CASE AskManifest(s)
    <3>1. sync'[s] = [NoSync EXCEPT !.pc = "fetch", !.read = shown, !.todo = shown]
      BY <2>3 DEF AskManifest, TypeOK
    <3>2. /\ sync'[s].pc = "fetch" /\ sync'[s].name = None /\ sync'[s].sent = 0
          /\ sync'[s].todo = sync'[s].read
      BY <3>1 DEF NoSync
    <3>. QED  BY <2>2, <3>2
  <2>4. CASE SyncFails(s) \/ SwapReplica(s)
    BY <2>2, <2>4, FailedHoldsNothing DEF SyncFails, SwapReplica, TypeOK
  <2>5. CASE ReopenReplica(s)
    <3>1. sync'[s].pc \in {"idle", "opened"}
      BY <2>5, ReopenDoes
    <3>. QED  BY <2>2, <3>1
  <2>. QED  BY <2>1, <2>3, <2>4, <2>5
<1>. QED  BY <1>1, <1>2, <1>3, <1>4, <1>5 DEF Next

LEMMA ClashesStay ==
  ASSUME TypeOK, [Next]_vars, clashes' = 0  PROVE clashes = 0
<1>1. CASE \E s \in Syncers : Fetch(s) \/ Install(s)
  BY <1>1 DEF Fetch, Check, Create, Receive, Verify, Discard, Rename, Install, CreateManifest,
              WriteManifest, RenameManifest, Clash, TypeOK
<1>2. CASE ~\E s \in Syncers : Fetch(s) \/ Install(s)
  BY <1>2, OthersLeaveTransfers
<1>. QED  BY <1>1, <1>2

LEMMA TransferInvInit == Init => TransferInv
<1>. SUFFICES ASSUME Init  PROVE TransferInv
  OBVIOUS
<1>1. \A s \in Syncers : sync[s].pc = "idle"
  BY FailedHoldsNothing DEF Init
<1>2. Alone
  BY <1>1 DEF Alone, HasSegment, HasList
<1>3. \A s \in Syncers : InHand(sync[s]) /\ Arrived(sync[s])
  BY <1>1 DEF InHand, Arrived, Transferring
<1>4. Made(First) \in Segment
  BY StoreAssumption, MadeIsSegment
<1>5. /\ \A n \in Segment : copies[n] = {} \/ Whole(copies[n])
      /\ Whole(copies[Made(First)])
  BY <1>4 DEF Init, Whole
<1>. QED  BY <1>2, <1>3, <1>5 DEF TransferInv, Installed, Init, Listing

LEMMA NextTransferInv ==
  ASSUME TypeOK, clashes = 0 => TransferInv, [Next]_vars
  PROVE  clashes' = 0 => TransferInv'
<1>. SUFFICES ASSUME clashes' = 0  PROVE TransferInv'
  OBVIOUS
<1>1. clashes' = clashes
  BY ClashesStay
<1>2. TransferInv
  BY <1>1
<1>3. CASE ~\E s \in Syncers : Fetch(s) \/ Install(s)
  BY <1>2, <1>3, OthersLeaveTransfers, TransferStays
<1>4. ASSUME NEW s \in Syncers, Fetch(s)  PROVE TransferInv'
  <2>1. ~Discard(s)
    BY <1>2 DEF Discard, TransferInv, InHand
  <2>. QED  BY <1>1, <1>2, <1>4, <2>1, CheckTransfer, CreateTransfer, ReceiveTransfer,
               VerifyTransfer, RenameTransfer DEF Fetch
<1>5. ASSUME NEW s \in Syncers, Install(s)  PROVE TransferInv'
  BY <1>1, <1>2, <1>5, CreateManifestTransfer, WriteManifestTransfer, RenameManifestTransfer
     DEF Install
<1>. QED  BY <1>3, <1>4, <1>5

(* A replica restarted at any moment can read its manifest and every byte of *)
(* what that names, whatever transfers were cut and processes killed before: *)
(* for any operator, any number of syncs and of chunks, as long as no sync   *)
(* created a temporary that another had in hand.                             *)
THEOREM ReplicaAlwaysOpens == Spec => []ReplicaIsWhole
<1>1. Init => (clashes = 0 => TransferInv)
  BY TransferInvInit
<1>2. TypeOK /\ (clashes = 0 => TransferInv) /\ [Next]_vars => (clashes = 0 => TransferInv)'
  BY NextTransferInv
<1>3. (clashes = 0 => TransferInv) => ReplicaIsWhole
  BY DEF TransferInv, ReplicaIsWhole
<1>. QED  BY <1>1, <1>2, <1>3, StoreTypeCorrect, PTL DEF Spec

-----------------------------------------------------------------------------
(* The primary's directory.  One lemma per action that touches it, then one  *)
(* for the merger's other steps and one for everybody else.                  *)

LEMMA StoreInvInit == ASSUME NoEmptySegment, Init  PROVE StoreInv
<1>1. Batch[First] # {} /\ Made(First).docs = Batch[First]
  BY StoreAssumption, MadeIsSegment DEF NoEmptySegment
<1>2. DocsOf(manifest) = Batch[First] /\ AddedDocs = Batch[First]
  BY <1>1 DEF Init, DocsOf, AddedDocs
<1>3. DirectoryInv
  BY <1>1, <1>2 DEF Init, DirectoryInv, ManifestIsWhole, EachDocumentOnce, Apart
<1>4. ListingInv /\ MergeInv
  BY DEF Init, ListingInv, MergeInv, NoListing, IdleMerger
<1>. QED  BY <1>3, <1>4 DEF StoreInv

(* The documents of a segment that is added are in no other. *)
LEMMA AddedApart ==
  ASSUME TypeOK, NEW l \in Labels \ added  PROVE Batch[l] \intersect AddedDocs = {}
BY StoreAssumption DEF TypeOK, AddedDocs

LEMMA AddSegmentInv ==
  ASSUME NoEmptySegment, TypeOK, StoreInv, AddSegment  PROVE StoreInv'
<1>1. PICK l \in Labels \ added : added' = added \union {l} /\ files' = files \union {Made(l)}
  BY DEF AddSegment
<1>2. UNCHANGED <<manifest, listing, merger, editions>>
  BY DEF AddSegment
<1>3. Made(l).docs = Batch[l] /\ Batch[l] # {}
  BY MadeIsSegment DEF NoEmptySegment
<1>4. AddedDocs' = AddedDocs \union Batch[l]
  BY <1>1 DEF AddedDocs
<1>5. \A S : DocsOf(S) \subseteq AddedDocs => Batch[l] \intersect DocsOf(S) = {}
  BY AddedApart
<1>6. ASSUME NEW s, NEW S, Fresh(s, S)
      PROVE  \E k \in added' : s = Made(k) /\ Batch[k] \intersect DocsOf(S) = {}
  BY <1>1, <1>6 DEF Fresh
<1>7. DirectoryInv'
  <2>1. ManifestIsWhole' /\ EachDocumentOnce'
    BY <1>1, <1>2 DEF StoreInv, DirectoryInv, ManifestIsWhole, EachDocumentOnce
  <2>2. \A s \in files' : s.docs # {}
    BY <1>1, <1>3 DEF StoreInv, DirectoryInv
  <2>3. DocsOf(manifest') \subseteq AddedDocs'
    BY <1>2, <1>4 DEF StoreInv, DirectoryInv
  <2>4. \A s \in files' \ manifest' :
          \/ s.docs \subseteq DocsOf(manifest')
          \/ \E k \in added' : s = Made(k) /\ Batch[k] \intersect DocsOf(manifest') = {}
    BY <1>1, <1>2, <1>5, <1>6 DEF StoreInv, DirectoryInv
  <2>. QED  BY <2>1, <2>2, <2>3, <2>4 DEF DirectoryInv, Fresh
<1>8. ListingInv'
  <2>. SUFFICES ASSUME listing.open  PROVE ListingInv'
    BY <1>2 DEF ListingInv
  <2>1. \A s \in files' \ listing.found :
          \E k \in added' : s = Made(k) /\ Batch[k] \intersect DocsOf(listing.found) = {}
    BY <1>1, <1>5, <1>6 DEF StoreInv, ListingInv
  <2>. QED  BY <1>1, <1>2, <1>4, <2>1 DEF StoreInv, ListingInv, Fresh
<1>9. MergeInv'
  BY <1>1, <1>2 DEF StoreInv, MergeInv
<1>. QED  BY <1>7, <1>8, <1>9 DEF StoreInv

LEMMA ListSegmentsInv ==
  ASSUME Careful, TypeOK, StoreInv, ListSegments  PROVE StoreInv'
<1>1. UNCHANGED <<files, manifest, added, merger, editions>>
  BY DEF ListSegments, directory
<1>2. listing' = [open |-> TRUE, found |-> files]
  BY DEF ListSegments
<1>3. merger.pc \in {"idle", "nudge", "await"} /\ Leftovers = {}
  BY DEF ListSegments
<1>4. \A s \in files \ manifest : Fresh(s, manifest)
  BY <1>3 DEF Leftovers, StoreInv, DirectoryInv
<1>5. \A s \in files \ manifest : \E l \in added : s = Made(l) /\ s.docs = Batch[l]
                                    /\ s.docs \intersect DocsOf(manifest) = {}
  BY <1>4, MadeIsSegment DEF Fresh, TypeOK
<1>6. Apart(files)
  <2>. SUFFICES ASSUME NEW s \in files, NEW t \in files, s # t
                PROVE  s.docs \intersect t.docs = {}
    BY DEF Apart
  <2>1. CASE s \in manifest /\ t \in manifest
    BY <2>1 DEF StoreInv, DirectoryInv, EachDocumentOnce, Apart
  <2>2. CASE s \in manifest /\ t \notin manifest
    BY <2>2, <1>5 DEF DocsOf
  <2>3. CASE s \notin manifest /\ t \in manifest
    BY <2>3, <1>5 DEF DocsOf
  <2>4. CASE s \notin manifest /\ t \notin manifest
    <3>1. PICK k \in added : s = Made(k) /\ s.docs = Batch[k]
      BY <2>4, <1>5
    <3>2. PICK l \in added : t = Made(l) /\ t.docs = Batch[l]
      BY <2>4, <1>5
    <3>. QED  BY <3>1, <3>2, StoreAssumption DEF TypeOK
  <2>. QED  BY <2>1, <2>2, <2>3, <2>4
<1>7. DocsOf(manifest) \subseteq DocsOf(files)
  BY DocsGrow DEF StoreInv, DirectoryInv, ManifestIsWhole
<1>8. DocsOf(files) \subseteq AddedDocs
  <2>1. \A s \in files : s.docs \subseteq AddedDocs
    BY <1>5 DEF DocsOf, AddedDocs, StoreInv, DirectoryInv
  <2>. QED  BY <2>1 DEF DocsOf
<1>9. ListingInv'
  BY <1>1, <1>2, <1>3, <1>6, <1>7, <1>8 DEF ListingInv, AddedDocs
<1>10. DirectoryInv' /\ MergeInv'
  BY <1>1 DEF StoreInv, DirectoryInv, MergeInv, ManifestIsWhole, EachDocumentOnce,
              Fresh, AddedDocs
<1>. QED  BY <1>9, <1>10 DEF StoreInv

LEMMA WriteListingInv ==
  ASSUME TypeOK, StoreInv, WriteListing  PROVE StoreInv'
<1>1. listing.open /\ manifest' = listing.found /\ ~listing'.open
  BY DEF WriteListing, NoListing
<1>2. UNCHANGED <<files, added, merger>> /\ editions' = editions \union {DocsOf(listing.found)}
  BY DEF WriteListing
<1>3. EachDocumentOnce'
  BY <1>1, <1>2 DEF StoreInv, DirectoryInv, ListingInv, EachDocumentOnce
<1>4. DirectoryInv'
  BY <1>1, <1>2, <1>3 DEF StoreInv, DirectoryInv, ListingInv, ManifestIsWhole, Fresh, AddedDocs
<1>5. ListingInv' /\ MergeInv'
  BY <1>1, <1>2 DEF StoreInv, ListingInv, MergeInv
<1>. QED  BY <1>4, <1>5 DEF StoreInv

LEMMA RemoveOrphansInv ==
  ASSUME TypeOK, StoreInv, RemoveOrphans  PROVE StoreInv'
<1>1. ~listing.open /\ files' = files \ Leftovers /\ merger.pc \in {"idle", "nudge", "await"}
  BY DEF RemoveOrphans
<1>2. UNCHANGED <<manifest, added, listing, merger, editions>>
  BY DEF RemoveOrphans
<1>3. DirectoryInv'
  BY <1>1, <1>2 DEF StoreInv, DirectoryInv, ManifestIsWhole, EachDocumentOnce, Leftovers,
                    Fresh, AddedDocs
<1>. QED  BY <1>1, <1>2, <1>3 DEF StoreInv, ListingInv, MergeInv

LEMMA PlanMergeInv ==
  ASSUME Careful, TypeOK, StoreInv, PlanMerge  PROVE StoreInv'
<1>1. PICK P \in NextMerges(manifest) :
        merger' = [merger EXCEPT !.pc = "write", !.base = manifest, !.plan = P]
  BY DEF PlanMerge
<1>2. merger'.pc = "write" /\ merger'.base = manifest /\ merger'.plan = P
  BY <1>1 DEF TypeOK, MergerType
<1>3. ~listing.open /\ UNCHANGED <<files, manifest, added, listing, editions>>
  BY DEF PlanMerge, directory
<1>4. DirectoryInv'
  BY <1>3 DEF StoreInv, DirectoryInv, ManifestIsWhole, EachDocumentOnce, Fresh, AddedDocs
<1>5. ListingInv' /\ MergeInv'
  BY <1>2, <1>3, MergesAreOfTwo DEF ListingInv, MergeInv
<1>. QED  BY <1>4, <1>5 DEF StoreInv

LEMMA WriteMergedInv ==
  ASSUME TypeOK, StoreInv, WriteMerged  PROVE StoreInv'
<1>. DEFINE new == Produced(merger.plan)
<1>1. merger.pc = "write" /\ files' = files \union {new}
      /\ UNCHANGED <<manifest, added, listing, editions>>
  BY DEF WriteMerged
<1>2. merger'.pc = "replace" /\ merger'.base = merger.base /\ merger'.plan = merger.plan
  BY DEF WriteMerged, TypeOK, MergerType
<1>3. merger.plan \subseteq manifest /\ merger.plan # {} /\ ~listing.open
  BY <1>1 DEF StoreInv, MergeInv, ListingInv
<1>4. new.docs = DocsOf(merger.plan)
  BY DEF Produced
<1>5. new.docs \subseteq DocsOf(manifest)
  BY <1>3, <1>4, DocsGrow
<1>6. new.docs # {}
  <2>1. PICK s \in merger.plan : s.docs # {}
    BY <1>3 DEF StoreInv, DirectoryInv, ManifestIsWhole
  <2>. QED  BY <1>4, <2>1 DEF DocsOf
<1>. HIDE DEF new
<1>7. DirectoryInv'
  BY <1>1, <1>5, <1>6 DEF StoreInv, DirectoryInv, ManifestIsWhole, EachDocumentOnce,
                          Fresh, AddedDocs
<1>8. ListingInv'
  BY <1>1, <1>3 DEF ListingInv
<1>9. MergeInv'
  BY <1>1, <1>2 DEF StoreInv, MergeInv, new
<1>. QED  BY <1>7, <1>8, <1>9 DEF StoreInv

LEMMA ReplaceManifestInv ==
  ASSUME TypeOK, StoreInv, ReplaceManifest  PROVE StoreInv'
<1>. DEFINE new == Replaced(manifest, merger.plan)
<1>1. merger.pc = "replace" /\ merger.base = manifest /\ merger.plan \subseteq manifest
      /\ (\E s, t \in merger.plan : s # t) /\ Produced(merger.plan) \in files /\ ~listing.open
  BY DEF ReplaceManifest, StoreInv, MergeInv, ListingInv
<1>2. manifest' = new /\ editions' = editions \union {DocsOf(new)}
      /\ UNCHANGED <<files, added, listing>>
  BY <1>1 DEF ReplaceManifest
<1>3. merger'.pc = "delete" /\ merger'.plan = merger.plan
  BY DEF ReplaceManifest, TypeOK, MergerType
<1>4. DocsOf(new) = DocsOf(manifest) /\ Apart(new)
  BY <1>1, ReplacedDocs, ReplacedApart DEF StoreInv, DirectoryInv, EachDocumentOnce
<1>5. new \subseteq files
  BY <1>1 DEF Replaced, StoreInv, DirectoryInv, ManifestIsWhole
<1>6. merger.plan \intersect new = {}
  <2>1. Produced(merger.plan) \notin merger.plan
    BY <1>1, MergeIsNew DEF StoreInv, DirectoryInv, EachDocumentOnce, ManifestIsWhole
  <2>. QED  BY <2>1 DEF Replaced
<1>7. \A s \in manifest : s.docs \subseteq DocsOf(manifest)
  BY DEF DocsOf
<1>. HIDE DEF new
<1>8. DirectoryInv'
  <2>1. EachDocumentOnce' /\ ManifestIsWhole'
    BY <1>2, <1>4, <1>5 DEF StoreInv, DirectoryInv, EachDocumentOnce, ManifestIsWhole
  <2>2. \A s \in files \ new : s.docs \subseteq DocsOf(new) \/ Fresh(s, new)
    BY <1>4, <1>7 DEF StoreInv, DirectoryInv, Fresh
  <2>. QED  BY <1>2, <1>4, <2>1, <2>2 DEF StoreInv, DirectoryInv, Fresh, AddedDocs
<1>9. ListingInv' /\ MergeInv'
  BY <1>1, <1>2, <1>3, <1>6 DEF ListingInv, MergeInv
<1>. QED  BY <1>8, <1>9 DEF StoreInv

LEMMA DeleteOldInv ==
  ASSUME TypeOK, StoreInv, DeleteOld  PROVE StoreInv'
<1>1. merger.pc = "delete" /\ ~listing.open /\ merger.plan \intersect manifest = {}
      /\ UNCHANGED <<manifest, added, listing, editions>>
  BY DEF DeleteOld, StoreInv, ListingInv, MergeInv
<1>2. PICK s \in merger.plan :
        /\ merger' = [merger EXCEPT !.plan = @ \ {s},
                                    !.pc = IF merger.plan = {s} THEN "idle" ELSE "delete"]
        /\ files' = files \ {s} \/ files' = files
  BY DEF DeleteOld
<1>3. merger'.pc \in {"idle", "delete"} /\ merger'.plan \subseteq merger.plan
  BY <1>2 DEF TypeOK, MergerType
<1>4. DirectoryInv'
  BY <1>1, <1>2 DEF StoreInv, DirectoryInv, ManifestIsWhole, EachDocumentOnce, Fresh, AddedDocs
<1>5. ListingInv' /\ MergeInv'
  BY <1>1, <1>3 DEF ListingInv, MergeInv
<1>. QED  BY <1>4, <1>5 DEF StoreInv

LEMMA NudgesInv ==
  ASSUME TypeOK, StoreInv, Announce \/ Nudge \/ Answered \/ AllTold \/ MergerDies
  PROVE  StoreInv'
<1>1. UNCHANGED <<files, manifest, added, listing, editions>>
  BY DEF Announce, Nudge, Answered, AllTold, MergerDies, directory
<1>2. merger'.pc \in {"idle", "nudge", "await"}
  <2>1. CASE Announce \/ AllTold \/ MergerDies
    <3>1. \/ merger' = IdleMerger
          \/ merger' = [IdleMerger EXCEPT !.pc = "nudge", !.aim = DocsOf(manifest)]
      BY <2>1 DEF Announce, AllTold, MergerDies
    <3>2. IdleMerger.pc = "idle" /\ IdleMerger \in MergerType
      BY RecordTypes DEF IdleMerger
    <3>. QED  BY <3>1, <3>2 DEF MergerType
  <2>2. CASE Nudge
    <3>1. \/ \E c : merger' = [merger EXCEPT !.pc = "await", !.by = c]
          \/ merger.pc = "nudge" /\ merger' = [merger EXCEPT !.told = @ + 1, !.whole = FALSE]
      BY <2>2 DEF Nudge
    <3>. QED  BY <3>1 DEF TypeOK, MergerType
  <2>3. CASE Answered
    BY <2>3 DEF Answered, TypeOK, MergerType
  <2>. QED  BY <2>1, <2>2, <2>3
<1>. QED  BY <1>1, <1>2 DEF StoreInv, DirectoryInv, ListingInv, MergeInv, ManifestIsWhole,
                            EachDocumentOnce, Fresh, AddedDocs

LEMMA OthersInv ==
  ASSUME StoreInv, UNCHANGED <<files, manifest, added, listing, merger, editions>>
  PROVE  StoreInv'
BY DEF StoreInv, DirectoryInv, ListingInv, MergeInv, ManifestIsWhole, EachDocumentOnce,
       Fresh, AddedDocs

LEMMA ShardsLeaveDirectory ==
  ASSUME \/ \E c \in Strangers : StrayNudge(c)
         \/ \E c \in Callers : CallStep(c)
         \/ \E s \in Timers : TimerFires(s)
         \/ \E s \in Syncers : SyncStep(s)
         \/ UNCHANGED vars
  PROVE  UNCHANGED <<files, manifest, added, listing, merger, editions>>
BY DEF StrayNudge, CallStep, ReadManifest, OpenSegments, Swap, TimerFires, SyncStep,
       AskManifest, Fetch, SyncFails, Install, ReopenReplica, SwapReplica, vars, directory

LEMMA NextStoreInv ==
  ASSUME Careful, NoEmptySegment, TypeOK, StoreInv, [Next]_vars  PROVE StoreInv'
<1>1. CASE Operator
  BY <1>1, AddSegmentInv, ListSegmentsInv, WriteListingInv, RemoveOrphansInv DEF Operator
<1>2. CASE MergerStep \/ MergerDies
  BY <1>2, PlanMergeInv, WriteMergedInv, ReplaceManifestInv, DeleteOldInv, NudgesInv
     DEF MergerStep
<1>3. CASE ~Operator /\ ~MergerStep /\ ~MergerDies
  BY <1>3, ShardsLeaveDirectory, OthersInv DEF Next
<1>. QED  BY <1>1, <1>2, <1>3

LEMMA StoreInvHolds ==
  ASSUME Careful, NoEmptySegment
  PROVE  Spec => []StoreInv
<1>1. Init => TypeOK /\ StoreInv
  BY InitType, StoreInvInit
<1>2. (TypeOK /\ StoreInv) /\ [Next]_vars => (TypeOK /\ StoreInv)'
  BY NextType, NextStoreInv
<1>. QED  BY <1>1, <1>2, PTL DEF Spec

(* However often the merger is killed and wherever, the manifest names only *)
(* segments that are there.                                                 *)
THEOREM ManifestStaysWhole ==
  ASSUME Careful, NoEmptySegment
  PROVE  Spec => []ManifestIsWhole
<1>1. StoreInv => ManifestIsWhole
  BY DEF StoreInv, DirectoryInv
<1>. QED  BY <1>1, StoreInvHolds, PTL

(* Every document that a manifest ever described is in the index for good,  *)
(* in exactly one of its segments: no merge and no crash loses or doubles   *)
(* one.                                                                     *)
THEOREM DocumentsAreKeptOnce ==
  ASSUME Careful, NoEmptySegment
  PROVE  Spec => []EachDocumentOnce
<1>1. StoreInv => EachDocumentOnce
  BY DEF StoreInv, DirectoryInv
<1>. QED  BY <1>1, StoreInvHolds, PTL

-----------------------------------------------------------------------------
(* What the shards serve.  Nobody makes a list of segments but the operator  *)
(* and the merger: whatever else holds one copied it.  Editions are only     *)
(* ever added, so what was published once stays so.                          *)

LEMMA EditionsGrow == ASSUME [Next]_vars  PROVE editions \subseteq editions'
<1>1. CASE Operator \/ MergerStep \/ MergerDies
  BY <1>1 DEF Operator, AddSegment, ListSegments, WriteListing, RemoveOrphans, MergerStep,
              PlanMerge, WriteMerged, ReplaceManifest, DeleteOld, Announce, Nudge, Answered,
              AllTold, MergerDies
<1>2. CASE ~(Operator \/ MergerStep \/ MergerDies)
  BY <1>2, ShardsLeaveDirectory DEF Next
<1>. QED  BY <1>1, <1>2

(* Who writes the manifest has published what it names. *)
LEMMA ManifestIsPublished ==
  ASSUME Careful, NoEmptySegment, TypeOK, StoreInv, Published(manifest), [Next]_vars
  PROVE  Published(manifest)'
<1>1. Apart(manifest')
  BY NextStoreInv DEF StoreInv, DirectoryInv, EachDocumentOnce, Apart
<1>2. CASE manifest' = manifest
  BY <1>1, <1>2, EditionsGrow DEF Published
<1>3. CASE WriteListing \/ ReplaceManifest
  BY <1>1, <1>3 DEF WriteListing, ReplaceManifest, Published
<1>4. CASE ~(WriteListing \/ ReplaceManifest)
  <2>1. CASE Operator \/ MergerStep \/ MergerDies
    BY <1>4, <2>1, <1>2 DEF Operator, AddSegment, ListSegments, RemoveOrphans, MergerStep,
       PlanMerge, WriteMerged, DeleteOld, Announce, Nudge, Answered, AllTold, MergerDies,
       directory
  <2>2. CASE ~(Operator \/ MergerStep \/ MergerDies)
    BY <1>2, <2>2, ShardsLeaveDirectory DEF Next
  <2>. QED  BY <2>1, <2>2
<1>. QED  BY <1>3, <1>4

(* A step that changes no call and no sync, or one of them by asking, only   *)
(* can make a new list by writing the manifest.                              *)
LEMMA AskingHoldsNothing ==
  ASSUME TypeOK, NEW c, UNCHANGED <<shown, replicaShown, disk>>,
         call' = call \/ call' = [call EXCEPT ![c] = Asked(Quiet)],
         sync' = sync \/ sync' = [sync EXCEPT ![c] = Asked(NoSync)]
  PROVE  Held' \subseteq Held \union {manifest'} /\ Opening' \subseteq Opening
<1>1. Asked(Quiet).pc = "asked" /\ Asked(NoSync).pc = "asked"
  BY DEF Asked, Quiet, NoSync
<1>2. \A d \in Callers : call'[d] = call[d] \/ call'[d] = Asked(Quiet)
  BY DEF TypeOK
<1>3. \A d \in Syncers : sync'[d] = sync[d] \/ sync'[d].pc = "asked"
  BY <1>1 DEF TypeOK
<1>4. \A d \in Syncers : /\ sync'[d].pc \in Transferring => sync'[d] = sync[d]
                         /\ sync'[d].pc = "opened" => sync'[d] = sync[d]
  BY <1>3 DEF Transferring
<1>5. Held' \subseteq Held \union {manifest'}
  BY <1>1, <1>2, <1>4 DEF Held, disk
<1>6. Opening' \subseteq Opening
  BY <1>4 DEF Opening
<1>. QED  BY <1>5, <1>6

(* A refresh of the primary's shard serves what it read in the manifest. *)
LEMMA CallHoldsNothingNew ==
  ASSUME TypeOK, NEW c \in Callers, CallStep(c)
  PROVE  Held' \subseteq Held /\ Opening' = Opening
<1>1. UNCHANGED <<manifest, replicaShown, disk, copiedManifest, listed, sync>>
  BY DEF CallStep, ReadManifest, OpenSegments, Swap, directory, replica, disk
<1>2. \A d \in Callers \ {c} : call'[d] = call[d]
  BY DEF CallStep, ReadManifest, OpenSegments, Swap, TypeOK
<1>3. call[c] \in CallType
  BY DEF TypeOK
<1>4. Opening' = Opening
  BY <1>1 DEF Opening
<1>5. CASE ReadManifest(c)
  <2>1. call'[c].read = manifest /\ shown' = shown
    BY <1>3, <1>5 DEF ReadManifest, TypeOK, CallType
  <2>. QED  BY <1>1, <1>2, <1>4, <2>1 DEF Held
<1>6. CASE OpenSegments(c)
  <2>1. call'[c].pc = "opened" => call'[c].read = call[c].read
    BY <1>6 DEF OpenSegments, TypeOK, Opened, Quiet
  <2>2. call'[c].pc # "reopen" /\ call[c].pc = "reopen" /\ shown' = shown
    BY <1>6 DEF OpenSegments, TypeOK, Opened, Quiet
  <2>. QED  BY <1>1, <1>2, <1>4, <2>1, <2>2 DEF Held
<1>7. CASE Swap(c)
  <2>1. shown' = call[c].read /\ call[c].pc = "opened" /\ call'[c].pc = "idle"
    BY <1>7 DEF Swap, TypeOK, Quiet
  <2>. QED  BY <1>1, <1>2, <1>4, <2>1 DEF Held
<1>. QED  BY <1>5, <1>6, <1>7 DEF CallStep

(* A transfer keeps the manifest it reads until it fails or has installed it, *)
(* and touches no other.                                                     *)
LEMMA TransferDoes ==
  ASSUME TypeOK, NEW s \in Syncers, Fetch(s) \/ Install(s)
  PROVE  /\ UNCHANGED <<directory, merger, shown, call, replicaShown, delivered>>
         /\ sync[s].pc \in Transferring
         /\ \A t \in Syncers \ {s} : /\ sync'[t].pc = sync[t].pc /\ sync'[t].read = sync[t].read
                                     /\ sync'[t].ok = sync[t].ok
         /\ \/ sync'[s].pc \in Transferring /\ sync'[s].read = sync[s].read
            \/ sync'[s].pc = "idle" /\ ~sync'[s].ok
            \/ RenameManifest(s) /\ listed # NoList /\ sync'[s] = AfterInstall(s)
<1>1. /\ UNCHANGED <<directory, merger, shown, call, replicaShown, delivered>>
      /\ sync[s] \in SyncType
  BY DEF Fetch, Install, primary, TypeOK
<1>2. ASSUME NEW t \in Syncers \ {s}
      PROVE  /\ sync'[t].pc = sync[t].pc /\ sync'[t].read = sync[t].read
             /\ sync'[t].ok = sync[t].ok
  <2>1. \E to \in {"final", "gone"} : sync'[t] = sync[t] \/ sync'[t] = Moved(sync[t], to)
    BY DEF Fetch, Check, Create, Receive, Verify, Discard, Rename, Install, CreateManifest,
           WriteManifest, RenameManifest, TypeOK
  <2>2. sync[t] \in SyncType
    BY DEF TypeOK
  <2>. QED  BY <2>1, <2>2, MovedType
<1>3. CASE Check(s)
  <2>1. PICK n : \/ sync' = [sync EXCEPT ![s].todo = @ \ {n}]
                 \/ sync' = [sync EXCEPT ![s].pc = "missing", ![s].name = n]
    BY <1>3 DEF Check
  <2>2. sync'[s].pc \in {"fetch", "missing"} /\ sync'[s].read = sync[s].read /\ sync[s].pc = "fetch"
    BY <1>1, <1>3, <2>1 DEF TypeOK, SyncType, Check
  <2>. QED  BY <1>1, <1>2, <2>2 DEF Transferring
<1>4. CASE Create(s)
  <2>1. \/ sync'[s] = FailedSync
        \/ sync'[s].pc = "transfer" /\ sync'[s].read = sync[s].read
    <3>1. CASE sync' = [sync EXCEPT ![s].pc = "transfer", ![s].at = "temporary"]
      BY <1>1, <3>1 DEF TypeOK, SyncType
    <3>2. CASE sync' = [sync EXCEPT ![s] = FailedSync]
      BY <3>2 DEF TypeOK
    <3>. QED  BY <1>4, <3>1, <3>2 DEF Create
  <2>2. sync[s].pc = "missing"
    BY <1>4 DEF Create
  <2>. QED  BY <1>1, <1>2, <2>1, <2>2, FailedHoldsNothing DEF Transferring
<1>5. CASE Receive(s)
  <2>1. \/ sync'[s] = FailedSync
        \/ sync'[s] = [sync[s] EXCEPT !.pc = "read", !.sent = 0, !.at = "closed"]
        \/ sync'[s] = [sync[s] EXCEPT !.sent = sync[s].sent + 1]
    BY <1>5 DEF Receive, TypeOK
  <2>2. \/ sync'[s] = FailedSync
        \/ sync'[s].pc \in {"read", "transfer"} /\ sync'[s].read = sync[s].read
    BY <1>1, <1>5, <2>1 DEF SyncType, Receive
  <2>3. sync[s].pc = "transfer"
    BY <1>5 DEF Receive
  <2>. QED  BY <1>1, <1>2, <2>2, <2>3, FailedHoldsNothing DEF Transferring
<1>6. CASE Verify(s)
  <2>1. \/ sync'[s] = FailedSync
        \/ sync'[s] = [sync[s] EXCEPT !.pc = "verified"]
        \/ sync'[s] = [sync[s] EXCEPT !.pc = "discard"]
    BY <1>6 DEF Verify, TypeOK
  <2>2. \/ sync'[s] = FailedSync
        \/ sync'[s].pc \in {"verified", "discard"} /\ sync'[s].read = sync[s].read
    BY <1>1, <2>1 DEF SyncType
  <2>3. sync[s].pc = "read"
    BY <1>6 DEF Verify
  <2>. QED  BY <1>1, <1>2, <2>2, <2>3, FailedHoldsNothing DEF Transferring
<1>7. CASE Discard(s)
  <2>1. sync'[s] = FailedSync /\ sync[s].pc = "discard"
    BY <1>7 DEF Discard
  <2>. QED  BY <1>1, <1>2, <2>1, FailedHoldsNothing DEF Transferring
<1>8. CASE Rename(s)
  <2>1. \/ sync'[s] = FailedSync
        \/ \E S : sync'[s] = [sync[s] EXCEPT !.pc = "fetch", !.todo = S, !.name = None]
    BY <1>8 DEF Rename, TypeOK
  <2>2. \/ sync'[s] = FailedSync
        \/ sync'[s].pc = "fetch" /\ sync'[s].read = sync[s].read
    BY <1>1, <2>1 DEF SyncType
  <2>3. sync[s].pc = "verified"
    BY <1>8 DEF Rename
  <2>. QED  BY <1>1, <1>2, <2>2, <2>3, FailedHoldsNothing DEF Transferring
<1>9. CASE CreateManifest(s) \/ WriteManifest(s)
  <2>1. \/ sync'[s] = [sync[s] EXCEPT !.pc = "list", !.at = "temporary"]
        \/ sync'[s] = [sync[s] EXCEPT !.pc = "rename", !.at = "closed"]
    BY <1>9 DEF CreateManifest, WriteManifest, TypeOK
  <2>2. sync'[s].pc \in {"list", "rename"} /\ sync'[s].read = sync[s].read
    BY <1>1, <2>1 DEF SyncType
  <2>3. sync[s].pc \in {"fetch", "list"}
    BY <1>9 DEF CreateManifest, WriteManifest
  <2>. QED  BY <1>1, <1>2, <2>2, <2>3 DEF Transferring
<1>10. CASE RenameManifest(s)
  <2>1. sync[s].pc = "rename" /\ (sync'[s] = FailedSync \/ (listed # NoList /\ sync'[s] = AfterInstall(s)))
    <3>1. CASE listed # NoList
      BY <1>10, <3>1 DEF RenameManifest
    <3>2. CASE listed = NoList
      <4>1. sync[s].pc = "rename" /\ sync' = [sync EXCEPT ![s] = FailedSync]
        BY <1>10, <3>2 DEF RenameManifest
      <4>. QED  BY <4>1 DEF TypeOK
    <3>. QED  BY <3>1, <3>2
  <2>. QED  BY <1>1, <1>2, <1>10, <2>1, FailedHoldsNothing DEF Transferring
<1>. QED  BY <1>3, <1>4, <1>5, <1>6, <1>7, <1>8, <1>9, <1>10 DEF Fetch, Install

(* What it writes and installs is a list that was held, or lists nothing. *)
LEMMA TransferHoldsNothingNew ==
  ASSUME TypeOK, NEW s \in Syncers, Fetch(s) \/ Install(s)
  PROVE  Held' \subseteq Held /\ Opening' \subseteq Opening
<1>1. \A t \in Syncers : /\ sync'[t].pc \in Transferring =>
                              sync[t].pc \in Transferring /\ sync'[t].read = sync[t].read
                         /\ sync'[t].pc = "opened" =>
                              sync[t].pc = "opened" /\ sync'[t].read = sync[t].read
  BY TransferDoes, FailedHoldsNothing DEF Transferring
<1>2. UNCHANGED <<manifest, shown, call, replicaShown>> /\ sync[s].pc \in Transferring
  BY TransferDoes DEF directory
<1>3. \A l \in {listed', copiedManifest'} :
        l.is = "list" => (l.names = sync[s].read \/ l \in {listed, copiedManifest})
  <2>1. CASE Fetch(s)
    BY <2>1, FetchType
  <2>2. CASE CreateManifest(s)
    BY <2>2 DEF CreateManifest, CreatedList
  <2>3. CASE WriteManifest(s)
    <3>1. \A l, m : l \in Over(m, sync[s].read) /\ l.is = "list" => l.names = sync[s].read
      BY DEF Over, Listing, TornList
    <3>. QED  BY <2>3, <3>1 DEF WriteManifest
  <2>4. CASE RenameManifest(s)
    BY <2>4 DEF RenameManifest, NoList
  <2>. QED  BY <2>1, <2>2, <2>3, <2>4 DEF Install
<1>4. {l.names : l \in {m \in {listed, copiedManifest} : m.is = "list"}}' \subseteq Held
  BY <1>2, <1>3 DEF Held
<1>5. Held' \subseteq Held
  BY <1>1, <1>2, <1>4 DEF Held
<1>6. Opening' \subseteq Opening
  BY <1>1, <1>2 DEF Opening
<1>. QED  BY <1>5, <1>6

(* What is opened whole is the list that was read. *)
LEMMA WholeIsRead ==
  ASSUME Installed  PROVE {AsRead(n) : n \in copiedManifest.names} = copiedManifest.names
BY DEF Installed, AsRead

(* A sync installs what the primary's shard served, and its refresh serves    *)
(* that, as long as what is installed is whole.                              *)
LEMMA SyncHoldsNothingNew ==
  ASSUME TypeOK, NEW s \in Syncers, SyncStep(s)
  PROVE  Held' \subseteq Held /\ (Installed => Opening' \subseteq Opening \union Held)
<1>1. CASE Fetch(s) \/ Install(s)
  BY <1>1, TransferHoldsNothingNew
<1>2. ASSUME AskManifest(s) \/ SyncFails(s) \/ ReopenReplica(s) \/ SwapReplica(s)
      PROVE  /\ UNCHANGED <<manifest, shown, call, disk, copiedManifest, listed>>
             /\ \A t \in Syncers \ {s} : sync'[t] = sync[t]
  BY <1>2 DEF AskManifest, SyncFails, ReopenReplica, SwapReplica, directory, primary, disk, TypeOK
<1>3. CASE AskManifest(s)
  <2>1. sync'[s].read = shown /\ sync'[s].pc = "fetch" /\ replicaShown' = replicaShown
    BY <1>3 DEF AskManifest, TypeOK, NoSync
  <2>2. Held' \subseteq Held
    BY <1>2, <1>3, <2>1 DEF Held
  <2>3. Opening' \subseteq Opening
    BY <1>2, <1>3, <2>1 DEF Opening
  <2>. QED  BY <2>2, <2>3
<1>4. CASE SyncFails(s)
  <2>1. sync'[s].pc = "idle" /\ replicaShown' = replicaShown
    BY <1>4, FailedHoldsNothing DEF SyncFails, TypeOK
  <2>2. Held' \subseteq Held
    BY <1>2, <1>4, <2>1 DEF Held, Transferring
  <2>3. Opening' \subseteq Opening
    BY <1>2, <1>4, <2>1 DEF Opening
  <2>. QED  BY <2>2, <2>3
<1>5. CASE ReopenReplica(s)
  <2>1. replicaShown' = replicaShown
    BY <1>5 DEF ReopenReplica
  <2>2. \/ sync'[s].pc = "idle"
        \/ /\ sync'[s].pc = "opened" /\ copiedManifest.is = "list"
           /\ sync'[s].read = {AsRead(n) : n \in copiedManifest.names}
    BY <1>5, ReopenDoes
  <2>3. Held' \subseteq Held
    BY <1>2, <1>5, <2>2 DEF Held, Transferring
  <2>4. Installed => Opening' \subseteq Opening \union Held
    <3>1. copiedManifest.is = "list" => copiedManifest.names \in Held
      BY DEF Held
    <3>2. Installed /\ sync'[s].pc = "opened" => sync'[s].read \in Held
      BY <2>2, <3>1, WholeIsRead
    <3>. QED  BY <1>2, <1>5, <2>1, <3>2 DEF Opening
  <2>. QED  BY <2>3, <2>4
<1>6. CASE SwapReplica(s)
  <2>1. replicaShown' = sync[s].read /\ sync[s].pc = "opened" /\ sync'[s].pc = "idle"
    BY <1>6, FailedHoldsNothing DEF SwapReplica, TypeOK
  <2>2. Held' \subseteq Held
    BY <1>2, <1>6, <2>1 DEF Held, Transferring
  <2>3. Opening' \subseteq Opening
    BY <1>2, <1>6, <2>1 DEF Opening
  <2>. QED  BY <2>2, <2>3
<1>. QED  BY <1>1, <1>3, <1>4, <1>5, <1>6 DEF SyncStep

LEMMA NothingNewIsHeld ==
  ASSUME TypeOK, [Next]_vars
  PROVE  /\ Held' \subseteq Held \union {manifest'}
         /\ Installed => Opening' \subseteq Opening \union Held
<1>1. CASE Operator \/ MergerStep \/ MergerDies
  <2>1. UNCHANGED <<shown, replicaShown, disk>>
    BY <1>1 DEF Operator, AddSegment, ListSegments, WriteListing, RemoveOrphans, MergerStep,
                PlanMerge, WriteMerged, ReplaceManifest, DeleteOld, Announce, Nudge,
                Answered, AllTold, MergerDies, primary, replica
  <2>2. CASE Nudge
    <3>1. \E c : /\ call' = call \/ call' = [call EXCEPT ![c] = Asked(Quiet)]
                 /\ sync' = sync \/ sync' = [sync EXCEPT ![c] = Asked(NoSync)]
      BY <2>2 DEF Nudge
    <3>. QED  BY <2>1, <3>1, AskingHoldsNothing
  <2>3. CASE ~Nudge
    <3>1. UNCHANGED <<call, sync>>
      BY <1>1, <2>3 DEF Operator, AddSegment, ListSegments, WriteListing, RemoveOrphans, MergerStep,
                        PlanMerge, WriteMerged, ReplaceManifest, DeleteOld, Announce,
                        Answered, AllTold, MergerDies, primary, replica
    <3>. QED  BY <2>1, <3>1, AskingHoldsNothing
  <2>. QED  BY <2>2, <2>3
<1>2. CASE \E c \in Strangers : StrayNudge(c)
  BY <1>2, AskingHoldsNothing DEF StrayNudge
<1>3. CASE \E s \in Timers : TimerFires(s)
  BY <1>3, AskingHoldsNothing DEF TimerFires, primary
<1>4. CASE UNCHANGED vars
  BY <1>4, AskingHoldsNothing DEF vars, primary, replica
<1>. QED  BY <1>1, <1>2, <1>3, <1>4, CallHoldsNothingNew, SyncHoldsNothingNew DEF Next

LEMMA ServedInvInit == ASSUME Init  PROVE ServedInv
<1>1. Made(First).docs = Batch[First]
  BY StoreAssumption, MadeIsSegment
<1>2. Published({Made(First)})
  BY <1>1 DEF Init, Published, Apart, DocsOf
<1>3. \A c \in Callers : call[c].pc = "idle"
  BY DEF Init, Quiet
<1>4. \A s \in Syncers : sync[s].pc = "idle"
  BY FailedHoldsNothing DEF Init
<1>5. \A S \in Held : S = {Made(First)}
  BY <1>3, <1>4 DEF Init, Held, Transferring, NoList, Listing
<1>6. \A S \in Opening : S = {Made(First)}
  BY <1>4 DEF Init, Opening
<1>. QED  BY <1>2, <1>5, <1>6, TransferInvInit DEF ServedInv

LEMMA NextServedInv ==
  ASSUME Careful, NoEmptySegment, TypeOK, StoreInv, ServedInv, [Next]_vars
  PROVE  ServedInv'
<1>1. Published(manifest)
  BY DEF ServedInv, Held
<1>2. Published(manifest)'
  BY <1>1, ManifestIsPublished
<1>3. \A S \in Held : Apart(S) /\ DocsOf(S) \in editions'
  BY EditionsGrow DEF ServedInv, Published
<1>4. \A S \in Held' : Apart(S) /\ DocsOf(S) \in editions'
  BY <1>2, <1>3, NothingNewIsHeld DEF Published
<1>5. ASSUME clashes' = 0
      PROVE  TransferInv' /\ \A S \in Opening' : Apart(S) /\ DocsOf(S) \in editions'
  <2>1. clashes = 0
    BY <1>5, ClashesStay
  <2>2. TransferInv'
    BY <1>5, <2>1, NextTransferInv DEF ServedInv
  <2>3. \A S \in Opening : Apart(S) /\ DocsOf(S) \in editions'
    BY <2>1, EditionsGrow DEF ServedInv, Published
  <2>4. Installed
    BY <2>1 DEF ServedInv, TransferInv
  <2>. QED  BY <1>3, <2>2, <2>3, <2>4, NothingNewIsHeld
<1>. QED  BY <1>4, <1>5 DEF ServedInv, Published

LEMMA ServedInvHolds ==
  ASSUME Careful, NoEmptySegment
  PROVE  Spec => []ServedInv
<1>1. Init => ServedInv
  BY ServedInvInit
<1>2. TypeOK /\ StoreInv /\ ServedInv /\ [Next]_vars => ServedInv'
  BY NextServedInv
<1>. QED  BY <1>1, <1>2, StoreTypeCorrect, StoreInvHolds, PTL DEF Spec

(* Both shards answer from the whole of some index that was published, with  *)
(* no document twice: across merges, deletions, crashes, cut transfers, and  *)
(* refreshes and syncs of any number of callers.  The replica's as long as   *)
(* no sync created a temporary that another had in hand.                     *)
THEOREM ServedIsPublished ==
  ASSUME Careful, NoEmptySegment
  PROVE  Spec => []ServedWasPublished
<1>1. ServedInv => ServedWasPublished
  <2>. SUFFICES ASSUME ServedInv  PROVE ServedWasPublished
    OBVIOUS
  <2>1. shown \in Held /\ (copiedManifest.is = "list" => copiedManifest.names \in Held)
    BY DEF Held
  <2>2. replicaShown \in Opening
    BY DEF Opening
  <2>. QED  BY <2>1, <2>2 DEF ServedInv, ServedWasPublished
<1>. QED  BY <1>1, ServedInvHolds, PTL

-----------------------------------------------------------------------------
(* What a merger that was answered twice may count on. *)

LEMMA ManifestGrows ==
  ASSUME TypeOK, StoreInv, [Next]_vars
  PROVE  DocsOf(manifest) \subseteq DocsOf(manifest')
<1>1. CASE WriteListing
  BY <1>1 DEF WriteListing, StoreInv, ListingInv
<1>2. CASE ReplaceManifest
  BY <1>2, ReplacedDocs DEF ReplaceManifest, StoreInv, MergeInv
<1>3. CASE ~(WriteListing \/ ReplaceManifest)
  <2>1. CASE Operator \/ MergerStep \/ MergerDies
    BY <1>3, <2>1 DEF Operator, AddSegment, ListSegments, RemoveOrphans, MergerStep,
       PlanMerge, WriteMerged, DeleteOld, Announce, Nudge, Answered, AllTold, MergerDies,
       directory
  <2>2. CASE ~(Operator \/ MergerStep \/ MergerDies)
    BY <2>2, ShardsLeaveDirectory DEF Next
  <2>. QED  BY <2>1, <2>2
<1>. QED  BY <1>1, <1>2, <1>3

LEMMA OneCaller ==
  ASSUME OneRefresh
  PROVE  /\ Syncers = Callers /\ Timers = {} /\ Strangers = {}
         /\ \A c, d \in Callers : c = d
BY DEF OneRefresh, Syncers, Callers

(* One sync finds no other one's temporary. *)
LEMMA OneSyncIsAlone ==
  ASSUME OneRefresh
  PROVE  Spec => [](clashes = 0 /\ TransferInv)
<1>1. Init => clashes = 0 /\ TransferInv
  BY TransferInvInit DEF Init
<1>2. TypeOK /\ clashes = 0 /\ TransferInv /\ [Next]_vars => (clashes = 0 /\ TransferInv)'
  <2>. SUFFICES ASSUME TypeOK, clashes = 0, TransferInv, [Next]_vars
                PROVE  clashes' = 0 /\ TransferInv'
    OBVIOUS
  <2>1. clashes' = 0
    <3>1. CASE \E s \in Syncers : Fetch(s) \/ Install(s)
      <4>1. PICK s \in Syncers : Fetch(s) \/ Install(s)
        BY <3>1
      <4>2. \A t \in Syncers : t = s
        BY OneCaller
      <4>3. CASE Create(s)
        BY <4>2, <4>3 DEF Create, Clash, HasSegment
      <4>4. CASE CreateManifest(s)
        BY <4>2, <4>4 DEF CreateManifest, Clash, HasList
      <4>. QED  BY <4>1, <4>3, <4>4 DEF Fetch, Check, Receive, Verify, Discard, Rename,
                   Install, WriteManifest, RenameManifest
    <3>2. CASE ~\E s \in Syncers : Fetch(s) \/ Install(s)
      BY <3>2, OthersLeaveTransfers
    <3>. QED  BY <3>1, <3>2
  <2>. QED  BY <2>1, NextTransferInv
<1>. QED  BY <1>1, <1>2, StoreTypeCorrect, PTL DEF Spec

(* Everybody but the two shards asks, at the most. *)
LEMMA OthersAsk ==
  ASSUME TypeOK, Operator \/ MergerStep \/ MergerDies \/ UNCHANGED vars
  PROVE  /\ UNCHANGED <<shown, replicaShown, copiedManifest>>
         /\ \A c \in Callers : call'[c] = call[c] \/ call'[c] = Asked(Quiet)
         /\ \A s \in Syncers : sync'[s] = sync[s] \/ sync'[s] = Asked(NoSync)
<1>1. UNCHANGED <<shown, replicaShown, copiedManifest>>
  BY DEF Operator, AddSegment, ListSegments, WriteListing, RemoveOrphans, MergerStep,
         PlanMerge, WriteMerged, ReplaceManifest, DeleteOld, Announce, Nudge, Answered, AllTold,
         MergerDies, primary, replica, disk, vars
<1>2. CASE Nudge
  <2>1. PICK c : /\ call' = call \/ call' = [call EXCEPT ![c] = Asked(Quiet)]
                 /\ sync' = sync \/ sync' = [sync EXCEPT ![c] = Asked(NoSync)]
    BY <1>2 DEF Nudge
  <2>. QED  BY <1>1, <2>1 DEF TypeOK
<1>3. CASE ~Nudge
  <2>1. UNCHANGED <<call, sync>>
    BY <1>3 DEF Operator, AddSegment, ListSegments, WriteListing, RemoveOrphans, MergerStep,
         PlanMerge, WriteMerged, ReplaceManifest, DeleteOld, Announce, Answered, AllTold,
         MergerDies, primary, replica, disk, vars
  <2>. QED  BY <1>1, <2>1
<1>. QED  BY <1>2, <1>3

(* What the one refresh of the primary's shard does. *)
LEMMA CallDoes ==
  ASSUME TypeOK, NEW c \in Callers, CallStep(c)
  PROVE  /\ UNCHANGED <<manifest, merger, replicaShown, copiedManifest, sync, delivered>>
         /\ \/ /\ call[c].pc = "asked" /\ call'[c].pc = "reopen"
               /\ call'[c].read = manifest /\ shown' = shown
            \/ /\ call[c].pc = "reopen" /\ call'[c].pc = "opened"
               /\ call'[c].read = call[c].read /\ shown' = shown
            \/ /\ call[c].pc = "reopen" /\ call'[c].pc = "idle"
               /\ ~call'[c].ok /\ shown' = shown
            \/ call[c].pc = "opened" /\ call'[c].pc = "idle" /\ shown' = call[c].read
<1>1. UNCHANGED <<manifest, merger, replicaShown, copiedManifest, sync, delivered>>
  BY DEF CallStep, ReadManifest, OpenSegments, Swap, directory, replica, disk
<1>2. call[c] \in CallType
  BY DEF TypeOK
<1>3. CASE ReadManifest(c)
  BY <1>1, <1>2, <1>3 DEF ReadManifest, TypeOK, CallType
<1>4. CASE OpenSegments(c)
  BY <1>1, <1>4 DEF OpenSegments, TypeOK, Opened, Quiet
<1>5. CASE Swap(c)
  BY <1>1, <1>5 DEF Swap, TypeOK, Quiet
<1>. QED  BY <1>3, <1>4, <1>5 DEF CallStep

(* What the one sync of the replica does. *)
LEMMA SyncDoes ==
  ASSUME TypeOK, TransferInv, NEW s \in Callers, SyncStep(s)
  PROVE  /\ UNCHANGED <<manifest, merger, shown, call, delivered>>
         /\ \/ /\ sync[s].pc = "asked" /\ sync'[s].pc = "fetch" /\ sync'[s].read = shown
               /\ UNCHANGED <<replicaShown, copiedManifest>>
            \/ /\ sync[s].pc \in Transferring /\ sync'[s].pc \in Transferring
               /\ sync'[s].read = sync[s].read /\ UNCHANGED <<replicaShown, copiedManifest>>
            \/ /\ sync'[s].pc = "idle" /\ ~sync'[s].ok
               /\ UNCHANGED <<replicaShown, copiedManifest>>
            \/ /\ sync[s].pc \in Transferring /\ sync'[s].pc = "reopen"
               /\ copiedManifest'.names = sync[s].read /\ replicaShown' = replicaShown
            \/ /\ sync[s].pc = "reopen" /\ sync'[s].pc = "opened"
               /\ sync'[s].read = copiedManifest.names
               /\ UNCHANGED <<replicaShown, copiedManifest>>
            \/ /\ sync[s].pc = "opened" /\ sync'[s].pc = "idle"
               /\ replicaShown' = sync[s].read /\ copiedManifest' = copiedManifest
<1>1. s \in Syncers \ Timers
  BY StoreAssumption DEF Syncers
<1>2. CASE Fetch(s) \/ Install(s)
  <2>1. /\ UNCHANGED <<manifest, merger, shown, call, delivered, replicaShown>>
        /\ sync[s].pc \in Transferring
        /\ \/ sync'[s].pc \in Transferring /\ sync'[s].read = sync[s].read
           \/ sync'[s].pc = "idle" /\ ~sync'[s].ok
           \/ RenameManifest(s) /\ listed # NoList /\ sync'[s] = AfterInstall(s)
    BY <1>1, <1>2, TransferDoes DEF directory
  <2>2. CASE RenameManifest(s) /\ listed # NoList
    <3>0. sync'[s] = AfterInstall(s)
      BY <1>1, <2>2 DEF RenameManifest
    <3>1. copiedManifest' = Listing(sync[s].read)
      BY <1>1, <2>2, RenameManifestTransfer
    <3>2. sync'[s].pc = "reopen" /\ copiedManifest'.names = sync[s].read
      BY <1>1, <3>0, <3>1, FailedHoldsNothing DEF Listing
    <3>. QED  BY <2>1, <3>2
  <2>3. CASE ~(RenameManifest(s) /\ listed # NoList)
    <3>1. copiedManifest' = copiedManifest
      <4>1. CASE Fetch(s)
        BY <1>1, <4>1, FetchType
      <4>2. CASE CreateManifest(s) \/ RenameManifest(s)
        BY <2>3, <4>2 DEF CreateManifest, RenameManifest
      <4>3. CASE WriteManifest(s)
        BY <1>1, <4>3 DEF WriteManifest, TransferInv, InHand
      <4>. QED  BY <1>2, <4>1, <4>2, <4>3 DEF Install
    <3>. QED  BY <2>1, <2>3, <3>1
  <2>. QED  BY <2>1, <2>2, <2>3
<1>3. ASSUME AskManifest(s) \/ SyncFails(s) \/ ReopenReplica(s) \/ SwapReplica(s)
      PROVE  UNCHANGED <<manifest, merger, shown, call, delivered, copiedManifest>>
  BY <1>3 DEF AskManifest, SyncFails, ReopenReplica, SwapReplica, directory, primary, disk
<1>4. CASE AskManifest(s)
  <2>1. /\ sync[s].pc = "asked" /\ sync'[s].pc = "fetch" /\ sync'[s].read = shown
        /\ replicaShown' = replicaShown
    BY <1>1, <1>4 DEF AskManifest, TypeOK, NoSync
  <2>. QED  BY <1>3, <1>4, <2>1
<1>5. CASE SyncFails(s)
  <2>1. sync'[s].pc = "idle" /\ ~sync'[s].ok /\ replicaShown' = replicaShown
    BY <1>1, <1>5, FailedHoldsNothing DEF SyncFails, TypeOK
  <2>. QED  BY <1>3, <1>5, <2>1
<1>6. CASE ReopenReplica(s)
  <2>1. sync[s].pc = "reopen" /\ replicaShown' = replicaShown
    BY <1>6 DEF ReopenReplica
  <2>2. {AsRead(n) : n \in copiedManifest.names} = copiedManifest.names
    BY WholeIsRead DEF TransferInv
  <2>3. \/ sync'[s].pc = "idle" /\ ~sync'[s].ok
        \/ sync'[s].pc = "opened" /\ sync'[s].read = copiedManifest.names
    BY <1>1, <1>6, <2>2, ReopenDoes
  <2>. QED  BY <1>3, <1>6, <2>1, <2>3
<1>7. CASE SwapReplica(s)
  <2>1. sync[s].pc = "opened" /\ sync'[s].pc = "idle" /\ replicaShown' = sync[s].read
    BY <1>1, <1>7, FailedHoldsNothing DEF SwapReplica, TypeOK
  <2>. QED  BY <1>3, <1>7, <2>1
<1>. QED  BY <1>2, <1>4, <1>5, <1>6, <1>7 DEF SyncStep

(* No step takes a document back. *)
LEMMA NothingGoesBack ==
  ASSUME OneRefresh, TypeOK, StoreInv, TransferInv, ForwardInv, [Next]_vars
  PROVE  /\ DocsOf(manifest) \subseteq DocsOf(manifest')
         /\ DocsOf(shown) \subseteq DocsOf(shown')
         /\ DocsOf(copiedManifest.names) \subseteq DocsOf(copiedManifest'.names)
         /\ DocsOf(replicaShown) \subseteq DocsOf(replicaShown')
<1>1. DocsOf(manifest) \subseteq DocsOf(manifest')
  BY ManifestGrows
<1>2. CASE Operator \/ MergerStep \/ MergerDies \/ UNCHANGED vars
  BY <1>1, <1>2, OthersAsk
<1>3. CASE \E c \in Callers : CallStep(c)
  BY <1>1, <1>3, CallDoes DEF ForwardInv, Holds
<1>4. CASE \E s \in Syncers : SyncStep(s)
  <2>1. PICK s \in Callers : SyncStep(s)
    BY <1>4, OneCaller
  <2>. QED  BY <1>1, <2>1, SyncDoes, OneCaller DEF ForwardInv, Holds
<1>. QED  BY <1>2, <1>3, <1>4, OneCaller DEF Next

LEMMA AskedHoldsNothing ==
  /\ Asked(Quiet).pc = "asked" /\ Asked(Quiet).ok
  /\ Asked(NoSync).pc = "asked" /\ Asked(NoSync).ok
BY DEF Asked, Quiet, NoSync

LEMMA NextForward ==
  ASSUME OneRefresh, TypeOK, StoreInv, TransferInv, ToldInv, [Next]_vars
  PROVE  ForwardInv'
<1>0. /\ Holds(replicaShown, delivered)
      /\ Holds(copiedManifest.names, DocsOf(replicaShown))
      /\ Holds(shown, DocsOf(copiedManifest.names))
      /\ Holds(manifest, DocsOf(shown))
      /\ \A c \in Callers : call[c].pc \in {"reopen", "opened"} =>
           Holds(call[c].read, DocsOf(shown)) /\ Holds(manifest, DocsOf(call[c].read))
      /\ \A s \in Syncers : sync[s].pc \in Transferring =>
           Holds(sync[s].read, DocsOf(copiedManifest.names)) /\ Holds(shown, DocsOf(sync[s].read))
      /\ \A s \in Syncers : sync[s].pc = "opened" =>
           Holds(sync[s].read, DocsOf(replicaShown)) /\ Holds(copiedManifest.names, DocsOf(sync[s].read))
  BY DEF ToldInv, ForwardInv
<1>1. /\ DocsOf(manifest) \subseteq DocsOf(manifest')
      /\ DocsOf(shown) \subseteq DocsOf(shown')
      /\ DocsOf(copiedManifest.names) \subseteq DocsOf(copiedManifest'.names)
      /\ DocsOf(replicaShown) \subseteq DocsOf(replicaShown')
  BY NothingGoesBack DEF ToldInv
<1>2. Syncers = Callers /\ \A c, d \in Callers : c = d
  BY OneCaller
<1>3. CASE Operator \/ MergerStep \/ MergerDies \/ UNCHANGED vars
  <2>1. UNCHANGED <<shown, replicaShown, copiedManifest>>
    BY <1>3, OthersAsk
  <2>2. Holds(replicaShown', delivered')
    <3>1. CASE AllTold
      <4>1. delivered' = IF merger.whole /\ Addresses = 2 THEN delivered \union merger.aim ELSE delivered
        BY <3>1 DEF AllTold
      <4>2. merger.whole /\ Addresses = 2 => Holds(replicaShown, merger.aim)
        BY <3>1 DEF AllTold, ToldInv, AimInv
      <4>. QED  BY <1>0, <2>1, <4>1, <4>2 DEF Holds
    <3>2. CASE ~AllTold
      <4>1. delivered' = delivered
        BY <1>3, <3>2 DEF Operator, AddSegment, ListSegments, WriteListing, RemoveOrphans,
           MergerStep, PlanMerge, WriteMerged, ReplaceManifest, DeleteOld, Announce, Nudge,
           Answered, MergerDies, vars
      <4>. QED  BY <1>0, <2>1, <4>1
    <3>. QED  BY <3>1, <3>2
  <2>3. \A c \in Callers : call'[c] = call[c] \/ call'[c].pc = "asked"
    BY <1>3, OthersAsk, AskedHoldsNothing
  <2>4. \A s \in Syncers : sync'[s] = sync[s] \/ sync'[s].pc = "asked"
    BY <1>3, OthersAsk, AskedHoldsNothing
  <2>5. ASSUME NEW c \in Callers, call'[c].pc \in {"reopen", "opened"}
        PROVE  /\ Holds(call'[c].read, DocsOf(shown'))
               /\ Holds(manifest', DocsOf(call'[c].read))
    BY <1>0, <1>1, <2>1, <2>3, <2>5 DEF Holds
  <2>6. ASSUME NEW s \in Syncers
        PROVE  /\ sync'[s].pc \in Transferring => /\ Holds(sync'[s].read, DocsOf(copiedManifest'.names))
                                           /\ Holds(shown', DocsOf(sync'[s].read))
               /\ sync'[s].pc = "opened" => /\ Holds(sync'[s].read, DocsOf(replicaShown'))
                                            /\ Holds(copiedManifest'.names, DocsOf(sync'[s].read))
    BY <1>0, <2>1, <2>4, <2>6 DEF Transferring
  <2>7. Holds(manifest', DocsOf(shown'))
    BY <1>0, <1>1, <2>1 DEF Holds
  <2>. QED  BY <1>0, <2>1, <2>2, <2>5, <2>6, <2>7 DEF ForwardInv
<1>4. CASE \E c \in Callers : CallStep(c)
  <2>1. PICK c \in Callers : CallStep(c)
    BY <1>4
  <2>2. /\ UNCHANGED <<manifest, replicaShown, copiedManifest, sync, delivered>>
        /\ \/ /\ call[c].pc = "asked" /\ call'[c].pc = "reopen"
              /\ call'[c].read = manifest /\ shown' = shown
           \/ /\ call[c].pc = "reopen" /\ call'[c].pc = "opened"
              /\ call'[c].read = call[c].read /\ shown' = shown
           \/ /\ call[c].pc = "reopen" /\ call'[c].pc = "idle" /\ shown' = shown
           \/ call[c].pc = "opened" /\ call'[c].pc = "idle" /\ shown' = call[c].read
    BY <2>1, CallDoes
  <2>3. call'[c].pc \in {"reopen", "opened"} =>
          Holds(call'[c].read, DocsOf(shown')) /\ Holds(manifest', DocsOf(call'[c].read))
    BY <1>0, <2>2 DEF Holds
  <2>4. Holds(shown', DocsOf(copiedManifest'.names)) /\ Holds(manifest', DocsOf(shown'))
    BY <1>0, <2>2 DEF Holds
  <2>5. ASSUME NEW s \in Syncers, sync'[s].pc \in Transferring
        PROVE  /\ Holds(sync'[s].read, DocsOf(copiedManifest'.names))
               /\ Holds(shown', DocsOf(sync'[s].read))
    BY <1>0, <1>1, <2>2, <2>5 DEF Holds
  <2>6. \A d \in Callers : d = c
    BY <1>2
  <2>. QED  BY <1>0, <2>2, <2>3, <2>4, <2>5, <2>6 DEF ForwardInv
<1>5. CASE \E s \in Syncers : SyncStep(s)
  <2>1. PICK s \in Callers : SyncStep(s)
    BY <1>2, <1>5
  <2>2. /\ UNCHANGED <<manifest, shown, call, delivered>>
        /\ \/ /\ sync[s].pc = "asked" /\ sync'[s].pc = "fetch" /\ sync'[s].read = shown
              /\ UNCHANGED <<replicaShown, copiedManifest>>
           \/ /\ sync[s].pc \in Transferring /\ sync'[s].pc \in Transferring
              /\ sync'[s].read = sync[s].read /\ UNCHANGED <<replicaShown, copiedManifest>>
           \/ sync'[s].pc = "idle" /\ UNCHANGED <<replicaShown, copiedManifest>>
           \/ /\ sync[s].pc \in Transferring /\ sync'[s].pc = "reopen"
              /\ copiedManifest'.names = sync[s].read /\ replicaShown' = replicaShown
           \/ /\ sync[s].pc = "reopen" /\ sync'[s].pc = "opened"
              /\ sync'[s].read = copiedManifest.names
              /\ UNCHANGED <<replicaShown, copiedManifest>>
           \/ /\ sync[s].pc = "opened" /\ sync'[s].pc = "idle"
              /\ replicaShown' = sync[s].read /\ copiedManifest' = copiedManifest
    BY <2>1, SyncDoes
  <2>3. sync'[s].pc \in Transferring =>
          Holds(sync'[s].read, DocsOf(copiedManifest'.names)) /\ Holds(shown', DocsOf(sync'[s].read))
    BY <1>0, <1>2, <2>2 DEF Holds, Transferring
  <2>4. sync'[s].pc = "opened" =>
          /\ Holds(sync'[s].read, DocsOf(replicaShown'))
          /\ Holds(copiedManifest'.names, DocsOf(sync'[s].read))
    BY <1>0, <1>2, <2>2 DEF Holds, Transferring
  <2>5. /\ Holds(replicaShown', delivered') /\ Holds(copiedManifest'.names, DocsOf(replicaShown'))
        /\ Holds(shown', DocsOf(copiedManifest'.names))
    BY <1>0, <1>1, <1>2, <2>2 DEF Holds
  <2>6. \A t \in Syncers : t = s
    BY <1>2
  <2>. QED  BY <1>0, <2>2, <2>3, <2>4, <2>5, <2>6 DEF ForwardInv
<1>. QED  BY <1>3, <1>4, <1>5, OneCaller DEF Next

(* The merger's own steps: it aims, tells one shard, then the other. *)
LEMMA MergerAim ==
  ASSUME TypeOK, TypeOK', AimInv, MergerStep \/ MergerDies
  PROVE  AimInv'
<1>0. /\ UNCHANGED <<shown, replicaShown, copiedManifest>>
      /\ merger \in MergerType /\ merger' \in MergerType
  <2>1. UNCHANGED <<shown, replicaShown, copiedManifest>>
    BY OthersAsk
  <2>. QED  BY <2>1 DEF TypeOK
<1>1. CASE PlanMerge \/ WriteMerged \/ ReplaceManifest \/ DeleteOld \/ AllTold \/ MergerDies
  <2>1. merger'.pc \notin {"nudge", "await"}
    <3>1. CASE DeleteOld
      <4>1. PICK s \in merger.plan :
              merger' = [merger EXCEPT !.plan = @ \ {s},
                                       !.pc = IF merger.plan = {s} THEN "idle" ELSE "delete"]
        BY <3>1 DEF DeleteOld
      <4>. QED  BY <1>0, <4>1 DEF MergerType
    <3>2. CASE PlanMerge
      <4>1. PICK P : merger' = [merger EXCEPT !.pc = "write", !.base = manifest, !.plan = P]
        BY <3>2 DEF PlanMerge
      <4>. QED  BY <1>0, <4>1 DEF MergerType
    <3>3. CASE WriteMerged \/ ReplaceManifest
      <4>1. CASE merger' = [merger EXCEPT !.pc = "replace"]
        BY <1>0, <4>1 DEF MergerType
      <4>2. CASE merger' = [merger EXCEPT !.pc = "delete", !.base = {}, !.merged = TRUE]
        BY <1>0, <4>2 DEF MergerType
      <4>. QED  BY <3>3, <4>1, <4>2 DEF WriteMerged, ReplaceManifest
    <3>4. CASE AllTold \/ MergerDies
      <4>1. merger' = IdleMerger
        BY <3>4 DEF AllTold, MergerDies
      <4>. QED  BY <4>1 DEF IdleMerger
    <3>. QED  BY <1>1, <3>1, <3>2, <3>3, <3>4
  <2>2. merger'.told = 0
    BY <2>1 DEF TypeOK
  <2>. QED  BY <2>1, <2>2 DEF AimInv
<1>2. CASE Announce
  <2>1. /\ merger'.pc = "nudge" /\ merger'.told = 0 /\ merger'.aim = DocsOf(manifest)
        /\ manifest' = manifest
    BY <1>2 DEF Announce, IdleMerger, directory
  <2>. QED  BY <2>1 DEF AimInv, Holds
<1>3. CASE Nudge
  <2>1. CASE merger' = [merger EXCEPT !.told = @ + 1, !.whole = FALSE]
    <3>1. ~merger'.whole
      BY <1>0, <2>1 DEF MergerType
    <3>. QED  BY <3>1 DEF AimInv
  <2>2. ASSUME NEW c \in Nudgers, merger' = [merger EXCEPT !.pc = "await", !.by = c]
        PROVE  /\ merger'.pc = "await" /\ merger'.by = c /\ merger'.told = merger.told
               /\ merger'.whole = merger.whole /\ merger'.aim = merger.aim
    BY <1>0, <2>2 DEF MergerType
  <2>3. ASSUME NEW c \in Nudgers, merger' = [merger EXCEPT !.pc = "await", !.by = c],
               IF ToPrimary THEN call' = [call EXCEPT ![c] = Asked(Quiet)]
                            ELSE sync' = [sync EXCEPT ![c] = Asked(NoSync)]
        PROVE  AimInv'
    <3>1. merger.told = 0 => call'[c].pc = "asked"
      BY <2>3, AskedHoldsNothing DEF ToPrimary, ToldFirst, TypeOK, Callers
    <3>2. merger.told = 1 => sync'[c].pc = "asked"
      BY <2>3, AskedHoldsNothing DEF ToPrimary, ToldFirst, TypeOK, Callers, Syncers
    <3>3. merger.pc = "nudge" /\ merger.told \in {0, 1} /\ manifest' = manifest
      <4>1. merger.pc = "nudge" /\ merger.told < Addresses /\ UNCHANGED directory
        BY <1>3 DEF Nudge
      <4>2. merger.told \in 0..2
        BY <1>0 DEF MergerType
      <4>3. merger.told < 2
        BY <4>1, <4>2, AddressesBound
      <4>. QED  BY <4>1, <4>2, <4>3 DEF directory
    <3>. QED  BY <1>0, <2>2, <2>3, <3>1, <3>2, <3>3
              DEF AimInv, PrimaryHas, ReplicaHas, Holds, Transferring
  <2>4. \/ \E c \in Nudgers : /\ merger' = [merger EXCEPT !.pc = "await", !.by = c]
                             /\ IF ToPrimary THEN call' = [call EXCEPT ![c] = Asked(Quiet)]
                                             ELSE sync' = [sync EXCEPT ![c] = Asked(NoSync)]
        \/ merger' = [merger EXCEPT !.told = @ + 1, !.whole = FALSE]
    BY <1>3 DEF Nudge
  <2>. QED  BY <2>1, <2>3, <2>4
<1>4. CASE Answered
  <2>1. /\ merger.pc = "await" /\ merger'.pc = "nudge" /\ merger'.told = merger.told + 1
        /\ merger'.aim = merger.aim /\ manifest' = manifest
        /\ merger.told \in 0..2 /\ merger.told < 2
    BY <1>0, <1>4 DEF Answered, MergerType, directory, TypeOK
  <2>2. CASE merger.told = 0
    <3>1. /\ call[merger.by].pc = "idle"
          /\ merger'.whole => merger.whole /\ call[merger.by].ok
      BY <1>0, <1>4, <2>2 DEF Answered, ToPrimary, ToldFirst, MergerType
    <3>2. merger'.whole => Holds(manifest, merger.aim) /\ Holds(shown, merger.aim)
      BY <2>1, <2>2, <3>1 DEF AimInv, PrimaryHas
    <3>. QED  BY <1>0, <2>1, <2>2, <3>2 DEF AimInv
  <2>3. CASE merger.told = 1
    <3>1. /\ sync[merger.by].pc = "idle"
          /\ merger'.whole => merger.whole /\ sync[merger.by].ok
      <4>1. ~ToPrimary
        BY <2>3 DEF ToPrimary, ToldFirst
      <4>. QED  BY <1>0, <1>4, <4>1 DEF Answered, MergerType
    <3>2. merger'.whole => /\ Holds(manifest, merger.aim) /\ Holds(shown, merger.aim)
                           /\ Holds(replicaShown, merger.aim)
      BY <2>1, <2>3, <3>1 DEF AimInv, ReplicaHas
    <3>. QED  BY <1>0, <2>1, <2>3, <3>2 DEF AimInv
  <2>. QED  BY <2>1, <2>2, <2>3
<1>. QED  BY <1>1, <1>2, <1>3, <1>4 DEF MergerStep

LEMMA ShardsAim ==
  ASSUME OneRefresh, TypeOK, StoreInv, TransferInv, ToldInv, [Next]_vars, ~MergerStep, ~MergerDies
  PROVE  AimInv'
<1>1. /\ DocsOf(manifest) \subseteq DocsOf(manifest')
      /\ DocsOf(shown) \subseteq DocsOf(shown')
      /\ DocsOf(copiedManifest.names) \subseteq DocsOf(copiedManifest'.names)
      /\ DocsOf(replicaShown) \subseteq DocsOf(replicaShown')
  BY NothingGoesBack DEF ToldInv
<1>2. Syncers = Callers /\ \A c, d \in Callers : c = d
  BY OneCaller
<1>3. merger' = merger
  BY OneCaller, ShardsLeaveDirectory
     DEF Next, Operator, AddSegment, ListSegments, WriteListing, RemoveOrphans
<1>. SUFFICES ASSUME merger.whole
              PROVE  /\ merger.pc \in {"nudge", "await"} => Holds(manifest', merger.aim)
                     /\ merger.told >= 1 => Holds(shown', merger.aim)
                     /\ merger.told = 2 => Holds(replicaShown', merger.aim)
                     /\ merger.pc = "await" /\ merger.told = 0 =>
                          PrimaryHas(call[merger.by], merger.aim)'
                     /\ merger.pc = "await" /\ merger.told = 1 =>
                          ReplicaHas(sync[merger.by], merger.aim)'
  BY <1>3 DEF AimInv, PrimaryHas, ReplicaHas, Holds
<1>4. /\ merger.pc \in {"nudge", "await"} => Holds(manifest, merger.aim)
      /\ merger.told >= 1 => Holds(shown, merger.aim)
      /\ merger.told = 2 => Holds(replicaShown, merger.aim)
      /\ merger.pc = "await" /\ merger.told = 0 => PrimaryHas(call[merger.by], merger.aim)
      /\ merger.pc = "await" /\ merger.told = 1 => ReplicaHas(sync[merger.by], merger.aim)
  BY DEF ToldInv, AimInv
<1>5. /\ merger.pc \in {"nudge", "await"} => Holds(manifest', merger.aim)
      /\ merger.told >= 1 => Holds(shown', merger.aim)
      /\ merger.told = 2 => Holds(replicaShown', merger.aim)
  BY <1>1, <1>4 DEF Holds
<1>6. merger.pc = "await" => merger.by \in Callers
  BY DEF TypeOK, MergerType
<1>. DEFINE by == merger.by
            aim == merger.aim
<1>7. ASSUME merger.pc = "await", merger.told = 0
      PROVE  /\ call'[by].pc \in {"reopen", "opened"} => Holds(call'[by].read, aim)
             /\ call'[by].pc = "idle" /\ call'[by].ok => Holds(shown', aim)
  <2>0. /\ call[by].pc \in {"reopen", "opened"} => Holds(call[by].read, aim)
        /\ call[by].pc = "idle" /\ call[by].ok => Holds(shown, aim)
        /\ Holds(manifest, aim) /\ by \in Callers
    BY <1>4, <1>6, <1>7 DEF PrimaryHas
  <2>1. CASE \E c \in Callers : CallStep(c)
    <3>1. CallStep(by)
      BY <1>2, <2>0, <2>1
    <3>. HIDE DEF by, aim
    <3>. QED  BY <2>0, <3>1, CallDoes
  <2>2. CASE \E s \in Syncers : SyncStep(s)
    <3>1. call' = call
      BY <1>2, <2>2, SyncDoes
    <3>. QED  BY <1>1, <2>0, <3>1 DEF Holds
  <2>3. CASE Operator \/ UNCHANGED vars
    <3>1. call' = call
      BY <2>3 DEF Operator, AddSegment, ListSegments, WriteListing, RemoveOrphans, vars, primary
    <3>. QED  BY <1>1, <2>0, <3>1 DEF Holds
  <2>. QED  BY <2>1, <2>2, <2>3, OneCaller DEF Next
<1>8. ASSUME merger.pc = "await", merger.told = 1
      PROVE  /\ sync'[by].pc \in Transferring \union {"opened"} => Holds(sync'[by].read, aim)
             /\ sync'[by].pc = "reopen" => Holds(copiedManifest'.names, aim)
             /\ sync'[by].pc = "idle" /\ sync'[by].ok => Holds(replicaShown', aim)
  <2>0. /\ sync[by].pc \in Transferring \union {"opened"} => Holds(sync[by].read, aim)
        /\ sync[by].pc = "reopen" => Holds(copiedManifest.names, aim)
        /\ sync[by].pc = "idle" /\ sync[by].ok => Holds(replicaShown, aim)
        /\ Holds(shown, aim) /\ by \in Callers
    BY <1>4, <1>6, <1>8 DEF ReplicaHas
  <2>1. CASE \E s \in Syncers : SyncStep(s)
    <3>1. SyncStep(by)
      BY <1>2, <2>0, <2>1
    <3>. HIDE DEF by, aim
    <3>. QED  BY <2>0, <3>1, SyncDoes DEF Transferring
  <2>2. CASE \E c \in Callers : CallStep(c)
    <3>1. sync' = sync
      BY <2>2, CallDoes
    <3>. QED  BY <1>1, <2>0, <3>1 DEF Holds
  <2>3. CASE Operator \/ UNCHANGED vars
    <3>1. sync' = sync
      BY <2>3 DEF Operator, AddSegment, ListSegments, WriteListing, RemoveOrphans, vars, replica, disk
    <3>. QED  BY <1>1, <2>0, <3>1 DEF Holds
  <2>. QED  BY <2>1, <2>2, <2>3, OneCaller DEF Next
<1>. QED  BY <1>3, <1>5, <1>7, <1>8 DEF PrimaryHas, ReplicaHas, Holds

LEMMA NextTold ==
  ASSUME OneRefresh, TypeOK, TypeOK', StoreInv, TransferInv, ToldInv, [Next]_vars
  PROVE  ToldInv'
<1>1. ForwardInv'
  BY NextForward
<1>2. AimInv'
  BY MergerAim, ShardsAim DEF ToldInv
<1>. QED  BY <1>1, <1>2 DEF ToldInv

(* When a merger has told the primary's shard and then the replica's, and   *)
(* neither refused, the replica serves every document of the merged index,  *)
(* and never again fewer: whatever is merged, deleted, killed or cut after. *)
THEOREM ToldReplicaStaysCurrent ==
  ASSUME Careful, NoEmptySegment, OneRefresh
  PROVE  Spec => []ToldReplicaIsCurrent
<1>1. Init => ToldInv
  <2>. SUFFICES ASSUME Init  PROVE ToldInv
    OBVIOUS
  <2>1. /\ \A c \in Callers : call[c].pc = "idle"
        /\ \A s \in Syncers : sync[s].pc = "idle"
    BY DEF Init, Quiet, NoSync
  <2>2. AimInv
    BY DEF Init, IdleMerger, AimInv
  <2>. QED  BY <2>1, <2>2 DEF Init, ToldInv, ForwardInv, Holds, Listing, Transferring
<1>2. TypeOK /\ TypeOK' /\ StoreInv /\ TransferInv /\ ToldInv /\ [Next]_vars => ToldInv'
  BY NextTold
<1>3. ToldInv => ToldReplicaIsCurrent
  BY DEF ToldInv, ForwardInv, Holds, ToldReplicaIsCurrent
<1>. QED  BY <1>1, <1>2, <1>3, StoreTypeCorrect, StoreInvHolds, OneSyncIsAlone, PTL DEF Spec
=============================================================================
