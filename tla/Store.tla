------------------------------- MODULE Store --------------------------------
(***************************************************************************)
(* An index as a directory of segments and a manifest, on a primary and on *)
(* one replica, while everything that touches it runs at once:             *)
(*                                                                         *)
(*   operator  `index` writes a segment, `manifest` lists them;            *)
(*   merger    `merge --every --notify` (index/src/merger.rs, cli main.rs) *)
(*             folds segments, deletes the old ones, nudges the shards;    *)
(*   shards    serve what they last opened (cluster/src/shard.rs) and      *)
(*             reopen when a caller nudges them;                           *)
(*   syncs     pull the primary's manifest and segments into the replica's *)
(*             directory (cluster/src/replication.rs), for a nudge or on   *)
(*             `sync --every`'s timer.                                     *)
(*                                                                         *)
(* A segment never changes and its name says what is in it: the label the  *)
(* operator gave it, or the digest of a merge.  So on the primary a file   *)
(* is its segment, and a directory or a manifest a set of them.  Merges do *)
(* not keep the order of the entries; an order is only what document ids   *)
(* come from.                                                              *)
(*                                                                         *)
(* On the replica a file is what has arrived of it.  Every sync writes a   *)
(* segment, and the manifest, under one temporary name and renames it:     *)
(* two syncs at once write, truncate, rename and remove the same files.    *)
(***************************************************************************)
EXTENDS Naturals, FiniteSets, FiniteSetsExt

CONSTANTS
  Docs,          \* the documents
  Labels,        \* the names the operator gives segments, each once
  Digest,        \* the label of a segment named after its digest
  Batch,         \* the documents of each labelled segment
  First,         \* the segment the deployment was started with
  PerTier,       \* Policy.segments_per_tier, at least 2 as next_merge takes it
  TierFactor,    \* Policy.tier_factor, at least 2 as tier_of takes it
  MaxMerged,     \* Policy.max_merged_bytes
  DocBytes,      \* the size of a segment, by its documents
  Nudgers,       \* connections the merger may send a Refresh on
  Strangers,     \* connections anyone else may send one on
  Timers,        \* `sync --every` processes on the replica's directory
  Careful,       \* `manifest` is only run beside no merger and no leftovers
  Parts,         \* how many chunks a segment is sent in
  MaxClashes,    \* bound: temporaries created that another sync has in hand
  MaxFaults,     \* bound: calls, transfers and deletions that fail
  MaxCrashes,    \* bound: how often the merger is killed
  None           \* no caller, no segment

Callers == Nudgers \union Strangers

Syncers == Callers \union Timers

Segment == [label : Labels \union {Digest}, docs : SUBSET Docs]

Made(l) == [label |-> l, docs |-> Batch[l]]

ASSUME StoreAssumption ==
  /\ IsFiniteSet(Docs) /\ IsFiniteSet(Labels)
  /\ Digest \notin Labels
  /\ Batch \in [Labels -> SUBSET Docs]
  /\ \A l, m \in Labels : l # m => Batch[l] \intersect Batch[m] = {}
  /\ First \in Labels
  /\ PerTier \in Nat \ {0, 1} /\ TierFactor \in Nat \ {0, 1}
  /\ MaxMerged \in Nat /\ DocBytes \in Nat
  /\ Timers \intersect Callers = {} /\ Nudgers \intersect Strangers = {} /\ None \notin Callers
  /\ Careful \in BOOLEAN
  /\ Parts \in Nat \ {0} /\ None \notin Segment
  /\ MaxClashes \in Nat /\ MaxFaults \in Nat /\ MaxCrashes \in Nat

VARIABLES
  \* the primary's directory
  files,       \* the segment files
  manifest,    \* the segments the MANIFEST file names
  \* who writes it
  added,       \* labels `index` has been run for
  listing,     \* what a running `manifest` command found
  merger,      \* where the merger is, and what it holds in memory
  \* the primary's shard
  shown,       \* the segments it serves
  call,        \* its Refresh calls
  \* the replica: its directory with the temporaries, its shard, the syncs
  copies, copiedManifest, fetching, listed, replicaShown, sync,
  \* the environment
  clashes, faults, crashes

(***************************************************************************)
(* History, read only by the properties: the document sets a manifest has  *)
(* described, and those the replica was successfully told of.              *)
(***************************************************************************)
VARIABLES editions, delivered

directory == <<files, manifest>>
disk      == <<copies, copiedManifest, fetching, listed>>
replica   == <<disk, replicaShown, sync, clashes>>
primary   == <<shown, call>>
vars == <<directory, added, listing, merger, primary, replica, faults, crashes,
          editions, delivered>>

DocsOf(segments) == UNION {s.docs : s \in segments}

NoListing == [open |-> FALSE, found |-> {}]

IdleMerger ==
  [pc |-> "idle", base |-> {}, plan |-> {}, merged |-> FALSE,
   told |-> 0, by |-> None, whole |-> TRUE, aim |-> {}]

MergerType ==
  [pc : {"idle", "write", "replace", "delete", "nudge", "await"},
   base : SUBSET Segment, plan : SUBSET Segment, merged : BOOLEAN,
   told : 0..2, by : Callers \union {None}, whole : BOOLEAN, aim : SUBSET Docs]

Quiet == [pc |-> "idle", read |-> {}, ok |-> TRUE]

CallType ==
  [pc : {"idle", "asked", "reopen", "opened"}, read : SUBSET Segment, ok : BOOLEAN]

(* A file on the replica: the parts of it that were written since it was     *)
(* created, and 0 for the file itself.  Its footer is the last part.         *)
File == SUBSET (0..Parts)

Whole(file) == file = 0..Parts

Readable(file) == Parts \in file

(* A manifest's file: none, just created, two that were written over each    *)
(* other, or one that lists segments.                                       *)
ListType == [is : {"none", "created", "torn", "list"}, names : SUBSET Segment]

NoList == [is |-> "none", names |-> {}]

CreatedList == [is |-> "created", names |-> {}]

TornList == [is |-> "torn", names |-> {}]

Listing(segments) == [is |-> "list", names |-> segments]

(* A sync: what is left of the manifest it reads, the segment it brings, how *)
(* much it has written of it, and where the file it has open is by now.      *)
NoSync == [pc |-> "idle", read |-> {}, todo |-> {}, name |-> None, sent |-> 0,
           at |-> "closed", ok |-> TRUE]

Transferring == {"fetch", "missing", "transfer", "read", "discard", "verified", "list", "rename"}

SyncType ==
  [pc : {"idle", "asked", "reopen", "opened"} \union Transferring,
   read : SUBSET Segment, todo : SUBSET Segment, name : Segment \union {None}, sent : 0..(Parts - 1),
   at : {"closed", "temporary", "final", "gone"}, ok : BOOLEAN]

TypeOK ==
  /\ files \subseteq Segment /\ manifest \subseteq Segment
  /\ added \subseteq Labels
  /\ listing \in [open : BOOLEAN, found : SUBSET Segment]
  /\ merger \in MergerType
  /\ merger.by = None <=> merger.pc # "await"
  /\ merger.pc \notin {"nudge", "await"} => merger.told = 0
  /\ merger.pc = "await" => merger.told < 2
  /\ shown \subseteq Segment /\ call \in [Callers -> CallType]
  /\ copies \in [Segment -> File] /\ copiedManifest \in ListType
  /\ fetching \in [Segment -> File] /\ listed \in ListType
  /\ replicaShown \subseteq Segment /\ sync \in [Syncers -> SyncType]
  /\ clashes \in Nat /\ faults \in Nat /\ crashes \in Nat
  /\ editions \subseteq SUBSET Docs /\ delivered \subseteq Docs

(* A directory with one segment, a shard serving it, and a replica that was *)
(* synced before it was started.                                            *)
Init ==
  /\ files = {Made(First)} /\ manifest = {Made(First)}
  /\ added = {First} /\ listing = NoListing /\ merger = IdleMerger
  /\ shown = {Made(First)}
  /\ call = [c \in Callers |-> Quiet]
  /\ copies = [n \in Segment |-> IF n = Made(First) THEN 0..Parts ELSE {}]
  /\ copiedManifest = Listing({Made(First)})
  /\ fetching = [n \in Segment |-> {}] /\ listed = NoList
  /\ replicaShown = {Made(First)}
  /\ sync = [s \in Syncers |-> NoSync]
  /\ clashes = 0 /\ faults = 0 /\ crashes = 0
  /\ editions = {Batch[First]} /\ delivered = {}

Fault == faults < MaxFaults /\ faults' = faults + 1

-----------------------------------------------------------------------------
(* The operator. *)

AddSegment ==
  /\ \E l \in Labels \ added :
       /\ added' = added \union {l}
       /\ files' = files \union {Made(l)}
  /\ UNCHANGED <<manifest, listing, merger, primary, replica, faults, crashes,
                 editions, delivered>>

(* Files the manifest does not name and whose documents it has: what a dead *)
(* merge or a failed deletion left.                                         *)
Leftovers == {s \in files \ manifest : s.docs \subseteq DocsOf(manifest)}

(* Every segment in the directory is opened, then the manifest is replaced. *)
ListSegments ==
  /\ ~listing.open
  /\ files # manifest
  /\ Careful => merger.pc \in {"idle", "nudge", "await"} /\ Leftovers = {}
  /\ listing' = [open |-> TRUE, found |-> files]
  /\ UNCHANGED <<directory, added, merger, primary, replica, faults, crashes,
                 editions, delivered>>

WriteListing ==
  /\ listing.open
  /\ manifest' = listing.found
  /\ listing' = NoListing
  /\ editions' = editions \union {DocsOf(listing.found)}
  /\ UNCHANGED <<files, added, merger, primary, replica, faults, crashes, delivered>>

(* The merger reports the files nobody names; the operator removes them.    *)
RemoveOrphans ==
  /\ ~listing.open
  /\ merger.pc \in {"idle", "nudge", "await"}
  /\ Leftovers # {}
  /\ files' = files \ Leftovers
  /\ UNCHANGED <<manifest, added, listing, merger, primary, replica, faults, crashes,
                 editions, delivered>>

-----------------------------------------------------------------------------
(* Which segments to merge: the first PerTier of the lowest tier that holds *)
(* as many, or fewer where the sum would pass the ceiling; a tier where not *)
(* even two fit is passed over.  Which are the first is the order of the    *)
(* manifest: any.                                                           *)

Bytes(s) == DocBytes * Cardinality(s.docs)

TotalBytes(segments) == MapThenSumSet(Bytes, segments)

(* How many powers of the factor fit, 63 at most (t <= bytes spares powers). *)
TierOf(bytes) == Cardinality({t \in 1..63 : t <= bytes /\ TierFactor ^ t <= bytes})

Group(m, t) == {s \in m : Bytes(s) < MaxMerged /\ TierOf(Bytes(s)) = t}

Full(m, t) == Cardinality(Group(m, t)) >= PerTier

PassedOver(m, t) ==
  Full(m, t) => \E P \in SUBSET Group(m, t) : Cardinality(P) = 2 /\ TotalBytes(P) > MaxMerged

(* Seeded bug: a merge of one segment is a merge. *)
BugTaken(m, t) ==
  {P \in SUBSET Group(m, t) :
     Cardinality(P) >= 1 /\ Cardinality(P) <= PerTier /\ TotalBytes(P) <= MaxMerged}

Taken(m, t) ==
  {P \in SUBSET Group(m, t) :
     /\ Full(m, t)
     /\ Cardinality(P) \in 2..PerTier
     /\ TotalBytes(P) <= MaxMerged
     /\ \/ Cardinality(P) = PerTier
        \/ \E s \in Group(m, t) \ P : TotalBytes(P \union {s}) > MaxMerged}

NextMerges(m) ==
  LET Tiers == {TierOf(Bytes(s)) : s \in m}
  IN  UNION {Taken(m, t) : t \in {u \in Tiers : \A v \in Tiers : v < u => PassedOver(m, v)}}

-----------------------------------------------------------------------------
(* The merger: one merge at a time until none is due, then the nudges. *)

(* Documents are concatenated: the union, while no document is in two.      *)
Produced(plan) == [label |-> Digest, docs |-> DocsOf(plan)]

PlanMerge ==
  /\ merger.pc = "idle"
  /\ Careful => ~listing.open
  /\ \E P \in NextMerges(manifest) :
       /\ P \subseteq files
       /\ merger' = [merger EXCEPT !.pc = "write", !.base = manifest, !.plan = P]
  /\ UNCHANGED <<directory, added, listing, primary, replica, faults, crashes,
                 editions, delivered>>

(* Seeded bug: the manifest is replaced before the segment is written. *)
BugWriteMerged ==
  /\ merger.pc = "write"
  /\ merger' = [merger EXCEPT !.pc = "replace"]
  /\ UNCHANGED <<directory, added, listing, primary, replica, faults, crashes,
                 editions, delivered>>

WriteMerged ==
  /\ merger.pc = "write"
  /\ files' = files \union {Produced(merger.plan)}
  /\ merger' = [merger EXCEPT !.pc = "replace"]
  /\ UNCHANGED <<manifest, added, listing, primary, replica, faults, crashes,
                 editions, delivered>>

(* Seeded bug: the merged segments stay in the manifest. *)
BugReplaced(base, plan) == base \union {Produced(plan)}

Replaced(base, plan) == (base \ plan) \union {Produced(plan)}

(* From the manifest that was read before the merge, not from today's.      *)
ReplaceManifest ==
  /\ merger.pc = "replace"
  /\ manifest' = Replaced(merger.base, merger.plan)
  /\ merger' = [merger EXCEPT !.pc = "delete", !.base = {}, !.merged = TRUE]
  /\ editions' = editions \union {DocsOf(manifest')}
  /\ UNCHANGED <<files, added, listing, primary, replica, faults, crashes, delivered>>

(* One old file after another; one that resists is reported and left.       *)
DeleteOld ==
  /\ merger.pc = "delete"
  /\ \E s \in merger.plan :
       /\ merger' = [merger EXCEPT !.plan = @ \ {s},
                                   !.pc = IF merger.plan = {s} THEN "idle" ELSE "delete"]
       /\ \/ files' = files \ {s} /\ UNCHANGED faults
          \/ Fault /\ UNCHANGED files
  /\ UNCHANGED <<manifest, added, listing, primary, replica, crashes, editions, delivered>>

(* --notify names the primary's shard and the replica's, or nobody.         *)
Addresses == IF Nudgers = {} THEN 0 ELSE 2

(* Seeded bug: the replica is told before the primary. *)
BugToldFirst == "replica"

ToldFirst == "primary"

Announce ==
  /\ merger.pc = "idle" /\ merger.merged /\ NextMerges(manifest) = {}
  /\ merger' = [IdleMerger EXCEPT !.pc = "nudge", !.aim = DocsOf(manifest)]
  /\ UNCHANGED <<directory, added, listing, primary, replica, faults, crashes,
                 editions, delivered>>

ToPrimary == (ToldFirst = "primary") <=> (merger.told = 0)

Asked(idle) == [idle EXCEPT !.pc = "asked"]

(* A Refresh on a connection of its own, and a wait for the answer.         *)
Nudge ==
  /\ merger.pc = "nudge" /\ merger.told < Addresses
  /\ \/ \E c \in Nudgers :
          /\ merger' = [merger EXCEPT !.pc = "await", !.by = c]
          /\ IF ToPrimary
               THEN call[c].pc = "idle" /\ call' = [call EXCEPT ![c] = Asked(Quiet)] /\ UNCHANGED sync
               ELSE sync[c].pc = "idle" /\ sync' = [sync EXCEPT ![c] = Asked(NoSync)] /\ UNCHANGED call
          /\ UNCHANGED faults
     \/ \* The shard cannot be reached: reported, and on to the next.
        /\ Fault
        /\ merger' = [merger EXCEPT !.told = @ + 1, !.whole = FALSE]
        /\ UNCHANGED <<call, sync>>
  /\ UNCHANGED <<directory, added, listing, shown, disk, replicaShown, clashes,
                 crashes, editions, delivered>>

Answered ==
  LET answer == IF ToPrimary THEN call[merger.by] ELSE sync[merger.by]
  IN  /\ merger.pc = "await"
      /\ answer.pc = "idle"
      /\ merger' = [merger EXCEPT !.pc = "nudge", !.by = None, !.told = @ + 1,
                                  !.whole = @ /\ answer.ok]
      /\ UNCHANGED <<directory, added, listing, primary, replica, faults, crashes,
                     editions, delivered>>

(* Everyone was told; with nothing lost, the replica is to have it all.     *)
AllTold ==
  /\ merger.pc = "nudge" /\ merger.told = Addresses
  /\ merger' = IdleMerger
  /\ delivered' = IF merger.whole /\ Addresses = 2 THEN delivered \union merger.aim ELSE delivered
  /\ UNCHANGED <<directory, added, listing, primary, replica, faults, crashes, editions>>

(* It is killed, or an error ends the round: nothing in memory is kept, and *)
(* merges already done are not announced.                                   *)
MergerDies ==
  /\ merger.pc # "idle" \/ merger.merged
  /\ crashes < MaxCrashes
  /\ crashes' = crashes + 1
  /\ merger' = IdleMerger
  /\ UNCHANGED <<directory, added, listing, primary, replica, faults, editions, delivered>>

-----------------------------------------------------------------------------
(* The primary's shard: a Refresh reads the manifest, opens every segment it *)
(* names, and only then swaps the index that queries are answered from.      *)

(* Anyone may ask for a refresh, of either shard. *)
StrayNudge(c) ==
  /\ call[c].pc = "idle" /\ sync[c].pc = "idle"
  /\ \/ call' = [call EXCEPT ![c] = Asked(Quiet)] /\ UNCHANGED sync
     \/ sync' = [sync EXCEPT ![c] = Asked(NoSync)] /\ UNCHANGED call
  /\ UNCHANGED <<directory, added, listing, merger, shown, disk, replicaShown, clashes,
                 faults, crashes, editions, delivered>>

ReadManifest(c) ==
  /\ call[c].pc = "asked"
  /\ call' = [call EXCEPT ![c].pc = "reopen", ![c].read = manifest]
  /\ UNCHANGED <<directory, added, listing, merger, shown, replica, faults, crashes,
                 editions, delivered>>

(* Seeded bug: files that are gone are left out. *)
BugOpened(segments, present) ==
  [Quiet EXCEPT !.pc = "opened", !.read = segments \intersect present]

(* What opening the segments comes to: all of them, or an error.            *)
Opened(segments, present) ==
  IF segments \subseteq present THEN [Quiet EXCEPT !.pc = "opened", !.read = segments]
                                ELSE [Quiet EXCEPT !.ok = FALSE]

OpenSegments(c) ==
  /\ call[c].pc = "reopen"
  /\ call' = [call EXCEPT ![c] = Opened(call[c].read, files)]
  /\ UNCHANGED <<directory, added, listing, merger, shown, replica, faults, crashes,
                 editions, delivered>>

Swap(c) ==
  /\ call[c].pc = "opened"
  /\ shown' = call[c].read
  /\ call' = [call EXCEPT ![c] = Quiet]
  /\ UNCHANGED <<directory, added, listing, merger, replica, faults, crashes,
                 editions, delivered>>

-----------------------------------------------------------------------------
(* A sync of the replica's directory: by a Refresh, which reopens it, or by *)
(* a timer, which does not.                                                 *)

TimerFires(s) ==
  /\ sync[s].pc = "idle"
  /\ sync' = [sync EXCEPT ![s] = Asked(NoSync)]
  /\ UNCHANGED <<directory, added, listing, merger, primary, disk, replicaShown, clashes,
                 faults, crashes, editions, delivered>>

(* The manifest of what the primary's shard serves. *)
AskManifest(s) ==
  /\ sync[s].pc = "asked"
  /\ sync' = [sync EXCEPT ![s] = [NoSync EXCEPT !.pc = "fetch", !.read = shown, !.todo = shown]]
  /\ UNCHANGED <<directory, added, listing, merger, primary, disk, replicaShown, clashes,
                 faults, crashes, editions, delivered>>

FailedSync == [NoSync EXCEPT !.ok = FALSE]

(* What a sync has open, or will read, rename or remove by its name.         *)
HasSegment(s) == sync[s].pc \in {"transfer", "read", "discard", "verified"}

HasList(s) == sync[s].pc \in {"list", "rename"}

Clash(inHand) ==
  IF inHand THEN clashes < MaxClashes /\ clashes' = clashes + 1 ELSE UNCHANGED clashes

(* When a temporary is renamed or removed, whoever else has it open writes   *)
(* on, wherever the file is now.                                            *)
Moved(r, to) ==
  [r EXCEPT !.at = CASE @ = "temporary" -> to [] @ = "final" /\ to = "final" -> "gone" [] OTHER -> @]

(* One segment after another: one that is there is not fetched; its digest is *)
(* read from its footer, and no other part of it is.                         *)
Check(s) ==
  /\ sync[s].pc = "fetch"
  /\ \E n \in sync[s].todo :
       sync' = IF Readable(copies[n]) THEN [sync EXCEPT ![s].todo = @ \ {n}]
                                      ELSE [sync EXCEPT ![s].pc = "missing", ![s].name = n]
  /\ UNCHANGED <<disk, clashes>>

(* The primary sends a segment that its shard serves and whose file is there. *)
Sends(n) == n \in shown /\ n \in files

(* It says how long it is; the temporary is created, or truncated.           *)
Create(s) ==
  LET n == sync[s].name
  IN  /\ sync[s].pc = "missing"
      /\ IF Sends(n)
           THEN /\ fetching' = [fetching EXCEPT ![n] = {0}]
                /\ sync' = [sync EXCEPT ![s].pc = "transfer", ![s].at = "temporary"]
                /\ Clash(\E t \in Syncers : HasSegment(t) /\ sync[t].name = n)
           ELSE sync' = [sync EXCEPT ![s] = FailedSync] /\ UNCHANGED <<fetching, clashes>>
      /\ UNCHANGED <<copies, copiedManifest, listed>>

(* Seeded bug: one more chunk is asked for than there are. *)
BugReceive(s) ==
  LET n == sync[s].name
      part == sync[s].sent + 1
      At(place) == IF sync[s].at = place THEN {part} ELSE {}
  IN  /\ sync[s].pc = "transfer"
      /\ IF Sends(n)
           THEN /\ fetching' = [fetching EXCEPT ![n] = @ \union At("temporary")]
                /\ copies' = [copies EXCEPT ![n] = @ \union At("final")]
                /\ sync' = [sync EXCEPT ![s] =
                     IF part > Parts THEN [@ EXCEPT !.pc = "read", !.sent = 0, !.at = "closed"]
                                     ELSE [@ EXCEPT !.sent = part]]
           ELSE sync' = [sync EXCEPT ![s] = FailedSync] /\ UNCHANGED <<fetching, copies>>
      /\ UNCHANGED <<copiedManifest, listed, clashes>>

(* A chunk arrives and is written where the last one ended.                  *)
Receive(s) ==
  LET n == sync[s].name
      part == sync[s].sent + 1
      At(place) == IF sync[s].at = place THEN {part} ELSE {}
  IN  /\ sync[s].pc = "transfer"
      /\ IF Sends(n)
           THEN /\ fetching' = [fetching EXCEPT ![n] = @ \union At("temporary")]
                /\ copies' = [copies EXCEPT ![n] = @ \union At("final")]
                /\ sync' = [sync EXCEPT ![s] =
                     IF part = Parts THEN [@ EXCEPT !.pc = "read", !.sent = 0, !.at = "closed"]
                                     ELSE [@ EXCEPT !.sent = part]]
           ELSE sync' = [sync EXCEPT ![s] = FailedSync] /\ UNCHANGED <<fetching, copies>>
      /\ UNCHANGED <<copiedManifest, listed, clashes>>

(* What is there under the temporary's name by now is read back, ...         *)
Verify(s) ==
  /\ sync[s].pc = "read"
  /\ sync' = [sync EXCEPT ![s] = IF Whole(fetching[sync[s].name]) THEN [@ EXCEPT !.pc = "verified"]
                                 ELSE IF 0 \in fetching[sync[s].name] THEN [@ EXCEPT !.pc = "discard"]
                                 ELSE FailedSync]
  /\ UNCHANGED <<disk, clashes>>

Discard(s) ==
  LET n == sync[s].name
  IN  /\ sync[s].pc = "discard"
      /\ fetching' = [fetching EXCEPT ![n] = {}]
      /\ sync' = [t \in Syncers |-> IF t = s THEN FailedSync
                                    ELSE IF sync[t].name = n THEN Moved(sync[t], "gone") ELSE sync[t]]
      /\ UNCHANGED <<copies, copiedManifest, listed, clashes>>

(* ... and what is there by then is renamed.                                 *)
Rename(s) ==
  LET n == sync[s].name
      done == [sync[s] EXCEPT !.pc = "fetch", !.todo = @ \ {n}, !.name = None]
  IN  /\ sync[s].pc = "verified"
      /\ IF 0 \in fetching[n]
           THEN /\ copies' = [copies EXCEPT ![n] = fetching[n]]
                /\ fetching' = [fetching EXCEPT ![n] = {}]
                /\ sync' = [t \in Syncers |-> IF t = s THEN done
                                              ELSE IF sync[t].name = n THEN Moved(sync[t], "final") ELSE sync[t]]
           ELSE sync' = [sync EXCEPT ![s] = FailedSync] /\ UNCHANGED <<copies, fetching>>
      /\ UNCHANGED <<copiedManifest, listed, clashes>>

(* Seeded bug: the manifest is installed before the segments. *)
BugCreateManifest(s) ==
  /\ sync[s].pc = "fetch"
  /\ listed' = CreatedList
  /\ sync' = [sync EXCEPT ![s].pc = "list", ![s].at = "temporary"]
  /\ Clash(\E t \in Syncers : HasList(t))
  /\ UNCHANGED <<copies, copiedManifest, fetching>>

(* The new manifest is installed last, in the same way.                      *)
CreateManifest(s) ==
  /\ sync[s].pc = "fetch" /\ sync[s].todo = {}
  /\ listed' = CreatedList
  /\ sync' = [sync EXCEPT ![s].pc = "list", ![s].at = "temporary"]
  /\ Clash(\E t \in Syncers : HasList(t))
  /\ UNCHANGED <<copies, copiedManifest, fetching>>

(* Written over another, a manifest may leave the other's last lines, which  *)
(* its count of segments gives away.                                        *)
Over(list, segments) ==
  IF list \in {CreatedList, Listing(segments)} THEN {Listing(segments)} ELSE {Listing(segments), TornList}

WriteManifest(s) ==
  /\ sync[s].pc = "list"
  /\ CASE sync[s].at = "temporary" -> listed' \in Over(listed, sync[s].read) /\ UNCHANGED copiedManifest
       [] sync[s].at = "final" -> copiedManifest' \in Over(copiedManifest, sync[s].read) /\ UNCHANGED listed
       [] OTHER -> UNCHANGED <<listed, copiedManifest>>
  /\ sync' = [sync EXCEPT ![s].pc = "rename", ![s].at = "closed"]
  /\ UNCHANGED <<copies, fetching, clashes>>

AfterInstall(s) ==
  IF s \in Timers THEN NoSync ELSE [NoSync EXCEPT !.pc = "reopen"]

RenameManifest(s) ==
  /\ sync[s].pc = "rename"
  /\ IF listed # NoList
       THEN /\ copiedManifest' = listed
            /\ listed' = NoList
            /\ sync' = [t \in Syncers |-> IF t = s THEN AfterInstall(s)
                                          ELSE IF sync[t].pc = "list" THEN Moved(sync[t], "final") ELSE sync[t]]
       ELSE sync' = [sync EXCEPT ![s] = FailedSync] /\ UNCHANGED <<copiedManifest, listed>>
  /\ UNCHANGED <<copies, fetching, clashes>>

Fetch(s) ==
  /\ Check(s) \/ Create(s) \/ Receive(s) \/ Verify(s) \/ Discard(s) \/ Rename(s)
  /\ UNCHANGED <<directory, added, listing, merger, primary, replicaShown, faults, crashes,
                 editions, delivered>>

Install(s) ==
  /\ CreateManifest(s) \/ WriteManifest(s) \/ RenameManifest(s)
  /\ UNCHANGED <<directory, added, listing, merger, primary, replicaShown, faults, crashes,
                 editions, delivered>>

(* The primary is down, the transfer is cut, or the syncing process dies: the *)
(* temporaries stay as they are.                                             *)
SyncFails(s) ==
  /\ sync[s].pc \in Transferring \union {"asked"}
  /\ Fault
  /\ sync' = [sync EXCEPT ![s] = FailedSync]
  /\ UNCHANGED <<directory, added, listing, merger, primary, disk, replicaShown, clashes,
                 crashes, editions, delivered>>

(* A file whose footer is there is opened; of one with a hole in it we only   *)
(* say that it is not the segment.                                           *)
AsRead(n) == IF Whole(copies[n]) THEN n ELSE [n EXCEPT !.docs = {}]

(* Nothing is ever deleted here: reading and opening are one step.           *)
ReopenReplica(s) ==
  /\ sync[s].pc = "reopen"
  /\ sync' = [sync EXCEPT ![s] =
       IF copiedManifest.is = "list" /\ \A n \in copiedManifest.names : Readable(copies[n])
         THEN [NoSync EXCEPT !.pc = "opened", !.read = {AsRead(n) : n \in copiedManifest.names}]
         ELSE FailedSync]
  /\ UNCHANGED <<directory, added, listing, merger, primary, disk, replicaShown, clashes,
                 faults, crashes, editions, delivered>>

SwapReplica(s) ==
  /\ sync[s].pc = "opened"
  /\ replicaShown' = sync[s].read
  /\ sync' = [sync EXCEPT ![s] = NoSync]
  /\ UNCHANGED <<directory, added, listing, merger, primary, disk, clashes, faults, crashes,
                 editions, delivered>>

-----------------------------------------------------------------------------
Operator == AddSegment \/ ListSegments \/ WriteListing \/ RemoveOrphans

MergerStep ==
  \/ PlanMerge \/ WriteMerged \/ ReplaceManifest \/ DeleteOld
  \/ Announce \/ Nudge \/ Answered \/ AllTold

CallStep(c) == ReadManifest(c) \/ OpenSegments(c) \/ Swap(c)

SyncStep(s) ==
  \/ AskManifest(s) \/ Fetch(s) \/ Install(s)
  \/ SyncFails(s) \/ ReopenReplica(s) \/ SwapReplica(s)

Next ==
  \/ Operator
  \/ MergerStep \/ MergerDies
  \/ \E c \in Strangers : StrayNudge(c)
  \/ \E c \in Callers : CallStep(c)
  \/ \E s \in Timers : TimerFires(s)
  \/ \E s \in Syncers : SyncStep(s)

Spec == Init /\ [][Next]_vars

(* A command that runs, the merger's loop, the tasks of the shards and the  *)
(* timers go on; nothing is assumed of when the operator acts, of strangers, *)
(* or of what fails.                                                        *)
FairSpec ==
  /\ Spec
  /\ WF_vars(WriteListing)
  /\ WF_vars(MergerStep)
  /\ \A c \in Callers : WF_vars(CallStep(c))
  /\ \A s \in Timers : WF_vars(TimerFires(s))
  /\ \A s \in Syncers : WF_vars(SyncStep(s))

-----------------------------------------------------------------------------
(* What the store promises, for an operator who is Careful.                 *)

(* Whatever dies and whenever, every segment the manifest names is there,   *)
(* and so is every one that a merge at work will name (merger.rs:8-13).     *)
ManifestIsWhole == manifest \subseteq files

(* A document published once is in the index for good, and never in two     *)
(* segments of it: merges and crashes cannot be seen.                       *)
Apart(segments) ==
  \A s, t \in segments : s # t => s.docs \intersect t.docs = {}

EachDocumentOnce ==
  Apart(manifest) /\ \A e \in editions : e \subseteq DocsOf(manifest)

(* Why both hold.  Where no segment is empty, a file the manifest does not   *)
(* name is a leftover of segments it does, or new and of documents of its    *)
(* own; nothing changes the directory while a careful listing waits to be    *)
(* written; and a merge is not named like what it replaces.                  *)
NoEmptySegment == \A l \in Labels : Batch[l] # {}

AddedDocs == UNION {Batch[l] : l \in added}

Fresh(s, named) == \E l \in added : s = Made(l) /\ Batch[l] \intersect DocsOf(named) = {}

DirectoryInv ==
  /\ ManifestIsWhole
  /\ EachDocumentOnce
  /\ \A s \in files : s.docs # {}
  /\ \A s \in files \ manifest : s.docs \subseteq DocsOf(manifest) \/ Fresh(s, manifest)
  /\ DocsOf(manifest) \subseteq AddedDocs

ListingInv ==
  listing.open =>
    /\ merger.pc \in {"idle", "nudge", "await"}
    /\ listing.found \subseteq files
    /\ Apart(listing.found)
    /\ DocsOf(manifest) \subseteq DocsOf(listing.found)
    /\ DocsOf(listing.found) \subseteq AddedDocs
    /\ \A s \in files \ listing.found : Fresh(s, listing.found)

MergeInv ==
  /\ merger.pc \in {"write", "replace"} =>
       /\ merger.base = manifest
       /\ merger.plan \subseteq manifest
       /\ \E s, t \in merger.plan : s # t
  /\ merger.pc = "replace" => Produced(merger.plan) \in files
  /\ merger.pc = "delete" => merger.plan \intersect manifest = {}

StoreInv == DirectoryInv /\ ListingInv /\ MergeInv

(* What a shard answers from is the whole of an index that was published,   *)
(* however old, with no document twice, on the primary and on the replica,  *)
(* unless two syncs of the replica had one temporary in hand.               *)
Published(segments) == Apart(segments) /\ DocsOf(segments) \in editions

ServedWasPublished ==
  /\ Published(shown)
  /\ copiedManifest.is = "list" => Published(copiedManifest.names)
  /\ clashes = 0 => Published(replicaShown)

(* A replica that is restarted at any moment can read its manifest and every *)
(* byte of what it names, whatever transfer was cut or process killed before *)
(* (replication.rs:41-46, 200-203): unless two syncs ever had one temporary *)
(* in hand.                                                                 *)
Installed == copiedManifest.is = "list" /\ \A n \in copiedManifest.names : Whole(copies[n])

ReplicaIsWhole == clashes = 0 => Installed

(* Why both hold: whatever is served, installed, or in the hands of a        *)
(* refresh or a sync was the manifest once.                                  *)
Held ==
  {manifest, shown}
    \union {call[c].read : c \in {d \in Callers : call[d].pc \in {"reopen", "opened"}}}
    \union {sync[s].read : s \in {t \in Syncers : sync[t].pc \in Transferring}}
    \union {l.names : l \in {m \in {listed, copiedManifest} : m.is = "list"}}

Opening == {replicaShown} \union {sync[s].read : s \in {t \in Syncers : sync[t].pc = "opened"}}

(* And as long as no two syncs have a file in hand, the one that has finds   *)
(* under its temporary name what it has written, and nothing is renamed that *)
(* is not whole.                                                            *)
Alone ==
  /\ \A s, t \in Syncers : HasSegment(s) /\ HasSegment(t) /\ sync[s].name = sync[t].name => s = t
  /\ \A s, t \in Syncers : HasList(s) /\ HasList(t) => s = t

InHand(r) ==
  /\ r.pc \in {"missing", "transfer", "read", "verified"} => r.name \in Segment /\ r.name \in r.todo
  /\ r.pc \in {"fetch", "list"} => r.name = None
  /\ r.pc \in {"fetch", "missing", "read", "verified"} => r.sent = 0
  /\ r.pc = "transfer" => r.at = "temporary" /\ fetching[r.name] = 0..r.sent
  /\ r.pc \in {"read", "verified"} => Whole(fetching[r.name])
  /\ r.pc # "discard"
  /\ r.pc = "list" => r.at = "temporary" /\ listed = CreatedList
  /\ r.pc = "rename" => listed = Listing(r.read)

Arrived(r) ==
  /\ r.pc \in Transferring => \A n \in r.read \ r.todo : Whole(copies[n])
  /\ r.pc \in {"list", "rename"} => r.todo = {}

TransferInv ==
  /\ Alone
  /\ \A s \in Syncers : InHand(sync[s]) /\ Arrived(sync[s])
  /\ \A n \in Segment : copies[n] = {} \/ Whole(copies[n])
  /\ Installed

ServedInv ==
  /\ \A S \in Held : Published(S)
  /\ clashes = 0 => TransferInv /\ \A S \in Opening : Published(S)

(* When the merger has told the primary and then the replica, and neither   *)
(* refused, the replica serves every document of the merged index, and goes *)
(* on doing so (main.rs:818-832).  For one Refresh at a time and no timer.  *)
ToldReplicaIsCurrent == delivered \subseteq DocsOf(replicaShown)

(* Why: where one Refresh at a time reaches each shard, documents only go    *)
(* forward, from the manifest to the primary's shard, to the replica's       *)
(* directory, to its shard; and what a Refresh has in hand is between what   *)
(* it will replace and what it was taken from.                              *)
OneRefresh == Strangers = {} /\ Timers = {} /\ \A c, d \in Nudgers : c = d

Holds(segments, docs) == docs \subseteq DocsOf(segments)

ForwardInv ==
  /\ Holds(replicaShown, delivered)
  /\ Holds(copiedManifest.names, DocsOf(replicaShown))
  /\ Holds(shown, DocsOf(copiedManifest.names))
  /\ Holds(manifest, DocsOf(shown))
  /\ \A c \in Callers : call[c].pc \in {"reopen", "opened"} =>
       Holds(call[c].read, DocsOf(shown)) /\ Holds(manifest, DocsOf(call[c].read))
  /\ \A s \in Syncers : sync[s].pc \in Transferring =>
       Holds(sync[s].read, DocsOf(copiedManifest.names)) /\ Holds(shown, DocsOf(sync[s].read))
  /\ \A s \in Syncers : sync[s].pc = "opened" =>
       Holds(sync[s].read, DocsOf(replicaShown)) /\ Holds(copiedManifest.names, DocsOf(sync[s].read))

(* How far the merged documents have come while the merger tells the shards. *)
PrimaryHas(answer, aim) ==
  /\ answer.pc \in {"reopen", "opened"} => Holds(answer.read, aim)
  /\ answer.pc = "idle" /\ answer.ok => Holds(shown, aim)

ReplicaHas(answer, aim) ==
  /\ answer.pc \in Transferring \union {"opened"} => Holds(answer.read, aim)
  /\ answer.pc = "reopen" => Holds(copiedManifest.names, aim)
  /\ answer.pc = "idle" /\ answer.ok => Holds(replicaShown, aim)

AimInv ==
  merger.whole =>
    /\ merger.pc \in {"nudge", "await"} => Holds(manifest, merger.aim)
    /\ merger.told >= 1 => Holds(shown, merger.aim)
    /\ merger.told = 2 => Holds(replicaShown, merger.aim)
    /\ merger.pc = "await" /\ merger.told = 0 => PrimaryHas(call[merger.by], merger.aim)
    /\ merger.pc = "await" /\ merger.told = 1 => ReplicaHas(sync[merger.by], merger.aim)

ToldInv == ForwardInv /\ AimInv

(* The merger catches up: there comes a time when nothing is left to merge  *)
(* and it waits.                                                            *)
MergesSettle == <>[](merger.pc = "idle" /\ NextMerges(manifest) = {})
=============================================================================
