---------------------------- MODULE LeasesProofs ----------------------------
(***************************************************************************)
(* What Leases guarantees for any hosts, crawlers, workers, delays and     *)
(* clocks, however slow the links are and whichever break: its types; that *)
(* slots keep their gaps and no request comes before its slot; that all    *)
(* crawlers together keep the authority's rate; that pages are asked for   *)
(* by answers somebody read, and a robots.txt once by a worker.            *)
(***************************************************************************)
EXTENDS Leases, FiniteSetTheorems, TLAPS

-----------------------------------------------------------------------------
(* Lines: sequences in which nobody is twice. *)

LEMMA TailOfLine ==
  ASSUME NEW S, NEW s \in Seq(S), s # <<>>, IsInjective(s)
  PROVE  /\ Head(s) \in S /\ Head(s) = s[1]
         /\ Tail(s) \in Seq(S) /\ IsInjective(Tail(s))
         /\ \A i \in DOMAIN Tail(s) : i + 1 \in DOMAIN s /\ Tail(s)[i] = s[i + 1]
                                      /\ Tail(s)[i] # Head(s)
BY DEF IsInjective

LEMMA AppendToLine ==
  ASSUME NEW S, NEW s \in Seq(S), IsInjective(s), NEW x \in S, x \notin Range(s)
  PROVE  /\ Append(s, x) \in Seq(S) /\ IsInjective(Append(s, x))
         /\ \A i \in DOMAIN Append(s, x) : \/ i \in DOMAIN s /\ Append(s, x)[i] = s[i]
                                           \/ Append(s, x)[i] = x
BY DEF IsInjective, Range

LEMMA SeqFacts ==
  ASSUME NEW S, NEW s \in Seq(S)
  PROVE  DOMAIN s = 1..Len(s) /\ Len(s) \in Nat /\ \A i \in DOMAIN s : s[i] \in S
OBVIOUS

LEMMA AppendFacts ==
  ASSUME NEW S, NEW s \in Seq(S), NEW x \in S
  PROVE  /\ DOMAIN Append(s, x) = 1..(Len(s) + 1)
         /\ \A i \in 1..Len(s) : Append(s, x)[i] = s[i]
         /\ Append(s, x)[Len(s) + 1] = x
OBVIOUS

LEMMA AppendHead ==
  ASSUME NEW S, NEW s \in Seq(S), s # <<>>, NEW x \in S
  PROVE  Head(Append(s, x)) = Head(s)
OBVIOUS

(* A floor more. *)
LEMMA OneMore ==
  ASSUME NEW n \in Nat, n # 0, NEW F \in Nat
  PROVE  n * F = (n - 1) * F + F /\ (n - 1) * F \in Nat
<1>1. PICK m \in Nat : n = m + 1
  <2>1. n - 1 \in Nat /\ n = (n - 1) + 1
    OBVIOUS
  <2>. QED  BY <2>1
<1>2. (m + 1) * F = m * F + F /\ m * F \in Nat
  OBVIOUS
<1>3. n - 1 = m
  BY <1>1
<1>. QED  BY <1>1, <1>2, <1>3

(* Rounding to what the wire carries. *)
LEMMA Remainder == ASSUME NEW n \in Nat  PROVE n % Unit \in Nat /\ n % Unit < Unit /\ n % Unit <= n
BY LeasesAssumption

LEMMA WireDownFacts == ASSUME NEW n \in Nat  PROVE WireDown(n) \in Nat /\ WireDown(n) <= n
BY Remainder DEF WireDown

LEMMA WireUpFacts == ASSUME NEW n \in Nat  PROVE WireUp(n) \in Nat /\ WireUp(n) >= n
<1>1. n + Unit - 1 \in Nat
  BY LeasesAssumption
<1>. QED  BY <1>1, Remainder, LeasesAssumption DEF WireUp, WireDown

LEMMA SpacingFacts == ASSUME NEW n \in Nat  PROVE Spacing(n) \in Nat /\ Spacing(n) >= Floor
BY LeasesAssumption DEF Spacing, Larger

-----------------------------------------------------------------------------
(* Types. *)

LEMMA RecordTypes ==
  /\ Idle \in WorkerType /\ Idle.pc = "idle" /\ Idle.host = None
  /\ Ready \in WireType /\ Down \in WireType /\ Ready.pc = "ready" /\ Down.pc = "down"
  /\ Never \in [at : Nat, spacing : Nat, host : Hosts \union {None}]
BY DEF Idle, WorkerType, Ready, Down, WireType, Never, Known

(* What it is to be in a line, for any worker records. *)
AskPcs(k) == IF k = "slot" THEN {"slot"} ELSE {"recall", "report"}

Orderly(ln, wk, c, k) ==
  /\ \A i \in DOMAIN ln : CrawlerOf[ln[i]] = c /\ wk[ln[i]].pc \in AskPcs(k)
  /\ IsInjective(ln)

Signals(ln, wr, k) ==
  /\ wr.pc \in {"ready", "down", IF k = "slot" THEN "lease" ELSE "known"}
  /\ wr.pc \in {"lease", "known"} => ln # <<>>

LEMMA LinesAreOrderly ==
  LinesOK <=> \A c \in Crawlers, k \in Kinds :
                 Orderly(line[c][k], worker, c, k) /\ Signals(line[c][k], wire[c][k], k)
BY DEF LinesOK, Orderly, Signals, Asking, AskPcs

LEMMA LinesAreOrderlyNext ==
  LinesOK' <=> \A c \in Crawlers, k \in Kinds :
                 Orderly(line'[c][k], worker', c, k) /\ Signals(line'[c][k], wire'[c][k], k)
BY DEF LinesOK, Orderly, Signals, Asking, AskPcs

(* A line stays in order when a worker that is not in it goes on, when it    *)
(* asks, and when it is answered.                                           *)
LEMMA LineStays ==
  ASSUME NEW k, NEW c, NEW ln \in Seq(Workers), Orderly(ln, worker, c, k),
         worker \in [Workers -> WorkerType],
         NEW w \in Workers, NEW r, w \notin Range(ln)
  PROVE  Orderly(ln, [worker EXCEPT ![w] = r], c, k)
BY DEF Orderly, Range

LEMMA LineAsked ==
  ASSUME NEW k, NEW ln \in Seq(Workers), NEW w \in Workers, w \notin Range(ln),
         Orderly(ln, worker, CrawlerOf[w], k),
         worker \in [Workers -> WorkerType], NEW r, r.pc \in AskPcs(k)
  PROVE  Orderly(Append(ln, w), [worker EXCEPT ![w] = r], CrawlerOf[w], k)
<1>. DEFINE new == Append(ln, w)  wk == [worker EXCEPT ![w] = r]
<1>1. IsInjective(new)
  BY AppendToLine DEF Orderly
<1>2. ASSUME NEW i \in DOMAIN new
      PROVE  CrawlerOf[new[i]] = CrawlerOf[w] /\ wk[new[i]].pc \in AskPcs(k)
  <2>1. \/ i \in DOMAIN ln /\ new[i] = ln[i]
        \/ new[i] = w
    BY <1>2, AppendToLine DEF Orderly
  <2>2. i \in DOMAIN ln => ln[i] # w /\ ln[i] \in Workers
    BY DEF Range
  <2>. QED  BY <2>1, <2>2 DEF Orderly
<1>. QED  BY <1>1, <1>2 DEF Orderly

LEMMA LineAnswered ==
  ASSUME NEW k, NEW c, NEW ln \in Seq(Workers), ln # <<>>, Orderly(ln, worker, c, k),
         worker \in [Workers -> WorkerType], NEW r
  PROVE  /\ Orderly(Tail(ln), [worker EXCEPT ![Head(ln)] = r], c, k)
         /\ Head(ln) \in Workers /\ CrawlerOf[Head(ln)] = c /\ worker[Head(ln)].pc \in AskPcs(k)
         /\ Head(ln) \notin Range(Tail(ln))
<1>1. /\ Head(ln) \in Workers /\ Head(ln) = ln[1]
      /\ Tail(ln) \in Seq(Workers) /\ IsInjective(Tail(ln))
      /\ \A i \in DOMAIN Tail(ln) : i + 1 \in DOMAIN ln /\ Tail(ln)[i] = ln[i + 1]
                                    /\ Tail(ln)[i] # Head(ln)
  BY TailOfLine DEF Orderly
<1>2. 1 \in DOMAIN ln
  OBVIOUS
<1>3. Head(ln) \notin Range(Tail(ln))
  BY <1>1 DEF Range
<1>4. \A i \in DOMAIN Tail(ln) : Tail(ln)[i] \in Workers
  BY <1>1
<1>. QED  BY <1>1, <1>2, <1>3, <1>4 DEF Orderly

(* Who asks for one thing, or waits for its moment, is in no other line; no  *)
(* worker is in another crawler's.                                          *)
LEMMA NotInLine ==
  ASSUME TypeOK, NEW w \in Workers, NEW c \in Crawlers, NEW k \in Kinds,
         worker[w].pc \notin AskPcs(k) \/ CrawlerOf[w] # c
  PROVE  w \notin Range(line[c][k])
BY LinesAreOrderly DEF TypeOK, Orderly, Range

LineType == [Crawlers -> [Kinds -> Seq(Workers)]]

(* One place of a table set, the others kept. *)
LEMMA SetPlace ==
  ASSUME NEW S, NEW f \in [Crawlers -> [Kinds -> S]], NEW c \in Crawlers, NEW k \in Kinds, NEW v,
         NEW g, g = [f EXCEPT ![c][k] = v]
  PROVE  /\ v \in S => g \in [Crawlers -> [Kinds -> S]]
         /\ g[c][k] = v
         /\ \A d \in Crawlers, q \in Kinds : d # c \/ q # k => g[d][q] = f[d][q]
OBVIOUS

(* The lines as the step of worker w finds them: it is in none, or it is the *)
(* answered one at the head of one, which it leaves.                        *)
Left(w, lines) ==
  \A c \in Crawlers, k \in Kinds :
    \/ /\ lines[c][k] = line[c][k] /\ wire'[c][k] = wire[c][k]
       /\ w \notin Range(line[c][k])
    \/ /\ lines[c][k] = Tail(line[c][k]) /\ wire'[c][k] = Ready
       /\ line[c][k] # <<>> /\ w = Head(line[c][k])

LEMMA LeftNone ==
  ASSUME TypeOK, NEW w \in Workers, wire' = wire,
         \A k \in Kinds : w \notin Range(line[CrawlerOf[w]][k])
  PROVE  Left(w, line)
BY NotInLine DEF Left

LEMMA LeftOne ==
  ASSUME TypeOK, NEW c \in Crawlers, NEW k \in Kinds, line[c][k] # <<>>,
         wire' = [wire EXCEPT ![c][k] = Ready]
  PROVE  LET w == Head(line[c][k])
         IN  /\ w \in Workers /\ CrawlerOf[w] = c /\ worker[w].pc \in AskPcs(k)
             /\ Answered(w, k) \in LineType
             /\ Left(w, Answered(w, k))
             /\ \A q \in Kinds \ {k} : Answered(w, k)[c][q] = line[c][q]
<1>. DEFINE w == Head(line[c][k])
<1>1. line[c][k] \in Seq(Workers) /\ Orderly(line[c][k], worker, c, k)
  BY LinesAreOrderly DEF TypeOK
<1>2. w \in Workers /\ CrawlerOf[w] = c /\ worker[w].pc \in AskPcs(k)
  BY <1>1, LineAnswered DEF TypeOK
<1>3. Tail(line[c][k]) \in Seq(Workers)
  BY <1>1, TailOfLine DEF Orderly
<1>. DEFINE new == Answered(w, k)
<1>4. new = [line EXCEPT ![c][k] = Tail(line[c][k])]
  BY <1>2 DEF Answered
<1>10. line \in [Crawlers -> [Kinds -> Seq(Workers)]] /\ wire \in [Crawlers -> [Kinds -> WireType]]
  BY DEF TypeOK
<1>. HIDE DEF new
<1>5. /\ new \in LineType /\ new[c][k] = Tail(line[c][k])
      /\ \A d \in Crawlers, q \in Kinds : d # c \/ q # k => new[d][q] = line[d][q]
  <2>. HIDE DEF w
  <2>. QED  BY <1>3, <1>4, <1>10, SetPlace DEF LineType
<1>11. /\ wire'[c][k] = Ready
       /\ \A d \in Crawlers, q \in Kinds : d # c \/ q # k => wire'[d][q] = wire[d][q]
  BY <1>10, SetPlace
<1>6. \A q \in Kinds \ {k} : worker[w].pc \notin AskPcs(q)
  BY <1>2 DEF AskPcs, Kinds
<1>7. \A d \in Crawlers, q \in Kinds : d # c \/ q # k => w \notin Range(line[d][q])
  BY <1>2, <1>6, NotInLine
<1>8. Left(w, new)
  <2>. HIDE DEF w
  <2>1. w = Head(line[c][k])
    BY DEF w
  <2>. QED  BY <1>5, <1>7, <1>11, <2>1 DEF Left
<1>9. \A q \in Kinds \ {k} : new[c][q] = line[c][q]
  BY <1>5
<1>. QED  BY <1>2, <1>5, <1>8, <1>9 DEF new

(* Then it goes on, and may put its next question in another line. *)
LEMMA MovesOn ==
  ASSUME TypeOK, NEW w \in Workers, NEW r \in WorkerType, worker' = [worker EXCEPT ![w] = r],
         NEW lines \in LineType, Left(w, lines), NEW q \in Kinds,
         \/ line' = lines
         \/ /\ line' = Queued(lines, w, q) /\ r.pc \in AskPcs(q)
            /\ w \notin Range(line[CrawlerOf[w]][q])
  PROVE  line' \in LineType /\ LinesOK'
<1>. DEFINE cw == CrawlerOf[w]
<1>0. cw \in Crawlers
  BY LeasesAssumption
<1>1. \A c \in Crawlers, k \in Kinds :
        /\ line[c][k] \in Seq(Workers) /\ lines[c][k] \in Seq(Workers)
        /\ Orderly(line[c][k], worker, c, k) /\ Signals(line[c][k], wire[c][k], k)
  BY LinesAreOrderly DEF TypeOK, LineType
<1>2. worker \in [Workers -> WorkerType]
  BY DEF TypeOK
<1>3. \A c \in Crawlers, k \in Kinds : Orderly(lines[c][k], worker', c, k)
  <2>. SUFFICES ASSUME NEW c \in Crawlers, NEW k \in Kinds
                PROVE  Orderly(lines[c][k], worker', c, k)
    OBVIOUS
  <2>1. CASE lines[c][k] = line[c][k] /\ w \notin Range(line[c][k])
    BY <1>1, <1>2, <2>1, LineStays
  <2>2. CASE lines[c][k] = Tail(line[c][k]) /\ line[c][k] # <<>> /\ w = Head(line[c][k])
    <3>1. line[c][k] \in Seq(Workers) /\ Orderly(line[c][k], worker, c, k)
      BY <1>1
    <3>2. Orderly(Tail(line[c][k]), [worker EXCEPT ![Head(line[c][k])] = r], c, k)
      BY <1>2, <2>2, <3>1, LineAnswered
    <3>. QED  BY <2>2, <3>2
  <2>. QED  BY <2>1, <2>2 DEF Left
<1>4. \A c \in Crawlers, k \in Kinds : Signals(lines[c][k], wire'[c][k], k)
  BY <1>1, RecordTypes DEF Left, Signals
<1>5. CASE line' = lines
  BY <1>3, <1>4, <1>5, LinesAreOrderlyNext
<1>6. CASE /\ line' = [lines EXCEPT ![cw][q] = Append(@, w)] /\ r.pc \in AskPcs(q)
           /\ w \notin Range(line[cw][q])
  <2>1. lines[cw][q] = line[cw][q]
    <3>1. line[cw][q] # <<>> => Head(line[cw][q]) \in Range(line[cw][q])
      BY <1>0, <1>1 DEF Range
    <3>. QED  BY <1>0, <1>6, <3>1 DEF Left
  <2>2. Append(line[cw][q], w) \in Seq(Workers)
    BY <1>0, <1>1
  <2>3. line' \in LineType
    BY <1>6, <2>1, <2>2 DEF LineType
  <2>4. line'[cw][q] = Append(line[cw][q], w)
    BY <1>0, <1>6, <2>1 DEF LineType
  <2>5. Orderly(line'[cw][q], worker', cw, q)
    <3>1. Orderly(line[cw][q], worker, cw, q) /\ line[cw][q] \in Seq(Workers)
      BY <1>0, <1>1
    <3>2. Orderly(Append(line[cw][q], w), [worker EXCEPT ![w] = r], cw, q)
      BY <1>2, <1>6, <3>1, LineAsked
    <3>. QED  BY <2>4, <3>2
  <2>6. Signals(line'[cw][q], wire'[cw][q], q)
    BY <1>0, <1>1, <1>4, <2>4 DEF Signals
  <2>7. \A c \in Crawlers, k \in Kinds : c # cw \/ k # q => line'[c][k] = lines[c][k]
    BY <1>6 DEF LineType
  <2>. QED  BY <1>3, <1>4, <2>3, <2>5, <2>6, <2>7, LinesAreOrderlyNext
<1>. QED  BY <1>5, <1>6 DEF Queued

(* A step of worker w: where it goes, and which question it may ask.        *)
HostIff(r) == r.host = None <=> r.pc = "idle"

Goes(w, lines) ==
  \E r \in WorkerType :
    /\ worker' = [worker EXCEPT ![w] = r] /\ HostIff(r) /\ r.pc # "wait"
    /\ \/ line' = lines
       \/ \E q \in Kinds : /\ line' = Queued(lines, w, q) /\ r.pc \in AskPcs(q)
                           /\ w \notin Range(line[CrawlerOf[w]][q])

LEMMA GoesType ==
  ASSUME TypeOK, NEW w \in Workers, NEW lines \in LineType, Left(w, lines), Goes(w, lines)
  PROVE  /\ line' \in LineType /\ LinesOK'
         /\ worker' \in [Workers -> WorkerType] /\ \A v \in Workers : HostIff(worker'[v])
<1>1. PICK r \in WorkerType :
        /\ worker' = [worker EXCEPT ![w] = r] /\ HostIff(r)
        /\ \/ line' = lines
           \/ \E q \in Kinds : /\ line' = Queued(lines, w, q) /\ r.pc \in AskPcs(q)
                               /\ w \notin Range(line[CrawlerOf[w]][q])
  BY DEF Goes
<1>2. line' \in LineType /\ LinesOK'
  <2>1. CASE line' = lines
    <3>1. "slot" \in Kinds
      BY DEF Kinds
    <3>. QED  BY <1>1, <2>1, <3>1, MovesOn
  <2>2. CASE \E q \in Kinds : /\ line' = Queued(lines, w, q) /\ r.pc \in AskPcs(q)
                              /\ w \notin Range(line[CrawlerOf[w]][q])
    BY <1>1, <2>2, MovesOn
  <2>. QED  BY <1>1, <2>1, <2>2
<1>3. worker' \in [Workers -> WorkerType] /\ \A v \in Workers : HostIff(worker'[v])
  <2>1. worker \in [Workers -> WorkerType] /\ \A v \in Workers : HostIff(worker[v])
    BY DEF TypeOK, HostIff
  <2>. HIDE DEF HostIff
  <2>. QED  BY <1>1, <2>1
<1>. QED  BY <1>2, <1>3

(* The helpers of the actions, as such steps. *)
LEMMA AskSlotGoes ==
  ASSUME TypeOK, NEW w \in Workers, NEW h \in Hosts, NEW page \in BOOLEAN, NEW delay \in Nat,
         NEW lines, w \notin Range(line[CrawlerOf[w]]["slot"]),
         AskSlot(w, h, page, delay, lines)
  PROVE  Goes(w, lines)
<1>. DEFINE r == [Idle EXCEPT !.pc = "slot", !.host = h, !.page = page, !.delay = delay]
<1>1. r \in WorkerType /\ HostIff(r) /\ r.pc = "slot"
  BY LeasesAssumption DEF Idle, WorkerType, HostIff, Known
<1>2. worker' = [worker EXCEPT ![w] = r] /\ line' = Queued(lines, w, "slot")
  BY DEF AskSlot
<1>3. "slot" \in Kinds /\ "slot" \in AskPcs("slot")
  BY DEF Kinds, AskPcs
<1>. HIDE DEF r
<1>. QED  BY <1>1, <1>2, <1>3 DEF Goes

LEMMA PageDelayType ==
  ASSUME NEW w \in Workers, NEW h \in Hosts, NEW known  PROVE PageDelay(w, h, known) \in Nat
BY LeasesAssumption DEF PageDelay

LEMMA FollowGoes ==
  ASSUME TypeOK, NEW w \in Workers, NEW h \in Hosts, NEW known,
         NEW lines, w \notin Range(line[CrawlerOf[w]]["slot"]),
         Follow(w, h, known, lines)
  PROVE  Goes(w, lines)
<1>1. CASE Allows(known)
  BY <1>1, AskSlotGoes, PageDelayType DEF Follow
<1>2. CASE ~Allows(known)
  <2>1. worker' = [worker EXCEPT ![w] = Idle] /\ line' = lines
    BY <1>2 DEF Follow
  <2>2. HostIff(Idle) /\ Idle.pc # "wait"
    BY RecordTypes DEF HostIff
  <2>. QED  BY <2>1, <2>2, RecordTypes DEF Goes
<1>. QED  BY <1>1, <1>2

LEMMA HeardGoes ==
  ASSUME TypeOK, NEW w \in Workers, worker[w].pc = "recall", NEW known \in Known,
         NEW lines, Heard(w, known, lines)
  PROVE  /\ Goes(w, lines)
         /\ rules' \in [Crawlers -> [Hosts -> Known]]
<1>1. worker[w].host \in Hosts /\ worker[w] \in WorkerType
  BY DEF TypeOK, WorkerType
<1>2. w \notin Range(line[CrawlerOf[w]]["slot"])
  BY NotInLine, LeasesAssumption DEF AskPcs, Kinds
<1>3. Delay[CrawlerOf[w]] \in Nat
  BY LeasesAssumption
<1>4. Goes(w, lines)
  BY <1>1, <1>2, <1>3, AskSlotGoes, FollowGoes DEF Heard
<1>5. rules' = rules \/ rules' = [rules EXCEPT ![CrawlerOf[w]][worker[w].host] = known]
  BY DEF Heard, Inserted
<1>6. rules \in [Crawlers -> [Hosts -> Known]]
  BY DEF TypeOK
<1>. QED  BY <1>1, <1>4, <1>5, <1>6

LEMMA ReportedGoes ==
  ASSUME TypeOK, NEW w \in Workers, worker[w].pc = "report",
         NEW lines, Reported(w, lines)
  PROVE  /\ Goes(w, lines)
         /\ rules' \in [Crawlers -> [Hosts -> Known]]
<1>1. worker[w].host \in Hosts /\ worker[w] \in WorkerType
  BY DEF TypeOK, WorkerType
<1>2. w \notin Range(line[CrawlerOf[w]]["slot"])
  BY NotInLine, LeasesAssumption DEF AskPcs, Kinds
<1>4. Goes(w, lines)
  BY <1>1, <1>2, FollowGoes DEF Reported
<1>5. worker[w].known \in Known
  BY <1>1 DEF WorkerType
<1>6. rules' \in [Crawlers -> [Hosts -> Known]]
  BY <1>1, <1>5 DEF Reported, Inserted, TypeOK
<1>. QED  BY <1>4, <1>6

(* One fact per action: the types it leaves. *)
WorkersTyped == worker \in [Workers -> WorkerType] /\ \A w \in Workers : HostIff(worker[w])

WireTyped == wire \in [Crawlers -> [Kinds -> WireType]]

LinesTyped == line \in LineType /\ LinesOK

AuthorityTyped ==
  /\ nextAllowed \in [Hosts -> Nat] /\ entries \in [Hosts -> [known : Known, at : Nat]]
  /\ ledger \in [Hosts -> Seq([slot : Nat, spacing : Nat])]

PlainTyped ==
  /\ now \in Nat /\ site \in [Hosts -> Answers]
  /\ taken \in Nat /\ breaks \in Nat /\ changes \in Nat /\ cuts \in Nat

RequestsTyped ==
  /\ used \in [Hosts -> SUBSET Nat] /\ made \in [Hosts -> Nat]
  /\ before \in [Workers -> [at : Nat, spacing : Nat, host : Hosts \union {None}]]

MarksTyped ==
  looked \in [Workers -> [Hosts -> Nat]] /\ allowed \subseteq Hosts /\ fragment \subseteq Hosts

RulesTyped == rules \in [Crawlers -> [Hosts -> Known]]

LEMMA TypeParts ==
  TypeOK <=> /\ WorkersTyped /\ WireTyped /\ LinesTyped /\ AuthorityTyped
             /\ PlainTyped /\ RequestsTyped /\ MarksTyped /\ RulesTyped
BY DEF TypeOK, WorkersTyped, WireTyped, LinesTyped, AuthorityTyped, PlainTyped, RequestsTyped,
       MarksTyped, RulesTyped, LineType, HostIff

LEMMA TypePartsNext ==
  TypeOK' <=> /\ WorkersTyped' /\ WireTyped' /\ LinesTyped' /\ AuthorityTyped'
              /\ PlainTyped' /\ RequestsTyped' /\ MarksTyped' /\ RulesTyped'
BY DEF TypeOK, WorkersTyped, WireTyped, LinesTyped, AuthorityTyped, PlainTyped, RequestsTyped,
       MarksTyped, RulesTyped, LineType, HostIff

LEMMA InitTypes == Init => TypeOK
<1>. SUFFICES ASSUME Init PROVE TypeOK
  OBVIOUS
<1>1. WorkersTyped /\ WireTyped
  BY RecordTypes DEF Init, WorkersTyped, WireTyped, HostIff
<1>2. LinesTyped
  BY RecordTypes DEF Init, LinesTyped, LineType, LinesOK, IsInjective
<1>3. AuthorityTyped /\ PlainTyped
  BY DEF Init, AuthorityTyped, PlainTyped, Known
<1>4. RequestsTyped /\ MarksTyped /\ RulesTyped
  BY RecordTypes DEF Init, RequestsTyped, MarksTyped, RulesTyped, Known
<1>. QED  BY <1>1, <1>2, <1>3, <1>4, TypeParts

LEMMA EnvironmentTypes ==
  ASSUME TypeOK, \/ Tick \/ SiteChanges \/ UNCHANGED vars
  PROVE  TypeOK'
<1>1. CASE Tick
  BY <1>1 DEF Tick, TypeOK, LinesOK, Asking, authority, links, bounds, history, requests
<1>2. CASE SiteChanges
  BY <1>2 DEF SiteChanges, TypeOK, LinesOK, Asking, authority, links, bounds, history, requests
<1>3. CASE UNCHANGED vars
  BY <1>3 DEF vars, TypeOK, LinesOK, Asking, authority, links, bounds, history, requests
<1>. QED  BY <1>1, <1>2, <1>3

LEMMA BreakTypes ==
  ASSUME TypeOK, NEW c \in Crawlers, NEW k \in Kinds, Break(c, k)
  PROVE  TypeOK'
<1>1. line \in [Crawlers -> [Kinds -> Seq(Workers)]] /\ wire \in [Crawlers -> [Kinds -> WireType]]
  BY DEF TypeOK
<1>2. /\ line' = [line EXCEPT ![c][k] = <<>>] /\ wire' = [wire EXCEPT ![c][k] = Down]
      /\ worker' = worker
  BY DEF Break
<1>3. <<>> \in Seq(Workers) /\ Orderly(<<>>, worker, c, k) /\ Signals(<<>>, Down, k)
  BY RecordTypes DEF Orderly, Signals, IsInjective
<1>4. /\ line' \in LineType /\ line'[c][k] = <<>>
      /\ \A d \in Crawlers, q \in Kinds : d # c \/ q # k => line'[d][q] = line[d][q]
  BY <1>1, <1>2, <1>3, SetPlace DEF LineType
<1>5. /\ WireTyped' /\ wire'[c][k] = Down
      /\ \A d \in Crawlers, q \in Kinds : d # c \/ q # k => wire'[d][q] = wire[d][q]
  BY <1>1, <1>2, RecordTypes, SetPlace DEF WireTyped
<1>6. LinesTyped'
  BY <1>2, <1>3, <1>4, <1>5, LinesAreOrderly, LinesAreOrderlyNext DEF LinesTyped, TypeOK
<1>. QED  BY <1>5, <1>6, TypeParts, TypePartsNext
          DEF Break, WorkersTyped, AuthorityTyped, PlainTyped, RequestsTyped, MarksTyped,
              RulesTyped, authority, history, requests

(* The head of a line, and its host, as the task of the link finds them. *)
LEMMA HeadAsks ==
  ASSUME TypeOK, NEW c \in Crawlers, NEW k \in Kinds, line[c][k] # <<>>,
         NEW w, w = Head(line[c][k])
  PROVE  /\ w \in Workers /\ CrawlerOf[w] = c /\ worker[w].pc \in AskPcs(k)
         /\ worker[w] \in WorkerType /\ worker[w].host \in Hosts
<1>1. w \in Workers /\ CrawlerOf[w] = c /\ worker[w].pc \in AskPcs(k)
  <2>1. line[c][k] \in Seq(Workers) /\ Orderly(line[c][k], worker, c, k)
    BY LinesAreOrderly DEF TypeOK
  <2>2. w \in Workers /\ w = line[c][k][1] /\ 1 \in DOMAIN line[c][k]
    BY <2>1
  <2>. QED  BY <2>1, <2>2 DEF Orderly
<1>2. worker[w].pc # "idle"
  BY <1>1 DEF AskPcs
<1>3. worker[w] \in WorkerType /\ HostIff(worker[w])
  BY <1>1, TypeParts DEF WorkersTyped
<1>4. worker[w].host \in Hosts
  BY <1>2, <1>3 DEF WorkerType, HostIff
<1>. QED  BY <1>1, <1>3, <1>4

(* The task puts an answer on its connection: nobody's place changes. *)
LEMMA AnswerTypes ==
  ASSUME TypeOK, NEW c \in Crawlers, NEW k \in Kinds, line[c][k] # <<>>,
         NEW answer \in WireType, answer.pc = (IF k = "slot" THEN "lease" ELSE "known"),
         wire' = [wire EXCEPT ![c][k] = answer], line' = line, worker' = worker
  PROVE  WireTyped' /\ LinesTyped' /\ WorkersTyped'
<1>1. wire \in [Crawlers -> [Kinds -> WireType]]
  BY DEF TypeOK
<1>2. /\ WireTyped' /\ wire'[c][k] = answer
      /\ \A d \in Crawlers, q \in Kinds : d # c \/ q # k => wire'[d][q] = wire[d][q]
  BY <1>1, SetPlace DEF WireTyped
<1>3. Signals(line[c][k], answer, k)
  BY DEF Signals
<1>4. LinesTyped'
  BY <1>2, <1>3, TypeParts, LinesAreOrderly, LinesAreOrderlyNext DEF LinesTyped
<1>. QED  BY <1>2, <1>4, TypeParts DEF WorkersTyped

(* What a grant comes to. *)
Granted(c, w, h, slot, spacing, answer) ==
  /\ w = Head(line[c]["slot"]) /\ h = worker[w].host
  /\ slot >= now /\ slot >= nextAllowed[h] /\ spacing >= Floor
  /\ nextAllowed' = [nextAllowed EXCEPT ![h] = slot + spacing]
  /\ ledger' = [ledger EXCEPT ![h] = Append(@, [slot |-> slot, spacing |-> spacing])]
  /\ wire' = [wire EXCEPT ![c]["slot"] = answer]
  /\ answer.pc = "lease" /\ now + answer.wait >= slot /\ answer.ticket = Len(ledger[h]) + 1

LEMMA GrantFacts ==
  ASSUME TypeOK, NEW c \in Crawlers, Grant(c)
  PROVE  \E w \in Workers, h \in Hosts, slot \in Nat, spacing \in Nat, answer \in WireType :
           Granted(c, w, h, slot, spacing, answer)
<1>1. PICK w : w = Head(line[c]["slot"])
  OBVIOUS
<1>2. PICK h : h = worker[w].host
  OBVIOUS
<1>3. PICK spacing : spacing = Spacing(WireDown(worker[w].delay))
  OBVIOUS
<1>4. PICK slot : slot = Larger(nextAllowed[h], now)
  OBVIOUS
<1>5. PICK wait : wait = WireUp(slot - now)
  OBVIOUS
<1>6. PICK answer : answer = [pc |-> "lease", wait |-> wait,
                               ticket |-> Len(ledger[h]) + 1, known |-> "unknown"]
  OBVIOUS
<1>7. w \in Workers /\ h \in Hosts /\ worker[w] \in WorkerType
  <2>1. "slot" \in Kinds /\ line[c]["slot"] # <<>>
    BY DEF Grant, Kinds
  <2>. QED  BY <1>1, <1>2, <2>1, HeadAsks
<1>8. spacing \in Nat /\ spacing >= Floor
  <2>1. worker[w].delay \in Nat
    BY <1>7 DEF WorkerType
  <2>. QED  BY <1>3, <2>1, WireDownFacts, SpacingFacts
<1>9. nextAllowed[h] \in Nat /\ now \in Nat /\ Len(ledger[h]) \in Nat
  BY <1>7 DEF TypeOK
<1>10. slot \in Nat /\ slot >= now /\ slot >= nextAllowed[h] /\ slot - now \in Nat
  BY <1>4, <1>9 DEF Larger
<1>11. wait \in Nat /\ now + wait >= slot
  <2>1. wait \in Nat /\ wait >= slot - now
    BY <1>5, <1>10, WireUpFacts
  <2>. QED  BY <1>9, <1>10, <2>1
<1>12. /\ answer \in WireType /\ answer.pc = "lease" /\ answer.wait = wait
       /\ answer.ticket = Len(ledger[h]) + 1
  BY <1>6, <1>9, <1>11 DEF WireType, Known
<1>13. /\ nextAllowed' = [nextAllowed EXCEPT ![h] = slot + spacing]
       /\ ledger' = [ledger EXCEPT ![h] = Append(@, [slot |-> slot, spacing |-> spacing])]
       /\ wire' = [wire EXCEPT ![c]["slot"] = answer]
  <2>. DEFINE W == Head(line[c]["slot"])  H == worker[W].host
              S == Larger(nextAllowed[H], now)  P == Spacing(WireDown(worker[W].delay))
  <2>1. /\ nextAllowed' = [nextAllowed EXCEPT ![H] = S + P]
        /\ ledger' = [ledger EXCEPT ![H] = Append(ledger[H], [slot |-> S, spacing |-> P])]
        /\ wire' = [wire EXCEPT ![c]["slot"] =
                      [pc |-> "lease", wait |-> WireUp(S - now),
                       ticket |-> Len(ledger[H]) + 1, known |-> "unknown"]]
    BY DEF Grant, Reserved
  <2>2. W = w /\ H = h /\ S = slot /\ P = spacing
    BY <1>1, <1>2, <1>3, <1>4
  <2>. HIDE DEF W, H, S, P
  <2>. QED  BY <1>5, <1>6, <2>1, <2>2
<1>14. Granted(c, w, h, slot, spacing, answer)
  BY <1>1, <1>2, <1>8, <1>10, <1>11, <1>12, <1>13 DEF Granted
<1>. QED  BY <1>7, <1>8, <1>10, <1>12, <1>14

LEMMA GrantTypes ==
  ASSUME TypeOK, NEW c \in Crawlers, Grant(c)
  PROVE  TypeOK'
<1>1. PICK w \in Workers, h \in Hosts, slot \in Nat, spacing \in Nat, answer \in WireType :
        Granted(c, w, h, slot, spacing, answer)
  BY GrantFacts
<1>2. AuthorityTyped'
  <2>1. [slot |-> slot, spacing |-> spacing] \in [slot : Nat, spacing : Nat]
    OBVIOUS
  <2>2. entries' = entries
    BY Zenon DEF Grant
  <2>. slot + spacing \in Nat
    OBVIOUS
  <2>3. /\ nextAllowed' = [nextAllowed EXCEPT ![h] = slot + spacing]
        /\ ledger' = [ledger EXCEPT ![h] = Append(ledger[h], [slot |-> slot, spacing |-> spacing])]
    BY <1>1 DEF Granted
  <2>4. AuthorityTyped
    BY TypeParts
  <2>5. Append(ledger[h], [slot |-> slot, spacing |-> spacing]) \in Seq([slot : Nat, spacing : Nat])
    BY <2>1, <2>4 DEF AuthorityTyped
  <2>. QED  BY <2>2, <2>3, <2>4, <2>5 DEF AuthorityTyped
<1>3. WireTyped' /\ LinesTyped' /\ WorkersTyped'
  <2>1. line' = line /\ worker' = worker /\ line[c]["slot"] # <<>> /\ "slot" \in Kinds
    BY DEF Grant, Kinds
  <2>. QED  BY <1>1, <2>1, AnswerTypes DEF Granted
<1>. QED  BY <1>2, <1>3, TypeParts, TypePartsNext
          DEF Grant, bounds, requests, PlainTyped, RequestsTyped, MarksTyped, RulesTyped

LEMMA RecallTypes ==
  ASSUME TypeOK, NEW c \in Crawlers, Recall(c)
  PROVE  TypeOK'
<1>1. PICK w : w = Head(line[c]["robots"])
  OBVIOUS
<1>2. PICK cache : cache = IF worker[w].pc = "report"
                             THEN [entries EXCEPT ![worker[w].host] =
                                     [known |-> worker[w].known, at |-> now]]
                             ELSE entries
  OBVIOUS
<1>3. PICK known : known = Recalled(cache, worker[w].host)
  OBVIOUS
<1>4. PICK answer : answer = [pc |-> "known", wait |-> 0, ticket |-> 0, known |-> known]
  OBVIOUS
<1>5. entries' = cache /\ wire' = [wire EXCEPT ![c]["robots"] = answer]
  BY <1>1, <1>2, <1>3, <1>4 DEF Recall
<1>6. "robots" \in Kinds /\ line[c]["robots"] # <<>> /\ line' = line /\ worker' = worker
  BY DEF Recall, Kinds
<1>7. worker[w].host \in Hosts /\ worker[w].known \in Known /\ now \in Nat
  <2>1. worker[w] \in WorkerType /\ worker[w].host \in Hosts
    BY <1>1, <1>6, HeadAsks
  <2>2. worker[w].known \in Known
    BY <2>1 DEF WorkerType
  <2>. QED  BY <2>1, <2>2 DEF TypeOK
<1>8. cache \in [Hosts -> [known : Known, at : Nat]]
  <2>1. [known |-> worker[w].known, at |-> now] \in [known : Known, at : Nat]
    BY <1>7
  <2>2. entries \in [Hosts -> [known : Known, at : Nat]]
    BY DEF TypeOK
  <2>. QED  BY <1>2, <1>7, <2>1, <2>2
<1>9. known \in Known
  BY <1>3, <1>7, <1>8 DEF Recalled, Known
<1>10. answer \in WireType /\ answer.pc = "known"
  BY <1>4, <1>9 DEF WireType
<1>11. WireTyped' /\ LinesTyped' /\ WorkersTyped'
  BY <1>5, <1>6, <1>10, AnswerTypes
<1>. QED  BY <1>5, <1>8, <1>11, TypeParts, TypePartsNext
          DEF Recall, bounds, history, requests, AuthorityTyped, PlainTyped, RequestsTyped,
              MarksTyped, RulesTyped

(* A delivered answer empties its connection. *)
LEMMA DeliveredWire ==
  ASSUME TypeOK, NEW c \in Crawlers, NEW k \in Kinds, wire' = [wire EXCEPT ![c][k] = Ready]
  PROVE  WireTyped'
BY RecordTypes DEF TypeOK, WireTyped

LEMMA DeliverKnownGoes ==
  ASSUME TypeOK, NEW c \in Crawlers, DeliverKnown(c)
  PROVE  /\ \E w \in Workers, lines \in LineType :
              /\ Left(w, lines) /\ Goes(w, lines)
              /\ w = Head(line[c]["robots"]) /\ worker[w].pc \in {"recall", "report"}
              /\ IF worker[w].pc = "recall"
                   THEN Heard(w, wire[c]["robots"].known, lines) ELSE Reported(w, lines)
         /\ RulesTyped' /\ WireTyped'
<1>. DEFINE w == Head(line[c]["robots"])  lines == Answered(w, "robots")
<1>1. /\ wire' = [wire EXCEPT ![c]["robots"] = Ready]
      /\ IF worker[w].pc = "recall"
            THEN Heard(w, wire[c]["robots"].known, lines) ELSE Reported(w, lines)
  BY DEF DeliverKnown
<1>2. "robots" \in Kinds /\ line[c]["robots"] # <<>> /\ wire[c]["robots"].known \in Known
  BY LinesAreOrderly DEF DeliverKnown, Kinds, TypeOK, Signals, WireType
<1>3. /\ w \in Workers /\ lines \in LineType /\ Left(w, lines)
      /\ worker[w].pc \in {"recall", "report"}
  BY <1>1, <1>2, LeftOne DEF AskPcs
<1>0. w = Head(line[c]["robots"])
  OBVIOUS
<1>. HIDE DEF w, lines
<1>4. Goes(w, lines) /\ RulesTyped'
  BY <1>1, <1>2, <1>3, HeardGoes, ReportedGoes DEF RulesTyped
<1>5. WireTyped'
  BY <1>1, <1>2, DeliveredWire
<1>. QED  BY <1>0, <1>1, <1>3, <1>4, <1>5

LEMMA DeliverKnownTypes ==
  ASSUME TypeOK, NEW c \in Crawlers, DeliverKnown(c)
  PROVE  TypeOK'
<1>1. PICK w \in Workers, lines \in LineType : Left(w, lines) /\ Goes(w, lines)
  BY DeliverKnownGoes
<1>2. LinesTyped' /\ WorkersTyped'
  BY <1>1, GoesType DEF LinesTyped, WorkersTyped, LinesOK, LineType, HostIff
<1>. QED  BY <1>2, DeliverKnownGoes, TypeParts, TypePartsNext
          DEF DeliverKnown, authority, bounds, history, requests, AuthorityTyped, PlainTyped,
              RequestsTyped, MarksTyped

(* A worker that waits keeps its host. *)
LEMMA WaitingType ==
  ASSUME TypeOK, NEW w \in Workers, worker[w].pc = "slot", NEW at \in Nat, NEW ticket \in Nat
  PROVE  /\ Waiting(w, at, ticket) \in WorkerType /\ HostIff(Waiting(w, at, ticket))
         /\ Waiting(w, at, ticket).pc = "wait" /\ Waiting(w, at, ticket).at = at
         /\ Waiting(w, at, ticket).ticket = ticket
         /\ Waiting(w, at, ticket).host = worker[w].host
<1>1. PICK b : b = worker[w]
  OBVIOUS
<1>2. b \in WorkerType /\ HostIff(b) /\ b.pc = "slot"
  BY <1>1 DEF TypeOK, HostIff
<1>3. PICK r : r = Waiting(w, at, ticket)
  OBVIOUS
<1>4. r = [b EXCEPT !.pc = "wait", !.at = at, !.ticket = ticket]
  BY <1>1, <1>3 DEF Waiting
<1>5. r \in WorkerType /\ r.pc = "wait" /\ r.at = at /\ r.ticket = ticket /\ r.host = b.host
  BY <1>2, <1>4 DEF WorkerType
<1>6. HostIff(r)
  BY <1>2, <1>5 DEF HostIff
<1>. QED  BY <1>1, <1>3, <1>5, <1>6

LEMMA LeaseReady ==
  ASSUME TypeOK, NEW c \in Crawlers, wire[c]["slot"].pc = "lease"
  PROVE  /\ "slot" \in Kinds /\ line[c]["slot"] # <<>>
         /\ now + wire[c]["slot"].wait \in Nat /\ wire[c]["slot"].ticket \in Nat
BY LinesAreOrderly DEF Kinds, TypeOK, Signals, WireType

LEMMA DeliverLeaseTypes ==
  ASSUME TypeOK, NEW c \in Crawlers, DeliverLease(c)
  PROVE  TypeOK'
<1>. DEFINE w == Head(line[c]["slot"])  lines == Answered(w, "slot")
            r == Waiting(w, now + wire[c]["slot"].wait, wire[c]["slot"].ticket)
<1>1. /\ wire' = [wire EXCEPT ![c]["slot"] = Ready]
      /\ worker' = [worker EXCEPT ![w] = r] /\ line' = lines
  BY DEF DeliverLease
<1>2. /\ "slot" \in Kinds /\ line[c]["slot"] # <<>>
      /\ now + wire[c]["slot"].wait \in Nat /\ wire[c]["slot"].ticket \in Nat
  BY LeaseReady DEF DeliverLease
<1>3. w \in Workers /\ lines \in LineType /\ Left(w, lines) /\ worker[w].pc = "slot"
  BY <1>1, <1>2, LeftOne DEF AskPcs
<1>. HIDE DEF w, lines
<1>4. r \in WorkerType /\ HostIff(r)
  BY <1>2, <1>3, WaitingType
<1>. HIDE DEF r
<1>5. line' \in LineType /\ LinesOK'
  BY <1>1, <1>2, <1>3, <1>4, MovesOn
<1>6. WorkersTyped'
  <2>1. WorkersTyped
    BY TypeParts
  <2>. QED  BY <1>1, <1>3, <1>4, <2>1 DEF WorkersTyped
<1>7. WireTyped'
  BY <1>1, <1>2, DeliveredWire
<1>. QED  BY <1>5, <1>6, <1>7, TypeParts, TypePartsNext
          DEF DeliverLease, authority, bounds, history, requests, AuthorityTyped, PlainTyped,
              RequestsTyped, MarksTyped, RulesTyped, LinesTyped

(* A worker whose answer will not come: it is in no line. *)
LEMMA DroppedLeft ==
  ASSUME TypeOK, NEW w \in Workers, NEW k \in Kinds, Dropped(w, k), wire' = wire
  PROVE  Left(w, line) /\ worker[w].pc \in AskPcs(k)
<1>1. worker[w].pc \in AskPcs(k) /\ w \notin Range(line[CrawlerOf[w]][k])
  BY DEF Dropped, Asking, AskPcs
<1>2. \A q \in Kinds : q # k => worker[w].pc \notin AskPcs(q)
  BY <1>1 DEF AskPcs, Kinds
<1>3. \A q \in Kinds : w \notin Range(line[CrawlerOf[w]][q])
  BY <1>1, <1>2, NotInLine, LeasesAssumption
<1>. QED  BY <1>1, <1>3, LeftNone

(* So is one that waits for its moment, or for a URL. *)
LEMMA QuietLeft ==
  ASSUME TypeOK, NEW w \in Workers, worker[w].pc \in {"idle", "wait"}, wire' = wire
  PROVE  Left(w, line) /\ \A q \in Kinds : w \notin Range(line[CrawlerOf[w]][q])
<1>1. \A q \in Kinds : worker[w].pc \notin AskPcs(q)
  BY DEF AskPcs
<1>2. \A q \in Kinds : w \notin Range(line[CrawlerOf[w]][q])
  BY <1>1, NotInLine, LeasesAssumption
<1>. QED  BY <1>2, LeftNone

LEMMA LineIsTyped == TypeOK => line \in LineType
BY DEF TypeOK, LineType

LEMMA KnowNothingGoes ==
  ASSUME TypeOK, NEW w \in Workers, KnowNothing(w)
  PROVE  Left(w, line) /\ Goes(w, line) /\ RulesTyped'
<1>1. /\ Dropped(w, "robots") /\ wire' = wire
      /\ IF worker[w].pc = "recall" THEN Heard(w, "unknown", line) ELSE Reported(w, line)
  BY DEF KnowNothing
<1>2. "robots" \in Kinds /\ "unknown" \in Known
  BY DEF Kinds, Known
<1>3. Left(w, line) /\ worker[w].pc \in {"recall", "report"}
  BY <1>1, <1>2, DroppedLeft DEF AskPcs
<1>4. Goes(w, line) /\ RulesTyped'
  BY <1>1, <1>2, <1>3, HeardGoes, ReportedGoes DEF RulesTyped
<1>. QED  BY <1>3, <1>4

LEMMA KnowNothingTypes ==
  ASSUME TypeOK, NEW w \in Workers, KnowNothing(w)
  PROVE  TypeOK'
<1>1. Left(w, line) /\ Goes(w, line) /\ RulesTyped'
  BY KnowNothingGoes
<1>2. LinesTyped' /\ WorkersTyped'
  BY <1>1, GoesType, LineIsTyped DEF LinesTyped, WorkersTyped, LinesOK, LineType, HostIff
<1>. QED  BY <1>1, <1>2, TypeParts, TypePartsNext
          DEF KnowNothing, authority, bounds, history, requests, WireTyped, AuthorityTyped,
              PlainTyped, RequestsTyped, MarksTyped

LEMMA FallBackTypes ==
  ASSUME TypeOK, NEW w \in Workers, FallBack(w)
  PROVE  TypeOK'
<1>1. PICK r : r = Waiting(w, now, 0)
  OBVIOUS
<1>2. /\ Dropped(w, "slot") /\ line' = line /\ wire' = wire
      /\ worker' = [worker EXCEPT ![w] = r]
  BY <1>1 DEF FallBack, links
<1>3. "slot" \in Kinds /\ now \in Nat /\ 0 \in Nat
  BY DEF Kinds, TypeOK
<1>4. Left(w, line) /\ worker[w].pc = "slot"
  BY <1>2, <1>3, DroppedLeft DEF AskPcs
<1>5. r \in WorkerType /\ HostIff(r)
  BY <1>1, <1>3, <1>4, WaitingType
<1>6. line' \in LineType /\ LinesOK'
  BY <1>2, <1>3, <1>4, <1>5, MovesOn, LineIsTyped
<1>7. WorkersTyped'
  BY <1>2, <1>5, TypeParts DEF WorkersTyped
<1>. QED  BY <1>2, <1>6, <1>7, TypeParts, TypePartsNext
          DEF FallBack, authority, bounds, history, requests, WireTyped, AuthorityTyped,
              PlainTyped, RequestsTyped, MarksTyped, RulesTyped, LinesTyped

LEMMA RequestTypes ==
  ASSUME TypeOK, NEW w \in Workers, worker[w].pc = "wait", Request(w)
  PROVE  RequestsTyped'
<1>1. /\ worker[w] \in WorkerType /\ worker[w].host \in Hosts
      /\ worker[w].ticket \in Nat /\ worker[w].delay \in Nat /\ now \in Nat
  BY DEF TypeOK, WorkerType
<1>2. /\ used \in [Hosts -> SUBSET Nat] /\ made \in [Hosts -> Nat]
      /\ before \in [Workers -> [at : Nat, spacing : Nat, host : Hosts \union {None}]]
  BY DEF TypeOK
<1>3. CASE worker[w].ticket = 0
  <2>1. /\ used' = used /\ made' = made
        /\ before' = [before EXCEPT ![w] = [at |-> now, spacing |-> worker[w].delay,
                                            host |-> worker[w].host]]
    BY <1>3 DEF Request
  <2>2. [at |-> now, spacing |-> worker[w].delay, host |-> worker[w].host]
          \in [at : Nat, spacing : Nat, host : Hosts \union {None}]
    BY <1>1
  <2>. QED  BY <1>2, <2>1, <2>2 DEF RequestsTyped
<1>4. CASE worker[w].ticket # 0
  <2>1. /\ used' = [used EXCEPT ![worker[w].host] = @ \union {worker[w].ticket}]
        /\ made' = [made EXCEPT ![worker[w].host] = @ + 1]
        /\ before' = [before EXCEPT ![w] = Never]
    BY <1>4 DEF Request
  <2>2. used[worker[w].host] \union {worker[w].ticket} \in SUBSET Nat
    BY <1>1, <1>2
  <2>3. used' \in [Hosts -> SUBSET Nat]
    BY <1>2, <2>1, <2>2
  <2>4. made' \in [Hosts -> Nat]
    BY <1>1, <1>2, <2>1
  <2>5. before' \in [Workers -> [at : Nat, spacing : Nat, host : Hosts \union {None}]]
    BY <1>2, <2>1, RecordTypes
  <2>. QED  BY <2>3, <2>4, <2>5 DEF RequestsTyped
<1>. QED  BY <1>3, <1>4

LEMMA FetchRobotsReports ==
  ASSUME TypeOK, NEW w \in Workers, FetchRobots(w)
  PROVE  /\ worker[w].host \in Hosts
         /\ \E r \in WorkerType :
              worker' = [worker EXCEPT ![w] = r] /\ HostIff(r) /\ r.pc = "report"
<1>2. worker[w].host \in Hosts /\ site[worker[w].host] \in Known
  <2>1. worker[w].host \in Hosts
    BY DEF FetchRobots, Turn, TypeOK, WorkerType
  <2>. QED  BY <2>1, LeasesAssumption DEF TypeOK
<1>3. PICK k \in Known :
        worker' = [worker EXCEPT ![w] =
                     [Idle EXCEPT !.pc = "report", !.host = worker[w].host, !.known = k]]
  BY <1>2 DEF FetchRobots, Known
<1>4. \E r \in WorkerType : worker' = [worker EXCEPT ![w] = r] /\ HostIff(r) /\ r.pc = "report"
  <2>2. PICK r : r = [Idle EXCEPT !.pc = "report", !.host = worker[w].host, !.known = k]
    OBVIOUS
  <2>3. r \in WorkerType /\ HostIff(r) /\ r.pc = "report"
    BY <1>2, <2>2, LeasesAssumption DEF Idle, WorkerType, HostIff
  <2>. QED  BY <1>3, <2>2, <2>3
<1>. QED  BY <1>2, <1>4

LEMMA FetchRobotsTypes ==
  ASSUME TypeOK, NEW w \in Workers, FetchRobots(w)
  PROVE  TypeOK'
<1>1. /\ worker[w].pc = "wait" /\ Request(w) /\ wire' = wire
      /\ line' = Queued(line, w, "robots")
      /\ looked' = [looked EXCEPT ![w][worker[w].host] = @ + 1]
  BY DEF FetchRobots, Turn
<1>2. worker[w].host \in Hosts
  BY FetchRobotsReports
<1>4. PICK r \in WorkerType : worker' = [worker EXCEPT ![w] = r] /\ HostIff(r) /\ r.pc = "report"
  BY FetchRobotsReports
<1>5. "robots" \in Kinds /\ r.pc \in AskPcs("robots")
  BY <1>4 DEF Kinds, AskPcs
<1>6. Left(w, line) /\ w \notin Range(line[CrawlerOf[w]]["robots"])
  BY <1>1, <1>5, QuietLeft
<1>7. line' \in LineType /\ LinesOK'
  BY <1>1, <1>4, <1>5, <1>6, MovesOn, LineIsTyped
<1>8. WorkersTyped'
  BY <1>4, TypeParts DEF WorkersTyped
<1>9. RequestsTyped'
  BY <1>1, RequestTypes
<1>10. MarksTyped'
  <2>1. looked' \in [Workers -> [Hosts -> Nat]]
    BY <1>1, <1>2 DEF TypeOK
  <2>2. allowed' \subseteq Hosts /\ fragment' \subseteq Hosts
    BY <1>2 DEF FetchRobots, TypeOK
  <2>. QED  BY <2>1, <2>2 DEF MarksTyped
<1>11. cuts' \in Nat
  BY DEF FetchRobots, TypeOK
<1>. QED  BY <1>1, <1>7, <1>8, <1>9, <1>10, <1>11, TypeParts, TypePartsNext
          DEF FetchRobots, authority, WireTyped, AuthorityTyped, PlainTyped, RulesTyped, LinesTyped

LEMMA FetchPageTypes ==
  ASSUME TypeOK, NEW w \in Workers, FetchPage(w)
  PROVE  TypeOK'
<1>1. /\ worker[w].pc = "wait" /\ Request(w) /\ wire' = wire /\ line' = line
      /\ worker' = [worker EXCEPT ![w] = Idle]
  BY DEF FetchPage, Turn, links
<1>2. "robots" \in Kinds /\ HostIff(Idle) /\ Idle \in WorkerType
  BY RecordTypes DEF Kinds, HostIff
<1>3. Left(w, line)
  BY <1>1, QuietLeft
<1>4. line' \in LineType /\ LinesOK'
  BY <1>1, <1>2, <1>3, MovesOn, LineIsTyped
<1>5. WorkersTyped'
  BY <1>1, <1>2, TypeParts DEF WorkersTyped
<1>6. RequestsTyped'
  BY <1>1, RequestTypes
<1>. QED  BY <1>1, <1>4, <1>5, <1>6, TypeParts, TypePartsNext
          DEF FetchPage, authority, bounds, WireTyped, AuthorityTyped, PlainTyped, RulesTyped,
              LinesTyped, MarksTyped

LEMMA TakeGoes ==
  ASSUME TypeOK, NEW w \in Workers, NEW h \in Hosts, Take(w, h)
  PROVE  Left(w, line) /\ Goes(w, line)
<1>1. worker[w].pc = "idle" /\ wire' = wire
  BY RecordTypes DEF Take
<1>2. Left(w, line) /\ \A q \in Kinds : w \notin Range(line[CrawlerOf[w]][q])
  BY <1>1, QuietLeft
<1>3. "slot" \in Kinds /\ "robots" \in Kinds
  BY DEF Kinds
<1>4. Goes(w, line)
  <2>1. CASE rules[CrawlerOf[w]][h] # "unknown"
    <3>1. Follow(w, h, rules[CrawlerOf[w]][h], line)
      BY <2>1 DEF Take
    <3>. QED  BY <1>2, <1>3, <3>1, FollowGoes
  <2>2. CASE rules[CrawlerOf[w]][h] = "unknown"
    <3>1. PICK r : r = [Idle EXCEPT !.pc = "recall", !.host = h]
      OBVIOUS
    <3>2. worker' = [worker EXCEPT ![w] = r] /\ line' = Queued(line, w, "robots")
      BY <2>2, <3>1 DEF Take
    <3>3. r \in WorkerType /\ HostIff(r) /\ r.pc = "recall" /\ r.pc \in AskPcs("robots")
      BY <3>1, LeasesAssumption DEF Idle, WorkerType, HostIff, Known, AskPcs
    <3>. QED  BY <1>2, <1>3, <3>2, <3>3 DEF Goes
  <2>. QED  BY <2>1, <2>2
<1>. QED  BY <1>2, <1>4

LEMMA TakeTypes ==
  ASSUME TypeOK, NEW w \in Workers, NEW h \in Hosts, Take(w, h)
  PROVE  TypeOK'
<1>1. LinesTyped' /\ WorkersTyped'
  BY TakeGoes, GoesType, LineIsTyped DEF LinesTyped, WorkersTyped, LinesOK, LineType, HostIff
<1>2. taken' \in Nat
  BY DEF Take, TypeOK
<1>. QED  BY <1>1, <1>2, TypeParts, TypePartsNext
          DEF Take, authority, history, requests, WireTyped, AuthorityTyped, PlainTyped,
              RequestsTyped, MarksTyped, RulesTyped

LEMMA NextTypes == TypeOK /\ [Next]_vars => TypeOK'
BY EnvironmentTypes, BreakTypes, GrantTypes, RecallTypes, DeliverKnownTypes, DeliverLeaseTypes,
   KnowNothingTypes, FallBackTypes, FetchRobotsTypes, FetchPageTypes, TakeTypes
   DEF Next, LinkStep, WorkerStep

(* Whoever stands in a line waits for that line's answer and stands there   *)
(* once, however links break and workers go on: the type invariant.         *)
THEOREM LeasesTypeCorrect == Spec => []TypeOK
BY InitTypes, NextTypes, PTL DEF Spec

-----------------------------------------------------------------------------
(* Slots and tickets. *)

Slot(h, i)    == ledger[h][i].slot
Spaced(h, i)  == ledger[h][i].slot + ledger[h][i].spacing

(* What the authority has granted lies before what it grants next, and the  *)
(* n-th slot is no earlier than the floor makes it.                         *)
LedgerInv ==
  \A h \in Hosts :
    /\ \A i \in DOMAIN ledger[h] :
         /\ ledger[h][i].spacing >= Floor
         /\ Spaced(h, i) <= nextAllowed[h]
         /\ Slot(h, 1) + (i - 1) * Floor <= Slot(h, i)
    /\ \A i, j \in DOMAIN ledger[h] : i < j => Spaced(h, i) <= Slot(h, j)

(* A lease on the connection is that of the worker whose question it answers;*)
(* one that waits has its own.                                              *)
HasLease(w) == /\ wire[CrawlerOf[w]]["slot"].pc = "lease"
               /\ w = Head(line[CrawlerOf[w]]["slot"])

Holding(w) == IF HasLease(w) THEN wire[CrawlerOf[w]]["slot"].ticket
              ELSE IF worker[w].pc = "wait" THEN worker[w].ticket ELSE 0

Moment(w) == IF HasLease(w) THEN now + wire[CrawlerOf[w]]["slot"].wait ELSE worker[w].at

(* A ticket somebody holds was granted, was not used, and is due no later    *)
(* than its holder will use it; nobody else holds it.                       *)
Good(w) ==
  Holding(w) # 0 =>
    /\ Holding(w) \in DOMAIN ledger[worker[w].host]
    /\ Holding(w) \notin used[worker[w].host]
    /\ Slot(worker[w].host, Holding(w)) <= Moment(w)

Apart(v, w) == Holding(v) # 0 /\ Holding(v) = Holding(w) => worker[v].host # worker[w].host

HeldInv ==
  /\ \A w \in Workers : Good(w)
  /\ \A v, w \in Workers : v # w => Apart(v, w)

(* Every request with a ticket had one of its own, whose slot had come.     *)
UsedInv ==
  \A h \in Hosts :
    /\ used[h] \subseteq DOMAIN ledger[h] /\ IsFiniteSet(used[h])
    /\ \A t \in used[h] : Slot(h, t) <= now
    /\ made[h] = Cardinality(used[h])

LEMMA SlotTypes ==
  ASSUME TypeOK, NEW h \in Hosts
  PROVE  /\ DOMAIN ledger[h] = 1..Len(ledger[h]) /\ Len(ledger[h]) \in Nat
         /\ \A i \in DOMAIN ledger[h] :
              Slot(h, i) \in Nat /\ ledger[h][i].spacing \in Nat /\ Spaced(h, i) \in Nat
<1>1. ledger[h] \in Seq([slot : Nat, spacing : Nat])
  BY DEF TypeOK
<1>2. /\ DOMAIN ledger[h] = 1..Len(ledger[h]) /\ Len(ledger[h]) \in Nat
      /\ \A i \in DOMAIN ledger[h] : ledger[h][i] \in [slot : Nat, spacing : Nat]
  BY <1>1, SeqFacts
<1>. QED  BY <1>2 DEF Slot, Spaced

LEMMA HoldingTypes ==
  ASSUME TypeOK, NEW w \in Workers
  PROVE  Holding(w) \in Nat /\ Moment(w) \in Nat
<1>1. /\ wire[CrawlerOf[w]]["slot"] \in WireType /\ worker[w] \in WorkerType /\ now \in Nat
  BY LeasesAssumption DEF TypeOK, Kinds
<1>. QED  BY <1>1 DEF Holding, Moment, WireType, WorkerType

LEMMA MomentNext ==
  ASSUME TypeOK', NEW w \in Workers
  PROVE  Moment(w)' \in Nat
<1>1. /\ wire'[CrawlerOf[w]]["slot"] \in WireType /\ worker'[w] \in WorkerType /\ now' \in Nat
  BY LeasesAssumption DEF TypeOK, Kinds
<1>. QED  BY <1>1 DEF Moment, WireType, WorkerType

(* Who has a lease on the connection asked for it. *)
LEMMA LeaseAsked ==
  ASSUME TypeOK, NEW w \in Workers, HasLease(w)
  PROVE  /\ line[CrawlerOf[w]]["slot"] # <<>> /\ worker[w].pc = "slot"
         /\ worker[w].host \in Hosts
<1>1. CrawlerOf[w] \in Crawlers /\ "slot" \in Kinds
  BY LeasesAssumption DEF Kinds
<1>2. line[CrawlerOf[w]]["slot"] # <<>>
  BY <1>1, LinesAreOrderly DEF TypeOK, Signals, HasLease
<1>. QED  BY <1>1, <1>2, HeadAsks DEF HasLease, AskPcs

(* The step of one worker leaves what the others hold alone, and takes it   *)
(* off the connection if its answer was there.                              *)
LEMMA OthersKeep ==
  ASSUME TypeOK, NEW w \in Workers, NEW r, worker' = [worker EXCEPT ![w] = r], now' = now,
         NEW lines \in LineType, Left(w, lines),
         line' = lines \/ \E q \in Kinds : line' = Queued(lines, w, q)
  PROVE  /\ \A v \in Workers \ {w} : /\ Holding(v)' = Holding(v) /\ Moment(v)' = Moment(v)
                                      /\ worker'[v] = worker[v]
         /\ Holding(w)' = (IF r.pc = "wait" THEN r.ticket ELSE 0)
         /\ Moment(w)' = r.at
<1>1. worker'[w] = r /\ \A v \in Workers \ {w} : worker'[v] = worker[v]
  BY DEF TypeOK
<1>2. \A c \in Crawlers :
        \/ line'[c]["slot"] = lines[c]["slot"]
        \/ line'[c]["slot"] = Append(lines[c]["slot"], w)
  <2>. SUFFICES ASSUME NEW c \in Crawlers, NEW q \in Kinds,
                       line' = [lines EXCEPT ![CrawlerOf[w]][q] = Append(@, w)]
                PROVE  \/ line'[c]["slot"] = lines[c]["slot"]
                       \/ line'[c]["slot"] = Append(lines[c]["slot"], w)
    BY DEF Queued
  <2>1. "slot" \in Kinds /\ lines \in [Crawlers -> [Kinds -> Seq(Workers)]]
    BY DEF Kinds, LineType
  <2>. QED  BY <2>1
<1>3. \A c \in Crawlers : wire'[c]["slot"].pc = "lease" =>
        /\ wire'[c]["slot"] = wire[c]["slot"] /\ line[c]["slot"] # <<>>
        /\ Head(line'[c]["slot"]) = Head(line[c]["slot"]) /\ w # Head(line[c]["slot"])
  <2>. SUFFICES ASSUME NEW c \in Crawlers, wire'[c]["slot"].pc = "lease"
                PROVE  /\ wire'[c]["slot"] = wire[c]["slot"] /\ line[c]["slot"] # <<>>
                       /\ Head(line'[c]["slot"]) = Head(line[c]["slot"])
                       /\ w # Head(line[c]["slot"])
    OBVIOUS
  <2>1. "slot" \in Kinds /\ line[c]["slot"] \in Seq(Workers)
    BY DEF Kinds, TypeOK
  <2>2. /\ lines[c]["slot"] = line[c]["slot"] /\ wire'[c]["slot"] = wire[c]["slot"]
        /\ w \notin Range(line[c]["slot"])
    BY <2>1, RecordTypes DEF Left
  <2>3. line[c]["slot"] # <<>>
    BY <2>1, <2>2, LinesAreOrderly DEF TypeOK, Signals
  <2>4. Head(line[c]["slot"]) = line[c]["slot"][1] /\ 1 \in DOMAIN line[c]["slot"]
    BY <2>1, <2>3
  <2>5. w # Head(line[c]["slot"])
    BY <2>2, <2>4 DEF Range
  <2>6. Head(line'[c]["slot"]) = Head(line[c]["slot"])
    <3>1. Head(Append(line[c]["slot"], w)) = Head(line[c]["slot"])
      BY <2>1, <2>3, AppendHead
    <3>. QED  BY <1>2, <2>2, <3>1
  <2>. QED  BY <2>2, <2>3, <2>5, <2>6
<1>4. ~HasLease(w)'
  BY <1>3, LeasesAssumption DEF HasLease
<1>5. ASSUME NEW v \in Workers \ {w}
      PROVE  /\ HasLease(v)' <=> HasLease(v)
             /\ HasLease(v) => wire'[CrawlerOf[v]]["slot"] = wire[CrawlerOf[v]]["slot"]
  <2>1. CrawlerOf[v] \in Crawlers /\ "slot" \in Kinds
    BY LeasesAssumption DEF Kinds
  <2>2. HasLease(v)' => HasLease(v)
    BY <1>3, <2>1 DEF HasLease
  <2>3. ASSUME HasLease(v)
        PROVE  HasLease(v)' /\ wire'[CrawlerOf[v]]["slot"] = wire[CrawlerOf[v]]["slot"]
    <3>1. v = Head(line[CrawlerOf[v]]["slot"])
      BY <2>3 DEF HasLease
    <3>2. wire'[CrawlerOf[v]]["slot"] = wire[CrawlerOf[v]]["slot"]
      BY <2>1, <3>1 DEF Left
    <3>. QED  BY <1>3, <2>1, <2>3, <3>1, <3>2 DEF HasLease
  <2>. QED  BY <2>2, <2>3
<1>6. ASSUME NEW v \in Workers \ {w}
      PROVE  Holding(v)' = Holding(v) /\ Moment(v)' = Moment(v)
  BY <1>1, <1>5 DEF Holding, Moment
<1>. QED  BY <1>1, <1>4, <1>6 DEF Holding, Moment

LEMMA InitSlots == Init => LedgerInv /\ HeldInv /\ UsedInv
<1>. SUFFICES ASSUME Init PROVE LedgerInv /\ HeldInv /\ UsedInv
  OBVIOUS
<1>1. \A h \in Hosts : ledger[h] = <<>> /\ DOMAIN ledger[h] = {}
  BY DEF Init
<1>2. LedgerInv
  BY <1>1 DEF LedgerInv
<1>3. HeldInv
  <2>1. \A w \in Workers : Holding(w) = 0
    BY LeasesAssumption DEF Init, Holding, HasLease, Ready, Idle, Kinds
  <2>. QED  BY <2>1 DEF HeldInv, Good, Apart
<1>4. UsedInv
  BY FS_EmptySet DEF Init, UsedInv
<1>. QED  BY <1>2, <1>3, <1>4

(* Nothing is granted or used: what is held stays held, or is given up. *)
KeptOrGivenUp(v) ==
  \/ Holding(v)' = 0
  \/ /\ Holding(v)' = Holding(v) /\ worker'[v].host = worker[v].host
     /\ Moment(v) <= Moment(v)'

LEMMA HeldKept ==
  ASSUME TypeOK, TypeOK', HeldInv, ledger' = ledger, used' = used,
         \A v \in Workers : KeptOrGivenUp(v)
  PROVE  HeldInv'
<1>1. ASSUME NEW v \in Workers  PROVE Good(v)'
  <2>. SUFFICES ASSUME Holding(v)' # 0
                PROVE  /\ Holding(v)' \in DOMAIN ledger[worker'[v].host]
                       /\ Holding(v)' \notin used[worker'[v].host]
                       /\ ledger[worker'[v].host][Holding(v)'].slot <= Moment(v)'
    BY DEF Good, Slot
  <2>1. /\ Holding(v)' = Holding(v) /\ worker'[v].host = worker[v].host
        /\ Moment(v) <= Moment(v)'
    BY DEF KeptOrGivenUp
  <2>2. /\ Holding(v) \in DOMAIN ledger[worker[v].host]
        /\ Holding(v) \notin used[worker[v].host]
        /\ ledger[worker[v].host][Holding(v)].slot <= Moment(v)
    BY <2>1 DEF HeldInv, Good, Slot
  <2>3. worker[v].host \in Hosts
    BY <2>1, LeaseAsked DEF Holding, TypeOK, WorkerType
  <2>4. ledger[worker[v].host][Holding(v)].slot \in Nat
    BY <2>2, <2>3, SlotTypes DEF Slot
  <2>5. Moment(v) \in Nat /\ Moment(v)' \in Nat
    BY HoldingTypes, MomentNext
  <2>. QED  BY <2>1, <2>2, <2>4, <2>5
<1>2. ASSUME NEW v \in Workers, NEW w \in Workers, v # w  PROVE Apart(v, w)'
  <2>. SUFFICES ASSUME Holding(v)' # 0, Holding(v)' = Holding(w)'
                PROVE  worker'[v].host # worker'[w].host
    BY DEF Apart
  <2>1. /\ Holding(v)' = Holding(v) /\ worker'[v].host = worker[v].host
        /\ Holding(w)' = Holding(w) /\ worker'[w].host = worker[w].host
    BY DEF KeptOrGivenUp
  <2>2. Apart(v, w)
    BY <1>2 DEF HeldInv
  <2>. QED  BY <2>1, <2>2 DEF Apart
<1>. QED  BY <1>1, <1>2 DEF HeldInv

(* ... and the past stays as it was. *)
LEMMA PastKept ==
  ASSUME TypeOK, LedgerInv, UsedInv, ledger' = ledger, used' = used, made' = made,
         nextAllowed' = nextAllowed, now' \in Nat, now' >= now
  PROVE  LedgerInv' /\ UsedInv'
<1>1. LedgerInv'
  BY DEF LedgerInv, Slot, Spaced
<1>2. UsedInv'
  <2>. SUFFICES ASSUME NEW h \in Hosts
                PROVE  /\ used[h] \subseteq DOMAIN ledger[h] /\ IsFiniteSet(used[h])
                       /\ \A t \in used[h] : ledger[h][t].slot <= now'
                       /\ made[h] = Cardinality(used[h])
    BY DEF UsedInv, Slot
  <2>1. \A t \in used[h] : ledger[h][t].slot \in Nat /\ ledger[h][t].slot <= now
    BY SlotTypes DEF UsedInv, Slot
  <2>. QED  BY <2>1 DEF UsedInv, TypeOK
<1>. QED  BY <1>1, <1>2

SlotsInv == LedgerInv /\ HeldInv /\ UsedInv

(* The steps of the links and of the environment but the grant. *)
LEMMA EnvironmentSlots ==
  ASSUME TypeOK, TypeOK', SlotsInv, Tick \/ SiteChanges \/ UNCHANGED vars
  PROVE  SlotsInv'
<1>1. /\ ledger' = ledger /\ used' = used /\ made' = made /\ nextAllowed' = nextAllowed
      /\ worker' = worker /\ wire' = wire /\ line' = line /\ now' \in Nat /\ now' >= now
  BY DEF Tick, SiteChanges, vars, authority, links, history, requests, TypeOK
<1>2. \A v \in Workers : KeptOrGivenUp(v)
  <2>. SUFFICES ASSUME NEW v \in Workers PROVE KeptOrGivenUp(v)
    OBVIOUS
  <2>1. Holding(v)' = Holding(v)
    BY <1>1 DEF Holding, HasLease
  <2>2. wire[CrawlerOf[v]]["slot"].wait \in Nat /\ worker[v].at \in Nat /\ now \in Nat
    <3>1. wire[CrawlerOf[v]]["slot"] \in WireType /\ worker[v] \in WorkerType /\ now \in Nat
      BY LeasesAssumption DEF TypeOK, Kinds
    <3>. QED  BY <3>1 DEF WireType, WorkerType
  <2>3. Moment(v) <= Moment(v)'
    BY <1>1, <2>2 DEF Moment, HasLease
  <2>. QED  BY <1>1, <2>1, <2>3 DEF KeptOrGivenUp
<1>. QED  BY <1>1, <1>2, HeldKept, PastKept DEF SlotsInv

LEMMA BreakSlots ==
  ASSUME TypeOK, TypeOK', SlotsInv, NEW c \in Crawlers, NEW k \in Kinds, Break(c, k)
  PROVE  SlotsInv'
<1>1. /\ ledger' = ledger /\ used' = used /\ made' = made /\ nextAllowed' = nextAllowed
      /\ worker' = worker /\ now' \in Nat /\ now' >= now
      /\ line' = [line EXCEPT ![c][k] = <<>>] /\ wire' = [wire EXCEPT ![c][k] = Down]
  BY DEF Break, authority, history, requests, TypeOK
<1>2. line \in [Crawlers -> [Kinds -> Seq(Workers)]] /\ wire \in [Crawlers -> [Kinds -> WireType]]
  BY DEF TypeOK
<1>3. \A d \in Crawlers, q \in Kinds : d # c \/ q # k =>
        line'[d][q] = line[d][q] /\ wire'[d][q] = wire[d][q]
  BY <1>1, <1>2
<1>4. wire'[c][k].pc = "down"
  BY <1>1, <1>2, RecordTypes
<1>5. \A v \in Workers : KeptOrGivenUp(v)
  <2>. SUFFICES ASSUME NEW v \in Workers PROVE KeptOrGivenUp(v)
    OBVIOUS
  <2>1. CrawlerOf[v] \in Crawlers /\ "slot" \in Kinds /\ Moment(v) \in Nat
    BY LeasesAssumption, HoldingTypes DEF Kinds
  <2>2. CASE CrawlerOf[v] # c \/ k # "slot"
    <3>1. /\ line'[CrawlerOf[v]]["slot"] = line[CrawlerOf[v]]["slot"]
          /\ wire'[CrawlerOf[v]]["slot"] = wire[CrawlerOf[v]]["slot"]
      BY <1>3, <2>1, <2>2
    <3>2. now' = now
      BY DEF Break
    <3>3. HasLease(v)' <=> HasLease(v)
      BY <3>1 DEF HasLease
    <3>4. Holding(v)' = Holding(v) /\ Moment(v)' = Moment(v)
      BY <1>1, <3>1, <3>2, <3>3 DEF Holding, Moment
    <3>. QED  BY <1>1, <2>1, <3>4 DEF KeptOrGivenUp
  <2>3. CASE CrawlerOf[v] = c /\ k = "slot"
    <3>1. ~HasLease(v)'
      BY <1>4, <2>3 DEF HasLease
    <3>2. CASE HasLease(v)
      BY <1>1, <3>1, <3>2, LeaseAsked DEF Holding, KeptOrGivenUp
    <3>3. CASE ~HasLease(v)
      BY <1>1, <2>1, <3>1, <3>3 DEF Holding, Moment, KeptOrGivenUp
    <3>. QED  BY <3>2, <3>3
  <2>. QED  BY <2>2, <2>3
<1>. QED  BY <1>1, <1>5, HeldKept, PastKept DEF SlotsInv

LEMMA RecallSlots ==
  ASSUME TypeOK, TypeOK', SlotsInv, NEW c \in Crawlers, Recall(c)
  PROVE  SlotsInv'
<1>1. /\ ledger' = ledger /\ used' = used /\ made' = made /\ nextAllowed' = nextAllowed
      /\ worker' = worker /\ line' = line /\ now' = now /\ now' \in Nat /\ now' >= now
  <2>1. UNCHANGED <<now, nextAllowed, line, worker, history>>
    BY DEF Recall
  <2>2. now \in Nat
    BY DEF TypeOK
  <2>. QED  BY <2>1, <2>2 DEF history, requests
<1>2. \A d \in Crawlers : wire'[d]["slot"] = wire[d]["slot"]
  <2>1. PICK answer : wire' = [wire EXCEPT ![c]["robots"] = answer]
    BY DEF Recall
  <2>. QED  BY <2>1 DEF TypeOK, Kinds
<1>3. \A v \in Workers : KeptOrGivenUp(v)
  <2>. SUFFICES ASSUME NEW v \in Workers PROVE KeptOrGivenUp(v)
    OBVIOUS
  <2>1. wire'[CrawlerOf[v]]["slot"] = wire[CrawlerOf[v]]["slot"] /\ Moment(v) \in Nat
    BY <1>2, LeasesAssumption, HoldingTypes
  <2>2. Holding(v)' = Holding(v) /\ Moment(v)' = Moment(v)
    BY <1>1, <2>1 DEF Holding, Moment, HasLease
  <2>. QED  BY <1>1, <2>1, <2>2 DEF KeptOrGivenUp
<1>. QED  BY <1>1, <1>3, HeldKept, PastKept DEF SlotsInv

(* The steps of a worker that ask, or give up, and those that get a lease.  *)
LEMMA WorkerMoves ==
  ASSUME TypeOK, TypeOK', SlotsInv, NEW w \in Workers, NEW r, worker' = [worker EXCEPT ![w] = r],
         NEW lines \in LineType, Left(w, lines),
         line' = lines \/ \E q \in Kinds : line' = Queued(lines, w, q),
         \/ r.pc # "wait" \/ r.ticket = 0
         \/ r.ticket = Holding(w) /\ r.host = worker[w].host /\ Moment(w) <= r.at,
         now' = now, UNCHANGED <<nextAllowed, ledger, used, made>>
  PROVE  SlotsInv'
<1>1. worker'[w] = r /\ now' \in Nat /\ now' >= now
  BY DEF TypeOK
<1>2. /\ \A v \in Workers \ {w} : /\ Holding(v)' = Holding(v) /\ Moment(v)' = Moment(v)
                                  /\ worker'[v] = worker[v]
      /\ Holding(w)' = (IF r.pc = "wait" THEN r.ticket ELSE 0)
      /\ Moment(w)' = r.at
  BY OthersKeep
<1>3. \A v \in Workers : KeptOrGivenUp(v)
  <2>. SUFFICES ASSUME NEW v \in Workers PROVE KeptOrGivenUp(v)
    OBVIOUS
  <2>1. CASE v = w
    BY <1>1, <1>2, <2>1 DEF KeptOrGivenUp
  <2>2. CASE v # w
    <3>1. Moment(v) \in Nat
      BY HoldingTypes
    <3>. QED  BY <1>2, <2>2, <3>1 DEF KeptOrGivenUp
  <2>. QED  BY <2>1, <2>2
<1>. QED  BY <1>1, <1>3, HeldKept, PastKept DEF SlotsInv

LEMMA GoesSlots ==
  ASSUME TypeOK, TypeOK', SlotsInv, NEW w \in Workers, NEW lines \in LineType, Left(w, lines),
         Goes(w, lines), now' = now, UNCHANGED <<nextAllowed, ledger, used, made>>
  PROVE  SlotsInv'
<1>1. PICK r \in WorkerType :
        /\ worker' = [worker EXCEPT ![w] = r] /\ r.pc # "wait"
        /\ line' = lines \/ \E q \in Kinds : line' = Queued(lines, w, q)
  BY DEF Goes
<1>. QED  BY <1>1, WorkerMoves

LEMMA AskingSlots ==
  ASSUME TypeOK, TypeOK', SlotsInv,
         \/ \E c \in Crawlers : DeliverKnown(c)
         \/ \E w \in Workers : KnowNothing(w)
         \/ \E w \in Workers, h \in Hosts : Take(w, h)
  PROVE  SlotsInv'
<1>1. now' = now /\ UNCHANGED <<nextAllowed, ledger, used, made>>
  <2>1. ASSUME NEW c \in Crawlers, DeliverKnown(c)
        PROVE  now' = now /\ authority' = authority /\ history' = history
    BY <2>1 DEF DeliverKnown
  <2>2. ASSUME NEW w \in Workers, KnowNothing(w)
        PROVE  now' = now /\ authority' = authority /\ history' = history
    BY <2>2 DEF KnowNothing
  <2>3. ASSUME NEW w \in Workers, NEW h \in Hosts, Take(w, h)
        PROVE  now' = now /\ authority' = authority /\ history' = history
    BY <2>3, Zenon DEF Take
  <2>4. now' = now /\ authority' = authority /\ history' = history
    BY <2>1, <2>2, <2>3
  <2>. QED  BY <2>4 DEF authority, history, requests
<1>2. \E w \in Workers, lines \in LineType : Left(w, lines) /\ Goes(w, lines)
  <2>1. ASSUME NEW c \in Crawlers, DeliverKnown(c)
        PROVE  \E w \in Workers, lines \in LineType : Left(w, lines) /\ Goes(w, lines)
    BY <2>1, DeliverKnownGoes
  <2>2. ASSUME NEW w \in Workers, KnowNothing(w)
        PROVE  Left(w, line) /\ Goes(w, line)
    BY <2>2, KnowNothingGoes
  <2>3. ASSUME NEW w \in Workers, NEW h \in Hosts, Take(w, h)
        PROVE  Left(w, line) /\ Goes(w, line)
    BY <2>3, TakeGoes
  <2>. QED  BY <2>1, <2>2, <2>3, LineIsTyped
<1>. QED  BY <1>1, <1>2, GoesSlots

LEMMA DeliverLeaseSlots ==
  ASSUME TypeOK, TypeOK', SlotsInv, NEW c \in Crawlers, DeliverLease(c)
  PROVE  SlotsInv'
<1>1. PICK w : w = Head(line[c]["slot"])
  OBVIOUS
<1>2. PICK lines : lines = Answered(w, "slot")
  OBVIOUS
<1>3. PICK r : r = Waiting(w, now + wire[c]["slot"].wait, wire[c]["slot"].ticket)
  OBVIOUS
<1>4. /\ wire[c]["slot"].pc = "lease" /\ wire' = [wire EXCEPT ![c]["slot"] = Ready]
      /\ worker' = [worker EXCEPT ![w] = r] /\ line' = lines
      /\ now' = now /\ UNCHANGED <<nextAllowed, ledger, used, made>>
  BY <1>1, <1>2, <1>3 DEF DeliverLease, authority, history, requests
<1>5. /\ "slot" \in Kinds /\ line[c]["slot"] # <<>>
      /\ now + wire[c]["slot"].wait \in Nat /\ wire[c]["slot"].ticket \in Nat
  BY LeaseReady DEF DeliverLease
<1>6. /\ w \in Workers /\ CrawlerOf[w] = c /\ worker[w].pc = "slot"
      /\ lines \in LineType /\ Left(w, lines)
  BY <1>1, <1>2, <1>4, <1>5, LeftOne DEF AskPcs
<1>7. HasLease(w)
  BY <1>1, <1>4, <1>6 DEF HasLease
<1>8. /\ r.ticket = Holding(w) /\ r.host = worker[w].host /\ r.at = Moment(w)
  BY <1>3, <1>5, <1>6, <1>7, WaitingType DEF Holding, Moment
<1>9. Moment(w) <= r.at
  BY <1>6, <1>8, HoldingTypes
<1>. QED  BY <1>4, <1>6, <1>8, <1>9, WorkerMoves

LEMMA FallBackSlots ==
  ASSUME TypeOK, TypeOK', SlotsInv, NEW w \in Workers, FallBack(w)
  PROVE  SlotsInv'
<1>1. PICK r : r = Waiting(w, now, 0)
  OBVIOUS
<1>2. /\ Dropped(w, "slot") /\ line' = line /\ wire' = wire
      /\ worker' = [worker EXCEPT ![w] = r]
      /\ now' = now /\ UNCHANGED <<nextAllowed, ledger, used, made>>
  BY <1>1 DEF FallBack, links, authority, history, requests
<1>3. "slot" \in Kinds /\ now \in Nat /\ 0 \in Nat
  BY DEF Kinds, TypeOK
<1>4. Left(w, line) /\ worker[w].pc = "slot"
  BY <1>2, <1>3, DroppedLeft DEF AskPcs
<1>5. r.ticket = 0
  BY <1>1, <1>3, <1>4, WaitingType
<1>. QED  BY <1>2, <1>4, <1>5, LineIsTyped, WorkerMoves

(* A grant: one slot more, after all the others, for the worker that asked. *)
OneSlotMore(h, slot, spacing) ==
  /\ DOMAIN ledger'[h] = 1..(Len(ledger[h]) + 1) /\ DOMAIN ledger[h] = 1..Len(ledger[h])
  /\ Len(ledger[h]) \in Nat
  /\ \A i \in DOMAIN ledger[h] : ledger'[h][i] = ledger[h][i]
  /\ ledger'[h][Len(ledger[h]) + 1].slot = slot
  /\ ledger'[h][Len(ledger[h]) + 1].spacing = spacing
  /\ nextAllowed'[h] = slot + spacing
  /\ \A k \in Hosts : k # h => ledger'[k] = ledger[k] /\ nextAllowed'[k] = nextAllowed[k]

LEMMA GrantedLedger ==
  ASSUME TypeOK, NEW c \in Crawlers, NEW w \in Workers, NEW h \in Hosts, NEW slot \in Nat,
         NEW spacing \in Nat, NEW answer, Granted(c, w, h, slot, spacing, answer)
  PROVE  OneSlotMore(h, slot, spacing)
<1>1. /\ ledger \in [Hosts -> Seq([slot : Nat, spacing : Nat])] /\ nextAllowed \in [Hosts -> Nat]
      /\ ledger' = [ledger EXCEPT ![h] = Append(ledger[h], [slot |-> slot, spacing |-> spacing])]
      /\ nextAllowed' = [nextAllowed EXCEPT ![h] = slot + spacing]
  BY DEF Granted, TypeOK
<1>2. [slot |-> slot, spacing |-> spacing] \in [slot : Nat, spacing : Nat]
  OBVIOUS
<1>3. ledger'[h] = Append(ledger[h], [slot |-> slot, spacing |-> spacing])
  BY <1>1
<1>4. ledger[h] \in Seq([slot : Nat, spacing : Nat])
  BY <1>1
<1>5. /\ DOMAIN ledger[h] = 1..Len(ledger[h]) /\ Len(ledger[h]) \in Nat
  BY <1>4, SeqFacts
<1>6. /\ DOMAIN ledger'[h] = 1..(Len(ledger[h]) + 1)
      /\ \A i \in 1..Len(ledger[h]) : ledger'[h][i] = ledger[h][i]
      /\ ledger'[h][Len(ledger[h]) + 1] = [slot |-> slot, spacing |-> spacing]
  BY <1>2, <1>3, <1>4, AppendFacts
<1>7. /\ ledger'[h][Len(ledger[h]) + 1].slot = slot
      /\ ledger'[h][Len(ledger[h]) + 1].spacing = spacing
  BY <1>6
<1>8. \A k \in Hosts : k # h => ledger'[k] = ledger[k] /\ nextAllowed'[k] = nextAllowed[k]
  BY <1>1
<1>9. nextAllowed'[h] = slot + spacing
  BY <1>1
<1>. QED  BY <1>5, <1>6, <1>7, <1>8, <1>9 DEF OneSlotMore

LEMMA GrantLedgerInv ==
  ASSUME TypeOK, LedgerInv, NEW c \in Crawlers, NEW w \in Workers, NEW h \in Hosts,
         NEW slot \in Nat, NEW spacing \in Nat, NEW answer, Granted(c, w, h, slot, spacing, answer)
  PROVE  LedgerInv'
<1>. DEFINE n == Len(ledger[h])
<1>1. /\ DOMAIN ledger'[h] = 1..(n + 1) /\ DOMAIN ledger[h] = 1..n /\ n \in Nat
      /\ \A i \in DOMAIN ledger[h] : ledger'[h][i] = ledger[h][i]
      /\ ledger'[h][n + 1].slot = slot /\ ledger'[h][n + 1].spacing = spacing
      /\ nextAllowed'[h] = slot + spacing
      /\ \A k \in Hosts : k # h => ledger'[k] = ledger[k] /\ nextAllowed'[k] = nextAllowed[k]
  <2>1. OneSlotMore(h, slot, spacing)
    BY GrantedLedger
  <2>. QED  BY <2>1 DEF OneSlotMore
<1>2. slot >= nextAllowed[h] /\ spacing >= Floor /\ nextAllowed[h] \in Nat /\ Floor \in Nat
  BY LeasesAssumption DEF Granted, TypeOK
<1>. HIDE DEF n
<1>3. /\ \A i \in 1..n :
           /\ ledger[h][i].slot \in Nat /\ ledger[h][i].spacing \in Nat
           /\ ledger[h][i].spacing >= Floor
           /\ ledger[h][i].slot + ledger[h][i].spacing <= nextAllowed[h]
           /\ ledger[h][1].slot + (i - 1) * Floor <= ledger[h][i].slot
      /\ \A i, j \in 1..n :
           i < j => ledger[h][i].slot + ledger[h][i].spacing <= ledger[h][j].slot
  BY <1>1, SlotTypes DEF LedgerInv, Slot, Spaced
<1>4. ASSUME NEW i \in 1..(n + 1)
      PROVE  /\ ledger'[h][i].spacing >= Floor
             /\ ledger'[h][i].slot + ledger'[h][i].spacing <= nextAllowed'[h]
             /\ ledger'[h][1].slot + (i - 1) * Floor <= ledger'[h][i].slot
  <2>1. CASE i \in 1..n
    <3>1. 1 \in 1..n
      BY <1>1, <2>1
    <3>2. ledger'[h][i] = ledger[h][i] /\ ledger'[h][1] = ledger[h][1]
      BY <1>1, <2>1, <3>1
    <3>3. /\ ledger[h][i].slot \in Nat /\ ledger[h][i].spacing \in Nat
          /\ ledger[h][i].spacing >= Floor
          /\ ledger[h][i].slot + ledger[h][i].spacing <= nextAllowed[h]
      BY <1>3, <2>1
    <3>4. ledger[h][1].slot + (i - 1) * Floor <= ledger[h][i].slot
      BY <1>3, <2>1
    <3>5. ledger[h][i].slot + ledger[h][i].spacing <= nextAllowed'[h]
      <4>1. nextAllowed'[h] = slot + spacing
        BY <1>1
      <4>. QED  BY <1>2, <3>3, <4>1
    <3>. QED  BY <3>2, <3>3, <3>4, <3>5
  <2>2. CASE i = n + 1
    <3>1. CASE n = 0
      <4>1. (i - 1) * Floor = 0
        BY <1>2, <2>2, <3>1
      <4>. QED  BY <1>1, <1>2, <2>2, <3>1, <4>1
    <3>2. CASE n # 0
      <4>1. n \in 1..n /\ 1 \in 1..n
        BY <1>1, <3>2
      <4>2. /\ ledger'[h][1] = ledger[h][1] /\ ledger[h][1].slot \in Nat
            /\ ledger[h][n].slot \in Nat /\ ledger[h][n].spacing \in Nat
            /\ ledger[h][n].spacing >= Floor
            /\ ledger[h][n].slot + ledger[h][n].spacing <= nextAllowed[h]
            /\ ledger[h][1].slot + (n - 1) * Floor <= ledger[h][n].slot
        BY <1>1, <1>3, <4>1
      <4>3. n * Floor = (n - 1) * Floor + Floor /\ (n - 1) * Floor \in Nat
        BY <1>1, <1>2, <3>2, OneMore
      <4>4. ledger'[h][1].slot + n * Floor <= slot
        BY <1>2, <4>2, <4>3
      <4>5. i - 1 = n
        BY <1>1, <2>2
      <4>. QED  BY <1>1, <1>2, <2>2, <4>4, <4>5
    <3>. QED  BY <3>1, <3>2
  <2>. QED  BY <1>1, <2>1, <2>2
<1>5. ASSUME NEW i \in 1..(n + 1), NEW j \in 1..(n + 1), i < j
      PROVE  ledger'[h][i].slot + ledger'[h][i].spacing <= ledger'[h][j].slot
  <2>1. i \in 1..n /\ ledger'[h][i] = ledger[h][i]
    BY <1>1, <1>5
  <2>2. CASE j \in 1..n
    BY <1>1, <1>3, <1>5, <2>1, <2>2
  <2>3. CASE j = n + 1
    <3>1. /\ ledger[h][i].slot \in Nat /\ ledger[h][i].spacing \in Nat
          /\ ledger[h][i].slot + ledger[h][i].spacing <= nextAllowed[h]
      BY <1>3, <2>1
    <3>2. ledger[h][i].slot + ledger[h][i].spacing <= slot
      BY <1>2, <3>1
    <3>. QED  BY <1>1, <2>1, <2>3, <3>2
  <2>. QED  BY <1>1, <2>2, <2>3
<1>6. ASSUME NEW k \in Hosts
      PROVE  /\ \A i \in DOMAIN ledger'[k] :
                  /\ ledger'[k][i].spacing >= Floor
                  /\ ledger'[k][i].slot + ledger'[k][i].spacing <= nextAllowed'[k]
                  /\ ledger'[k][1].slot + (i - 1) * Floor <= ledger'[k][i].slot
             /\ \A i, j \in DOMAIN ledger'[k] :
                  i < j => ledger'[k][i].slot + ledger'[k][i].spacing <= ledger'[k][j].slot
  <2>1. CASE k = h
    BY <1>1, <1>4, <1>5, <2>1
  <2>2. CASE k # h
    BY <1>1, <2>2 DEF LedgerInv, Slot, Spaced
  <2>. QED  BY <2>1, <2>2
<1>. QED  BY <1>6 DEF LedgerInv, Slot, Spaced

(* Whose lease is on the connection after a grant, and before it. *)
LEMMA GrantHolding ==
  ASSUME TypeOK, NEW c \in Crawlers, Grant(c), NEW w \in Workers, NEW h \in Hosts,
         NEW slot \in Nat, NEW spacing \in Nat, NEW answer, Granted(c, w, h, slot, spacing, answer)
  PROVE  /\ Holding(w)' = Len(ledger[h]) + 1 /\ Moment(w)' >= slot
         /\ \A v \in Workers \ {w} : Holding(v)' = Holding(v) /\ Moment(v)' = Moment(v)
<1>1. /\ w = Head(line[c]["slot"]) /\ wire' = [wire EXCEPT ![c]["slot"] = answer]
      /\ answer.pc = "lease" /\ now + answer.wait >= slot /\ answer.ticket = Len(ledger[h]) + 1
  BY DEF Granted
<1>2. /\ wire[c]["slot"] = Ready /\ line[c]["slot"] # <<>> /\ "slot" \in Kinds
      /\ line' = line /\ worker' = worker /\ now' = now
  BY DEF Grant, Kinds
<1>3. CrawlerOf[w] = c
  BY <1>1, <1>2, HeadAsks
<1>4. /\ wire'[c]["slot"] = answer
      /\ \A d \in Crawlers : d # c => wire'[d]["slot"] = wire[d]["slot"]
  BY <1>1, <1>2 DEF TypeOK
<1>5. HasLease(w)'
  BY <1>1, <1>2, <1>3, <1>4 DEF HasLease
<1>6. Holding(w)' = Len(ledger[h]) + 1 /\ Moment(w)' >= slot
  BY <1>1, <1>2, <1>3, <1>4, <1>5 DEF Holding, Moment
<1>7. ASSUME NEW v \in Workers \ {w}
      PROVE  Holding(v)' = Holding(v) /\ Moment(v)' = Moment(v)
  <2>1. CASE CrawlerOf[v] = c
    <3>1. ~HasLease(v) /\ ~HasLease(v)'
      BY <1>1, <1>2, <2>1, RecordTypes DEF HasLease
    <3>. QED  BY <1>2, <3>1 DEF Holding, Moment
  <2>2. CASE CrawlerOf[v] # c
    <3>1. CrawlerOf[v] \in Crawlers
      BY LeasesAssumption
    <3>2. wire'[CrawlerOf[v]]["slot"] = wire[CrawlerOf[v]]["slot"]
      BY <1>4, <2>2, <3>1
    <3>. QED  BY <1>2, <3>2 DEF Holding, Moment, HasLease
  <2>. QED  BY <2>1, <2>2
<1>. QED  BY <1>6, <1>7

LEMMA GrantSlots ==
  ASSUME TypeOK, TypeOK', SlotsInv, NEW c \in Crawlers, Grant(c)
  PROVE  SlotsInv'
<1>1. PICK w \in Workers, h \in Hosts, slot \in Nat, spacing \in Nat, answer \in WireType :
        Granted(c, w, h, slot, spacing, answer)
  BY GrantFacts
<1>2. LedgerInv'
  BY <1>1, GrantLedgerInv DEF SlotsInv
<1>. DEFINE n == Len(ledger[h])
<1>3. n = Len(ledger[h])
  OBVIOUS
<1>. HIDE DEF n
<1>4. /\ DOMAIN ledger'[h] = 1..(n + 1) /\ DOMAIN ledger[h] = 1..n /\ n \in Nat
      /\ \A i \in DOMAIN ledger[h] : ledger'[h][i] = ledger[h][i]
      /\ ledger'[h][n + 1].slot = slot
      /\ \A k \in Hosts : k # h => ledger'[k] = ledger[k]
  <2>1. OneSlotMore(h, slot, spacing)
    BY <1>1, GrantedLedger
  <2>. QED  BY <1>3, <2>1 DEF OneSlotMore
<1>5. \A k \in Hosts : /\ DOMAIN ledger[k] \subseteq DOMAIN ledger'[k]
                      /\ \A i \in DOMAIN ledger[k] : ledger'[k][i] = ledger[k][i]
  <2>1. DOMAIN ledger[h] \subseteq DOMAIN ledger'[h]
    BY <1>4
  <2>. QED  BY <1>4, <2>1
<1>6. used' = used /\ made' = made /\ now' = now /\ worker' = worker /\ worker[w].host = h
  BY <1>1 DEF Grant, requests, Granted
<1>7. /\ Holding(w)' = n + 1 /\ Moment(w)' >= slot
      /\ \A v \in Workers \ {w} : Holding(v)' = Holding(v) /\ Moment(v)' = Moment(v)
  <2>1. /\ Holding(w)' = Len(ledger[h]) + 1 /\ Moment(w)' >= slot
        /\ \A v \in Workers \ {w} : Holding(v)' = Holding(v) /\ Moment(v)' = Moment(v)
    BY <1>1, GrantHolding
  <2>. QED  BY <1>3, <2>1
<1>8. \A k \in Hosts : /\ used[k] \subseteq DOMAIN ledger[k]
                      /\ \A t \in used[k] : ledger[k][t].slot <= now
  BY DEF SlotsInv, UsedInv, Slot
<1>9. UsedInv'
  <2>. SUFFICES ASSUME NEW k \in Hosts
                PROVE  /\ used[k] \subseteq DOMAIN ledger'[k] /\ IsFiniteSet(used[k])
                       /\ \A t \in used[k] : ledger'[k][t].slot <= now
                       /\ made[k] = Cardinality(used[k])
    BY <1>6 DEF UsedInv, Slot
  <2>1. used[k] \subseteq DOMAIN ledger'[k]
    BY <1>5, <1>8
  <2>2. \A t \in used[k] : ledger'[k][t] = ledger[k][t]
    BY <1>5, <1>8
  <2>3. \A t \in used[k] : ledger'[k][t].slot <= now
    BY <1>8, <2>2
  <2>. QED  BY <2>1, <2>3 DEF SlotsInv, UsedInv
<1>10. ASSUME NEW v \in Workers \ {w}, Holding(v) # 0
       PROVE  /\ worker[v].host \in Hosts /\ Holding(v) \in DOMAIN ledger[worker[v].host]
              /\ Holding(v) \notin used[worker[v].host]
              /\ ledger[worker[v].host][Holding(v)].slot <= Moment(v)
  <2>1. worker[v].host \in Hosts
    BY <1>10, LeaseAsked DEF Holding, TypeOK, WorkerType
  <2>. QED  BY <1>10, <2>1 DEF SlotsInv, HeldInv, Good, Slot
<1>11. ASSUME NEW v \in Workers  PROVE Good(v)'
  <2>. SUFFICES ASSUME Holding(v)' # 0
                PROVE  /\ Holding(v)' \in DOMAIN ledger'[worker[v].host]
                       /\ Holding(v)' \notin used[worker[v].host]
                       /\ ledger'[worker[v].host][Holding(v)'].slot <= Moment(v)'
    BY <1>6 DEF Good, Slot
  <2>1. CASE v = w
    <3>1. n + 1 \in DOMAIN ledger'[h]
      BY <1>4
    <3>2. n + 1 \notin used[h]
      BY <1>4, <1>8
    <3>3. Moment(w)' \in Nat
      BY MomentNext
    <3>4. ledger'[h][n + 1].slot <= Moment(w)'
      BY <1>4, <1>7, <3>3
    <3>. QED  BY <1>6, <1>7, <2>1, <3>1, <3>2, <3>4
  <2>2. CASE v # w
    <3>1. Holding(v)' = Holding(v) /\ Moment(v)' = Moment(v)
      BY <1>7, <2>2
    <3>2. ledger'[worker[v].host][Holding(v)] = ledger[worker[v].host][Holding(v)]
      BY <1>5, <1>10, <2>2, <3>1
    <3>. QED  BY <1>5, <1>10, <2>2, <3>1, <3>2
  <2>. QED  BY <2>1, <2>2
<1>12. ASSUME NEW v \in Workers, NEW u \in Workers, v # u  PROVE Apart(v, u)'
  <2>. SUFFICES ASSUME Holding(v)' # 0, Holding(v)' = Holding(u)'
                PROVE  worker[v].host # worker[u].host
    BY <1>6 DEF Apart
  <2>1. CASE v # w /\ u # w
    <3>1. Apart(v, u)
      BY <1>12 DEF SlotsInv, HeldInv
    <3>. QED  BY <1>7, <2>1, <3>1 DEF Apart
  <2>2. ASSUME NEW x \in Workers \ {w}, Holding(x)' = n + 1  PROVE worker[x].host # h
    <3>1. Holding(x) = n + 1 /\ Holding(x) # 0
      BY <1>4, <1>7, <2>2
    <3>2. Holding(x) \in DOMAIN ledger[worker[x].host]
      BY <1>10, <3>1
    <3>. QED  BY <1>4, <3>1, <3>2
  <2>3. CASE v = w
    BY <1>6, <1>7, <1>12, <2>2, <2>3
  <2>4. CASE u = w
    BY <1>6, <1>7, <1>12, <2>2, <2>4
  <2>. QED  BY <2>1, <2>3, <2>4
<1>. QED  BY <1>2, <1>9, <1>11, <1>12 DEF SlotsInv, HeldInv

(* A request uses the ticket its worker held, and its worker holds no other. *)
LEMMA RequestSlots ==
  ASSUME TypeOK, TypeOK', SlotsInv, NEW w \in Workers, Turn(w), Request(w),
         NEW r, worker' = [worker EXCEPT ![w] = r], r.pc # "wait", wire' = wire,
         line' = line \/ line' = Queued(line, w, "robots"),
         now' = now, ledger' = ledger, nextAllowed' = nextAllowed
  PROVE  SlotsInv'
<1>. DEFINE t == worker[w].ticket  h == worker[w].host
<1>1. /\ worker[w].pc = "wait" /\ worker[w].at <= now /\ h \in Hosts
      /\ "robots" \in Kinds /\ now \in Nat
  BY DEF Turn, TypeOK, WorkerType, Kinds
<1>2. Left(w, line)
  BY <1>1, QuietLeft
<1>3. line' = line \/ \E q \in Kinds : line' = Queued(line, w, q)
  BY <1>1
<1>4. CASE t = 0
  <2>1. used' = used /\ made' = made
    BY <1>4 DEF Request
  <2>. QED  BY <1>2, <1>3, <2>1, LineIsTyped, WorkerMoves
<1>5. CASE t # 0
  <2>1. Holding(w) = t /\ Moment(w) = worker[w].at
    BY <1>1, LeaseAsked DEF Holding, Moment
  <2>2. /\ t \in DOMAIN ledger[h] /\ t \notin used[h] /\ ledger[h][t].slot <= worker[w].at
    BY <1>5, <2>1 DEF SlotsInv, HeldInv, Good, Slot
  <2>3. /\ used' = [used EXCEPT ![h] = @ \union {t}] /\ made' = [made EXCEPT ![h] = @ + 1]
    BY <1>5 DEF Request
  <2>4. ledger[h][t].slot <= now
    <3>1. ledger[h][t].slot \in Nat /\ worker[w].at \in Nat
      BY <1>1, <2>2, SlotTypes DEF Slot, TypeOK, WorkerType
    <3>. QED  BY <1>1, <2>2, <3>1
  <2>5. /\ used'[h] = used[h] \union {t} /\ made'[h] = made[h] + 1
        /\ \A k \in Hosts : k # h => used'[k] = used[k] /\ made'[k] = made[k]
    BY <1>1, <2>3 DEF TypeOK
  <2>6. /\ \A v \in Workers \ {w} : /\ Holding(v)' = Holding(v) /\ Moment(v)' = Moment(v)
                                    /\ worker'[v] = worker[v]
        /\ Holding(w)' = 0
    BY <1>2, <1>3, LineIsTyped, OthersKeep
  <2>. HIDE DEF t, h
  <2>7. UsedInv'
    <3>. SUFFICES ASSUME NEW k \in Hosts
                  PROVE  /\ used'[k] \subseteq DOMAIN ledger[k] /\ IsFiniteSet(used'[k])
                         /\ \A i \in used'[k] : ledger[k][i].slot <= now
                         /\ made'[k] = Cardinality(used'[k])
      BY DEF UsedInv, Slot
    <3>1. /\ used[k] \subseteq DOMAIN ledger[k] /\ IsFiniteSet(used[k])
          /\ \A i \in used[k] : ledger[k][i].slot <= now
          /\ made[k] = Cardinality(used[k])
      BY DEF SlotsInv, UsedInv, Slot
    <3>2. CASE k = h
      <4>1. /\ IsFiniteSet(used[h] \union {t})
            /\ Cardinality(used[h] \union {t}) = Cardinality(used[h]) + 1
        BY <2>2, <3>1, <3>2, FS_AddElement
      <4>. QED  BY <2>2, <2>4, <2>5, <3>1, <3>2, <4>1
    <3>3. CASE k # h
      BY <2>5, <3>1, <3>3
    <3>. QED  BY <3>2, <3>3
  <2>8. ASSUME NEW v \in Workers  PROVE Good(v)'
    <3>. SUFFICES ASSUME Holding(v)' # 0
                  PROVE  /\ Holding(v)' \in DOMAIN ledger[worker'[v].host]
                         /\ Holding(v)' \notin used'[worker'[v].host]
                         /\ ledger[worker'[v].host][Holding(v)'].slot <= Moment(v)'
      BY DEF Good, Slot
    <3>1. v # w /\ Holding(v)' = Holding(v) /\ Moment(v)' = Moment(v) /\ worker'[v] = worker[v]
      BY <2>6
    <3>2. /\ Holding(v) \in DOMAIN ledger[worker[v].host]
          /\ Holding(v) \notin used[worker[v].host]
          /\ ledger[worker[v].host][Holding(v)].slot <= Moment(v)
      BY <3>1 DEF SlotsInv, HeldInv, Good, Slot
    <3>3. worker[v].host \in Hosts
      BY <3>1, LeaseAsked DEF Holding, TypeOK, WorkerType
    <3>4. worker[v].host = h => Holding(v) # t
      BY <2>1, <3>1 DEF SlotsInv, HeldInv, Apart, h
    <3>5. Holding(v) \notin used'[worker[v].host]
      BY <2>5, <3>2, <3>3, <3>4
    <3>. QED  BY <3>1, <3>2, <3>5
  <2>9. ASSUME NEW v \in Workers, NEW u \in Workers, v # u  PROVE Apart(v, u)'
    <3>. SUFFICES ASSUME Holding(v)' # 0, Holding(v)' = Holding(u)'
                  PROVE  worker'[v].host # worker'[u].host
      BY DEF Apart
    <3>1. v # w /\ u # w
      BY <2>6
    <3>2. Apart(v, u)
      BY <2>9 DEF SlotsInv, HeldInv
    <3>. QED  BY <2>6, <3>1, <3>2 DEF Apart
  <2>10. LedgerInv'
    BY DEF SlotsInv, LedgerInv, Slot, Spaced
  <2>. QED  BY <2>7, <2>8, <2>9, <2>10 DEF SlotsInv, HeldInv
<1>. QED  BY <1>4, <1>5

LEMMA FetchSlots ==
  ASSUME TypeOK, TypeOK', SlotsInv, NEW w \in Workers, FetchRobots(w) \/ FetchPage(w)
  PROVE  SlotsInv'
<1>1. CASE FetchRobots(w)
  <2>1. /\ Turn(w) /\ Request(w) /\ wire' = wire /\ line' = Queued(line, w, "robots")
        /\ now' = now /\ ledger' = ledger /\ authority' = authority
    BY <1>1 DEF FetchRobots
  <2>2. PICK r \in WorkerType : worker' = [worker EXCEPT ![w] = r] /\ r.pc = "report"
    BY <1>1, FetchRobotsReports
  <2>4. nextAllowed' = nextAllowed
    BY <2>1 DEF authority
  <2>. QED  BY <2>1, <2>2, <2>4, RequestSlots
<1>2. CASE FetchPage(w)
  <2>1. /\ Turn(w) /\ Request(w) /\ wire' = wire /\ line' = line
        /\ now' = now /\ ledger' = ledger /\ nextAllowed' = nextAllowed
        /\ worker' = [worker EXCEPT ![w] = Idle]
    BY <1>2 DEF FetchPage, links, authority
  <2>. QED  BY <2>1, RecordTypes, RequestSlots
<1>. QED  BY <1>1, <1>2

LEMMA NextSlots == TypeOK /\ TypeOK' /\ SlotsInv /\ [Next]_vars => SlotsInv'
BY EnvironmentSlots, BreakSlots, GrantSlots, RecallSlots, AskingSlots, DeliverLeaseSlots,
   FallBackSlots, FetchSlots DEF Next, LinkStep, WorkerStep

LEMMA SlotsAlways == Spec => [](TypeOK /\ SlotsInv)
<1>1. Init => TypeOK /\ SlotsInv
  BY InitTypes, InitSlots DEF SlotsInv
<1>2. TypeOK /\ SlotsInv /\ [Next]_vars => TypeOK' /\ SlotsInv'
  BY NextTypes, NextSlots
<1>. QED  BY <1>1, <1>2, PTL DEF Spec

(* The slots the authority grants for a host keep the gap each crawler was   *)
(* granted, however many ask, for any delays and any floor.                 *)
THEOREM GapsAlwaysKept == Spec => []GapsKept
<1>1. SlotsInv => GapsKept
  BY DEF SlotsInv, LedgerInv, GapsKept, Slot, Spaced
<1>. QED  BY <1>1, SlotsAlways, PTL

(* No request is made before the slot it was granted, however late the       *)
(* answer is read.                                                          *)
THEOREM RequestsAreInTime == Spec => []NoRequestBeforeItsSlot
<1>1. TypeOK /\ SlotsInv => NoRequestBeforeItsSlot
  <2>. SUFFICES ASSUME TypeOK, SlotsInv, NEW w \in Workers,
                       worker[w].pc = "wait", worker[w].ticket # 0
                PROVE  worker[w].at >= ledger[worker[w].host][worker[w].ticket].slot
    BY DEF NoRequestBeforeItsSlot
  <2>1. Holding(w) = worker[w].ticket /\ Moment(w) = worker[w].at
    BY LeaseAsked DEF Holding, Moment
  <2>. QED  BY <2>1 DEF SlotsInv, HeldInv, Good, Slot
<1>. QED  BY <1>1, SlotsAlways, PTL

(* Two steps of arithmetic, apart from the terms they are used for. *)
LEMMA Chained ==
  ASSUME NEW x \in Nat, NEW y \in Nat, NEW a \in Nat, NEW b \in Nat, NEW n \in Nat,
         x <= y, a + y <= b, b <= n
  PROVE  x <= n - a
OBVIOUS

LEMMA PlusFloor ==
  ASSUME NEW x \in Nat, NEW z, NEW a \in Nat, NEW n \in Nat, NEW f \in Nat,
         z = x + f, x <= n - a
  PROVE  z <= (n - a) + f
OBVIOUS

(* What n requests of distinct slots take. *)
LEMMA DistinctSlots ==
  ASSUME TypeOK, SlotsInv, NEW h \in Hosts, made[h] # 0
  PROVE  made[h] * Floor <= (now - ledger[h][1].slot) + Floor
<1>. DEFINE s == ledger[h]
<1>1. /\ used[h] \subseteq DOMAIN s /\ IsFiniteSet(used[h]) /\ made[h] = Cardinality(used[h])
      /\ \A t \in used[h] : s[t].slot <= now
      /\ \A i \in DOMAIN s : s[1].slot + (i - 1) * Floor <= s[i].slot
  BY DEF SlotsInv, UsedInv, LedgerInv, Slot
<1>2. DOMAIN s = 1..Len(s) /\ Len(s) \in Nat /\ \A i \in DOMAIN s : s[i].slot \in Nat
  BY SlotTypes DEF Slot
<1>3. made[h] \in Nat /\ now \in Nat /\ Floor \in Nat
  BY LeasesAssumption DEF TypeOK
<1>. HIDE DEF s
<1>4. PICK m \in Nat : made[h] = m + 1
  <2>1. made[h] - 1 \in Nat /\ made[h] = (made[h] - 1) + 1
    BY <1>3
  <2>. QED  BY <2>1
<1>5. PICK t \in used[h] : t > m
  <2>. SUFFICES ASSUME \A t \in used[h] : ~(t > m)  PROVE FALSE
    OBVIOUS
  <2>1. used[h] \subseteq 1..m
    BY <1>1, <1>2
  <2>2. IsFiniteSet(1..m) /\ Cardinality(1..m) = m
    BY FS_Interval
  <2>3. Cardinality(used[h]) <= m
    BY <2>1, <2>2, FS_Subset
  <2>. QED  BY <1>1, <1>4, <2>3
<1>6. /\ t \in 1..Len(s) /\ 1 \in 1..Len(s) /\ s[t].slot <= now
      /\ s[1].slot \in Nat /\ s[t].slot \in Nat
      /\ s[1].slot + (t - 1) * Floor <= s[t].slot
  BY <1>1, <1>2
<1>7. m * Floor <= (t - 1) * Floor /\ m * Floor \in Nat /\ (t - 1) * Floor \in Nat
  <2>1. PICK d \in Nat : t - 1 = m + d
    <3>1. (t - 1) - m \in Nat /\ t - 1 = m + ((t - 1) - m)
      BY <1>5, <1>6
    <3>. QED  BY <3>1
  <2>2. (m + d) * Floor = m * Floor + d * Floor /\ d * Floor \in Nat /\ m * Floor \in Nat
    BY <1>3
  <2>. QED  BY <2>1, <2>2
<1>8. made[h] * Floor = m * Floor + Floor
  <2>1. (m + 1) * Floor = m * Floor + Floor
    BY <1>3
  <2>. QED  BY <1>4, <2>1
<1>9. m * Floor <= now - s[1].slot
  <2>. DEFINE x == m * Floor  y == (t - 1) * Floor  a == s[1].slot  b == s[t].slot
  <2>1. x <= y /\ x \in Nat /\ y \in Nat
    BY <1>7
  <2>2. a + y <= b /\ a \in Nat /\ b \in Nat /\ b <= now
    BY <1>6
  <2>. HIDE DEF x, y, a, b
  <2>3. x <= now - a
    BY <1>3, <2>1, <2>2, Chained
  <2>. QED  BY <2>3 DEF x, a
<1>10. made[h] * Floor <= (now - s[1].slot) + Floor
  <2>. DEFINE x == m * Floor  z == made[h] * Floor  a == s[1].slot
  <2>1. z = x + Floor /\ x \in Nat /\ x <= now - a
    BY <1>7, <1>8, <1>9
  <2>2. a \in Nat
    BY <1>6
  <2>. HIDE DEF x, z, a
  <2>3. z <= (now - a) + Floor
    BY <1>3, <2>1, <2>2, PlusFloor
  <2>. QED  BY <2>3 DEF z, a
<1>. QED  BY <1>10 DEF s

(* All crawlers together make no more requests with a lease than one every   *)
(* floor since the first slot: distinct tickets, distinct slots, a floor     *)
(* apart.                                                                   *)
THEOREM RateAlwaysHolds == Spec => []SharedRateHolds
<1>1. TypeOK /\ SlotsInv => SharedRateHolds
  BY DistinctSlots DEF SharedRateHolds
<1>. QED  BY <1>1, SlotsAlways, PTL

-----------------------------------------------------------------------------
(* Rules: pages are asked for by answers somebody read, and a robots.txt    *)
(* once by a worker.                                                        *)

(* An answer on its connection is for whoever stays at the head of its line: *)
(* the steps of other workers leave it there.                               *)
LEMMA HeadStays ==
  ASSUME TypeOK, NEW w \in Workers, NEW r, worker' = [worker EXCEPT ![w] = r],
         NEW lines \in LineType, Left(w, lines),
         line' = lines \/ \E q \in Kinds : line' = Queued(lines, w, q),
         NEW c \in Crawlers, wire'[c]["robots"].pc = "known"
  PROVE  /\ wire'[c]["robots"] = wire[c]["robots"]
         /\ worker'[Head(line'[c]["robots"])] = worker[Head(line[c]["robots"])]
<1>1. "robots" \in Kinds /\ line[c]["robots"] \in Seq(Workers)
  BY DEF Kinds, TypeOK
<1>2. /\ lines[c]["robots"] = line[c]["robots"] /\ wire'[c]["robots"] = wire[c]["robots"]
      /\ w \notin Range(line[c]["robots"])
  BY <1>1, RecordTypes DEF Left
<1>3. line[c]["robots"] # <<>>
  BY <1>1, <1>2, LinesAreOrderly DEF TypeOK, Signals
<1>4. /\ Head(line[c]["robots"]) = line[c]["robots"][1] /\ 1 \in DOMAIN line[c]["robots"]
      /\ Head(line[c]["robots"]) \in Workers
  BY <1>1, <1>3
<1>5. w # Head(line[c]["robots"])
  BY <1>2, <1>4 DEF Range
<1>6. \/ line'[c]["robots"] = lines[c]["robots"]
      \/ line'[c]["robots"] = Append(lines[c]["robots"], w)
  <2>. SUFFICES ASSUME NEW q \in Kinds, line' = [lines EXCEPT ![CrawlerOf[w]][q] = Append(@, w)]
                PROVE  \/ line'[c]["robots"] = lines[c]["robots"]
                       \/ line'[c]["robots"] = Append(lines[c]["robots"], w)
    BY DEF Queued
  <2>1. lines \in [Crawlers -> [Kinds -> Seq(Workers)]]
    BY DEF LineType
  <2>. QED  BY <1>1, <2>1
<1>7. Head(Append(line[c]["robots"], w)) = Head(line[c]["robots"])
  BY <1>1, <1>3, AppendHead
<1>8. Head(line'[c]["robots"]) = Head(line[c]["robots"])
  BY <1>2, <1>6, <1>7
<1>. QED  BY <1>2, <1>4, <1>5, <1>8 DEF TypeOK

(* The step of worker w keeps the rules, if w itself does: nothing is taken *)
(* from a map, and what is put there was read.                              *)
LEMMA OneWorkerRules ==
  ASSUME TypeOK, RulesInv, NEW w \in Workers, NEW r, worker' = [worker EXCEPT ![w] = r],
         NEW lines \in LineType, Left(w, lines),
         line' = lines \/ \E q \in Kinds : line' = Queued(lines, w, q),
         entries' = entries, ReadFrom \subseteq ReadFrom',
         \A v \in Workers \ {w} : looked'[v] = looked[v],
         \A c \in Crawlers, h \in Hosts :
           /\ rules[c][h] # "unknown" => rules'[c][h] # "unknown"
           /\ Allows(rules'[c][h]) => h \in ReadFrom',
         ByTheRules(w)'
  PROVE  RulesInv'
<1>1. ASSUME NEW v \in Workers  PROVE ByTheRules(v)'
  <2>1. CASE v = w
    BY <2>1
  <2>2. CASE v # w
    <3>1. worker'[v] = worker[v] /\ looked'[v] = looked[v] /\ CrawlerOf[v] \in Crawlers
      BY <2>2, LeasesAssumption DEF TypeOK
    <3>2. ByTheRules(v)
      BY DEF RulesInv
    <3>. HIDE DEF ReadFrom
    <3>. QED  BY <3>1, <3>2 DEF ByTheRules, Allows
  <2>. QED  BY <2>1, <2>2
<1>2. ASSUME NEW h \in Hosts, Allows(entries'[h].known)  PROVE h \in ReadFrom'
  BY <1>2 DEF RulesInv, AnswersWereRead
<1>3. ASSUME NEW c \in Crawlers, wire'[c]["robots"].pc = "known",
             Allows(wire'[c]["robots"].known)
      PROVE  worker'[Head(line'[c]["robots"])].host \in ReadFrom'
  BY <1>3, HeadStays DEF RulesInv, AnswersWereRead
<1>. HIDE DEF ReadFrom
<1>. QED  BY <1>1, <1>2, <1>3 DEF RulesInv, AnswersWereRead, Allows

(* Where a step that asks, hears or reports takes worker w: to the slot for *)
(* its host's robots.txt, when it is its own to ask; or, by rules that were  *)
(* read, to the slot for the page or to no more.                            *)
Asks(r, h) == r.pc = "slot" /\ ~r.page /\ r.host = h

Follows(r, h, known) ==
  \/ r.pc = "slot" /\ r.page /\ r.host = h /\ Allows(known)
  \/ r.pc = "idle"

LEMMA FollowFollows ==
  ASSUME TypeOK, NEW w \in Workers, NEW h, NEW known, NEW lines, Follow(w, h, known, lines)
  PROVE  Follows(worker'[w], h, known)
<1>1. CASE Allows(known)
  <2>1. worker' = [worker EXCEPT ![w] = [Idle EXCEPT !.pc = "slot", !.host = h, !.page = TRUE,
                                           !.delay = PageDelay(w, h, known)]]
    BY <1>1 DEF Follow, AskSlot
  <2>. QED  BY <1>1, <2>1 DEF Follows, TypeOK, Idle
<1>2. CASE ~Allows(known)
  BY <1>2 DEF Follow, Follows, TypeOK, Idle
<1>. QED  BY <1>1, <1>2

LEMMA HeardAsks ==
  ASSUME TypeOK, NEW w \in Workers, NEW known, NEW lines, Heard(w, known, lines)
  PROVE  \/ known = "unknown" /\ rules' = rules /\ Asks(worker'[w], worker[w].host)
         \/ /\ known # "unknown" /\ Follows(worker'[w], worker[w].host, known)
            /\ rules' = [rules EXCEPT ![CrawlerOf[w]][worker[w].host] = known]
<1>1. CASE known = "unknown"
  <2>1. /\ rules' = rules
        /\ worker' = [worker EXCEPT ![w] = [Idle EXCEPT !.pc = "slot", !.host = worker[w].host,
                                              !.page = FALSE, !.delay = Delay[CrawlerOf[w]]]]
    BY <1>1 DEF Heard, AskSlot
  <2>. QED  BY <1>1, <2>1 DEF Asks, TypeOK, Idle
<1>2. CASE known # "unknown"
  BY <1>2, FollowFollows DEF Heard, Inserted
<1>. QED  BY <1>1, <1>2

(* Either keeps the rules. *)
LEMMA AskKeeps ==
  ASSUME TypeOK, RulesInv, NEW w \in Workers, worker[w].pc = "recall",
         rules' = rules, UNCHANGED <<looked, allowed, fragment>>,
         Asks(worker'[w], worker[w].host)
  PROVE  ByTheRules(w)'
<1>1. ByTheRules(w)
  BY DEF RulesInv
<1>2. looked[w][worker[w].host] = 0
  BY <1>1 DEF ByTheRules
<1>. QED  BY <1>1, <1>2 DEF ByTheRules, Asks, ReadFrom

LEMMA FollowKeeps ==
  ASSUME TypeOK, RulesInv, NEW w \in Workers, worker[w].pc \in {"recall", "report", "idle"},
         NEW h \in Hosts, worker[w].pc = "report" => worker[w].host = h,
         UNCHANGED <<looked, allowed, fragment>>,
         NEW known, known # "unknown", Allows(known) => h \in ReadFrom,
         rules' = [rules EXCEPT ![CrawlerOf[w]][h] = known],
         Follows(worker'[w], h, known)
  PROVE  /\ ByTheRules(w)'
         /\ \A c \in Crawlers, g \in Hosts :
              /\ rules[c][g] # "unknown" => rules'[c][g] # "unknown"
              /\ Allows(rules'[c][g]) => g \in ReadFrom'
<1>1. ByTheRules(w) /\ CrawlerOf[w] \in Crawlers /\ ReadFrom' = ReadFrom
  BY LeasesAssumption DEF RulesInv, ReadFrom
<1>2. /\ rules'[CrawlerOf[w]][h] = known
      /\ \A c \in Crawlers, g \in Hosts : c # CrawlerOf[w] \/ g # h => rules'[c][g] = rules[c][g]
  BY <1>1 DEF TypeOK
<1>3. \A c \in Crawlers, g \in Hosts : Allows(rules[c][g]) => g \in ReadFrom
  BY DEF RulesInv, AnswersWereRead
<1>4. ASSUME NEW g \in Hosts, looked[w][g] # 0
      PROVE  looked[w][g] = 1 /\ rules'[CrawlerOf[w]][g] # "unknown"
  <2>1. CASE g = h
    BY <1>1, <1>2, <1>4, <2>1 DEF ByTheRules
  <2>2. CASE g # h
    BY <1>1, <1>2, <1>4, <2>2 DEF ByTheRules
  <2>. QED  BY <2>1, <2>2
<1>5. ByTheRules(w)'
  BY <1>1, <1>4 DEF ByTheRules, Follows
<1>6. ASSUME NEW c \in Crawlers, NEW g \in Hosts
      PROVE  /\ rules[c][g] # "unknown" => rules'[c][g] # "unknown"
             /\ Allows(rules'[c][g]) => g \in ReadFrom'
  <2>1. CASE c = CrawlerOf[w] /\ g = h
    BY <1>1, <1>2, <2>1
  <2>2. CASE c # CrawlerOf[w] \/ g # h
    BY <1>1, <1>2, <1>3, <2>2
  <2>. QED  BY <2>1, <2>2
<1>. QED  BY <1>5, <1>6

LEMMA InitRules == Init => RulesInv
<1>. SUFFICES ASSUME Init  PROVE RulesInv
  OBVIOUS
<1>1. ASSUME NEW w \in Workers  PROVE ByTheRules(w)
  BY DEF Init, ByTheRules, Idle
<1>2. AnswersWereRead
  BY DEF Init, AnswersWereRead, Allows, Ready, Kinds
<1>. QED  BY <1>1, <1>2 DEF RulesInv

(* No worker goes on: at the most a connection empties or an answer comes.  *)
LEMMA IdleRules ==
  ASSUME TypeOK, RulesInv, UNCHANGED <<worker, rules, looked, allowed, fragment>>,
         \A h \in Hosts : Allows(entries'[h].known) => h \in ReadFrom,
         \A c \in Crawlers :
           wire'[c]["robots"].pc = "known" /\ Allows(wire'[c]["robots"].known)
             => worker[Head(line'[c]["robots"])].host \in ReadFrom
  PROVE  RulesInv'
<1>1. ReadFrom' = ReadFrom
  BY DEF ReadFrom
<1>2. ASSUME NEW w \in Workers  PROVE ByTheRules(w)'
  BY <1>1 DEF RulesInv, ByTheRules, Allows
<1>. QED  BY <1>1, <1>2 DEF RulesInv, AnswersWereRead, Allows

LEMMA EnvironmentRules ==
  ASSUME TypeOK, RulesInv, Tick \/ SiteChanges \/ UNCHANGED vars \/ \E c \in Crawlers : Grant(c)
  PROVE  RulesInv'
<1>1. UNCHANGED <<worker, rules, looked, allowed, fragment, entries, line>>
  BY DEF Tick, SiteChanges, Grant, vars, authority, links, history
<1>2. \A c \in Crawlers : wire'[c]["robots"] = wire[c]["robots"]
  <2>1. CASE \E c \in Crawlers : Grant(c)
    <3>1. PICK c \in Crawlers : \E answer : wire' = [wire EXCEPT ![c]["slot"] = answer]
      BY <2>1 DEF Grant
    <3>. QED  BY <3>1 DEF TypeOK, Kinds
  <2>2. CASE ~(\E c \in Crawlers : Grant(c))
    BY <2>2 DEF Tick, SiteChanges, vars, links
  <2>. QED  BY <2>1, <2>2
<1>. QED  BY <1>1, <1>2, IdleRules DEF RulesInv, AnswersWereRead

LEMMA BreakRules ==
  ASSUME TypeOK, RulesInv, NEW c \in Crawlers, NEW k \in Kinds, Break(c, k)
  PROVE  RulesInv'
<1>1. /\ UNCHANGED <<worker, rules, looked, allowed, fragment, entries>>
      /\ line' = [line EXCEPT ![c][k] = <<>>] /\ wire' = [wire EXCEPT ![c][k] = Down]
  BY DEF Break, authority, history
<1>2. line \in [Crawlers -> [Kinds -> Seq(Workers)]] /\ wire \in [Crawlers -> [Kinds -> WireType]]
      /\ "robots" \in Kinds
  BY DEF TypeOK, Kinds
<1>3. \A d \in Crawlers : wire'[d]["robots"].pc = "known" =>
        line'[d]["robots"] = line[d]["robots"] /\ wire'[d]["robots"] = wire[d]["robots"]
  BY <1>1, <1>2, RecordTypes
<1>. QED  BY <1>1, <1>3, IdleRules DEF RulesInv, AnswersWereRead

(* What the authority learns and passes on was read. *)
LEMMA RecallRules ==
  ASSUME TypeOK, RulesInv, NEW c \in Crawlers, Recall(c)
  PROVE  RulesInv'
<1>. DEFINE w == Head(line[c]["robots"])  h == worker[w].host
            cache == IF worker[w].pc = "report"
                       THEN [entries EXCEPT ![h] = [known |-> worker[w].known, at |-> now]]
                       ELSE entries
<1>1. /\ UNCHANGED <<worker, rules, looked, allowed, fragment, line>>
      /\ entries' = cache
      /\ wire' = [wire EXCEPT ![c]["robots"] =
                    [pc |-> "known", wait |-> 0, ticket |-> 0, known |-> Recalled(cache, h)]]
  BY DEF Recall, history
<1>2. w \in Workers /\ h \in Hosts /\ "robots" \in Kinds
  BY HeadAsks DEF Recall, Kinds
<1>3. \A g \in Hosts : Allows(cache[g].known) => g \in ReadFrom
  <2>1. ByTheRules(w)
    BY <1>2 DEF RulesInv
  <2>2. \A g \in Hosts : Allows(entries[g].known) => g \in ReadFrom
    BY DEF RulesInv, AnswersWereRead
  <2>3. CASE worker[w].pc = "report"
    <3>1. Allows(worker[w].known) => h \in ReadFrom
      BY <2>1, <2>3 DEF ByTheRules
    <3>2. \A g \in Hosts : cache[g] = IF g = h THEN [known |-> worker[w].known, at |-> now]
                                              ELSE entries[g]
      BY <2>3 DEF TypeOK
    <3>. HIDE DEF w, h, cache
    <3>. QED  BY <2>2, <3>1, <3>2
  <2>. QED  BY <2>2, <2>3
<1>4. Allows(Recalled(cache, h)) => h \in ReadFrom
  <2>. HIDE DEF w, h, cache
  <2>. QED  BY <1>2, <1>3 DEF Recalled, Allows
<1>5. wire \in [Crawlers -> [Kinds -> WireType]]
  BY DEF TypeOK
<1>. DEFINE answer == [pc |-> "known", wait |-> 0, ticket |-> 0, known |-> Recalled(cache, h)]
<1>6. /\ wire'[c]["robots"].known = Recalled(cache, h)
      /\ \A d \in Crawlers : d # c => wire'[d]["robots"] = wire[d]["robots"]
  <2>1. answer.known = Recalled(cache, h)
    OBVIOUS
  <2>. HIDE DEF answer
  <2>2. wire' = [wire EXCEPT ![c]["robots"] = answer]
    BY <1>1 DEF answer
  <2>. HIDE DEF cache, h, w
  <2>. QED  BY <1>2, <1>5, <2>1, <2>2
<1>7. \A d \in Crawlers :
        wire'[d]["robots"].pc = "known" /\ Allows(wire'[d]["robots"].known)
          => worker[Head(line'[d]["robots"])].host \in ReadFrom
  <2>. SUFFICES ASSUME NEW d \in Crawlers, wire'[d]["robots"].pc = "known",
                       Allows(wire'[d]["robots"].known)
                PROVE  worker[Head(line[d]["robots"])].host \in ReadFrom
    BY <1>1
  <2>1. CASE d = c
    BY <1>4, <1>6, <2>1
  <2>2. CASE d # c
    BY <1>6, <2>2 DEF RulesInv, AnswersWereRead
  <2>. QED  BY <2>1, <2>2
<1>. HIDE DEF cache
<1>. QED  BY <1>1, <1>3, <1>7, IdleRules

(* A step that asks, hears or reports. *)
LEMMA GoesRules ==
  ASSUME TypeOK, RulesInv, NEW w \in Workers, NEW lines \in LineType, Left(w, lines),
         Goes(w, lines), UNCHANGED <<entries, looked, allowed, fragment>>,
         ByTheRules(w)',
         \A c \in Crawlers, h \in Hosts :
           /\ rules[c][h] # "unknown" => rules'[c][h] # "unknown"
           /\ Allows(rules'[c][h]) => h \in ReadFrom'
  PROVE  RulesInv'
<1>1. PICK r \in WorkerType :
        /\ worker' = [worker EXCEPT ![w] = r]
        /\ line' = lines \/ \E q \in Kinds : line' = Queued(lines, w, q)
  BY DEF Goes
<1>2. ReadFrom \subseteq ReadFrom'
  BY DEF ReadFrom
<1>. QED  BY <1>1, <1>2, OneWorkerRules

LEMMA RulesUntouched ==
  ASSUME RulesInv, rules' = rules, ReadFrom \subseteq ReadFrom'
  PROVE  \A c \in Crawlers, h \in Hosts :
           /\ rules[c][h] # "unknown" => rules'[c][h] # "unknown"
           /\ Allows(rules'[c][h]) => h \in ReadFrom'
<1>1. \A c \in Crawlers, h \in Hosts : Allows(rules[c][h]) => h \in ReadFrom
  BY DEF RulesInv, AnswersWereRead
<1>. QED  BY <1>1

LEMMA HeardRules ==
  ASSUME TypeOK, RulesInv, NEW w \in Workers, NEW lines \in LineType, Left(w, lines),
         Goes(w, lines), UNCHANGED <<entries, looked, allowed, fragment>>,
         worker[w].pc = "recall", NEW known,
         Allows(known) => worker[w].host \in ReadFrom, Heard(w, known, lines)
  PROVE  RulesInv'
<1>1. worker[w].host \in Hosts /\ ReadFrom' = ReadFrom
  BY DEF TypeOK, WorkerType, ReadFrom
<1>2. CASE rules' = rules /\ Asks(worker'[w], worker[w].host)
  BY <1>1, <1>2, AskKeeps, RulesUntouched, GoesRules
<1>3. CASE /\ known # "unknown" /\ Follows(worker'[w], worker[w].host, known)
           /\ rules' = [rules EXCEPT ![CrawlerOf[w]][worker[w].host] = known]
  BY <1>1, <1>3, FollowKeeps, GoesRules
<1>. QED  BY <1>2, <1>3, HeardAsks

LEMMA ReportedRules ==
  ASSUME TypeOK, RulesInv, NEW w \in Workers, NEW lines \in LineType, Left(w, lines),
         Goes(w, lines), UNCHANGED <<entries, looked, allowed, fragment>>,
         worker[w].pc = "report", Reported(w, lines)
  PROVE  RulesInv'
<1>1. worker[w].host \in Hosts
  BY DEF TypeOK, WorkerType
<1>2. ByTheRules(w)
  BY DEF RulesInv
<1>3. worker[w].known # "unknown" /\ (Allows(worker[w].known) => worker[w].host \in ReadFrom)
  BY <1>2 DEF ByTheRules
<1>4. /\ Follows(worker'[w], worker[w].host, worker[w].known)
      /\ rules' = [rules EXCEPT ![CrawlerOf[w]][worker[w].host] = worker[w].known]
  BY FollowFollows DEF Reported, Inserted
<1>. QED  BY <1>1, <1>3, <1>4, FollowKeeps, GoesRules

LEMMA DeliverKnownRules ==
  ASSUME TypeOK, RulesInv, NEW c \in Crawlers, DeliverKnown(c)
  PROVE  RulesInv'
<1>1. PICK w \in Workers, lines \in LineType :
        /\ Left(w, lines) /\ Goes(w, lines)
        /\ w = Head(line[c]["robots"]) /\ worker[w].pc \in {"recall", "report"}
        /\ IF worker[w].pc = "recall"
             THEN Heard(w, wire[c]["robots"].known, lines) ELSE Reported(w, lines)
  BY DeliverKnownGoes
<1>2. Allows(wire[c]["robots"].known) => worker[w].host \in ReadFrom
  BY <1>1 DEF DeliverKnown, RulesInv, AnswersWereRead
<1>3. UNCHANGED <<entries, looked, allowed, fragment>>
  BY DEF DeliverKnown, authority, history
<1>. QED  BY <1>1, <1>2, <1>3, HeardRules, ReportedRules

LEMMA KnowNothingRules ==
  ASSUME TypeOK, RulesInv, NEW w \in Workers, KnowNothing(w)
  PROVE  RulesInv'
<1>1. Left(w, line) /\ Goes(w, line) /\ line \in LineType
  BY KnowNothingGoes, LineIsTyped
<1>2. UNCHANGED <<entries, looked, allowed, fragment>>
  BY DEF KnowNothing, authority, history
<1>3. worker[w].pc \in {"recall", "report"}
  BY DEF KnowNothing, Dropped, Asking
<1>4. ~Allows("unknown")
  BY DEF Allows
<1>. QED  BY <1>1, <1>2, <1>3, <1>4, HeardRules, ReportedRules DEF KnowNothing

LEMMA TakeRules ==
  ASSUME TypeOK, RulesInv, NEW w \in Workers, NEW h \in Hosts, Take(w, h)
  PROVE  RulesInv'
<1>1. Left(w, line) /\ Goes(w, line) /\ line \in LineType
  BY TakeGoes, LineIsTyped
<1>2. UNCHANGED <<entries, looked, allowed, fragment>> /\ rules' = rules /\ worker[w].pc = "idle"
  BY RecordTypes DEF Take, authority, history
<1>3. ReadFrom' = ReadFrom
  BY <1>2 DEF ReadFrom
<1>4. CASE rules[CrawlerOf[w]][h] = "unknown"
  <2>1. worker' = [worker EXCEPT ![w] = [Idle EXCEPT !.pc = "recall", !.host = h]]
    BY <1>4 DEF Take
  <2>2. worker'[w].pc = "recall" /\ worker'[w].host = h
    BY <2>1 DEF TypeOK, Idle
  <2>3. ByTheRules(w)
    BY DEF RulesInv
  <2>4. \A g \in Hosts : looked[w][g] # 0 =>
          looked[w][g] = 1 /\ rules[CrawlerOf[w]][g] # "unknown"
    BY <1>2, <2>3 DEF ByTheRules
  <2>5. ByTheRules(w)'
    BY <1>2, <1>4, <2>2, <2>4 DEF ByTheRules
  <2>. QED  BY <1>1, <1>2, <1>3, <2>5, RulesUntouched, GoesRules
<1>5. CASE rules[CrawlerOf[w]][h] # "unknown"
  <2>. DEFINE known == rules[CrawlerOf[w]][h]
  <2>1. Follows(worker'[w], h, known)
    BY <1>5, FollowFollows DEF Take
  <2>2. rules' = [rules EXCEPT ![CrawlerOf[w]][h] = known]
    BY <1>2 DEF TypeOK
  <2>3. Allows(known) => h \in ReadFrom
    BY LeasesAssumption DEF RulesInv, AnswersWereRead
  <2>4. ByTheRules(w)'
    BY <1>2, <1>5, <2>1, <2>2, <2>3, FollowKeeps
  <2>. QED  BY <1>1, <1>2, <1>3, <2>4, RulesUntouched, GoesRules
<1>. QED  BY <1>4, <1>5

(* A lease, or permission nobody granted: for the same host and purpose.    *)
LEMMA WaitRules ==
  ASSUME TypeOK, RulesInv, \/ \E c \in Crawlers : DeliverLease(c)
                           \/ \E w \in Workers : FallBack(w)
  PROVE  RulesInv'
<1>1. PICK w \in Workers, lines \in LineType, at \in Nat, ticket \in Nat :
        /\ Left(w, lines) /\ line' = lines /\ worker[w].pc = "slot"
        /\ worker' = [worker EXCEPT ![w] = Waiting(w, at, ticket)]
  <2>1. ASSUME NEW c \in Crawlers, DeliverLease(c)
        PROVE  \E w \in Workers, lines \in LineType, at \in Nat, ticket \in Nat :
                 /\ Left(w, lines) /\ line' = lines /\ worker[w].pc = "slot"
                 /\ worker' = [worker EXCEPT ![w] = Waiting(w, at, ticket)]
    <3>. DEFINE v == Head(line[c]["slot"])  left == Answered(v, "slot")
    <3>1. /\ wire' = [wire EXCEPT ![c]["slot"] = Ready] /\ line' = left
          /\ worker' = [worker EXCEPT ![v] =
                          Waiting(v, now + wire[c]["slot"].wait, wire[c]["slot"].ticket)]
      BY <2>1 DEF DeliverLease
    <3>2. /\ "slot" \in Kinds /\ line[c]["slot"] # <<>>
          /\ now + wire[c]["slot"].wait \in Nat /\ wire[c]["slot"].ticket \in Nat
      BY <2>1, LeaseReady DEF DeliverLease
    <3>3. v \in Workers /\ left \in LineType /\ Left(v, left) /\ worker[v].pc = "slot"
      BY <3>1, <3>2, LeftOne DEF AskPcs
    <3>. HIDE DEF v, left
    <3>. QED  BY <3>1, <3>2, <3>3
  <2>2. ASSUME NEW w \in Workers, FallBack(w)
        PROVE  /\ now \in Nat /\ Left(w, line) /\ line' = line /\ worker[w].pc = "slot" /\ line \in LineType
               /\ worker' = [worker EXCEPT ![w] = Waiting(w, now, 0)]
    BY <2>2, DroppedLeft, LineIsTyped DEF FallBack, links, AskPcs, Kinds, TypeOK
  <2>. QED  BY <2>1, <2>2
<1>2. UNCHANGED <<entries, looked, allowed, fragment, rules>>
  BY DEF DeliverLease, FallBack, authority, history
<1>3. /\ worker'[w].pc = "wait" /\ worker'[w].page = worker[w].page
      /\ worker'[w].host = worker[w].host
  BY <1>1 DEF TypeOK, WorkerType, Waiting
<1>4. ByTheRules(w)
  BY DEF RulesInv
<1>5. ReadFrom' = ReadFrom
  BY <1>2 DEF ReadFrom
<1>6. ByTheRules(w)'
  BY <1>1, <1>2, <1>3, <1>4, <1>5 DEF ByTheRules
<1>. QED  BY <1>1, <1>2, <1>5, <1>6, RulesUntouched, OneWorkerRules

(* The one request for a robots.txt: its worker had made none. *)
LEMMA FetchRobotsRules ==
  ASSUME TypeOK, RulesInv, NEW w \in Workers, FetchRobots(w)
  PROVE  RulesInv'
<1>. DEFINE h == worker[w].host
<1>1. /\ worker[w].pc = "wait" /\ ~worker[w].page /\ wire' = wire /\ rules' = rules
      /\ entries' = entries /\ line' = Queued(line, w, "robots")
      /\ looked' = [looked EXCEPT ![w][h] = @ + 1]
  BY DEF FetchRobots, Turn, authority
<1>2. h \in Hosts /\ site[h] \in Answers
  BY FetchRobotsReports DEF TypeOK
<1>3. ReadFrom \subseteq ReadFrom'
  BY DEF FetchRobots, ReadFrom
<1>4. PICK k :
        /\ worker' = [worker EXCEPT ![w] = [Idle EXCEPT !.pc = "report", !.host = h, !.known = k]]
        /\ k # "unknown" /\ (Allows(k) => h \in ReadFrom')
  BY <1>2, LeasesAssumption DEF FetchRobots, ReadFrom, Allows
<1>5. worker'[w].pc = "report" /\ worker'[w].host = h /\ worker'[w].known = k
  BY <1>4 DEF TypeOK, Idle
<1>6. ByTheRules(w)
  BY DEF RulesInv
<1>7. /\ looked'[w][h] = 1
      /\ \A g \in Hosts : g # h => looked'[w][g] = looked[w][g]
      /\ \A v \in Workers \ {w} : looked'[v] = looked[v]
  <2>1. looked[w][h] = 0
    BY <1>1, <1>6 DEF ByTheRules
  <2>. QED  BY <1>1, <1>2, <2>1 DEF TypeOK
<1>8. \A g \in Hosts : looked'[w][g] # 0 =>
        looked'[w][g] = 1 /\ (rules[CrawlerOf[w]][g] # "unknown" \/ g = h)
  BY <1>1, <1>6, <1>7 DEF ByTheRules
<1>9. ByTheRules(w)'
  <2>. HIDE DEF h
  <2>. QED  BY <1>1, <1>4, <1>5, <1>8 DEF ByTheRules
<1>10. Left(w, line) /\ "robots" \in Kinds /\ line \in LineType
  BY <1>1, QuietLeft, LineIsTyped DEF Kinds
<1>. QED  BY <1>1, <1>3, <1>4, <1>7, <1>9, <1>10, RulesUntouched, OneWorkerRules

LEMMA FetchPageRules ==
  ASSUME TypeOK, RulesInv, NEW w \in Workers, FetchPage(w)
  PROVE  RulesInv'
<1>1. /\ worker[w].pc = "wait" /\ wire' = wire /\ line' = line
      /\ worker' = [worker EXCEPT ![w] = Idle]
      /\ UNCHANGED <<entries, looked, allowed, fragment, rules>>
  BY DEF FetchPage, Turn, links, authority
<1>2. Left(w, line) /\ line \in LineType
  BY <1>1, QuietLeft, LineIsTyped
<1>3. ByTheRules(w)
  BY DEF RulesInv
<1>4. worker'[w].pc = "idle"
  BY <1>1, RecordTypes DEF TypeOK
<1>5. ReadFrom' = ReadFrom
  BY <1>1 DEF ReadFrom
<1>6. ByTheRules(w)'
  BY <1>1, <1>3, <1>4 DEF ByTheRules
<1>. QED  BY <1>1, <1>2, <1>5, <1>6, RulesUntouched, OneWorkerRules

LEMMA NextRules == TypeOK /\ RulesInv /\ [Next]_vars => RulesInv'
BY EnvironmentRules, BreakRules, RecallRules, DeliverKnownRules, KnowNothingRules, TakeRules,
   WaitRules, FetchRobotsRules, FetchPageRules DEF Next, LinkStep, WorkerStep

LEMMA RulesHold == Spec => []RulesInv
<1>1. TypeOK /\ RulesInv /\ [Next]_vars => RulesInv'
  BY NextRules
<1>. QED  BY <1>1, InitRules, LeasesTypeCorrect, PTL DEF Spec

(* A page is asked for by an answer of its host that some crawler read to   *)
(* allow it, whatever breaks, expires, is cut, or comes from the authority.  *)
THEOREM PagesHaveAnAnswer == Spec => []PagesNeedAnAnswer
<1>1. RulesInv => PagesNeedAnAnswer
  BY DEF RulesInv, ByTheRules, PagesNeedAnAnswer, ReadFrom
<1>. QED  BY <1>1, RulesHold, PTL

(* A worker asks a host for its robots.txt once, even when the authority    *)
(* forgets it, or is gone.                                                  *)
THEOREM RobotsAskedOnce == Spec => []RobotsOncePerWorker
<1>1. TypeOK /\ RulesInv => RobotsOncePerWorker
  <2>. SUFFICES ASSUME TypeOK, RulesInv, NEW w \in Workers, NEW h \in Hosts
                PROVE  looked[w][h] <= 1
    BY DEF RobotsOncePerWorker
  <2>1. ByTheRules(w) /\ looked[w][h] \in Nat
    BY DEF RulesInv, TypeOK
  <2>. QED  BY <2>1 DEF ByTheRules
<1>. QED  BY <1>1, RulesHold, LeasesTypeCorrect, PTL
=============================================================================
