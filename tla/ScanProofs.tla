----------------------------- MODULE ScanProofs -----------------------------
(***************************************************************************)
(* What Scan guarantees for any documents, queries, limits, statistics and *)
(* any number of postings in a block: a cursor reads what a plain decode   *)
(* reads, every turn of the walk leaves postings behind, and what the walk *)
(* leaves out is not missed.                                               *)
(***************************************************************************)
EXTENDS Scan, Sums, SequenceTheorems

-----------------------------------------------------------------------------
(* Numbers in blocks.                                                       *)

LEMMA IntervalIsNumber == SkipInterval \in Nat \ {0}
BY PostingsAssumption

LEMMA Division ==
  ASSUME NEW a \in Nat
  PROVE  /\ a \div SkipInterval \in Nat /\ a % SkipInterval \in 0..SkipInterval - 1
         /\ a % SkipInterval = a - SkipInterval * (a \div SkipInterval)
<1>. DEFINE q == a \div SkipInterval
            r == a % SkipInterval
<1>1. q \in Int /\ r \in 0..SkipInterval - 1 /\ r = a - SkipInterval * q
  BY IntervalIsNumber
<1>. HIDE DEF q, r
<1>2. ASSUME q < 0 PROVE FALSE
  <2>1. SkipInterval * q <= SkipInterval * (-1)
    BY <1>1, <1>2, IntervalIsNumber
  <2>. QED  BY <1>1, <2>1, IntervalIsNumber
<1>. QED  BY <1>1, <1>2 DEF q, r

LEMMA Product ==
  \A a, b \in Nat : /\ a * SkipInterval \in Nat
                    /\ a <= b => a * SkipInterval <= b * SkipInterval
                    /\ a < b => a * SkipInterval + SkipInterval <= b * SkipInterval
BY IntervalIsNumber

LEMMA DivisionIs ==
  ASSUME NEW a \in Nat, NEW q \in Nat, q * SkipInterval <= a, a < q * SkipInterval + SkipInterval
  PROVE  a \div SkipInterval = q /\ a % SkipInterval = a - q * SkipInterval
<1>. DEFINE p == a \div SkipInterval
            r == a % SkipInterval
<1>1. p \in Nat /\ r \in 0..SkipInterval - 1 /\ r = a - SkipInterval * p
  BY Division
<1>. HIDE DEF p, r
<1>2. SkipInterval * p = p * SkipInterval
  BY <1>1, IntervalIsNumber
<1>3. p = q
  BY <1>1, <1>2, IntervalIsNumber, Product
<1>. QED  BY <1>1, <1>2, <1>3 DEF p, r

(* Blocks are counted from zero: the one a number is in, and where it starts. *)
LEMMA BlockOf ==
  ASSUME NEW a \in Nat
  PROVE  /\ a \div SkipInterval \in Nat /\ (a \div SkipInterval) * SkipInterval \in 0..a
         /\ a < (a \div SkipInterval) * SkipInterval + SkipInterval
         /\ ((a % SkipInterval) = 0) <=> (a = (a \div SkipInterval) * SkipInterval)
<1>. DEFINE q == a \div SkipInterval
<1>1. q \in Nat /\ a % SkipInterval \in 0..SkipInterval - 1 /\ (a % SkipInterval) = a - SkipInterval * q
  BY Division
<1>. HIDE DEF q
<1>2. SkipInterval * q = q * SkipInterval
  BY <1>1, IntervalIsNumber
<1>. QED  BY <1>1, <1>2, IntervalIsNumber, Product DEF q

(* How many there are of n postings.                                        *)
Blocks(n) == (n + SkipInterval - 1) \div SkipInterval
LEMMA BlocksOf ==
  ASSUME NEW n \in Nat
  PROVE  Blocks(n) \in Nat /\ \A b \in Nat : b < Blocks(n) <=> b * SkipInterval < n
<1>1. n + SkipInterval - 1 \in Nat
  BY IntervalIsNumber
<1>. DEFINE q == Blocks(n)
<1>2. q \in Nat /\ q * SkipInterval <= n + SkipInterval - 1 /\ n + SkipInterval - 1 < q * SkipInterval + SkipInterval
  BY <1>1, BlockOf DEF Blocks
<1>. HIDE DEF q
<1>3. ASSUME NEW b \in Nat PROVE b < q <=> b * SkipInterval < n
  BY <1>2, IntervalIsNumber, Product
<1>. QED  BY <1>2, <1>3 DEF q

-----------------------------------------------------------------------------
(* A list as it was written, and the cursors on it.                         *)

AnyFields == [Fields -> SUBSET Nat]

(* ids are the documents of the list, in order.                             *)
Lists(list, ids) ==
  /\ list.count \in Nat
  /\ ids \in [1..list.count -> Nat \ {0}]
  /\ \A i, j \in 1..list.count : i < j => ids[i] < ids[j]
  /\ \A i \in 1..list.count :
       /\ list.cells[i].fields \in AnyFields
       /\ list.cells[i].value = IF (i - 1) % SkipInterval = 0 THEN ids[i] ELSE ids[i] - ids[i - 1]
  /\ list.blocks \in Seq([first : Nat, at : Nat, bound : Nat])
  /\ Len(list.blocks) = Blocks(list.count)
  /\ \A b \in Nat : b < Blocks(list.count) =>
       /\ list.blocks[b + 1].first = ids[b * SkipInterval + 1]
       /\ list.blocks[b + 1].at = b * SkipInterval

CursorsOn(list) ==
  [list : {list}, at : Nat, index : Nat, doc : Nat, fields : AnyFields, exhausted : BOOLEAN]

(* A cursor on the posting after the first n, and one that is on whichever  *)
(* posting its index names.                                                 *)
Stands(c, list, ids, n) ==
  /\ c \in CursorsOn(list) /\ ~c.exhausted
  /\ n \in Nat /\ n < list.count
  /\ c.index = n /\ c.at = n + 1 /\ c.doc = ids[n + 1] /\ c.fields = list.cells[n + 1].fields
Reads(c, list, ids) ==
  /\ c \in CursorsOn(list)
  /\ c.exhausted \/ Stands(c, list, ids, c.index)

LEMMA ReadStands ==
  ASSUME NEW list, NEW ids, Lists(list, ids), NEW c \in CursorsOn(list), NEW n \in Nat, n < list.count,
         c.at = n, c.index = n, ~c.exhausted,
         NEW absolute \in BOOLEAN, absolute <=> n % SkipInterval = 0,
         absolute \/ (n > 0 /\ c.doc = ids[n])
  PROVE  Stands(Read(c, absolute), list, ids, n)
<1>1. list.count \in Nat /\ n + 1 \in 1..list.count /\ n + 1 - 1 = n /\ c.list = list
  BY DEF Lists, CursorsOn
<1>. DEFINE cell == list.cells[n + 1]
<1>2. /\ cell.fields \in AnyFields
      /\ cell.value = IF n % SkipInterval = 0 THEN ids[n + 1] ELSE ids[n + 1] - ids[n]
      /\ ids[n + 1] \in Nat /\ (n > 0 => ids[n] \in Nat)
  <2>1. \A i \in 1..list.count :
          /\ list.cells[i].fields \in AnyFields
          /\ list.cells[i].value = IF (i - 1) % SkipInterval = 0 THEN ids[i] ELSE ids[i] - ids[i - 1]
          /\ ids[i] \in Nat
    BY DEF Lists
  <2>. DEFINE i == n + 1
  <2>2. i \in 1..list.count /\ i - 1 = n
    BY <1>1
  <2>. HIDE DEF i
  <2>3. /\ list.cells[i].fields \in AnyFields /\ ids[i] \in Nat
        /\ list.cells[i].value = IF n % SkipInterval = 0 THEN ids[i] ELSE ids[i] - ids[n]
    BY <2>1, <2>2
  <2>4. n > 0 => n \in 1..list.count
    BY <1>1
  <2>. QED  BY <2>1, <2>3, <2>4 DEF i
<1>3. Read(c, absolute) = [c EXCEPT !.doc = IF absolute THEN cell.value ELSE c.doc + cell.value,
                                    !.fields = cell.fields, !.at = c.at + 1]
  BY <1>1 DEF Read
<1>. HIDE DEF cell
<1>. DEFINE doc == IF absolute THEN cell.value ELSE c.doc + cell.value
<1>4. doc = ids[n + 1]
  BY <1>2
<1>. HIDE DEF doc
<1>5. Read(c, absolute) = [c EXCEPT !.doc = doc, !.fields = cell.fields, !.at = n + 1]
  BY <1>3 DEF doc
<1>6. doc \in Nat /\ n + 1 \in Nat
  BY <1>2, <1>4
<1>. QED  BY <1>2, <1>4, <1>5, <1>6 DEF Stands, CursorsOn, cell

LEMMA CursorReads ==
  ASSUME NEW list, NEW ids, Lists(list, ids)
  PROVE  /\ Reads(Cursor(list), list, ids)
         /\ IF list.count = 0 THEN Cursor(list).exhausted ELSE Stands(Cursor(list), list, ids, 0)
<1>. DEFINE start == [list |-> list, at |-> 0, index |-> 0, doc |-> 0,
                      fields |-> NoOccurrences, exhausted |-> list.count = 0]
<1>0. list.count \in Nat /\ 0 % SkipInterval = 0
  BY BlockOf DEF Lists
<1>1. NoOccurrences \in AnyFields
  BY DEF NoOccurrences, AnyFields
<1>2. start \in CursorsOn(list)
  BY <1>1 DEF CursorsOn
<1>3. CASE list.count = 0
  BY <1>2, <1>3 DEF Cursor, Reads
<1>4. CASE list.count # 0
  <2>0. start.at = 0 /\ start.index = 0 /\ 0 < list.count
    BY <1>0, <1>4
  <2>3. ~start.exhausted
    BY <1>4, Zenon
  <2>1. Stands(Read(start, TRUE), list, ids, 0)
    <3>. HIDE DEF start
    <3>. QED  BY <1>0, <1>2, <2>0, <2>3, ReadStands
  <2>2. Read(start, TRUE).index = 0
    BY <2>1 DEF Stands
  <2>. QED  BY <1>4, <2>1, <2>2 DEF Cursor, Reads, Stands
<1>. QED  BY <1>3, <1>4

LEMMA AdvancedStands ==
  ASSUME NEW list, NEW ids, Lists(list, ids), NEW c, NEW n, Stands(c, list, ids, n)
  PROVE  /\ Advanced(c) \in CursorsOn(list)
         /\ IF n + 1 >= list.count THEN Advanced(c).exhausted ELSE Stands(Advanced(c), list, ids, n + 1)
<1>. DEFINE next == [c EXCEPT !.index = n + 1]
            absolute == (n + 1) % SkipInterval = 0
<1>1. /\ c \in CursorsOn(list) /\ c.index = n /\ c.list = list /\ ~c.exhausted /\ n \in Nat /\ list.count \in Nat
      /\ c.at = n + 1 /\ c.doc = ids[n + 1] /\ n < list.count
  BY DEF Stands, CursorsOn, Lists
<1>2. next \in CursorsOn(list) /\ next.index = n + 1 /\ next.at = n + 1 /\ next.doc = ids[n + 1] /\ ~next.exhausted
  BY <1>1 DEF CursorsOn
<1>3. CASE n + 1 >= list.count
  <2>1. Advanced(c) = [c EXCEPT !.index = n + 1, !.exhausted = TRUE]
    BY <1>1, <1>3 DEF Advanced
  <2>. QED  BY <1>1, <1>3, <2>1 DEF CursorsOn
<1>4. CASE n + 1 < list.count
  <2>1. Advanced(c) = Read(next, absolute)
    BY <1>1, <1>4 DEF Advanced
  <2>2. absolute \in BOOLEAN /\ n + 1 \in Nat /\ n + 1 > 0
    BY <1>1
  <2>3. absolute <=> (n + 1) % SkipInterval = 0
    OBVIOUS
  <2>. HIDE DEF next, absolute
  <2>4. Stands(Read(next, absolute), list, ids, n + 1)
    BY <1>2, <1>4, <2>2, <2>3, ReadStands
  <2>. QED  BY <1>1, <1>4, <2>1, <2>4 DEF Stands
<1>. QED  BY <1>1, <1>3, <1>4

LEMMA JumpedStands ==
  ASSUME NEW list, NEW ids, Lists(list, ids), NEW c \in CursorsOn(list), ~c.exhausted,
         NEW b \in Nat, b < Blocks(list.count)
  PROVE  Stands(Jumped(c, b), list, ids, b * SkipInterval)
<1>. DEFINE n == b * SkipInterval
<1>1. list.count \in Nat /\ n \in Nat /\ n < list.count /\ c.list = list /\ Blocks(list.count) \in Nat
  BY BlocksOf, Product DEF Lists, CursorsOn
<1>2. list.blocks[b + 1].at = n
  BY DEF Lists
<1>3. b + 1 \in 1..Len(list.blocks) /\ list.blocks \in Seq([first : Nat, at : Nat, bound : Nat])
  BY <1>1 DEF Lists
<1>4. list.blocks[b + 1].first \in Nat
  <2>. DEFINE i == b + 1
  <2>1. i \in 1..Len(list.blocks)
    BY <1>3
  <2>. HIDE DEF i
  <2>2. list.blocks[i] \in [first : Nat, at : Nat, bound : Nat]
    BY <1>3, <2>1, ElementOfSeq
  <2>. QED  BY <2>2 DEF i
<1>. DEFINE d == [c EXCEPT !.at = n, !.index = n, !.doc = list.blocks[b + 1].first]
<1>5. Jumped(c, b) = Read(d, TRUE)
  BY <1>1, <1>2 DEF Jumped
<1>6. d \in CursorsOn(list) /\ d.at = n /\ d.index = n /\ ~d.exhausted
  BY <1>1, <1>4 DEF CursorsOn
<1>7. n % SkipInterval = 0
  <2>1. n <= n /\ n < n + SkipInterval /\ n - n = 0
    BY <1>1, IntervalIsNumber
  <2>. QED  BY <1>1, <2>1, DivisionIs
<1>. HIDE DEF d, n
<1>8. Stands(Read(d, TRUE), list, ids, n)
  BY <1>1, <1>6, <1>7, ReadStands
<1>. QED  BY <1>5, <1>8 DEF n

LEMMA SkippedStands ==
  ASSUME NEW list, NEW ids, Lists(list, ids), NEW c, NEW n, Stands(c, list, ids, n)
  PROVE  /\ SkippedBlock(c) \in CursorsOn(list)
         /\ IF n \div SkipInterval + 1 < Blocks(list.count)
            THEN /\ Stands(SkippedBlock(c), list, ids, (n \div SkipInterval + 1) * SkipInterval)
                 /\ n < (n \div SkipInterval + 1) * SkipInterval
                 /\ CurrentBlock(SkippedBlock(c)) # CurrentBlock(c)
            ELSE /\ SkippedBlock(c).exhausted
                 /\ CurrentBlock(SkippedBlock(c)) = CurrentBlock(c)
<1>. DEFINE b == n \div SkipInterval
<1>1. /\ c \in CursorsOn(list) /\ c.index = n /\ c.list = list /\ ~c.exhausted /\ n \in Nat /\ list.count \in Nat
      /\ b \in Nat /\ CurrentBlock(c) = b
  BY BlockOf DEF Stands, CursorsOn, Lists, CurrentBlock
<1>2. Len(list.blocks) = Blocks(list.count)
  BY DEF Lists
<1>3. CASE b + 1 < Blocks(list.count)
  <2>1. SkippedBlock(c) = Jumped(c, b + 1)
    BY <1>1, <1>2, <1>3 DEF SkippedBlock
  <2>. DEFINE e == b + 1
  <2>2. e \in Nat /\ e < Blocks(list.count)
    BY <1>1, <1>3
  <2>. HIDE DEF e
  <2>3. Stands(Jumped(c, e), list, ids, e * SkipInterval)
    BY <1>1, <2>2, JumpedStands
  <2>4. n < e * SkipInterval
    <3>1. n < b * SkipInterval + SkipInterval
      BY <1>1, BlockOf
    <3>2. e * SkipInterval = b * SkipInterval + SkipInterval
      <4>. HIDE DEF b
      <4>. QED  BY <1>1, IntervalIsNumber DEF e
    <3>. QED  BY <3>1, <3>2
  <2>5. (e * SkipInterval) \div SkipInterval = e
    <3>1. e * SkipInterval \in Nat
      BY <2>2, Product
    <3>2. e * SkipInterval < e * SkipInterval + SkipInterval
      BY <3>1, IntervalIsNumber
    <3>. QED  BY <2>2, <3>1, <3>2, DivisionIs
  <2>6. CurrentBlock(Jumped(c, e)) = e
    BY <2>3, <2>5 DEF Stands, CurrentBlock
  <2>7. e # b
    <3>. HIDE DEF b
    <3>. QED  BY <1>1 DEF e
  <2>. HIDE DEF b
  <2>8. /\ SkippedBlock(c) = Jumped(c, e) /\ CurrentBlock(SkippedBlock(c)) # CurrentBlock(c)
        /\ SkippedBlock(c) \in CursorsOn(list)
    BY <1>1, <2>1, <2>3, <2>6, <2>7 DEF e, Stands
  <2>. QED  BY <1>3, <2>3, <2>4, <2>8 DEF b, e
<1>4. CASE ~(b + 1 < Blocks(list.count))
  <2>1. SkippedBlock(c) = [c EXCEPT !.exhausted = TRUE]
    BY <1>1, <1>2, <1>4 DEF SkippedBlock
  <2>2. SkippedBlock(c) \in CursorsOn(list) /\ SkippedBlock(c).exhausted /\ SkippedBlock(c).index = n
    BY <1>1, <2>1 DEF CursorsOn
  <2>. QED  BY <1>1, <1>4, <2>2 DEF CurrentBlock
<1>. QED  BY <1>3, <1>4

-----------------------------------------------------------------------------
(* Seeking: how far it jumps, and the walk from there.                      *)

StartsBy(c, target) == {k \in DOMAIN c.list.blocks : c.list.blocks[k].first <= target}
JumpFor(c, target) == IF Cardinality(StartsBy(c, target)) = 0 THEN 0 ELSE Cardinality(StartsBy(c, target)) - 1
Near(c, target) == IF JumpFor(c, target) * SkipInterval > c.index THEN Jumped(c, JumpFor(c, target)) ELSE c
Approach(near, target, m, g) ==
  g = [n \in 0..m |-> IF n = 0 THEN near ELSE Nearer(g[n - 1], target)]

LEMMA SoughtApproaches ==
  ASSUME NEW c, NEW target
  PROVE  Sought(c, target) =
           IF c.exhausted \/ c.doc >= target THEN c
           ELSE (CHOOSE g : Approach(Near(c, target), target, c.list.count, g))[c.list.count]
BY DEF Sought, Approach, Near, JumpFor, StartsBy

LEMMA ApproachExists ==
  ASSUME NEW near, NEW target PROVE \A m \in Nat : \E g : Approach(near, target, m, g)
<1>. DEFINE T == {m \in Nat : \E g : Approach(near, target, m, g)}
<1>1. 0 \in T
  <2>1. Approach(near, target, 0, [n \in 0..0 |-> near])
    BY DEF Approach
  <2>. QED  BY <2>1
<1>2. ASSUME NEW m \in Nat, m \in T PROVE m + 1 \in T
  <2>1. PICK g : Approach(near, target, m, g)
    BY <1>2
  <2>. DEFINE h == [n \in 0..m + 1 |-> IF n = m + 1 THEN Nearer(g[m], target) ELSE g[n]]
  <2>. SUFFICES Approach(near, target, m + 1, h)
    OBVIOUS
  <2>2. SUFFICES ASSUME NEW n \in 0..m + 1
                 PROVE  h[n] = IF n = 0 THEN near ELSE Nearer(h[n - 1], target)
    BY DEF Approach
  <2>3. \A k \in 0..m : h[k] = g[k] /\ g[k] = IF k = 0 THEN near ELSE Nearer(g[k - 1], target)
    BY <2>1 DEF Approach
  <2>4. h[m + 1] = Nearer(g[m], target) /\ m \in 0..m
    OBVIOUS
  <2>. HIDE DEF h
  <2>5. CASE n = m + 1
    <3>1. n # 0 /\ n - 1 = m
      BY <2>5
    <3>. QED  BY <2>3, <2>4, <2>5, <3>1
  <2>6. CASE n \in 0..m
    <3>1. CASE n = 0
      BY <2>3, <2>6, <3>1
    <3>2. CASE n # 0
      <4>1. n - 1 \in 0..m
        BY <2>6, <3>2
      <4>. QED  BY <2>3, <2>6, <3>2, <4>1
    <3>. QED  BY <3>1, <3>2
  <2>. QED  BY <2>5, <2>6
<1>. HIDE DEF T
<1>3. Nat \subseteq T
  BY <1>1, <1>2, NatIn
<1>. QED  BY <1>3 DEF T

(* Of rising numbers, those up to a target are the first few.               *)
UpTo(n, f, target) == {i \in 1..n : f[i] <= target}
LEMMA RisingPrefix ==
  ASSUME NEW n \in Nat, NEW f, NEW target \in Int, \A i \in 1..n : f[i] \in Int,
         \A i, j \in 1..n : i < j => f[i] < f[j]
  PROVE  \E k \in 0..n : UpTo(n, f, target) = 1..k /\ Cardinality(UpTo(n, f, target)) = k
<1>. DEFINE S == {i \in 1..n : f[i] <= target}
            T == {m \in Nat : m <= n => \E k \in 0..m : S \cap (1..m) = 1..k}
<1>1. 0 \in T
  <2>1. S \cap (1..0) = 1..0
    OBVIOUS
  <2>. QED  BY <2>1
<1>2. ASSUME NEW m \in Nat, m \in T PROVE m + 1 \in T
  <2>. SUFFICES ASSUME m + 1 <= n PROVE \E k \in 0..m + 1 : S \cap (1..m + 1) = 1..k
    OBVIOUS
  <2>1. PICK k \in 0..m : S \cap (1..m) = 1..k
    BY <1>2
  <2>2. CASE m + 1 \notin S
    <3>1. S \cap (1..m + 1) = 1..k
      BY <2>1, <2>2
    <3>. QED  BY <3>1
  <2>3. CASE m + 1 \in S
    <3>1. \A i \in 1..m : i \in S
      BY <2>3
    <3>2. S \cap (1..m + 1) = 1..m + 1
      BY <2>3, <3>1
    <3>. QED  BY <3>2
  <2>. QED  BY <2>2, <2>3
<1>3. n \in T
  <2>. HIDE DEF T
  <2>. QED  BY <1>1, <1>2, NatIn
<1>4. PICK k \in 0..n : S \cap (1..n) = 1..k
  BY <1>3
<1>5. S = 1..k
  BY <1>4
<1>6. Cardinality(1..k) = k
  BY FS_Interval
<1>. QED  BY <1>5, <1>6 DEF UpTo

(* What seeking finds: the first posting, from where the cursor stands,     *)
(* that is not before the target.                                           *)
Finds(c, r, list, ids, target) ==
  /\ Reads(r, list, ids)
  /\ Passed(c) <= Passed(r)
  /\ \A q \in Nat : Passed(c) <= q /\ q < Passed(r) => ids[q + 1] < target
  /\ r.exhausted \/ r.doc >= target

LEMMA PassedIs ==
  ASSUME NEW list, NEW ids, Lists(list, ids), NEW c, Reads(c, list, ids)
  PROVE  Passed(c) \in 0..list.count /\ (Passed(c) = IF c.exhausted THEN list.count ELSE c.index)
BY DEF Lists, Reads, Stands, CursorsOn, Passed

LEMMA JumpIsNear ==
  ASSUME NEW list, NEW ids, Lists(list, ids), NEW c, NEW n, Stands(c, list, ids, n),
         NEW target \in Nat, ids[n + 1] < target
  PROVE  /\ ~Near(c, target).exhausted /\ Reads(Near(c, target), list, ids)
         /\ n <= Passed(Near(c, target))
         /\ \A q \in Nat : n <= q /\ q < Passed(Near(c, target)) => ids[q + 1] < target
<1>. DEFINE B == Blocks(list.count)
            first == [k \in 1..B |-> list.blocks[k].first]
<1>1. /\ c \in CursorsOn(list) /\ c.index = n /\ c.list = list /\ ~c.exhausted /\ n \in Nat /\ list.count \in Nat
      /\ n < list.count /\ B \in Nat
  BY BlocksOf DEF Stands, CursorsOn, Lists
<1>2. DOMAIN list.blocks = 1..B
  BY DEF Lists
<1>. HIDE DEF B
<1>3. ASSUME NEW k \in 1..B
      PROVE  /\ (k - 1) * SkipInterval \in Nat /\ (k - 1) * SkipInterval + 1 \in 1..list.count
             /\ first[k] = ids[(k - 1) * SkipInterval + 1] /\ first[k] \in Nat
  <2>. DEFINE b == k - 1
              s == b * SkipInterval
  <2>1. b \in Nat /\ b < B /\ b + 1 = k
    BY <1>1
  <2>. HIDE DEF b
  <2>2. s \in Nat /\ s < list.count
    BY <1>1, <2>1, BlocksOf, Product DEF B
  <2>3. list.blocks[b + 1].first = ids[s + 1]
    BY <2>1 DEF Lists, B
  <2>. HIDE DEF s
  <2>4. s + 1 \in 1..list.count
    BY <1>1, <2>2
  <2>5. ids[s + 1] \in Nat
    BY <2>4 DEF Lists
  <2>6. first[k] = ids[s + 1]
    BY <2>1, <2>3
  <2>. QED  BY <2>2, <2>4, <2>5, <2>6 DEF b, s
<1>4. \A i, j \in 1..B : i < j => first[i] < first[j]
  <2>. SUFFICES ASSUME NEW i \in 1..B, NEW j \in 1..B, i < j PROVE first[i] < first[j]
    OBVIOUS
  <2>. DEFINE s == (i - 1) * SkipInterval
              u == (j - 1) * SkipInterval
  <2>1. i - 1 \in Nat /\ j - 1 \in Nat /\ i - 1 < j - 1
    BY <1>1
  <2>2. s < u
    BY <2>1, IntervalIsNumber, Product
  <2>3. /\ s + 1 \in 1..list.count /\ u + 1 \in 1..list.count /\ s \in Nat /\ u \in Nat
        /\ first[i] = ids[s + 1] /\ first[j] = ids[u + 1]
    BY <1>3
  <2>. HIDE DEF s, u, first
  <2>4. s + 1 < u + 1
    BY <1>1, <2>2, <2>3
  <2>. QED  BY <2>3, <2>4 DEF Lists
<1>5. StartsBy(c, target) = UpTo(B, first, target)
  BY <1>1, <1>2 DEF StartsBy, UpTo
<1>6. PICK k \in 0..B : UpTo(B, first, target) = 1..k /\ Cardinality(UpTo(B, first, target)) = k
  <2>1. \A i \in 1..B : first[i] \in Int
    BY <1>3
  <2>2. target \in Int /\ B \in Nat
    BY <1>1
  <2>. HIDE DEF first
  <2>. QED  BY <1>4, <2>1, <2>2, RisingPrefix
<1>7. Cardinality(StartsBy(c, target)) = k
  BY <1>5, <1>6
<1>. DEFINE b == JumpFor(c, target)
            s == b * SkipInterval
<1>8. b \in Nat /\ b = IF k = 0 THEN 0 ELSE k - 1
  BY <1>1, <1>7 DEF JumpFor
<1>. HIDE DEF b, first
<1>9. s \in Nat
  BY <1>8, Product
<1>10. CASE s > n
  <2>1. k # 0
    <3>1. b = 0 => s = 0
      BY <1>8, IntervalIsNumber
    <3>. QED  BY <1>1, <1>8, <1>10, <3>1
  <2>2. b = k - 1 /\ k \in 1..B /\ b < B
    BY <1>1, <1>8, <2>1
  <2>3. k \in UpTo(B, first, target)
    BY <1>6, <2>2
  <2>4. first[k] <= target /\ first[k] = ids[s + 1] /\ s + 1 \in 1..list.count
    BY <1>3, <2>2, <2>3 DEF UpTo
  <2>5. Stands(Jumped(c, b), list, ids, s)
    BY <1>1, <1>8, <2>2, JumpedStands DEF B
  <2>6. Near(c, target) = Jumped(c, b)
    BY <1>1, <1>10 DEF Near, b
  <2>. HIDE DEF s
  <2>7. Reads(Near(c, target), list, ids) /\ ~Near(c, target).exhausted /\ Passed(Near(c, target)) = s
    BY <2>5, <2>6 DEF Reads, Stands, Passed
  <2>8. ASSUME NEW q \in Nat, q < s PROVE ids[q + 1] < target
    <3>1. q + 1 \in 1..list.count /\ q + 1 < s + 1
      BY <1>1, <1>9, <2>4, <2>8
    <3>2. ids[q + 1] < ids[s + 1] /\ ids[q + 1] \in Nat /\ ids[s + 1] \in Nat
      BY <2>4, <3>1 DEF Lists
    <3>. QED  BY <2>4, <3>2
  <2>. QED  BY <1>1, <1>9, <1>10, <2>7, <2>8
<1>11. CASE ~(s > n)
  <2>1. Near(c, target) = c
    BY <1>1, <1>11 DEF Near, b
  <2>2. Reads(c, list, ids) /\ Passed(c) = n
    BY <1>1 DEF Reads, Stands, Passed
  <2>. QED  BY <1>1, <2>1, <2>2
<1>. QED  BY <1>10, <1>11

LEMMA SoughtFinds ==
  ASSUME NEW list, NEW ids, Lists(list, ids), NEW c, Reads(c, list, ids), NEW target \in Nat
  PROVE  Finds(c, Sought(c, target), list, ids, target)
<1>0. /\ c \in CursorsOn(list) /\ c.list = list /\ list.count \in Nat /\ c.exhausted \in BOOLEAN
      /\ Passed(c) \in 0..list.count
  BY PassedIs DEF Reads, CursorsOn, Lists
<1>1. CASE c.exhausted \/ c.doc >= target
  <2>1. Sought(c, target) = c
    BY <1>1, SoughtApproaches
  <2>. QED  BY <1>0, <1>1, <2>1 DEF Finds
<1>2. CASE ~(c.exhausted \/ c.doc >= target)
  <2>. DEFINE n == c.index
              m == list.count
              near == Near(c, target)
              after == CHOOSE g : Approach(near, target, m, g)
              Good(r) == /\ Reads(r, list, ids) /\ n <= Passed(r)
                         /\ \A q \in Nat : n <= q /\ q < Passed(r) => ids[q + 1] < target
  <2>1. Stands(c, list, ids, n) /\ ids[n + 1] < target /\ Passed(c) = n /\ n \in Nat
    <3>1. Stands(c, list, ids, n)
      BY <1>2 DEF Reads
    <3>2. n \in Nat /\ n + 1 \in 1..list.count /\ c.doc = ids[n + 1] /\ ~c.exhausted
      BY <1>0, <3>1 DEF Stands
    <3>3. ids[n + 1] \in Nat
      BY <3>2 DEF Lists
    <3>. QED  BY <1>2, <3>1, <3>2, <3>3 DEF Passed
  <2>2. Sought(c, target) = after[m]
    BY <1>0, <1>2, SoughtApproaches
  <2>3. Approach(near, target, m, after)
    BY <1>0, ApproachExists
  <2>. HIDE DEF after
  <2>4. after[0] = near /\ \A i \in 1..m : after[i] = Nearer(after[i - 1], target)
    BY <1>0, <2>3 DEF Approach
  <2>. DEFINE Far(r, i) == r.exhausted \/ r.doc >= target \/ Passed(r) >= i
              T == {i \in Nat : i <= m => Good(after[i]) /\ Far(after[i], i)}
  <2>5. 0 \in T
    <3>1. Good(near)
      BY <2>1, JumpIsNear
    <3>2. Passed(near) \in Nat
      BY <3>1, PassedIs
    <3>. QED  BY <2>4, <3>1, <3>2
  <2>. HIDE DEF near
  <2>6. ASSUME NEW i \in Nat, i \in T PROVE i + 1 \in T
    <3>. SUFFICES ASSUME i + 1 <= m PROVE Good(after[i + 1]) /\ Far(after[i + 1], i + 1)
      OBVIOUS
    <3>. DEFINE r == after[i]
    <3>1. Good(r) /\ Far(r, i) /\ r \in CursorsOn(list) /\ r.list = list
      BY <1>0, <2>6 DEF Reads, CursorsOn
    <3>2. after[i + 1] = Nearer(r, target)
      <4>1. i + 1 \in 1..m /\ (i + 1) - 1 = i
        BY <1>0
      <4>. QED  BY <2>4, <4>1
    <3>. HIDE DEF r
    <3>3. CASE r.exhausted \/ r.doc >= target
      <4>1. Nearer(r, target) = r
        <5>1. CASE r.exhausted
          BY <5>1 DEF Nearer
        <5>2. CASE ~r.exhausted /\ r.doc >= target
          <6>1. r.doc \in Nat
            BY <3>1 DEF CursorsOn
          <6>. QED  BY <5>2, <6>1 DEF Nearer
        <5>. QED  BY <3>3, <5>1, <5>2
      <4>. QED  BY <3>1, <3>2, <3>3, <4>1
    <3>4. CASE ~(r.exhausted \/ r.doc >= target)
      <4>. DEFINE a == Advanced(r)
                  p == r.index
      <4>1. /\ Stands(r, list, ids, p) /\ p \in Nat /\ Passed(r) = p /\ p < m
            /\ r.doc = ids[p + 1] /\ r.doc \in Nat /\ r.doc < target
        BY <1>0, <3>1, <3>4 DEF Reads, Stands, Passed, CursorsOn
      <4>2. Nearer(r, target) = a
        BY <3>4, <4>1 DEF Nearer
      <4>3. /\ a \in CursorsOn(list)
            /\ IF p + 1 >= m THEN a.exhausted ELSE Stands(a, list, ids, p + 1)
        BY <4>1, AdvancedStands
      <4>. HIDE DEF a
      <4>4. Reads(a, list, ids) /\ Passed(a) = p + 1
        <5>1. CASE p + 1 >= m
          BY <1>0, <4>1, <4>3, <5>1 DEF Reads, Passed, CursorsOn
        <5>2. CASE ~(p + 1 >= m)
          BY <4>3, <5>2 DEF Reads, Passed, Stands
        <5>. QED  BY <5>1, <5>2
      <4>5. ASSUME NEW q \in Nat, n <= q, q < p + 1 PROVE ids[q + 1] < target
        <5>1. CASE q = p
          BY <4>1, <5>1
        <5>2. CASE q # p
          <6>1. q < p
            BY <4>1, <4>5, <5>2
          <6>. QED  BY <3>1, <4>1, <4>5, <6>1
        <5>. QED  BY <5>1, <5>2
      <4>6. n <= p + 1 /\ p + 1 >= i + 1
        BY <2>1, <3>1, <3>4, <4>1
      <4>. QED  BY <3>2, <4>2, <4>4, <4>5, <4>6
    <3>. QED  BY <3>3, <3>4
  <2>7. m \in T
    <3>. HIDE DEF T
    <3>. QED  BY <1>0, <2>5, <2>6, NatIn
  <2>. DEFINE s == after[m]
  <2>8. Good(s) /\ Far(s, m)
    BY <1>0, <2>7
  <2>. HIDE DEF s
  <2>9. s.exhausted \/ s.doc >= target
    <3>1. CASE ~s.exhausted /\ Passed(s) >= m
      <4>1. Passed(s) = s.index /\ s.index < list.count /\ s.index \in Nat
        BY <2>8, <3>1 DEF Passed, Reads, Stands
      <4>. QED  BY <1>0, <3>1, <4>1
    <3>. QED  BY <2>8, <3>1
  <2>. QED  BY <2>1, <2>2, <2>8, <2>9 DEF Finds, s
<1>. QED  BY <1>1, <1>2

-----------------------------------------------------------------------------
(* Decoding a list gives what was encoded.                                  *)

LEMMA FirstOfBlock ==
  ASSUME NEW i \in Nat, NEW b \in Nat, NEW j \in Nat, b * SkipInterval <= j, j < b * SkipInterval + SkipInterval
  PROVE  j % SkipInterval = 0 <=> j = b * SkipInterval
<1>1. j % SkipInterval = j - b * SkipInterval
  BY DivisionIs
<1>. QED  BY <1>1, Product

LEMMA BlockSums ==
  ASSUME NEW list, NEW ids, Lists(list, ids), NEW i \in 1..list.count
  PROVE  SumFunctionOnSet([j \in 1..list.count |-> list.cells[j].value],
                          ((i - 1) \div SkipInterval) * SkipInterval + 1..i) = ids[i]
<1>. DEFINE b == (i - 1) \div SkipInterval
            start == b * SkipInterval
            v == [j \in 1..list.count |-> list.cells[j].value]
            sum(n) == SumFunctionOnSet(v, start + 1..start + 1 + n)
            T == {n \in Nat : start + 1 + n <= i => sum(n) = ids[start + 1 + n]}
<1>1. i - 1 \in Nat /\ list.count \in Nat /\ i <= list.count /\ i \in Nat
  BY DEF Lists
<1>2. b \in Nat /\ start \in 0..(i - 1) /\ i - 1 < start + SkipInterval
  BY <1>1, BlockOf
<1>. HIDE DEF b, start
<1>3. ASSUME NEW j \in start + 1..i
      PROVE  /\ j \in 1..list.count /\ v[j] = IF j = start + 1 THEN ids[j] ELSE ids[j] - ids[j - 1]
             /\ ids[j] \in Nat /\ (j # start + 1 => ids[j - 1] \in Nat) /\ v[j] \in Int
  <2>. DEFINE a == j - 1
  <2>1. a \in Nat /\ start <= a /\ a < start + SkipInterval /\ j \in 1..list.count /\ start \in Nat
    BY <1>1, <1>2, IntervalIsNumber
  <2>2. a % SkipInterval = 0 <=> a = start
    <3>. HIDE DEF a
    <3>. QED  BY <1>2, <2>1, FirstOfBlock DEF start
  <2>3. list.cells[j].value = IF a % SkipInterval = 0 THEN ids[j] ELSE ids[j] - ids[j - 1]
    BY <2>1 DEF Lists
  <2>4. a = start <=> j = start + 1
    BY <2>1
  <2>5. ids[j] \in Nat
    BY <2>1 DEF Lists
  <2>6. j # start + 1 => ids[j - 1] \in Nat
    <3>1. j # start + 1 => j - 1 \in 1..list.count
      BY <1>1, <1>2, <2>1
    <3>. QED  BY <3>1 DEF Lists
  <2>. HIDE DEF a
  <2>. QED  BY <2>1, <2>2, <2>3, <2>4, <2>5, <2>6
<1>4. 0 \in T
  <2>1. start + 1 \in start + 1..i /\ start + 1..start + 1 + 0 = {start + 1} /\ start + 1 + 0 = start + 1
    BY <1>1, <1>2
  <2>2. v[start + 1] = ids[start + 1] /\ v[start + 1] \in Int
    BY <1>3, <2>1
  <2>. HIDE DEF v
  <2>3. SumFunctionOnSet(v, {start + 1}) = v[start + 1]
    BY <2>2, SumOfOne
  <2>. QED  BY <2>1, <2>2, <2>3
<1>5. ASSUME NEW n \in Nat, n \in T PROVE n + 1 \in T
  <2>. DEFINE j == start + 1 + (n + 1)
              S == start + 1..start + 1 + n
  <2>. SUFFICES ASSUME j <= i PROVE SumFunctionOnSet(v, start + 1..j) = ids[j]
    OBVIOUS
  <2>1. /\ j \in start + 1..i /\ j # start + 1 /\ j - 1 = start + 1 + n /\ start + 1 + n <= i
        /\ start + 1..j = S \cup {j} /\ j \notin S
    BY <1>1, <1>2
  <2>2. v[j] = ids[j] - ids[j - 1] /\ v[j] \in Int /\ ids[j] \in Nat /\ ids[j - 1] \in Nat
    BY <1>3, <2>1
  <2>3. IsFiniteSet(S) /\ \A k \in S : v[k] \in Int
    <3>1. \A k \in S : k \in start + 1..i
      BY <1>2, <2>1
    <3>2. IsFiniteSet(S)
      BY <1>2, FS_Interval
    <3>. HIDE DEF v, S
    <3>. QED  BY <1>3, <3>1, <3>2
  <2>4. SumFunctionOnSet(v, S) = ids[j - 1]
    BY <1>5, <2>1
  <2>. HIDE DEF j, S, v
  <2>5. SumFunctionOnSet(v, S \cup {j}) = v[j] + SumFunctionOnSet(v, S)
    BY <2>1, <2>2, <2>3, SumWithOneMore
  <2>6. SumFunctionOnSet(v, S \cup {j}) = (ids[j] - ids[j - 1]) + ids[j - 1]
    BY <2>2, <2>4, <2>5
  <2>7. (ids[j] - ids[j - 1]) + ids[j - 1] = ids[j]
    BY <2>2
  <2>. QED  BY <2>1, <2>6, <2>7
<1>. DEFINE n == i - (start + 1)
<1>6. n \in Nat /\ start + 1 + n = i
  BY <1>1, <1>2
<1>7. n \in T
  <2>. HIDE DEF T, n
  <2>. QED  BY <1>4, <1>5, <1>6, NatIn
<1>8. sum(n) = ids[i]
  BY <1>6, <1>7
<1>. QED  BY <1>6, <1>8 DEF start, b

LEMMA DecodedDocsAre ==
  ASSUME NEW list, NEW ids, Lists(list, ids)
  PROVE  DecodedDocs(list) = ids
<1>1. ASSUME NEW i \in 1..list.count PROVE DecodedDocs(list)[i] = ids[i]
  <2>. DEFINE start == ((i - 1) \div SkipInterval) * SkipInterval + 1
              v == [j \in 1..list.count |-> list.cells[j].value]
              w == [j \in start..i |-> list.cells[j].value]
  <2>1. DecodedDocs(list)[i] = SumFunctionOnSet(w, start..i)
    BY DEF DecodedDocs, SumFunction
  <2>2. start \in 1..i
    <3>1. i - 1 \in Nat
      BY DEF Lists
    <3>. QED  BY <3>1, BlockOf
  <2>. HIDE DEF start
  <2>3. IsFiniteSet(start..i) /\ \A j \in start..i : w[j] = v[j]
    <3>1. \A j \in start..i : j \in 1..list.count
      BY <2>2 DEF Lists
    <3>2. IsFiniteSet(start..i)
      BY <2>2, FS_Interval
    <3>. QED  BY <3>1, <3>2
  <2>. HIDE DEF v, w
  <2>4. SumFunctionOnSet(w, start..i) = SumFunctionOnSet(v, start..i)
    BY <2>3, SumOfSame
  <2>. QED  BY <2>1, <2>4, BlockSums DEF start, v
<1>2. DecodedDocs(list) = [i \in 1..list.count |-> DecodedDocs(list)[i]]
  BY DEF DecodedDocs
<1>3. ids = [i \in 1..list.count |-> ids[i]]
  BY DEF Lists
<1>4. DOMAIN DecodedDocs(list) = 1..list.count /\ DOMAIN ids = 1..list.count
  BY DEF Lists, DecodedDocs
<1>. QED  BY <1>1, <1>2, <1>3, <1>4

LEMMA AscendingIs ==
  ASSUME NEW S, IsFiniteSet(S), \A x \in S : x \in Nat
  PROVE  /\ Cardinality(S) \in Nat
         /\ Ascending(S) \in [1..Cardinality(S) -> S]
         /\ \A i, j \in 1..Cardinality(S) : i < j => Ascending(S)[i] < Ascending(S)[j]
         /\ \A x \in S : \E i \in 1..Cardinality(S) : Ascending(S)[i] = x
<1>1. Ascending(S) = InOrder(S)
  BY DEF Ascending, Sorted, InOrder
<1>. QED  BY <1>1, InOrderIs

(* The postings of a word: documents by number, and where they have it.     *)
IsPostings(found) ==
  /\ IsFiniteSet(DOMAIN found)
  /\ found = [id \in DOMAIN found |-> found[id]]
  /\ \A id \in DOMAIN found : id \in Nat \ {0} /\ found[id] \in AnyFields

(* The bounds of the blocks cover their members.                            *)
BoundsCover(list, ids, bound) ==
  \A i \in 1..list.count :
    /\ (i - 1) \div SkipInterval \in Nat /\ (i - 1) \div SkipInterval < Blocks(list.count)
    /\ bound[ids[i]] <= list.blocks[(i - 1) \div SkipInterval + 1].bound

LEMMA EncodedListIs ==
  ASSUME NEW docs, NEW total, NEW found, IsPostings(found),
         NEW bound,
         \A id \in DOMAIN found : /\ bound[id] = PostingBound(found[id], docs[id], total, Len(docs))
                                  /\ bound[id] \in Nat
  PROVE  /\ Lists(EncodedList(docs, total, found), Ascending(DOMAIN found))
         /\ EncodedList(docs, total, found).count = Cardinality(DOMAIN found)
         /\ \A i \in 1..Cardinality(DOMAIN found) :
              EncodedList(docs, total, found).cells[i].fields = found[Ascending(DOMAIN found)[i]]
         /\ BoundsCover(EncodedList(docs, total, found), Ascending(DOMAIN found), bound)
<1>. DEFINE list == EncodedList(docs, total, found)
            S == DOMAIN found
            ids == Ascending(S)
            n == Cardinality(S)
            first(k) == (k - 1) * SkipInterval + 1
            members(k) == {i \in 1..n : i \in first(k)..(k * SkipInterval)}
            bounds(k) == {PostingBound(found[ids[i]], docs[ids[i]], total, Len(docs)) : i \in members(k)}
<1>1. /\ n \in Nat /\ ids \in [1..n -> S] /\ \A i, j \in 1..n : i < j => ids[i] < ids[j]
  BY AscendingIs DEF IsPostings
<1>2. Len(ids) = n /\ DOMAIN ids = 1..n
  <2>. HIDE DEF n, ids
  <2>. QED  BY <1>1, LenProperties
<1>3. /\ list.count = n
      /\ list.cells = [i \in 1..n |->
           [value |-> IF (i - 1) % SkipInterval = 0 THEN ids[i] ELSE ids[i] - ids[i - 1],
            fields |-> found[ids[i]]]]
      /\ list.blocks = [k \in 1..Blocks(n) |->
           [first |-> ids[first(k)], at |-> first(k) - 1, bound |-> Max(bounds(k))]]
  BY <1>2 DEF EncodedList, Blocks
<1>. HIDE DEF list, n, ids
<1>4. Blocks(n) \in Nat
  BY <1>1, BlocksOf
<1>5. \A i \in 1..n : ids[i] \in S /\ ids[i] \in Nat \ {0} /\ found[ids[i]] \in AnyFields
  BY <1>1 DEF IsPostings
<1>6. ASSUME NEW b \in Nat, b < Blocks(n)
      PROVE  /\ first(b + 1) = b * SkipInterval + 1 /\ first(b + 1) \in 1..n
             /\ first(b + 1) - 1 = b * SkipInterval /\ b * SkipInterval \in Nat
             /\ b + 1 \in 1..Blocks(n)
             /\ (b + 1) * SkipInterval = b * SkipInterval + SkipInterval
             /\ first(b + 1) \in members(b + 1)
  <2>. DEFINE s == b * SkipInterval
  <2>1. s \in Nat /\ s < n /\ b + 1 - 1 = b /\ b + 1 \in 1..Blocks(n)
    BY <1>1, <1>4, <1>6, BlocksOf, Product
  <2>2. (b + 1) * SkipInterval = s + SkipInterval
    BY IntervalIsNumber
  <2>3. first(b + 1) = s + 1
    BY <2>1
  <2>. HIDE DEF s, first
  <2>4. s + 1 \in 1..n /\ s + 1 \in (s + 1)..(s + SkipInterval)
    BY <1>1, <2>1, IntervalIsNumber
  <2>. QED  BY <1>1, <2>1, <2>2, <2>3, <2>4 DEF s
<1>7. ASSUME NEW k \in 1..Blocks(n)
      PROVE  Max(bounds(k)) \in Nat /\ \A i \in members(k) : bound[ids[i]] <= Max(bounds(k))
  <2>. DEFINE h == [i \in members(k) |-> bound[ids[i]]]
  <2>1. \A i \in members(k) : ids[i] \in S /\ h[i] = PostingBound(found[ids[i]], docs[ids[i]], total, Len(docs))
                                /\ h[i] = bound[ids[i]] /\ h[i] \in Nat
    BY <1>5
  <2>2. bounds(k) = {h[i] : i \in members(k)}
    BY <2>1
  <2>3. members(k) # {}
    <3>. DEFINE b == k - 1
    <3>1. b \in Nat /\ b < Blocks(n) /\ b + 1 = k
      BY <1>4
    <3>. HIDE DEF b, members, first
    <3>. QED  BY <1>6, <3>1
  <2>4. IsFiniteSet(members(k))
    BY <1>1, FS_Interval, FS_Subset
  <2>. DEFINE M == {h[i] : i \in members(k)}
  <2>. HIDE DEF h, members
  <2>5. IsFiniteSet(M) /\ M # {} /\ \A x \in M : x \in Int
    BY <2>1, <2>3, <2>4, FiniteImage
  <2>6. \A x \in M : x \in Nat
    BY <2>1
  <2>7. \A i \in members(k) : h[i] \in M
    OBVIOUS
  <2>. HIDE DEF M, bounds
  <2>8. Max(M) \in M /\ \A x \in M : x <= Max(M)
    BY <2>5, MaxIs
  <2>. QED  BY <2>1, <2>2, <2>6, <2>7, <2>8 DEF M
<1>. HIDE DEF bounds, members
<1>8. list.blocks \in Seq([first : Nat, at : Nat, bound : Nat]) /\ Len(list.blocks) = Blocks(n)
  <2>1. ASSUME NEW k \in 1..Blocks(n) PROVE list.blocks[k] \in [first : Nat, at : Nat, bound : Nat]
    <3>. DEFINE b == k - 1
    <3>1. b \in Nat /\ b < Blocks(n) /\ b + 1 = k
      BY <1>4
    <3>. HIDE DEF b, first
    <3>2. first(k) \in 1..n /\ first(k) - 1 \in Nat
      BY <1>6, <3>1
    <3>3. list.blocks[k] = [first |-> ids[first(k)], at |-> first(k) - 1, bound |-> Max(bounds(k))]
      BY <1>3
    <3>. QED  BY <1>5, <1>7, <3>2, <3>3
  <2>. DEFINE R == [first : Nat, at : Nat, bound : Nat]
  <2>2. list.blocks \in [1..Blocks(n) -> R]
    BY <1>3, <2>1
  <2>. HIDE DEF R
  <2>3. list.blocks \in Seq(R) /\ Len(list.blocks) = Blocks(n)
    BY <1>4, <2>2
  <2>. QED  BY <2>3 DEF R
<1>9. Lists(list, ids)
  <2>1. \A i \in 1..n : /\ list.cells[i].fields \in AnyFields
                        /\ list.cells[i].value = IF (i - 1) % SkipInterval = 0 THEN ids[i] ELSE ids[i] - ids[i - 1]
    BY <1>3, <1>5
  <2>2. ASSUME NEW b \in Nat, b < Blocks(n)
        PROVE  /\ list.blocks[b + 1].first = ids[b * SkipInterval + 1]
               /\ list.blocks[b + 1].at = b * SkipInterval
    <3>. HIDE DEF first
    <3>. DEFINE k == b + 1
    <3>1. k \in 1..Blocks(n) /\ first(k) = b * SkipInterval + 1 /\ first(k) - 1 = b * SkipInterval
      BY <1>6, <2>2
    <3>. HIDE DEF k
    <3>2. list.blocks[k] = [first |-> ids[first(k)], at |-> first(k) - 1, bound |-> Max(bounds(k))]
      BY <1>3, <3>1
    <3>3. list.blocks[k].first = ids[b * SkipInterval + 1] /\ list.blocks[k].at = b * SkipInterval
      BY <3>1, <3>2
    <3>. QED  BY <3>3 DEF k
  <2>3. ids \in [1..n -> Nat \ {0}]
    BY <1>1, <1>5
  <2>. QED  BY <1>1, <1>3, <1>8, <2>1, <2>2, <2>3 DEF Lists
<1>10. BoundsCover(list, ids, bound)
  <2>. SUFFICES ASSUME NEW i \in 1..n
                PROVE  /\ (i - 1) \div SkipInterval \in Nat /\ (i - 1) \div SkipInterval < Blocks(n)
                       /\ bound[ids[i]] <= list.blocks[(i - 1) \div SkipInterval + 1].bound
    BY <1>3 DEF BoundsCover
  <2>. DEFINE b == (i - 1) \div SkipInterval
              k == b + 1
              s == b * SkipInterval
  <2>1. i - 1 \in Nat
    BY <1>1
  <2>2. b \in Nat /\ s <= i - 1 /\ i - 1 < s + SkipInterval /\ s \in Nat
    BY <1>1, <2>1, BlockOf, IntervalIsNumber
  <2>. HIDE DEF b
  <2>3. b < Blocks(n)
    BY <1>1, <2>2, BlocksOf
  <2>4. first(k) = s + 1 /\ k * SkipInterval = s + SkipInterval /\ k \in 1..Blocks(n)
    BY <1>6, <2>2, <2>3
  <2>. HIDE DEF s, first, k
  <2>5. i \in members(k)
    BY <1>1, <2>2, <2>4, IntervalIsNumber DEF members
  <2>6. list.blocks[k].bound = Max(bounds(k))
    BY <1>3, <2>4
  <2>7. bound[ids[i]] <= list.blocks[k].bound
    BY <1>7, <2>4, <2>5, <2>6
  <2>. QED  BY <2>2, <2>3, <2>7 DEF b, k
<1>. QED  BY <1>3, <1>9, <1>10 DEF list, ids, n

LEMMA DecodedIs ==
  ASSUME NEW list, NEW ids, Lists(list, ids), NEW found, IsPostings(found), ids = Ascending(DOMAIN found),
         list.count = Cardinality(DOMAIN found),
         \A i \in 1..list.count : list.cells[i].fields = found[ids[i]]
  PROVE  Decoded(list) = found
<1>. DEFINE S == DOMAIN found
            at(id) == CHOOSE i \in 1..list.count : ids[i] = id
<1>1. /\ ids \in [1..list.count -> S] /\ \A x \in S : \E i \in 1..list.count : ids[i] = x
      /\ list.count \in Nat
  BY AscendingIs DEF IsPostings
<1>2. {ids[i] : i \in 1..list.count} = S
  BY <1>1
<1>3. DecodedDocs(list) = ids
  BY DecodedDocsAre
<1>4. Decoded(list) = [id \in S |-> list.cells[at(id)].fields]
  BY <1>2, <1>3 DEF Decoded
<1>5. ASSUME NEW id \in S PROVE list.cells[at(id)].fields = found[id]
  <2>1. at(id) \in 1..list.count /\ ids[at(id)] = id
    BY <1>1
  <2>. HIDE DEF at
  <2>. QED  BY <2>1
<1>6. found = [id \in S |-> found[id]]
  BY DEF IsPostings
<1>. HIDE DEF at, S
<1>. QED  BY <1>4, <1>5, <1>6

LEMMA EncodingDecodes ==
  ASSUME NEW docs, NEW total, NEW found, IsPostings(found),
         \A id \in DOMAIN found : PostingBound(found[id], docs[id], total, Len(docs)) \in Nat
  PROVE  Decoded(EncodedList(docs, total, found)) = found
<1>. DEFINE bound == [id \in DOMAIN found |-> PostingBound(found[id], docs[id], total, Len(docs))]
            list == EncodedList(docs, total, found)
            ids == Ascending(DOMAIN found)
<1>1. \A id \in DOMAIN found : /\ bound[id] = PostingBound(found[id], docs[id], total, Len(docs))
                               /\ bound[id] \in Nat
  OBVIOUS
<1>. HIDE DEF bound
<1>2. /\ Lists(list, ids) /\ list.count = Cardinality(DOMAIN found)
      /\ \A i \in 1..Cardinality(DOMAIN found) : list.cells[i].fields = found[ids[i]]
  BY <1>1, EncodedListIs
<1>. HIDE DEF list
<1>3. Decoded(list) = found
  BY <1>2, DecodedIs
<1>. QED  BY <1>3 DEF list

-----------------------------------------------------------------------------
(* Documents, and the numbers they are scored with.                         *)

Flattening(seqs, g) == g = [i \in 1..Len(seqs) |-> IF i = 1 THEN seqs[i] ELSE g[i - 1] \o seqs[i]]
FlatteningUpTo(seqs, m, g) == g = [i \in 1..m |-> IF i = 1 THEN seqs[i] ELSE g[i - 1] \o seqs[i]]

LEMMA FlatIs ==
  ASSUME NEW S, NEW seqs \in Seq(Seq(S)) PROVE FlattenSeq(seqs) \in Seq(S)
<1>. DEFINE n == Len(seqs)
            flat == CHOOSE g : Flattening(seqs, g)
            T == {m \in Nat : m <= n => \E g : FlatteningUpTo(seqs, m, g) /\ \A i \in 1..m : g[i] \in Seq(S)}
<1>1. n \in Nat /\ \A i \in 1..n : seqs[i] \in Seq(S)
  BY LenProperties, ElementOfSeq
<1>2. CASE n = 0
  <2>1. FlattenSeq(seqs) = seqs
    BY <1>2 DEF FlattenSeq
  <2>2. seqs = << >>
    BY <1>2, EmptySeq
  <2>. QED  BY <2>1, <2>2
<1>3. CASE n # 0
  <2>1. 0 \in T
    <3>1. FlatteningUpTo(seqs, 0, << >>) /\ \A i \in 1..0 : << >>[i] \in Seq(S)
      BY DEF FlatteningUpTo
    <3>. QED  BY <3>1
  <2>2. ASSUME NEW m \in Nat, m \in T PROVE m + 1 \in T
    <3>. SUFFICES ASSUME m + 1 <= n
                  PROVE  \E h : FlatteningUpTo(seqs, m + 1, h) /\ \A i \in 1..m + 1 : h[i] \in Seq(S)
      OBVIOUS
    <3>1. PICK g : FlatteningUpTo(seqs, m, g) /\ \A i \in 1..m : g[i] \in Seq(S)
      BY <1>1, <2>2
    <3>. DEFINE last == IF m = 0 THEN seqs[1] ELSE g[m] \o seqs[m + 1]
                h == [i \in 1..m + 1 |-> IF i = m + 1 THEN last ELSE g[i]]
    <3>2. last \in Seq(S)
      <4>1. seqs[1] \in Seq(S) /\ seqs[m + 1] \in Seq(S)
        BY <1>1, <1>3
      <4>2. m # 0 => g[m] \in Seq(S)
        BY <3>1
      <4>. QED  BY <4>1, <4>2, ConcatProperties
    <3>3. \A i \in 1..m : h[i] = g[i] /\ g[i] = IF i = 1 THEN seqs[i] ELSE g[i - 1] \o seqs[i]
      <4>1. \A i \in 1..m : h[i] = g[i]
        OBVIOUS
      <4>. HIDE DEF h, last
      <4>2. \A i \in 1..m : g[i] = IF i = 1 THEN seqs[i] ELSE g[i - 1] \o seqs[i]
        BY <3>1 DEF FlatteningUpTo
      <4>. QED  BY <4>1, <4>2
    <3>4. h[m + 1] = last
      OBVIOUS
    <3>5. ASSUME NEW i \in 1..m + 1 PROVE h[i] = IF i = 1 THEN seqs[i] ELSE h[i - 1] \o seqs[i]
      <4>1. CASE i = m + 1
        <5>1. CASE m = 0
          BY <3>4, <4>1, <5>1
        <5>2. CASE m # 0
          <6>1. i # 1 /\ i - 1 = m /\ m \in 1..m
            BY <4>1, <5>2
          <6>. HIDE DEF h
          <6>. QED  BY <3>3, <3>4, <4>1, <5>2, <6>1
        <5>. QED  BY <5>1, <5>2
      <4>2. CASE i \in 1..m
        <5>1. i # 1 => i - 1 \in 1..m
          BY <4>2
        <5>. HIDE DEF h
        <5>. QED  BY <3>3, <4>2, <5>1
      <4>. QED  BY <4>1, <4>2
    <3>6. FlatteningUpTo(seqs, m + 1, h)
      BY <3>5 DEF FlatteningUpTo
    <3>7. \A i \in 1..m + 1 : h[i] \in Seq(S)
      BY <3>1, <3>2
    <3>. HIDE DEF h
    <3>. QED  BY <3>6, <3>7
  <2>3. n \in T
    <3>. HIDE DEF T
    <3>. QED  BY <1>1, <2>1, <2>2, NatIn
  <2>4. Flattening(seqs, flat)
    <3>1. PICK g : FlatteningUpTo(seqs, n, g)
      BY <1>1, <2>3
    <3>2. Flattening(seqs, g)
      BY <3>1 DEF Flattening, FlatteningUpTo
    <3>. QED  BY <3>2
  <2>5. FlattenSeq(seqs) = flat[n]
    BY <1>3 DEF FlattenSeq, Flattening
  <2>. HIDE DEF flat
  <2>. DEFINE R == {m \in Nat : m + 1 <= n => flat[m + 1] \in Seq(S)}
  <2>6. \A i \in 1..n : flat[i] = IF i = 1 THEN seqs[i] ELSE flat[i - 1] \o seqs[i]
    BY <2>4 DEF Flattening
  <2>7. 0 \in R
    BY <1>1, <2>6
  <2>8. ASSUME NEW m \in Nat, m \in R PROVE m + 1 \in R
    <3>. DEFINE i == m + 1 + 1
    <3>. SUFFICES ASSUME i <= n PROVE flat[i] \in Seq(S)
      OBVIOUS
    <3>1. i \in 1..n /\ i # 1 /\ i - 1 = m + 1 /\ m + 1 <= n
      BY <1>1
    <3>2. flat[m + 1] \in Seq(S) /\ seqs[i] \in Seq(S)
      BY <1>1, <2>8, <3>1
    <3>. HIDE DEF i
    <3>3. flat[i] = flat[m + 1] \o seqs[i]
      BY <2>6, <3>1
    <3>. QED  BY <3>2, <3>3, ConcatProperties
  <2>9. n - 1 \in R
    <3>1. n - 1 \in Nat
      BY <1>1, <1>3
    <3>. HIDE DEF R, T
    <3>. QED  BY <2>7, <2>8, <3>1, NatIn
  <2>10. flat[n] \in Seq(S)
    <3>1. n - 1 + 1 = n
      BY <1>1
    <3>. QED  BY <2>9, <3>1
  <2>. QED  BY <2>5, <2>10
<1>. QED  BY <1>2, <1>3

LEMMA WordsAre ==
  ASSUME NEW d \in Documents, NEW f \in Fields PROVE Words(d, f) \in Seq(Terms)
<1>1. d.title \in Seq(Terms) /\ d.body \in Seq(Terms) /\ d.anchors \in Seq(Seq(Terms))
  BY PostingsAssumption
<1>2. FlattenSeq(d.anchors) \in Seq(Terms)
  BY <1>1, FlatIs
<1>. QED  BY <1>1, <1>2 DEF Words, Fields

LEMMA Quotient == ASSUME NEW a \in Nat, NEW c \in Nat \ {0} PROVE a \div c \in Nat
<1>. DEFINE q == a \div c
            r == a % c
<1>1. q \in Int /\ r \in 0..c - 1 /\ r = a - c * q
  OBVIOUS
<1>. HIDE DEF q, r
<1>2. ASSUME q < 0 PROVE FALSE
  <2>1. c * q <= c * (-1)
    BY <1>1, <1>2
  <2>. QED  BY <1>1, <2>1
<1>. QED  BY <1>1, <1>2 DEF q

LEMMA Products == \A a, b \in Nat : a * b \in Nat /\ (a > 0 /\ b > 0 => a * b > 0)
OBVIOUS

LEMMA LengthNormIs ==
  ASSUME NEW length \in Nat, NEW total \in Nat, NEW docs \in Nat \ {0}
  PROVE  LengthNorm(length, total, docs) \in Nat
<1>. DEFINE a == 10 * length * docs
            c == IF total < docs THEN IF docs = 0 THEN 1 ELSE docs ELSE total
<1>1. a \in Nat /\ c \in Nat \ {0}
  BY Products
<1>2. LengthNorm(length, total, docs) = a \div c
  BY DEF LengthNorm
<1>. HIDE DEF a, c
<1>. QED  BY <1>1, <1>2, Quotient

LEMMA SaturationIs ==
  ASSUME NEW tf \in Nat, NEW norm \in Nat
  PROVE  /\ Saturation(tf, norm, Params) \in Nat
         /\ tf > 0 => Saturation(tf, norm, Params) > 0
<1>0. Params \in Nat
  BY PostingsAssumption
<1>1. CASE tf = 0
  BY <1>1 DEF Saturation
<1>2. CASE tf # 0
  <2>. DEFINE a == 100 * tf * (Params + 1)
              c == 10 * tf + Params * norm
  <2>1. Params * norm \in Nat /\ tf * (Params + 1) \in Nat
    BY <1>0, Products
  <2>2. a \in Nat /\ c \in Nat \ {0}
    BY <1>0, <1>2, <2>1, Products
  <2>3. Saturation(tf, norm, Params) = 1 + (a \div c)
    BY <1>2 DEF Saturation
  <2>. HIDE DEF a, c
  <2>4. a \div c \in Nat
    BY <2>2, Quotient
  <2>. QED  BY <2>3, <2>4
<1>. QED  BY <1>1, <1>2

LEMMA AuthorityIs ==
  ASSUME NEW rank \in Nat, NEW docs \in Nat PROVE Authority(rank, docs) \in Nat /\ Authority(rank, docs) > 0
<1>1. rank * docs \in Nat
  BY Products
<1>. QED  BY <1>1 DEF Authority

FieldsAreFinite(o) == \A f \in Fields : IsFiniteSet(o[f])

LEMMA ThreeFields == IsFiniteSet(Fields) /\ \A f \in Fields : Weight[f] \in Nat /\ Weight[f] > 0
<1>1. IsFiniteSet({"title"} \cup {"body"} \cup {"anchor"})
  BY FS_Singleton, FS_Union
<1>2. Fields = {"title"} \cup {"body"} \cup {"anchor"}
  BY DEF Fields
<1>. QED  BY <1>1, <1>2 DEF Fields, Weight

LEMMA OccurrencesAre ==
  ASSUME NEW d \in Documents, NEW t \in Terms
  PROVE  /\ Occurrences[d][t] \in AnyFields /\ FieldsAreFinite(Occurrences[d][t])
         /\ \A f \in Fields : Occurrences[d][t][f] = {p \in DOMAIN Words(d, f) : Words(d, f)[p] = t}
<1>1. \A f \in Fields : Occurrences[d][t][f] = {p \in DOMAIN Words(d, f) : Words(d, f)[p] = t}
  BY DEF Occurrences
<1>2. ASSUME NEW f \in Fields
      PROVE  Occurrences[d][t][f] \subseteq Nat /\ IsFiniteSet(Occurrences[d][t][f])
  <2>1. Words(d, f) \in Seq(Terms)
    BY WordsAre
  <2>2. DOMAIN Words(d, f) = 1..Len(Words(d, f)) /\ Len(Words(d, f)) \in Nat
    BY <2>1, LenProperties
  <2>3. IsFiniteSet(1..Len(Words(d, f)))
    BY <2>2, FS_Interval
  <2>4. Occurrences[d][t][f] \subseteq 1..Len(Words(d, f))
    BY <1>1, <2>2
  <2>. QED  BY <2>2, <2>3, <2>4, FS_Subset
<1>3. Occurrences[d][t] \in AnyFields
  <2>1. Occurrences[d][t] = [f \in Fields |-> Occurrences[d][t][f]]
    BY DEF Occurrences
  <2>. QED  BY <1>2, <2>1 DEF AnyFields
<1>. QED  BY <1>1, <1>2, <1>3 DEF FieldsAreFinite

LEMMA WeightedIs ==
  ASSUME NEW o \in AnyFields, FieldsAreFinite(o)
  PROVE  /\ Weighted(o) \in Nat
         /\ (\E f \in Fields : o[f] # {}) => Weighted(o) > 0
<1>. DEFINE w == [f \in Fields |-> Weight[f] * Cardinality(o[f])]
<1>1. ASSUME NEW f \in Fields PROVE w[f] \in Nat /\ (o[f] # {} => w[f] > 0)
  <2>1. Cardinality(o[f]) \in Nat /\ (o[f] # {} => Cardinality(o[f]) > 0)
    BY FS_CardinalityType, FS_EmptySet DEF FieldsAreFinite
  <2>2. w[f] = Weight[f] * Cardinality(o[f]) /\ Weight[f] \in Nat /\ Weight[f] > 0
    BY ThreeFields
  <2>. HIDE DEF w
  <2>. QED  BY <2>1, <2>2, Products
<1>2. Weighted(o) = SumFunctionOnSet(w, Fields)
  BY DEF Weighted, SumFunction
<1>. HIDE DEF w
<1>3. \A S : S \subseteq Fields => IsFiniteSet(S) /\ SumFunctionOnSet(w, S) \in Nat
  <2>. SUFFICES ASSUME NEW S, S \subseteq Fields PROVE IsFiniteSet(S) /\ SumFunctionOnSet(w, S) \in Nat
    OBVIOUS
  <2>1. IsFiniteSet(S)
    BY ThreeFields, FS_Subset
  <2>2. \A x \in S : w[x] \in Nat
    BY <1>1
  <2>. QED  BY <2>1, <2>2, SumIsNatural
<1>4. ASSUME NEW f \in Fields, o[f] # {} PROVE SumFunctionOnSet(w, Fields) > 0
  <2>1. SumFunctionOnSet(w, Fields) = w[f] + SumFunctionOnSet(w, Fields \ {f})
    BY <1>1, ThreeFields, SumTakesAny
  <2>2. SumFunctionOnSet(w, Fields \ {f}) \in Nat /\ w[f] > 0 /\ w[f] \in Nat
    BY <1>1, <1>3, <1>4
  <2>. QED  BY <2>1, <2>2
<1>. QED  BY <1>2, <1>3, <1>4

LEMMA TokensAre == ASSUME NEW d \in Documents PROVE Tokens[d] \in Nat
<1>. DEFINE w == [f \in Fields |-> Len(Words(d, f))]
<1>1. \A f \in Fields : w[f] \in Nat
  BY WordsAre, LenProperties
<1>2. Tokens[d] = SumFunctionOnSet(w, Fields)
  BY DEF Tokens, SumFunction
<1>. HIDE DEF w
<1>. QED  BY <1>1, <1>2, ThreeFields, SumIsNatural

-----------------------------------------------------------------------------
(* What is indexed: every document, however the segment came to be.         *)

Metas == [uri : Nat, length : Nat, rank : Nat]
MetaAt(i) == [uri |-> Uri[i], length |-> Tokens[corpus[i]], rank |-> corpus[i].rank]
Having(first, n, t) == {d \in 1..n : Has(corpus[first + d - 1], t)}
Found(first, n, t) == [id \in Having(first, n, t) |-> Occurrences[corpus[first + id - 1]][t]]
Slice(first, n) == [docs |-> [id \in 1..n |-> MetaAt(first + id - 1)],
                    terms |-> [t \in Terms |-> Found(first, n, t)]]
Whole == Slice(1, Len(corpus))

LEMMA CorpusIs ==
  ASSUME corpus \in Corpora
  PROVE  /\ corpus \in Seq(Documents) /\ Len(corpus) \in Nat /\ DOMAIN corpus = 1..Len(corpus)
         /\ \A i \in 1..Len(corpus) : corpus[i] \in Documents /\ MetaAt(i) \in Metas
         /\ Uri \in Seq(Nat) /\ Len(Uri) \in Nat /\ Len(corpus) <= Len(Uri)
<1>1. corpus \in Seq(Documents) /\ Len(corpus) <= Len(Uri) /\ Uri \in Seq(Nat)
  BY ScanAssumption, PostingsAssumption
<1>2. Len(corpus) \in Nat /\ DOMAIN corpus = 1..Len(corpus) /\ Len(Uri) \in Nat
  BY <1>1, LenProperties
<1>3. ASSUME NEW i \in 1..Len(corpus) PROVE corpus[i] \in Documents /\ MetaAt(i) \in Metas
  <2>1. corpus[i] \in Documents
    BY <1>1, <1>2, ElementOfSeq
  <2>2. i \in 1..Len(Uri)
    BY <1>1, <1>2
  <2>3. Uri[i] \in Nat
    BY <1>1, <2>2, ElementOfSeq
  <2>4. corpus[i].rank \in Nat /\ Tokens[corpus[i]] \in Nat
    BY <2>1, TokensAre, PostingsAssumption
  <2>. QED  BY <2>1, <2>3, <2>4 DEF MetaAt, Metas
<1>. QED  BY <1>1, <1>2, <1>3

LEMMA PartIs ==
  ASSUME corpus \in Corpora, NEW first \in 1..Len(corpus) + 1, NEW last \in first - 1..Len(corpus)
  PROVE  Part(first, last) = Slice(first, last - first + 1)
<1>. DEFINE n == last - first + 1
            cs == SubSeq(corpus, first, last)
            us == SubSeq(Uri, first, last)
<1>0. /\ corpus \in Seq(Documents) /\ Uri \in Seq(Nat) /\ Len(corpus) \in Nat /\ Len(Uri) \in Nat
      /\ Len(corpus) <= Len(Uri)
  BY CorpusIs
<1>1. n \in Nat /\ first \in 1..Len(Uri) + 1 /\ last \in first - 1..Len(Uri) /\ first \in Nat
  BY <1>0
<1>2. cs \in Seq(Documents) /\ Len(cs) = n /\ \A i \in 1..n : cs[i] = corpus[first + i - 1]
  BY <1>0, SubSeqProperties
<1>3. \A i \in 1..n : us[i] = Uri[first + i - 1]
  BY <1>0, <1>1, SubSeqProperties
<1>4. DOMAIN cs = 1..n
  BY <1>2, LenProperties
<1>5. Part(first, last) = BuilderOf(cs, us)
  BY DEF Part
<1>. HIDE DEF cs, us, n
<1>6. ASSUME NEW t \in Terms
      PROVE  [id \in {d \in 1..n : Has(cs[d], t)} |-> Occurrences[cs[id]][t]] = Found(first, n, t)
  <2>1. {d \in 1..n : Has(cs[d], t)} = Having(first, n, t)
    BY <1>2 DEF Having
  <2>. QED  BY <1>2, <2>1 DEF Found, Having
<1>7. [id \in 1..n |-> [uri |-> us[id], length |-> Tokens[cs[id]], rank |-> cs[id].rank]]
        = [id \in 1..n |-> MetaAt(first + id - 1)]
  BY <1>2, <1>3 DEF MetaAt
<1>8. BuilderOf(cs, us).docs = [id \in 1..n |-> MetaAt(first + id - 1)]
  BY <1>4, <1>7 DEF BuilderOf
<1>9. BuilderOf(cs, us).terms = [t \in Terms |-> Found(first, n, t)]
  BY <1>4, <1>6 DEF BuilderOf
<1>10. BuilderOf(cs, us) = [docs |-> BuilderOf(cs, us).docs, terms |-> BuilderOf(cs, us).terms]
  BY DEF BuilderOf
<1>11. BuilderOf(cs, us) = Slice(first, n)
  BY <1>8, <1>9, <1>10 DEF Slice
<1>. QED  BY <1>5, <1>11 DEF n

LEMMA SliceDocs ==
  ASSUME corpus \in Corpora, NEW first \in 1..Len(corpus) + 1, NEW n \in Nat, first + n <= Len(corpus) + 1
  PROVE  /\ Slice(first, n).docs \in Seq(Metas) /\ Len(Slice(first, n).docs) = n
         /\ \A id \in 1..n : Slice(first, n).docs[id] = MetaAt(first + id - 1) /\ first + id - 1 \in 1..Len(corpus)
<1>1. \A id \in 1..n : first + id - 1 \in 1..Len(corpus)
  BY CorpusIs
<1>2. \A id \in 1..n : MetaAt(first + id - 1) \in Metas
  BY <1>1, CorpusIs
<1>3. Slice(first, n).docs = [id \in 1..n |-> MetaAt(first + id - 1)]
  BY DEF Slice
<1>. DEFINE s == [id \in 1..n |-> MetaAt(first + id - 1)]
<1>4. s \in [1..n -> Metas]
  BY <1>2
<1>5. \A id \in 1..n : s[id] = MetaAt(first + id - 1)
  OBVIOUS
<1>. HIDE DEF s
<1>6. s \in Seq(Metas) /\ Len(s) = n
  BY <1>4
<1>. QED  BY <1>1, <1>3, <1>5, <1>6 DEF s

LEMMA AbsorbedIs ==
  ASSUME corpus \in Corpora, NEW n \in 0..Len(corpus)
  PROVE  Absorbed(Slice(1, n), Slice(n + 1, Len(corpus) - n)) = Whole
<1>. DEFINE N == Len(corpus)
            m == N - n
            one == Slice(1, n)
            other == Slice(n + 1, m)
<1>0. N \in Nat /\ m \in Nat /\ n \in Nat /\ n + m = N /\ N \in 0..N
  BY CorpusIs
<1>1. /\ one.docs \in Seq(Metas) /\ Len(one.docs) = n
      /\ \A id \in 1..n : one.docs[id] = MetaAt(id)
  <2>1. 1 \in 1..N + 1 /\ 1 + n <= N + 1
    BY <1>0
  <2>2. \A id \in 1..n : 1 + id - 1 = id
    BY <1>0
  <2>. HIDE DEF one
  <2>. QED  BY <1>0, <2>1, <2>2, SliceDocs DEF one
<1>2. /\ other.docs \in Seq(Metas) /\ Len(other.docs) = m
      /\ \A id \in 1..m : other.docs[id] = MetaAt(n + id)
  <2>1. n + 1 \in 1..N + 1 /\ n + 1 + m <= N + 1
    BY <1>0
  <2>2. \A id \in 1..m : n + 1 + id - 1 = n + id
    BY <1>0
  <2>. HIDE DEF m
  <2>. QED  BY <1>0, <2>1, <2>2, SliceDocs
<1>3. /\ Whole.docs \in Seq(Metas) /\ Len(Whole.docs) = N
      /\ \A id \in 1..N : Whole.docs[id] = MetaAt(id)
  <2>1. 1 \in 1..N + 1 /\ 1 + N <= N + 1
    BY <1>0
  <2>2. \A id \in 1..N : 1 + id - 1 = id
    BY <1>0
  <2>. QED  BY <1>0, <2>1, <2>2, SliceDocs DEF Whole
<1>4. one.docs \o other.docs = Whole.docs
  <2>. HIDE DEF one, other, m, N
  <2>. DEFINE both == one.docs \o other.docs
  <2>0. one.docs \in Seq(Metas) /\ other.docs \in Seq(Metas) /\ Len(one.docs) = n /\ Len(other.docs) = m
    BY <1>1, <1>2
  <2>1. both \in Seq(Metas) /\ Len(both) = n + m
        /\ \A i \in 1..n + m : both[i] = IF i <= n THEN one.docs[i] ELSE other.docs[i - n]
    <3>1. both \in Seq(Metas) /\ Len(both) = Len(one.docs) + Len(other.docs)
          /\ \A i \in 1..Len(one.docs) + Len(other.docs) :
               both[i] = IF i <= Len(one.docs) THEN one.docs[i] ELSE other.docs[i - Len(one.docs)]
      BY <2>0, ConcatProperties
    <3>. QED  BY <2>0, <3>1
  <2>. HIDE DEF both
  <2>2. ASSUME NEW i \in 1..N PROVE both[i] = Whole.docs[i]
    <3>1. CASE i <= n
      <4>1. i \in 1..n /\ i \in 1..n + m
        BY <1>0, <3>1
      <4>2. both[i] = one.docs[i] /\ one.docs[i] = MetaAt(i)
        BY <1>1, <2>1, <3>1, <4>1
      <4>. QED  BY <1>3, <4>2
    <3>2. CASE ~(i <= n)
      <4>1. i - n \in 1..m /\ n + (i - n) = i
        BY <1>0, <3>2
      <4>2. other.docs[i - n] = MetaAt(n + (i - n))
        BY <1>2, <4>1
      <4>. QED  BY <1>0, <1>3, <2>1, <3>2, <4>1, <4>2
    <3>. QED  BY <3>1, <3>2
  <2>. QED  BY <1>0, <1>3, <2>1, <2>2, SeqEqual DEF both
<1>. DEFINE both(t) ==
              [id \in DOMAIN one.terms[t] \cup {id + Len(one.docs) : id \in DOMAIN other.terms[t]} |->
                 IF id > Len(one.docs) THEN other.terms[t][id - Len(one.docs)] ELSE one.terms[t][id]]
<1>5. ASSUME NEW t \in Terms PROVE both(t) = Found(1, N, t)
  <2>1. one.terms[t] = Found(1, n, t) /\ other.terms[t] = Found(n + 1, m, t)
    BY DEF Slice
  <2>. HIDE DEF one, other, m, N
  <2>. DEFINE moved == {id + n : id \in Having(n + 1, m, t)}
              H(i) == Has(corpus[i], t)
  <2>2. \A i : i \in Having(1, n, t) <=> i \in 1..n /\ H(i)
    <3>1. \A d \in 1..n : 1 + d - 1 = d
      BY <1>0
    <3>. QED  BY <3>1 DEF Having
  <2>3. \A i : i \in Having(1, N, t) <=> i \in 1..N /\ H(i)
    <3>1. \A d \in 1..N : 1 + d - 1 = d
      BY <1>0
    <3>. QED  BY <3>1 DEF Having
  <2>4. \A i : i \in Having(n + 1, m, t) <=> i \in 1..m /\ H(n + i)
    <3>1. \A d \in 1..m : n + 1 + d - 1 = n + d
      BY <1>0
    <3>. QED  BY <3>1 DEF Having
  <2>. HIDE DEF H
  <2>5. \A i : i \in moved <=> i \in n + 1..N /\ H(i)
    <3>1. ASSUME NEW i \in n + 1..N, H(i) PROVE i \in moved
      <4>. DEFINE j == i - n
      <4>1. j \in 1..m /\ j + n = i /\ n + j = i
        BY <1>0
      <4>2. j \in Having(n + 1, m, t)
        BY <2>4, <3>1, <4>1
      <4>. QED  BY <4>1, <4>2
    <3>2. ASSUME NEW j \in Having(n + 1, m, t) PROVE j + n \in n + 1..N /\ H(j + n)
      <4>1. j \in 1..m /\ H(n + j)
        BY <2>4
      <4>2. j + n = n + j /\ j + n \in n + 1..N
        BY <1>0, <4>1
      <4>. QED  BY <4>1, <4>2
    <3>. QED  BY <3>1, <3>2
  <2>6. Having(1, n, t) \cup moved = Having(1, N, t)
    <3>1. \A i : i \in 1..N <=> i \in 1..n \/ i \in n + 1..N
      BY <1>0
    <3>. HIDE DEF moved
    <3>. QED  BY <2>2, <2>3, <2>5, <3>1
  <2>. DEFINE value(id) == IF id > n THEN Found(n + 1, m, t)[id - n] ELSE Found(1, n, t)[id]
  <2>7. ASSUME NEW i \in Having(1, N, t) PROVE value(i) = Found(1, N, t)[i]
    <3>1. i \in 1..N /\ H(i) /\ 1 + i - 1 = i /\ Found(1, N, t)[i] = Occurrences[corpus[i]][t]
      <4>1. i \in 1..N /\ H(i)
        BY <2>3
      <4>2. 1 + i - 1 = i
        BY <1>0, <4>1
      <4>. QED  BY <4>1, <4>2 DEF Found
    <3>2. CASE i > n
      <4>. DEFINE j == i - n
      <4>1. j \in 1..m /\ n + j = i /\ n + 1 + j - 1 = i
        BY <1>0, <3>1, <3>2
      <4>2. j \in Having(n + 1, m, t)
        BY <2>4, <3>1, <4>1
      <4>. HIDE DEF j
      <4>3. Found(n + 1, m, t)[j] = Occurrences[corpus[i]][t]
        BY <4>1, <4>2 DEF Found
      <4>. QED  BY <3>1, <3>2, <4>3 DEF j
    <3>3. CASE ~(i > n)
      <4>1. i \in Having(1, n, t)
        BY <1>0, <2>2, <3>1, <3>3
      <4>2. Found(1, n, t)[i] = Occurrences[corpus[i]][t]
        BY <3>1, <4>1 DEF Found
      <4>. QED  BY <3>1, <3>3, <4>2
    <3>. QED  BY <3>2, <3>3
  <2>8. DOMAIN Found(1, n, t) = Having(1, n, t) /\ DOMAIN Found(n + 1, m, t) = Having(n + 1, m, t)
    BY DEF Found
  <2>9. Found(1, N, t) = [i \in Having(1, N, t) |-> Found(1, N, t)[i]]
    BY DEF Found
  <2>10. Len(one.docs) = n
    BY <1>1
  <2>11. DOMAIN one.terms[t] \cup {id + Len(one.docs) : id \in DOMAIN other.terms[t]} = Having(1, N, t)
    BY <2>1, <2>6, <2>8, <2>10
  <2>. HIDE DEF moved
  <2>12. both(t) = [i \in Having(1, N, t) |-> value(i)]
    BY <2>1, <2>10, <2>11
  <2>. QED  BY <2>7, <2>9, <2>12
<1>6. Whole = [docs |-> Whole.docs, terms |-> [t \in Terms |-> Found(1, N, t)]]
  BY DEF Whole, Slice
<1>. HIDE DEF one, other, N, m
<1>7. Absorbed(one, other) = [docs |-> one.docs \o other.docs, terms |-> [t \in Terms |-> both(t)]]
  BY DEF Absorbed
<1>8. [t \in Terms |-> both(t)] = [t \in Terms |-> Found(1, N, t)]
  BY <1>5
<1>. HIDE DEF both
<1>9. Absorbed(one, other) = Whole
  BY <1>4, <1>6, <1>7, <1>8
<1>. QED  BY <1>9 DEF one, other, N, m

LEMMA TotalIsNumber ==
  ASSUME NEW docs \in Seq(Metas) PROVE TotalLength(docs) \in Nat
<1>. DEFINE w == [id \in DOMAIN docs |-> docs[id].length]
<1>1. DOMAIN docs = 1..Len(docs) /\ Len(docs) \in Nat
  BY LenProperties
<1>2. \A id \in DOMAIN docs : w[id] \in Nat
  <2>1. \A id \in DOMAIN docs : docs[id] \in Metas
    BY <1>1, ElementOfSeq
  <2>. QED  BY <2>1 DEF Metas
<1>3. IsFiniteSet(DOMAIN docs)
  BY <1>1, FS_Interval
<1>4. TotalLength(docs) = SumFunctionOnSet(w, DOMAIN docs)
  BY DEF TotalLength, SumFunction
<1>. HIDE DEF w
<1>. QED  BY <1>2, <1>3, <1>4, SumIsNatural

LEMMA FoundIs ==
  ASSUME corpus \in Corpora, NEW first \in 1..Len(corpus) + 1, NEW n \in Nat, first + n <= Len(corpus) + 1,
         NEW t \in Terms
  PROVE  /\ IsPostings(Found(first, n, t)) /\ DOMAIN Found(first, n, t) = Having(first, n, t)
         /\ \A id \in Having(first, n, t) :
              /\ id \in 1..n /\ first + id - 1 \in 1..Len(corpus) /\ Has(corpus[first + id - 1], t)
              /\ Found(first, n, t)[id] = Occurrences[corpus[first + id - 1]][t]
              /\ Weighted(Found(first, n, t)[id]) \in Nat /\ Weighted(Found(first, n, t)[id]) > 0
<1>1. DOMAIN Found(first, n, t) = Having(first, n, t)
  BY DEF Found
<1>2. IsFiniteSet(Having(first, n, t))
  <2>1. IsFiniteSet(1..n) /\ Having(first, n, t) \subseteq 1..n
    BY FS_Interval DEF Having
  <2>. QED  BY <2>1, FS_Subset
<1>3. ASSUME NEW id \in Having(first, n, t)
      PROVE  /\ id \in 1..n /\ first + id - 1 \in 1..Len(corpus) /\ Has(corpus[first + id - 1], t)
             /\ Found(first, n, t)[id] = Occurrences[corpus[first + id - 1]][t]
             /\ Found(first, n, t)[id] \in AnyFields
             /\ Weighted(Found(first, n, t)[id]) \in Nat /\ Weighted(Found(first, n, t)[id]) > 0
  <2>. DEFINE i == first + id - 1
              o == Occurrences[corpus[i]][t]
  <2>1. id \in 1..n /\ i \in 1..Len(corpus) /\ Has(corpus[i], t) /\ Found(first, n, t)[id] = o
    <3>1. id \in 1..n /\ Has(corpus[i], t)
      BY DEF Having
    <3>2. i \in 1..Len(corpus)
      BY <3>1, CorpusIs
    <3>. QED  BY <3>1, <3>2 DEF Found
  <2>2. corpus[i] \in Documents
    BY <2>1, CorpusIs
  <2>3. o \in AnyFields /\ FieldsAreFinite(o)
    BY <2>2, OccurrencesAre
  <2>4. \E f \in Fields : o[f] # {}
    BY <2>1 DEF Has
  <2>. HIDE DEF o, i
  <2>5. Weighted(o) \in Nat /\ Weighted(o) > 0
    BY <2>3, <2>4, WeightedIs
  <2>. QED  BY <2>1, <2>3, <2>5 DEF o, i
<1>4. Found(first, n, t) = [id \in DOMAIN Found(first, n, t) |-> Found(first, n, t)[id]]
  BY DEF Found
<1>5. IsPostings(Found(first, n, t))
  BY <1>1, <1>2, <1>3, <1>4 DEF IsPostings
<1>. QED  BY <1>1, <1>3, <1>5

(* What a document's posting could add to a score, but for the word's idf.  *)
Share(first, n, t, id) ==
  PostingBound(Found(first, n, t)[id], Slice(first, n).docs[id],
               TotalLength(Slice(first, n).docs), Len(Slice(first, n).docs))

LEMMA ShareIs ==
  ASSUME corpus \in Corpora, NEW first \in 1..Len(corpus) + 1, NEW n \in Nat, first + n <= Len(corpus) + 1,
         NEW t \in Terms, NEW id \in Having(first, n, t)
  PROVE  Share(first, n, t, id) \in Nat /\ Share(first, n, t, id) > 0
<1>. DEFINE docs == Slice(first, n).docs
            total == TotalLength(docs)
            o == Found(first, n, t)[id]
            meta == docs[id]
<1>1. docs \in Seq(Metas) /\ Len(docs) = n
  BY SliceDocs
<1>2. id \in 1..n /\ first + id - 1 \in 1..Len(corpus) /\ Weighted(o) \in Nat /\ Weighted(o) > 0 /\ n \in Nat \ {0}
  BY FoundIs
<1>3. meta = MetaAt(first + id - 1)
  BY <1>2, SliceDocs
<1>4. MetaAt(first + id - 1) \in Metas
  BY <1>2, CorpusIs
<1>5. meta.length \in Nat /\ meta.rank \in Nat
  BY <1>3, <1>4 DEF Metas
<1>6. total \in Nat
  BY <1>1, TotalIsNumber
<1>. DEFINE norm == LengthNorm(meta.length, total, n)
            s == Saturation(Weighted(o), norm, Params)
            a == Authority(meta.rank, n)
<1>. HIDE DEF docs, total, o, meta
<1>7. norm \in Nat
  BY <1>2, <1>5, <1>6, LengthNormIs
<1>. HIDE DEF norm
<1>8. s \in Nat /\ s > 0
  BY <1>2, <1>7, SaturationIs
<1>9. a \in Nat /\ a > 0
  BY <1>2, <1>5, AuthorityIs
<1>10. Share(first, n, t, id) = s * a
  BY <1>1 DEF Share, PostingBound, docs, total, o, meta, norm
<1>. HIDE DEF s, a
<1>. QED  BY <1>8, <1>9, <1>10, Products

LEMMA SegmentDecodes ==
  ASSUME corpus \in Corpora, NEW first \in 1..Len(corpus) + 1, NEW n \in Nat, first + n <= Len(corpus) + 1
  PROVE  /\ Encoded(Slice(first, n)).docs = Slice(first, n).docs
         /\ \A t \in Terms : Decoded(Encoded(Slice(first, n)).lists[t]) = Found(first, n, t)
<1>1. Slice(first, n).terms = [t \in Terms |-> Found(first, n, t)]
  BY DEF Slice
<1>2. Encoded(Slice(first, n)).docs = Slice(first, n).docs
  BY DEF Encoded
<1>3. ASSUME NEW t \in Terms PROVE Decoded(Encoded(Slice(first, n)).lists[t]) = Found(first, n, t)
  <2>. DEFINE docs == Slice(first, n).docs
              total == TotalLength(docs)
              found == Found(first, n, t)
  <2>1. Encoded(Slice(first, n)).lists[t] = EncodedList(docs, total, found)
    BY <1>1 DEF Encoded
  <2>2. IsPostings(found) /\ DOMAIN found = Having(first, n, t)
    BY FoundIs
  <2>3. \A id \in DOMAIN found : PostingBound(found[id], docs[id], total, Len(docs)) \in Nat
    BY <2>2, ShareIs DEF Share
  <2>. HIDE DEF docs, total, found
  <2>4. Decoded(EncodedList(docs, total, found)) = found
    BY <2>2, <2>3, EncodingDecodes
  <2>. QED  BY <2>1, <2>4 DEF found
<1>. QED  BY <1>2, <1>3

LEMMA MergedIs ==
  ASSUME corpus \in Corpora, NEW n \in 0..Len(corpus)
  PROVE  FromSegments(Encoded(Slice(1, n)), Encoded(Slice(n + 1, Len(corpus) - n))) = Whole
<1>. DEFINE m == Len(corpus) - n
            known(segment_) == [docs |-> segment_.docs, terms |-> [t \in Terms |-> Decoded(segment_.lists[t])]]
<1>0. Len(corpus) \in Nat /\ m \in Nat /\ n \in Nat
  BY CorpusIs
<1>1. known(Encoded(Slice(1, n))) = Slice(1, n)
  <2>1. 1 \in 1..Len(corpus) + 1 /\ 1 + n <= Len(corpus) + 1
    BY <1>0
  <2>2. /\ Encoded(Slice(1, n)).docs = Slice(1, n).docs
        /\ \A t \in Terms : Decoded(Encoded(Slice(1, n)).lists[t]) = Found(1, n, t)
    BY <1>0, <2>1, SegmentDecodes
  <2>3. Slice(1, n) = [docs |-> Slice(1, n).docs, terms |-> [t \in Terms |-> Found(1, n, t)]]
    BY DEF Slice
  <2>. QED  BY <2>2, <2>3
<1>2. known(Encoded(Slice(n + 1, m))) = Slice(n + 1, m)
  <2>1. n + 1 \in 1..Len(corpus) + 1 /\ n + 1 + m <= Len(corpus) + 1
    BY <1>0
  <2>. HIDE DEF m
  <2>2. /\ Encoded(Slice(n + 1, m)).docs = Slice(n + 1, m).docs
        /\ \A t \in Terms : Decoded(Encoded(Slice(n + 1, m)).lists[t]) = Found(n + 1, m, t)
    BY <1>0, <2>1, SegmentDecodes
  <2>3. Slice(n + 1, m) = [docs |-> Slice(n + 1, m).docs, terms |-> [t \in Terms |-> Found(n + 1, m, t)]]
    BY DEF Slice
  <2>. QED  BY <2>2, <2>3
<1>3. FromSegments(Encoded(Slice(1, n)), Encoded(Slice(n + 1, m)))
        = Absorbed(known(Encoded(Slice(1, n))), known(Encoded(Slice(n + 1, m))))
  BY DEF FromSegments
<1>. QED  BY <1>1, <1>2, <1>3, AbsorbedIs

-----------------------------------------------------------------------------
(* One segment, whichever way it was made: every document, in order.        *)

Searching == {"ask", "open", "walk", "finish", "phrases", "done"}
Halves == <<Slice(1, Half), Slice(Half + 1, Len(corpus) - Half)>>
SegmentInv ==
  /\ corpus \in Corpora
  /\ pc \in {"index", "absorb", "encode", "merge"} \cup Searching
  /\ pc = "absorb" => builders = Halves
  /\ pc = "encode" => builders \in {<<Whole>>, Halves}
  /\ pc = "merge" => segments = <<Encoded(Halves[1]), Encoded(Halves[2])>>
  /\ pc \in Searching => segments = <<Encoded(Whole)>>
  /\ pc \in Searching \ {"ask"} => query \in Queries /\ limit \in Limits /\ global \in Globals

LEMMA HalfIs == ASSUME corpus \in Corpora PROVE Half \in 0..Len(corpus)
BY CorpusIs DEF Half

LEMMA PartsAre ==
  ASSUME corpus \in Corpora
  PROVE  Part(1, Len(corpus)) = Whole /\ <<Part(1, Half), Part(Half + 1, Len(corpus))>> = Halves
<1>. DEFINE n == Len(corpus)
            h == Half
<1>1. n \in Nat /\ h \in 0..n
  BY HalfIs, CorpusIs
<1>. HIDE DEF n, h
<1>2. /\ 1 \in 1..n + 1 /\ n \in 1 - 1..n /\ n - 1 + 1 = n
      /\ h \in 1 - 1..n /\ h - 1 + 1 = h
      /\ h + 1 \in 1..n + 1 /\ n \in h + 1 - 1..n /\ n - (h + 1) + 1 = n - h
  BY <1>1
<1>3. Part(1, n) = Slice(1, n - 1 + 1) /\ Part(1, h) = Slice(1, h - 1 + 1)
      /\ Part(h + 1, n) = Slice(h + 1, n - (h + 1) + 1)
  BY <1>1, <1>2, PartIs DEF n
<1>4. Part(1, n) = Slice(1, n) /\ Part(1, h) = Slice(1, h) /\ Part(h + 1, n) = Slice(h + 1, n - h)
  BY <1>2, <1>3
<1>. QED  BY <1>4 DEF n, h, Whole, Halves

LEMMA HalvesMake ==
  ASSUME corpus \in Corpora
  PROVE  /\ Absorbed(Halves[1], Halves[2]) = Whole
         /\ FromSegments(Encoded(Halves[1]), Encoded(Halves[2])) = Whole
BY HalfIs, AbsorbedIs, MergedIs DEF Halves

LEMMA CorpusStays ==
  ASSUME corpus' = corpus PROVE Whole' = Whole /\ Halves' = Halves
<1>1. \A first, n : Slice(first, n)' = Slice(first, n)
  BY DEF Slice, MetaAt, Found, Having
<1>2. Half' = Half /\ Len(corpus)' = Len(corpus)
  BY DEF Half
<1>3. Slice(1, Len(corpus))' = Slice(1, Len(corpus))
  BY <1>1, <1>2
<1>4. Slice(1, Half)' = Slice(1, Half)
  BY <1>1, <1>2
<1>5. Slice(Half + 1, Len(corpus) - Half)' = Slice(Half + 1, Len(corpus) - Half)
  BY <1>1, <1>2
<1>. QED  BY <1>3, <1>4, <1>5 DEF Whole, Halves

LEMMA SegmentStarts == Init => SegmentInv
BY DEF Init, SegmentInv, Searching

LEMMA SegmentStep == SegmentInv /\ [Next]_scanVars => SegmentInv'
<1>. SUFFICES ASSUME SegmentInv, [Next]_scanVars PROVE SegmentInv'
  OBVIOUS
<1>0. corpus \in Corpora /\ corpus' = corpus
  BY DEF SegmentInv, Next, Index, Absorb, Encode, Merge, Ask, Open, OpenNothing, Stop, Turn, Finish, DecodeWords,
         ScoreCandidates, scanVars, input
<1>1. Whole' = Whole /\ Halves' = Halves /\ corpus' \in Corpora
  BY <1>0, CorpusStays
<1>2. CASE UNCHANGED scanVars
  BY <1>1, <1>2 DEF SegmentInv, scanVars
<1>3. CASE Index
  <2>1. \/ pc' = "encode" /\ builders' = <<Whole>>
        \/ pc' \in {"absorb", "encode"} /\ builders' = Halves
    BY <1>0, <1>3, PartsAre DEF Index
  <2>. QED  BY <1>1, <2>1 DEF SegmentInv, Searching
<1>4. CASE Absorb
  <2>1. builders = Halves /\ pc' = "encode" /\ builders' = <<Absorbed(builders[1], builders[2])>>
    BY <1>4 DEF SegmentInv, Absorb
  <2>2. builders' = <<Whole>>
    BY <1>0, <2>1, HalvesMake
  <2>. QED  BY <1>1, <2>1, <2>2 DEF SegmentInv, Searching
<1>5. CASE Encode
  <2>1. builders \in {<<Whole>>, Halves} /\ segments' = [i \in DOMAIN builders |-> Encoded(builders[i])]
        /\ pc' = IF Len(builders) = 1 THEN "ask" ELSE "merge"
    BY <1>5 DEF SegmentInv, Encode
  <2>2. CASE builders = <<Whole>>
    <3>1. pc' = "ask"
      BY <2>1, <2>2
    <3>2. segments' = <<Encoded(Whole)>>
      BY <2>1, <2>2
    <3>. QED  BY <1>1, <3>1, <3>2 DEF SegmentInv, Searching
  <2>3. CASE builders = Halves
    <3>1. Len(Halves) = 2 /\ DOMAIN Halves = 1..2
      BY DEF Halves
    <3>2. pc' = "merge"
      BY <2>1, <2>3, <3>1
    <3>3. segments' = [i \in 1..2 |-> Encoded(Halves[i])]
      BY <2>1, <2>3, <3>1
    <3>4. segments' = <<Encoded(Halves[1]), Encoded(Halves[2])>>
      BY <3>3
    <3>. QED  BY <1>1, <3>2, <3>4 DEF SegmentInv, Searching
  <2>. QED  BY <2>1, <2>2, <2>3
<1>6. CASE Merge
  <2>1. segments = <<Encoded(Halves[1]), Encoded(Halves[2])>> /\ pc' = "encode"
        /\ builders' = <<FromSegments(segments[1], segments[2])>>
    BY <1>6 DEF SegmentInv, Merge
  <2>2. builders' = <<Whole>>
    BY <1>0, <2>1, HalvesMake
  <2>. QED  BY <1>1, <2>1, <2>2 DEF SegmentInv, Searching
<1>7. CASE \/ Ask \/ Open \/ OpenNothing \/ Stop \/ Turn \/ Finish \/ DecodeWords \/ ScoreCandidates
           \/ (pc = "done" /\ UNCHANGED scanVars)
  <2>1. /\ pc \in Searching /\ pc' \in Searching /\ segments' = segments
        /\ \/ query' \in Queries /\ limit' \in Limits /\ global' \in Globals
           \/ pc \in Searching \ {"ask"} /\ query' = query /\ limit' = limit /\ global' = global
    BY <1>7 DEF Ask, Open, OpenNothing, Stop, Turn, Finish, DecodeWords, ScoreCandidates, scanVars, input, Searching
  <2>. QED  BY <1>1, <2>1 DEF SegmentInv, Searching
<1>. QED  BY <1>2, <1>3, <1>4, <1>5, <1>6, <1>7 DEF Next

-----------------------------------------------------------------------------
(* The lists of the segment, and what a word is worth in a document.        *)

Asked == /\ corpus \in Corpora /\ segments = <<Encoded(Whole)>>
         /\ query \in Queries /\ limit \in Limits /\ global \in Globals
Carriers(t) == Having(1, Len(corpus), t)
IdsOf(t) == Ascending(Carriers(t))
ListOf(t) == segment.lists[t]
Shares(t) == [id \in Carriers(t) |-> Share(1, Len(corpus), t, id)]

LEMMA CarriersAre ==
  ASSUME corpus \in Corpora, NEW t \in Terms
  PROVE  /\ IsFiniteSet(Carriers(t)) /\ Cardinality(Carriers(t)) \in 0..Len(corpus) /\ Freq(t) = Cardinality(Carriers(t))
         /\ \A id : id \in Carriers(t) <=> id \in 1..Len(corpus) /\ Says(id, t)
<1>0. Len(corpus) \in Nat /\ DOMAIN corpus = 1..Len(corpus)
  BY CorpusIs
<1>1. \A id \in 1..Len(corpus) : 1 + id - 1 = id
  BY <1>0
<1>2. \A id : id \in Carriers(t) <=> id \in 1..Len(corpus) /\ Says(id, t)
  BY <1>1 DEF Carriers, Having, Says
<1>3. IsFiniteSet(1..Len(corpus)) /\ Cardinality(1..Len(corpus)) = Len(corpus)
  <2>1. \A n \in Nat : IsFiniteSet(1..n) /\ Cardinality(1..n) = n
    BY FS_Interval
  <2>. QED  BY <1>0, <2>1
<1>4. Carriers(t) \subseteq 1..Len(corpus)
  BY <1>2
<1>5. IsFiniteSet(Carriers(t)) /\ Cardinality(Carriers(t)) <= Len(corpus) /\ Cardinality(Carriers(t)) \in Nat
  BY <1>3, <1>4, FS_Subset, FS_CardinalityType
<1>6. {id \in DOMAIN corpus : Says(id, t)} = Carriers(t)
  BY <1>0, <1>2
<1>7. Freq(t) = Cardinality(Carriers(t))
  BY <1>6, Zenon DEF Freq
<1>. QED  BY <1>0, <1>2, <1>5, <1>7

LEMMA WordLists ==
  ASSUME corpus \in Corpora, segments = <<Encoded(Whole)>>, NEW t \in Terms
  PROVE  /\ Lists(ListOf(t), IdsOf(t))
         /\ ListOf(t).count = Cardinality(Carriers(t))
         /\ \A i \in 1..ListOf(t).count :
              /\ IdsOf(t)[i] \in Carriers(t)
              /\ ListOf(t).cells[i].fields = Occurrences[corpus[IdsOf(t)[i]]][t]
         /\ \A id \in Carriers(t) : \E i \in 1..ListOf(t).count : IdsOf(t)[i] = id
         /\ BoundsCover(ListOf(t), IdsOf(t), Shares(t))
<1>. DEFINE n == Len(corpus)
            docs == Slice(1, n).docs
            total == TotalLength(docs)
            found == Found(1, n, t)
            bound == Shares(t)
            S == Carriers(t)
<1>0. n \in Nat /\ 1 \in 1..n + 1 /\ 1 + n <= n + 1
  BY CorpusIs
<1>1. ListOf(t) = EncodedList(docs, total, found)
  <2>1. Whole.docs = docs /\ Whole.terms = [u \in Terms |-> Found(1, n, u)]
    BY DEF Whole, Slice
  <2>2. segment = Encoded(Whole)
    BY DEF segment
  <2>. QED  BY <2>1, <2>2 DEF ListOf, Encoded
<1>2. IsPostings(found) /\ DOMAIN found = S
  BY <1>0, FoundIs DEF Carriers
<1>3. \A id \in S : /\ found[id] = Occurrences[corpus[id]][t]
  <2>1. \A id \in S : found[id] = Occurrences[corpus[1 + id - 1]][t] /\ id \in 1..n
    BY <1>0, FoundIs DEF Carriers
  <2>2. \A id \in 1..n : 1 + id - 1 = id
    BY <1>0
  <2>. QED  BY <2>1, <2>2
<1>4. \A id \in S : bound[id] = PostingBound(found[id], docs[id], total, Len(docs)) /\ bound[id] \in Nat
  <2>. SUFFICES ASSUME NEW id \in S
                PROVE  bound[id] = PostingBound(found[id], docs[id], total, Len(docs)) /\ bound[id] \in Nat
    OBVIOUS
  <2>1. Share(1, n, t, id) \in Nat
    BY <1>0, ShareIs DEF Carriers
  <2>2. bound[id] = Share(1, n, t, id)
    BY DEF Shares
  <2>. QED  BY <2>1, <2>2 DEF Share
<1>. HIDE DEF docs, total, found, bound, S
<1>5. /\ Lists(EncodedList(docs, total, found), Ascending(S))
      /\ EncodedList(docs, total, found).count = Cardinality(S)
      /\ \A i \in 1..Cardinality(S) :
           EncodedList(docs, total, found).cells[i].fields = found[Ascending(S)[i]]
      /\ BoundsCover(EncodedList(docs, total, found), Ascending(S), bound)
  BY <1>2, <1>4, EncodedListIs
<1>6. \A x \in S : x \in Nat
  BY <1>2 DEF IsPostings
<1>7. /\ Ascending(S) \in [1..Cardinality(S) -> S]
      /\ \A x \in S : \E i \in 1..Cardinality(S) : Ascending(S)[i] = x
  BY <1>2, <1>6, AscendingIs DEF IsPostings
<1>8. IdsOf(t) = Ascending(S)
  BY DEF IdsOf, S
<1>. QED  BY <1>1, <1>3, <1>5, <1>7, <1>8 DEF bound, S

IdfOf(t) == Idf(TotalDocs, DocFreq(t, ListOf(t).count))
Gain(t, id) == IdfOf(t) * Saturation(Weighted(Occurrences[corpus[id]][t]), NormOf(id), Params)

LEMMA DocsAre ==
  ASSUME corpus \in Corpora, segments = <<Encoded(Whole)>>
  PROVE  /\ Len(segment.docs) = Len(corpus) /\ DOMAIN segment.docs = 1..Len(corpus)
         /\ segment.docs = Slice(1, Len(corpus)).docs /\ segment.docs \in Seq(Metas)
         /\ \A id \in 1..Len(corpus) : segment.docs[id] = MetaAt(id)
<1>0. Len(corpus) \in Nat /\ 1 \in 1..Len(corpus) + 1 /\ 1 + Len(corpus) <= Len(corpus) + 1
  BY CorpusIs
<1>1. segment.docs = Slice(1, Len(corpus)).docs
  <2>1. segment = Encoded(Whole)
    BY DEF segment
  <2>. QED  BY <2>1 DEF Encoded, Whole
<1>2. /\ segment.docs \in Seq(Metas) /\ Len(segment.docs) = Len(corpus)
      /\ \A id \in 1..Len(corpus) : segment.docs[id] = MetaAt(1 + id - 1)
  BY <1>0, <1>1, SliceDocs
<1>3. \A id \in 1..Len(corpus) : 1 + id - 1 = id
  BY <1>0
<1>4. DOMAIN segment.docs = 1..Len(segment.docs)
  BY <1>2, LenProperties
<1>. QED  BY <1>1, <1>2, <1>3, <1>4

LEMMA AskedIs ==
  ASSUME Asked
  PROVE  /\ query.terms \subseteq Terms /\ query.excluded \subseteq Terms /\ query.phrases \subseteq Seq(Terms) \ {<< >>}
         /\ IsFiniteSet(query.terms) /\ IsFiniteSet(query.excluded) /\ IsFiniteSet(query.phrases)
         /\ ScoringTerms(query) \subseteq Terms /\ IsFiniteSet(ScoringTerms(query))
         /\ limit \in Nat
<1>1. /\ query.terms \subseteq Terms /\ query.excluded \subseteq Terms /\ query.phrases \subseteq Seq(Terms) \ {<< >>}
      /\ IsFiniteSet(query.terms) /\ IsFiniteSet(query.excluded) /\ IsFiniteSet(query.phrases)
      /\ limit \in Nat
  BY ScanAssumption DEF Asked
<1>. DEFINE words == {ToSet(p) : p \in query.phrases}
<1>2. ASSUME NEW p \in query.phrases PROVE ToSet(p) \subseteq Terms /\ IsFiniteSet(ToSet(p))
  <2>1. p \in Seq(Terms)
    BY <1>1
  <2>2. DOMAIN p = 1..Len(p) /\ Len(p) \in Nat
    BY <2>1, LenProperties
  <2>3. \A i \in 1..Len(p) : p[i] \in Terms
    BY <2>1, ElementOfSeq
  <2>4. IsFiniteSet(1..Len(p))
    BY <2>2, FS_Interval
  <2>5. ToSet(p) = {p[i] : i \in 1..Len(p)}
    BY <2>2 DEF ToSet
  <2>6. IsFiniteSet({p[i] : i \in 1..Len(p)})
    BY <2>4, FiniteImage
  <2>. QED  BY <2>3, <2>5, <2>6
<1>3. IsFiniteSet(words)
  <2>. DEFINE h == [p \in query.phrases |-> ToSet(p)]
  <2>1. words = {h[p] : p \in query.phrases}
    OBVIOUS
  <2>. HIDE DEF h, words
  <2>. QED  BY <1>1, <2>1, FiniteImage
<1>4. \A W \in words : IsFiniteSet(W) /\ W \subseteq Terms
  BY <1>2
<1>5. ScoringTerms(query) = query.terms \cup UNION words
  BY DEF ScoringTerms
<1>. HIDE DEF words
<1>6. IsFiniteSet(UNION words) /\ UNION words \subseteq Terms
  BY <1>3, <1>4, FS_UNION
<1>7. IsFiniteSet(query.terms \cup UNION words)
  BY <1>1, <1>6, FS_Union
<1>. QED  BY <1>1, <1>5, <1>6, <1>7

LEMMA TotalsAre ==
  ASSUME Asked
  PROVE  /\ TotalDocs = Stats.docs
         /\ global = None => TotalDocs = Len(corpus)
         /\ global # None => TotalDocs \in Nat \ {0}
         /\ TotalDocs \in Nat /\ (corpus # << >> => TotalDocs > 0)
         /\ \A t \in Terms : /\ IdfOf(t) = Idf(Stats.docs, IF t \in DOMAIN Stats.freq THEN Stats.freq[t] ELSE Freq(t))
                             /\ IdfOf(t) \in Nat /\ IdfOf(t) > 0
<1>0. /\ corpus \in Corpora /\ segments = <<Encoded(Whole)>> /\ global \in Globals
      /\ Len(corpus) \in Nat /\ (corpus # << >> => Len(corpus) > 0)
  BY CorpusIs, EmptySeq DEF Asked
<1>1. Len(segment.docs) = Len(corpus)
  BY <1>0, DocsAre
<1>2. \A t \in Terms : ListOf(t).count = Freq(t) /\ Freq(t) \in 0..Len(corpus)
  BY <1>0, WordLists, CarriersAre
<1>3. CASE global = None
  <2>1. Stats = [docs |-> Len(corpus), length |-> AllTokens, freq |-> [t \in Terms |-> Freq(t)]]
    BY <1>3 DEF Stats
  <2>2. Stats.docs = Len(corpus) /\ DOMAIN Stats.freq = Terms /\ \A t \in Terms : Stats.freq[t] = Freq(t)
    BY <2>1
  <2>3. TotalDocs = Len(corpus)
    BY <1>1, <1>3 DEF TotalDocs
  <2>4. \A t \in Terms : DocFreq(t, ListOf(t).count) = Freq(t)
    BY <1>2, <1>3 DEF DocFreq
  <2>5. ASSUME NEW t \in Terms
        PROVE  IdfOf(t) = Idf(Stats.docs, Stats.freq[t]) /\ IdfOf(t) \in Nat /\ IdfOf(t) > 0
    <3>1. IdfOf(t) = Idf(Len(corpus), Freq(t))
      BY <2>3, <2>4 DEF IdfOf
    <3>2. Idf(Len(corpus), Freq(t)) = Len(corpus) - Freq(t) + 1
      BY DEF Idf
    <3>3. IdfOf(t) \in Nat /\ IdfOf(t) > 0
      BY <1>0, <1>2, <3>1, <3>2
    <3>. QED  BY <2>2, <3>1, <3>3
  <2>. QED  BY <1>0, <1>3, <2>2, <2>3, <2>5
<1>4. CASE global # None
  <2>1. Stats = global /\ TotalDocs = global.docs
    BY <1>4 DEF Stats, TotalDocs
  <2>2. /\ global.docs \in Nat \ {0}
        /\ \A t \in Terms : IF t \in DOMAIN global.freq THEN global.freq[t] \in 0..global.docs
                                                       ELSE Len(corpus) <= global.docs
    BY <1>0, <1>4, ScanAssumption
  <2>3. ASSUME NEW t \in Terms
        PROVE  /\ IdfOf(t) = Idf(Stats.docs, IF t \in DOMAIN Stats.freq THEN Stats.freq[t] ELSE Freq(t))
               /\ IdfOf(t) \in Nat /\ IdfOf(t) > 0
    <3>. DEFINE freq == IF t \in DOMAIN global.freq THEN global.freq[t] ELSE Freq(t)
    <3>1. DocFreq(t, ListOf(t).count) = freq
      BY <1>2, <1>4 DEF DocFreq
    <3>2. freq \in 0..global.docs
      BY <1>0, <1>2, <2>2
    <3>3. IdfOf(t) = Idf(global.docs, freq)
      BY <2>1, <3>1 DEF IdfOf
    <3>. HIDE DEF freq
    <3>4. IdfOf(t) \in Nat /\ IdfOf(t) > 0
      BY <2>2, <3>2, <3>3 DEF Idf
    <3>. QED  BY <2>1, <3>3, <3>4 DEF freq
  <2>. QED  BY <1>4, <2>1, <2>2, <2>3
<1>. QED  BY <1>3, <1>4

LEMMA NormsAre ==
  ASSUME Asked, NEW id \in 1..Len(corpus)
  PROVE  /\ corpus[id] \in Documents
         /\ NormOf(id) = LengthNorm(Tokens[corpus[id]], Stats.length, Stats.docs)
         /\ NormOf(id) \in Nat
         /\ AuthorityOf(id) = Authority(corpus[id].rank, Stats.docs)
         /\ AuthorityOf(id) \in Nat /\ AuthorityOf(id) > 0
<1>0. /\ corpus \in Corpora /\ segments = <<Encoded(Whole)>> /\ global \in Globals
      /\ Len(corpus) \in Nat /\ corpus # << >> /\ corpus[id] \in Documents
  <2>1. corpus \in Corpora /\ segments = <<Encoded(Whole)>> /\ global \in Globals
    BY DEF Asked
  <2>2. Len(corpus) \in Nat /\ corpus[id] \in Documents
    BY <2>1, CorpusIs
  <2>3. Len(corpus) # 0
    BY <2>2
  <2>. QED  BY <2>1, <2>2, <2>3
<1>1. segment.docs[id] = MetaAt(id) /\ segment.docs \in Seq(Metas) /\ Len(segment.docs) = Len(corpus)
      /\ DOMAIN segment.docs = 1..Len(corpus)
  BY <1>0, DocsAre
<1>2. /\ segment.docs[id].length = Tokens[corpus[id]] /\ segment.docs[id].rank = corpus[id].rank
      /\ Tokens[corpus[id]] \in Nat /\ corpus[id].rank \in Nat
  BY <1>0, <1>1, TokensAre, PostingsAssumption DEF MetaAt
<1>3. TotalDocs = Stats.docs /\ TotalDocs \in Nat \ {0}
  BY <1>0, TotalsAre
<1>4. /\ AuthorityOf(id) = Authority(corpus[id].rank, Stats.docs)
      /\ AuthorityOf(id) \in Nat /\ AuthorityOf(id) > 0
  <2>1. AuthorityOf(id) = Authority(corpus[id].rank, TotalDocs)
    BY <1>2 DEF AuthorityOf
  <2>. QED  BY <1>2, <1>3, <2>1, AuthorityIs
<1>5. CASE global = None
  <2>1. TotalLength(segment.docs) = AllTokens
    <3>. DEFINE f == [i \in 1..Len(corpus) |-> segment.docs[i].length]
                g == [i \in 1..Len(corpus) |-> Tokens[corpus[i]]]
    <3>1. \A i \in 1..Len(corpus) : segment.docs[i].length = Tokens[corpus[i]]
      <4>1. \A i \in 1..Len(corpus) : segment.docs[i] = MetaAt(i)
        BY <1>0, DocsAre
      <4>2. \A i : MetaAt(i).length = Tokens[corpus[i]]
        BY DEF MetaAt
      <4>. QED  BY <4>1, <4>2
    <3>2. f = g
      BY <3>1
    <3>3. TotalLength(segment.docs) = SumFunction(f)
      BY <1>1 DEF TotalLength
    <3>4. DOMAIN corpus = 1..Len(corpus)
      BY <1>0, CorpusIs
    <3>5. AllTokens = SumFunction(g)
      BY <3>4 DEF AllTokens
    <3>. HIDE DEF f, g
    <3>. QED  BY <3>2, <3>3, <3>5
  <2>2. Stats.length = AllTokens
    BY <1>5 DEF Stats
  <2>3. TotalLength(segment.docs) \in Nat
    BY <1>1, TotalIsNumber
  <2>4. NormOf(id) = LengthNorm(Tokens[corpus[id]], TotalLength(segment.docs), TotalDocs)
    BY <1>2, <1>5 DEF NormOf
  <2>5. LengthNorm(Tokens[corpus[id]], TotalLength(segment.docs), TotalDocs) \in Nat
    BY <1>2, <1>3, <2>3, LengthNormIs
  <2>. QED  BY <1>0, <1>3, <1>4, <2>1, <2>2, <2>4, <2>5
<1>6. CASE global # None
  <2>1. Stats.length = global.length /\ global.length \in Nat
    BY <1>0, <1>6, ScanAssumption DEF Stats
  <2>2. NormOf(id) = LengthNorm(Tokens[corpus[id]], global.length, TotalDocs)
    BY <1>2, <1>6 DEF NormOf
  <2>3. LengthNorm(Tokens[corpus[id]], global.length, TotalDocs) \in Nat
    BY <1>2, <1>3, <2>1, LengthNormIs
  <2>. QED  BY <1>0, <1>3, <1>4, <2>1, <2>2, <2>3
<1>. QED  BY <1>5, <1>6

-----------------------------------------------------------------------------
(* Sums, the least of a set, and its members in some order.                 *)

LEMMA Scaled == \A a, x, y \in Nat : a * (x + y) = a * x + a * y /\ a * 0 = 0
OBVIOUS

LEMMA SumUnder ==
  ASSUME NEW S, IsFiniteSet(S), NEW a \in Nat, NEW f, NEW g,
         \A x \in S : f[x] \in Nat /\ g[x] \in Nat /\ a * f[x] <= g[x]
  PROVE  a * SumFunctionOnSet(f, S) <= SumFunctionOnSet(g, S)
<1>. DEFINE sf(s) == SumFunctionOnSet(f, s)
            sg(s) == SumFunctionOnSet(g, s)
            C == {s \in SUBSET S : ~(a * sf(s) <= sg(s))}
<1>. SUFFICES ASSUME C # {} PROVE FALSE
  OBVIOUS
<1>1. PICK A \in C : \A x \in A : A \ {x} \notin C
  <2>. HIDE DEF C
  <2>1. C \in SUBSET SUBSET S
    BY DEF C
  <2>. QED  BY <2>1, SmallestSet
<1>2. A \in SUBSET S /\ ~(a * sf(A) <= sg(A)) /\ IsFiniteSet(A)
  BY FS_Subset
<1>3. CASE A = {}
  <2>1. sf(A) = 0 /\ sg(A) = 0
    BY <1>3, SumOfNothing
  <2>. HIDE DEF sf, sg
  <2>. QED  BY <1>2, <2>1
<1>4. ASSUME NEW z \in A PROVE FALSE
  <2>1. A \ {z} \in SUBSET S /\ A \ {z} \notin C /\ IsFiniteSet(A \ {z})
    BY <1>1, <1>2, FS_RemoveElement
  <2>2. a * sf(A \ {z}) <= sg(A \ {z})
    BY <2>1
  <2>3. \A x \in A : f[x] \in Nat /\ g[x] \in Nat /\ f[x] \in Int /\ g[x] \in Int /\ a * f[x] <= g[x]
    BY <1>2
  <2>4. sf(A) = f[z] + sf(A \ {z}) /\ sg(A) = g[z] + sg(A \ {z})
    BY <1>2, <2>3, SumTakesAny
  <2>5. sf(A \ {z}) \in Nat /\ sg(A \ {z}) \in Nat
    BY <2>1, <2>3, SumIsNatural
  <2>6. f[z] \in Nat /\ g[z] \in Nat /\ a * f[z] <= g[z] /\ a * f[z] \in Nat
    BY <2>3, Products
  <2>. HIDE DEF sf, sg, C
  <2>7. a * (f[z] + sf(A \ {z})) = a * f[z] + a * sf(A \ {z}) /\ a * sf(A \ {z}) \in Nat
    BY <2>5, <2>6, Scaled, Products
  <2>. QED  BY <1>2, <2>2, <2>4, <2>5, <2>6, <2>7
<1>. QED  BY <1>3, <1>4

LEMMA SumGrows ==
  ASSUME NEW S, IsFiniteSet(S), NEW f, NEW g, \A x \in S : f[x] \in Nat /\ g[x] \in Nat /\ f[x] <= g[x]
  PROVE  /\ SumFunctionOnSet(f, S) \in Nat /\ SumFunctionOnSet(g, S) \in Nat
         /\ SumFunctionOnSet(f, S) <= SumFunctionOnSet(g, S)
         /\ (\E z \in S : f[z] < g[z]) => SumFunctionOnSet(f, S) < SumFunctionOnSet(g, S)
<1>1. \A T : T \subseteq S => /\ IsFiniteSet(T) /\ SumFunctionOnSet(f, T) \in Nat /\ SumFunctionOnSet(g, T) \in Nat
                              /\ SumFunctionOnSet(f, T) <= SumFunctionOnSet(g, T)
  <2>. SUFFICES ASSUME NEW T, T \subseteq S
                PROVE  /\ IsFiniteSet(T) /\ SumFunctionOnSet(f, T) \in Nat /\ SumFunctionOnSet(g, T) \in Nat
                       /\ SumFunctionOnSet(f, T) <= SumFunctionOnSet(g, T)
    OBVIOUS
  <2>1. IsFiniteSet(T)
    BY FS_Subset
  <2>2. \A x \in T : f[x] \in Nat /\ g[x] \in Nat /\ 1 * f[x] <= g[x]
    OBVIOUS
  <2>3. SumFunctionOnSet(f, T) \in Nat /\ SumFunctionOnSet(g, T) \in Nat
    BY <2>1, <2>2, SumIsNatural
  <2>4. 1 * SumFunctionOnSet(f, T) <= SumFunctionOnSet(g, T)
    BY <2>1, <2>2, SumUnder
  <2>. QED  BY <2>1, <2>3, <2>4
<1>2. ASSUME NEW z \in S, f[z] < g[z] PROVE SumFunctionOnSet(f, S) < SumFunctionOnSet(g, S)
  <2>1. \A x \in S : f[x] \in Int /\ g[x] \in Int
    OBVIOUS
  <2>2. /\ SumFunctionOnSet(f, S) = f[z] + SumFunctionOnSet(f, S \ {z})
        /\ SumFunctionOnSet(g, S) = g[z] + SumFunctionOnSet(g, S \ {z})
    BY <2>1, SumTakesAny
  <2>3. /\ SumFunctionOnSet(f, S \ {z}) \in Nat /\ SumFunctionOnSet(g, S \ {z}) \in Nat
        /\ SumFunctionOnSet(f, S \ {z}) <= SumFunctionOnSet(g, S \ {z})
    BY <1>1
  <2>4. f[z] \in Nat /\ g[z] \in Nat
    OBVIOUS
  <2>. QED  BY <1>2, <2>2, <2>3, <2>4
<1>. QED  BY <1>1, <1>2

LEMMA SequenceOf ==
  ASSUME NEW S, IsFiniteSet(S)
  PROVE  /\ Cardinality(S) \in Nat
         /\ SetToSeq(S) \in [1..Cardinality(S) -> S]
         /\ \A i, j \in 1..Cardinality(S) : SetToSeq(S)[i] = SetToSeq(S)[j] => i = j
         /\ \A x \in S : \E i \in 1..Cardinality(S) : SetToSeq(S)[i] = x
         /\ Len(SetToSeq(S)) = Cardinality(S)
<1>. DEFINE n == Cardinality(S)
            s == SetToSeq(S)
<1>1. n \in Nat
  BY FS_CardinalityType
<1>2. \E f \in [1..n -> S] : IsInjective(f)
  <2>1. IsFiniteSet(1..n) /\ Cardinality(1..n) = n
    <3>1. \A m \in Nat : IsFiniteSet(1..m) /\ Cardinality(1..m) = m
      BY FS_Interval
    <3>. QED  BY <1>1, <3>1
  <2>. DEFINE I == 1..n
  <2>2. Cardinality(I) = Cardinality(S) /\ IsFiniteSet(I)
    BY <2>1
  <2>. HIDE DEF I, n
  <2>3. ExistsBijection(I, S)
    BY <2>2, FS_SameCardinalityBij
  <2>4. PICK f : f \in Bijection(I, S)
    BY <2>3 DEF ExistsBijection
  <2>5. f \in [I -> S] /\ IsInjective(f)
    BY <2>4 DEF Bijection, Injection
  <2>. QED  BY <2>5 DEF I
<1>3. s \in [1..n -> S] /\ IsInjective(s)
  BY <1>2 DEF SetToSeq
<1>. HIDE DEF s, n
<1>4. \A i, j \in 1..n : s[i] = s[j] => i = j
  BY <1>3 DEF IsInjective
<1>5. ASSUME NEW x \in S, \A i \in 1..n : s[i] # x PROVE FALSE
  <2>. DEFINE T == S \ {x}
              I == 1..n
  <2>1. IsFiniteSet(T) /\ Cardinality(T) = n - 1
    BY FS_RemoveElement DEF n
  <2>2. s \in [I -> T]
    BY <1>3, <1>5
  <2>3. IsFiniteSet(I) /\ Cardinality(I) = n
    <3>1. \A m \in Nat : IsFiniteSet(1..m) /\ Cardinality(1..m) = m
      BY FS_Interval
    <3>. QED  BY <1>1, <3>1
  <2>4. Cardinality(T) < Cardinality(I)
    BY <1>1, <2>1, <2>3
  <2>. HIDE DEF T, I
  <2>5. \E i, j \in I : i # j /\ s[i] = s[j]
    BY <2>1, <2>2, <2>3, <2>4, FS_PigeonHole
  <2>. QED  BY <1>4, <2>5 DEF I
<1>6. Len(s) = n
  BY <1>1, <1>3
<1>. QED  BY <1>1, <1>3, <1>4, <1>5, <1>6 DEF s, n

-----------------------------------------------------------------------------
(* The words of a search, one cursor each, and the order they are read in.  *)

LEMMA ByCeilingIs ==
  ASSUME NEW n \in Nat, NEW list, DOMAIN list = 1..n, \A i \in 1..n : list[i].ceiling \in Nat
  PROVE  /\ ByCeiling(list) \in [1..n -> 1..n]
         /\ \A i, j \in 1..n : ByCeiling(list)[i] = ByCeiling(list)[j] => i = j
         /\ \A x \in 1..n : \E i \in 1..n : ByCeiling(list)[i] = x
<1>. DEFINE S == 1..n
            less(i, j) == \/ list[i].ceiling < list[j].ceiling
                          \/ list[i].ceiling = list[j].ceiling /\ i < j
            ahead == [x \in S |-> {y \in S : less(y, x)}]
            s == ByCeiling(list)
<1>0. IsFiniteSet(S) /\ Cardinality(S) = n
  <2>1. \A m \in Nat : IsFiniteSet(1..m) /\ Cardinality(1..m) = m
    BY FS_Interval
  <2>. QED  BY <2>1
<1>1. IsAhead(S, ahead)
  <2>1. \A x \in S : ahead[x] = {y \in S : less(y, x)}
    OBVIOUS
  <2>2. \A x, y \in S : x \in ahead[y] <=> less(x, y)
    BY <2>1
  <2>3. \A x \in S : ~less(x, x)
    OBVIOUS
  <2>4. \A x, y, z \in S : less(x, y) /\ less(y, z) => less(x, z)
    OBVIOUS
  <2>5. \A x, y \in S : x = y \/ less(x, y) \/ less(y, x)
    OBVIOUS
  <2>. HIDE DEF less, ahead, S
  <2>6. \A x \in S : ahead[x] \subseteq S /\ x \notin ahead[x]
    BY <2>1, <2>3
  <2>7. \A x, y \in S : x \in ahead[y] => ahead[x] \subseteq ahead[y]
    BY <2>2, <2>4, <2>6
  <2>. QED  BY <2>2, <2>5, <2>6, <2>7 DEF IsAhead
<1>2. ASSUME NEW i \in 1..n PROVE s[i] \in S /\ Cardinality(ahead[s[i]]) = i - 1
  <2>1. i - 1 \in 0..n - 1
    OBVIOUS
  <2>2. \E x \in S : Cardinality(ahead[x]) = i - 1
    <3>. HIDE DEF ahead, S
    <3>. QED  BY <1>0, <1>1, <2>1, RanksFill
  <2>3. \E x \in S : Cardinality({y \in S : less(y, x)}) = i - 1
    BY <2>2
  <2>4. s = [k \in 1..Cardinality(S) |-> CHOOSE x \in S : Cardinality({y \in S : less(y, x)}) = k - 1]
    BY DEF ByCeiling, Sorted
  <2>5. s[i] \in S /\ Cardinality({y \in S : less(y, s[i])}) = i - 1
    <3>. HIDE DEF s, less, S
    <3>. QED  BY <1>0, <2>3, <2>4
  <2>. HIDE DEF s, less
  <2>. QED  BY <2>5
<1>3. s \in [1..n -> S]
  <2>1. s = [k \in 1..Cardinality(S) |-> CHOOSE x \in S : Cardinality({y \in S : less(y, x)}) = k - 1]
    BY DEF ByCeiling, Sorted
  <2>. DEFINE m == Cardinality(S)
  <2>2. DOMAIN s = 1..m /\ s = [k \in 1..m |-> s[k]]
    <3>. HIDE DEF less, S
    <3>. QED  BY <2>1
  <2>3. 1..m = 1..n
    BY <1>0
  <2>. HIDE DEF s, m, S
  <2>. QED  BY <1>2, <2>2, <2>3
<1>. HIDE DEF s, ahead, S
<1>4. ASSUME NEW i \in 1..n, NEW j \in 1..n, s[i] = s[j] PROVE i = j
  BY <1>2, <1>4
<1>5. ASSUME NEW x \in S PROVE \E i \in 1..n : s[i] = x
  <2>1. Cardinality(ahead[x]) \in 0..n - 1
    BY <1>0, <1>1, RanksFill
  <2>. DEFINE i == Cardinality(ahead[x]) + 1
  <2>2. i \in 1..n /\ Cardinality(ahead[x]) = i - 1
    BY <2>1
  <2>3. s[i] \in S /\ Cardinality(ahead[s[i]]) = i - 1
    BY <1>2, <2>2
  <2>. HIDE DEF i
  <2>4. s[i] = x
    BY <1>0, <1>1, <2>2, <2>3, RanksDiffer
  <2>. QED  BY <2>2, <2>4
<1>. QED  BY <1>3, <1>4, <1>5 DEF s, S

LEMMA PresentIs ==
  ASSUME Asked
  PROVE  /\ Len(Present) \in Nat /\ DOMAIN Present = 1..Len(Present)
         /\ \A i \in DOMAIN Present : /\ Present[i] \in ScoringTerms(query) /\ Present[i] \in Terms
                                      /\ ListOf(Present[i]).count > 0
         /\ \A i, j \in DOMAIN Present : Present[i] = Present[j] => i = j
         /\ \A t \in ScoringTerms(query) : ListOf(t).count > 0 => \E i \in DOMAIN Present : Present[i] = t
<1>. DEFINE S == {t \in ScoringTerms(query) : segment.lists[t].count > 0}
<1>1. IsFiniteSet(S) /\ S \subseteq Terms /\ Present = SetToSeq(S)
  <2>1. S \subseteq ScoringTerms(query)
    OBVIOUS
  <2>2. ScoringTerms(query) \subseteq Terms /\ IsFiniteSet(ScoringTerms(query))
    BY AskedIs
  <2>3. Present = SetToSeq(S)
    BY DEF Present
  <2>. HIDE DEF S
  <2>. QED  BY <2>1, <2>2, <2>3, FS_Subset
<1>2. \A t : t \in S <=> t \in ScoringTerms(query) /\ ListOf(t).count > 0
  BY DEF ListOf
<1>. HIDE DEF S
<1>3. /\ Cardinality(S) \in Nat
      /\ Present \in [1..Cardinality(S) -> S]
      /\ \A i, j \in 1..Cardinality(S) : Present[i] = Present[j] => i = j
      /\ \A x \in S : \E i \in 1..Cardinality(S) : Present[i] = x
      /\ Len(Present) = Cardinality(S)
  BY <1>1, SequenceOf
<1>4. DOMAIN Present = 1..Len(Present)
  BY <1>3
<1>. QED  BY <1>1, <1>2, <1>3, <1>4

Dropped == SetToSeq(query.excluded)
LEMMA DroppedIs ==
  ASSUME Asked
  PROVE  /\ Len(Dropped) \in Nat /\ DOMAIN Dropped = 1..Len(Dropped)
         /\ \A i \in DOMAIN Dropped : Dropped[i] \in query.excluded /\ Dropped[i] \in Terms
         /\ \A t \in query.excluded : \E i \in DOMAIN Dropped : Dropped[i] = t
<1>1. IsFiniteSet(query.excluded) /\ query.excluded \subseteq Terms
  BY AskedIs
<1>2. /\ Cardinality(query.excluded) \in Nat
      /\ Dropped \in [1..Cardinality(query.excluded) -> query.excluded]
      /\ \A x \in query.excluded : \E i \in 1..Cardinality(query.excluded) : Dropped[i] = x
      /\ Len(Dropped) = Cardinality(query.excluded)
  BY <1>1, SequenceOf DEF Dropped
<1>. QED  BY <1>1, <1>2

CeilingOf(t) == IdfOf(t) * Max({b.bound : b \in ToSet(ListOf(t).blocks)})
IsWord(r, t) ==
  /\ r \in [idf : {IdfOf(t)}, ceiling : {CeilingOf(t)}, cursor : CursorsOn(ListOf(t))]
  /\ Reads(r.cursor, ListOf(t), IdsOf(t))
OnWords(list) ==
  /\ DOMAIN list = DOMAIN Present /\ list = [i \in DOMAIN Present |-> list[i]]
  /\ \A i \in DOMAIN Present : IsWord(list[i], Present[i])
OnDropped(list) ==
  /\ DOMAIN list = DOMAIN Dropped
  /\ \A i \in DOMAIN Dropped : Reads(list[i], ListOf(Dropped[i]), IdsOf(Dropped[i]))

(* No block could add more than the best of them.                           *)
LEMMA CeilingIs ==
  ASSUME corpus \in Corpora, segments = <<Encoded(Whole)>>, NEW t \in Terms, ListOf(t).count > 0, IdfOf(t) \in Nat
  PROVE  /\ CeilingOf(t) \in Nat
         /\ \A b \in 1..Len(ListOf(t).blocks) : /\ ListOf(t).blocks[b].bound \in Nat
                                                /\ IdfOf(t) * ListOf(t).blocks[b].bound <= CeilingOf(t)
<1>. DEFINE list == ListOf(t)
            bounds == [b \in 1..Len(list.blocks) |-> list.blocks[b].bound]
            S == {bounds[b] : b \in 1..Len(list.blocks)}
<1>1. Lists(list, IdsOf(t))
  BY WordLists
<1>. HIDE DEF list
<1>2. /\ list.blocks \in Seq([first : Nat, at : Nat, bound : Nat]) /\ list.count \in Nat /\ Len(list.blocks) = Blocks(list.count)
  BY <1>1 DEF Lists
<1>3. DOMAIN list.blocks = 1..Len(list.blocks) /\ Len(list.blocks) \in Nat
  BY <1>2, LenProperties
<1>4. \A b \in 1..Len(list.blocks) : bounds[b] = list.blocks[b].bound /\ bounds[b] \in Nat
  <2>1. \A b \in 1..Len(list.blocks) : list.blocks[b] \in [first : Nat, at : Nat, bound : Nat]
    BY <1>2, ElementOfSeq
  <2>. QED  BY <2>1
<1>5. Len(list.blocks) > 0
  <2>1. 0 * SkipInterval = 0
    BY IntervalIsNumber
  <2>2. 0 < Blocks(list.count) <=> 0 * SkipInterval < list.count
    BY <1>2, BlocksOf
  <2>3. list.count > 0
    BY DEF list
  <2>. QED  BY <1>2, <2>1, <2>2, <2>3
<1>6. {b.bound : b \in ToSet(list.blocks)} = S
  <2>1. ToSet(list.blocks) = {list.blocks[b] : b \in 1..Len(list.blocks)}
    BY <1>3 DEF ToSet
  <2>2. ToSet(list.blocks) = {list.blocks[b] : b \in 1..Len(list.blocks)} =>
          \A x : x \in {b.bound : b \in ToSet(list.blocks)} <=>
                 \E b \in 1..Len(list.blocks) : x = list.blocks[b].bound
    <3>. HIDE DEF list
    <3>. QED  OBVIOUS
  <2>3. \A x : x \in S <=> \E b \in 1..Len(list.blocks) : x = bounds[b]
    OBVIOUS
  <2>. HIDE DEF S, list, bounds
  <2>. QED  BY <1>4, <2>1, <2>2, <2>3
<1>7. IsFiniteSet(S) /\ S # {} /\ \A x \in S : x \in Int
  <2>1. IsFiniteSet(1..Len(list.blocks))
    BY <1>3, FS_Interval
  <2>2. 1 \in 1..Len(list.blocks)
    BY <1>3, <1>5
  <2>3. bounds[1] \in S
    BY <2>2
  <2>4. \A x \in S : x \in Int
    <3>. HIDE DEF bounds
    <3>. QED  BY <1>4
  <2>. HIDE DEF bounds
  <2>. QED  BY <2>1, <2>3, <2>4, FiniteImage
<1>8. Max(S) \in S /\ \A x \in S : x <= Max(S)
  <2>. HIDE DEF S
  <2>. QED  BY <1>7, MaxIs
<1>9. Max(S) \in Nat
  BY <1>4, <1>8
<1>10. \A b \in 1..Len(list.blocks) : bounds[b] <= Max(S)
  BY <1>8
<1>. DEFINE m == Max(S)
            idf == IdfOf(t)
<1>11. CeilingOf(t) = idf * m
  BY <1>6 DEF CeilingOf, list
<1>. HIDE DEF m, idf, bounds
<1>12. m \in Nat /\ idf \in Nat /\ \A b \in 1..Len(list.blocks) : bounds[b] \in Nat /\ bounds[b] <= m
  BY <1>4, <1>9, <1>10 DEF m, idf
<1>13. \A a, x, y \in Nat : x <= y => a * x <= a * y
  OBVIOUS
<1>14. \A b \in 1..Len(list.blocks) : idf * bounds[b] <= idf * m
  BY <1>12, <1>13
<1>15. idf * m \in Nat
  BY <1>12, Products
<1>. QED  BY <1>4, <1>11, <1>14, <1>15 DEF list, idf

LEMMA SumOfNone ==
  ASSUME NEW S, IsFiniteSet(S), NEW f, \A x \in S : f[x] = 0 PROVE SumFunctionOnSet(f, S) = 0
<1>. DEFINE C == {s \in SUBSET S : SumFunctionOnSet(f, s) # 0}
<1>. SUFFICES ASSUME C # {} PROVE FALSE
  OBVIOUS
<1>1. PICK A \in C : \A x \in A : A \ {x} \notin C
  <2>. HIDE DEF C
  <2>1. C \in SUBSET SUBSET S
    BY DEF C
  <2>. QED  BY <2>1, SmallestSet
<1>2. IsFiniteSet(A) /\ A \in SUBSET S
  BY <1>1, FS_Subset
<1>3. A # {}
  BY <1>1, SumOfNothing
<1>4. /\ FirstTaken(A) \in A
      /\ SumFunctionOnSet(f, A) = f[FirstTaken(A)] + SumFunctionOnSet(f, A \ {FirstTaken(A)})
  BY <1>2, <1>3, SumRecurs
<1>. QED  BY <1>1, <1>2, <1>4

-----------------------------------------------------------------------------
(* What the words of a search add to the score of a document.               *)

GainAt(i, id) == IF Says(id, Present[i]) THEN Gain(Present[i], id) ELSE 0
Gains(id) == [i \in 1..Len(Present) |-> GainAt(i, id)]

LEMMA GainIs ==
  ASSUME Asked, NEW id \in 1..Len(corpus), NEW t \in Terms, Says(id, t)
  PROVE  /\ Gain(t, id) \in Nat /\ Gain(t, id) > 0
         /\ id \in Carriers(t) /\ ListOf(t).count > 0
         /\ global = None => AuthorityOf(id) * Gain(t, id) = IdfOf(t) * Shares(t)[id]
         /\ Shares(t)[id] \in Nat
<1>. DEFINE n == Len(corpus)
            w == Weighted(Occurrences[corpus[id]][t])
            s == Saturation(w, NormOf(id), Params)
            idf == IdfOf(t)
            a == AuthorityOf(id)
<1>0. /\ corpus \in Corpora /\ segments = <<Encoded(Whole)>> /\ n \in Nat /\ 1 \in 1..n + 1 /\ 1 + n <= n + 1
      /\ 1 + id - 1 = id
  BY CorpusIs DEF Asked
<1>1. id \in Carriers(t) /\ Cardinality(Carriers(t)) \in Nat /\ IsFiniteSet(Carriers(t))
  BY <1>0, CarriersAre
<1>2. ListOf(t).count > 0
  <2>1. ListOf(t).count = Cardinality(Carriers(t))
    BY <1>0, WordLists
  <2>2. Cardinality(Carriers(t)) # 0
    BY <1>1, FS_EmptySet
  <2>. QED  BY <1>1, <2>1, <2>2
<1>3. /\ Found(1, n, t)[id] = Occurrences[corpus[id]][t]
      /\ w \in Nat /\ w > 0
  <2>1. id \in Having(1, n, t)
    BY <1>1 DEF Carriers
  <2>2. /\ Found(1, n, t)[id] = Occurrences[corpus[1 + id - 1]][t]
        /\ Weighted(Found(1, n, t)[id]) \in Nat /\ Weighted(Found(1, n, t)[id]) > 0
    BY <1>0, <2>1, FoundIs
  <2>. QED  BY <1>0, <2>2
<1>4. idf \in Nat /\ idf > 0
  BY TotalsAre
<1>5. NormOf(id) \in Nat
  BY NormsAre
<1>6. s \in Nat /\ s > 0
  <2>. HIDE DEF w
  <2>. QED  BY <1>3, <1>5, SaturationIs
<1>7. Gain(t, id) = idf * s
  BY DEF Gain
<1>8. a \in Nat /\ a > 0
  BY NormsAre
<1>9. Shares(t)[id] \in Nat
  <2>1. id \in Having(1, n, t)
    BY <1>1 DEF Carriers
  <2>2. Share(1, n, t, id) \in Nat
    BY <1>0, <2>1, ShareIs
  <2>. QED  BY <1>1, <2>2 DEF Shares
<1>10. ASSUME global = None PROVE Shares(t)[id] = s * a
  <2>1. Shares(t)[id] = Share(1, n, t, id)
    BY <1>1 DEF Shares
  <2>. DEFINE docs == segment.docs
  <2>2. docs = Slice(1, n).docs /\ Len(docs) = n
    BY <1>0, DocsAre
  <2>3. Share(1, n, t, id) = PostingBound(Found(1, n, t)[id], docs[id], TotalLength(docs), n)
    BY <2>2 DEF Share
  <2>4. TotalDocs = n
    BY <1>10, TotalsAre
  <2>5. NormOf(id) = LengthNorm(docs[id].length, TotalLength(docs), n) /\ AuthorityOf(id) = Authority(docs[id].rank, n)
    BY <1>10, <2>4 DEF NormOf, AuthorityOf
  <2>6. PostingBound(Found(1, n, t)[id], docs[id], TotalLength(docs), n) = s * a
    BY <1>3, <2>5 DEF PostingBound
  <2>. QED  BY <2>1, <2>3, <2>6
<1>. HIDE DEF w, s, idf, a
<1>11. idf * s \in Nat /\ idf * s > 0 /\ a * (idf * s) = idf * (s * a)
  BY <1>4, <1>6, <1>8, Products
<1>. QED  BY <1>1, <1>2, <1>7, <1>9, <1>10, <1>11 DEF idf, a

LEMMA GainsAre ==
  ASSUME Asked, NEW id \in 1..Len(corpus)
  PROVE  \A i \in 1..Len(Present) : Gains(id)[i] = GainAt(i, id) /\ Gains(id)[i] \in Nat
<1>1. ASSUME NEW i \in 1..Len(Present) PROVE GainAt(i, id) \in Nat
  <2>1. Present[i] \in Terms
    BY PresentIs
  <2>2. Says(id, Present[i]) => Gain(Present[i], id) \in Nat
    BY <2>1, GainIs
  <2>. QED  BY <2>2 DEF GainAt
<1>. QED  BY <1>1 DEF Gains

LEMMA TrueScoreIs ==
  ASSUME Asked, NEW id \in 1..Len(corpus)
  PROVE  /\ TrueScore(id) = AuthorityOf(id) * SumFunctionOnSet(Gains(id), 1..Len(Present))
         /\ TrueScore(id) \in Nat
         /\ (\E t \in ScoringTerms(query) : Says(id, t)) => TrueScore(id) > 0
<1>. DEFINE n == Len(Present)
            I == 1..n
            J == {i \in I : Says(id, Present[i])}
            W == {u \in ScoringTerms(query) : Says(id, u)}
            f == [t \in W |-> Gain(t, id)]
            g == Gains(id)
<1>0. n \in Nat /\ IsFiniteSet(I) /\ IsFiniteSet(J) /\ IsFiniteSet(I \ J) /\ IsFiniteSet(W)
  <2>1. n \in Nat /\ IsFiniteSet(I)
    BY PresentIs, FS_Interval
  <2>2. IsFiniteSet(J) /\ IsFiniteSet(I \ J)
    <3>. HIDE DEF I
    <3>. QED  BY <2>1, FS_Subset
  <2>3. IsFiniteSet(W)
    BY AskedIs, FS_Subset
  <2>. QED  BY <2>1, <2>2, <2>3
<1>1. \A t \in W : t \in Terms /\ Says(id, t) /\ f[t] = Gain(t, id) /\ f[t] \in Nat /\ f[t] > 0 /\ ListOf(t).count > 0
  BY AskedIs, GainIs
<1>2. \A i \in I : g[i] = (IF Says(id, Present[i]) THEN Gain(Present[i], id) ELSE 0) /\ g[i] \in Nat
  BY GainsAre DEF GainAt
<1>3. /\ DOMAIN Present = I
      /\ \A i \in I : Present[i] \in ScoringTerms(query)
      /\ \A i, j \in I : Present[i] = Present[j] => i = j
      /\ \A t \in ScoringTerms(query) : ListOf(t).count > 0 => \E i \in I : Present[i] = t
  BY PresentIs
<1>4. {Present[i] : i \in J} = W
  <2>. HIDE DEF I, f, g, n
  <2>1. \A i \in J : i \in I /\ Says(id, Present[i])
    OBVIOUS
  <2>2. \A i \in I : Says(id, Present[i]) => i \in J
    OBVIOUS
  <2>3. \A t : t \in W <=> t \in ScoringTerms(query) /\ Says(id, t)
    OBVIOUS
  <2>. HIDE DEF J, W
  <2>. QED  BY <1>1, <1>3, <2>1, <2>2, <2>3
<1>5. SumFunctionOnSet(g, J) = SumFunctionOnSet(f, W)
  <2>1. \A i \in J : f[Present[i]] \in Int /\ g[i] = f[Present[i]]
    <3>1. \A i \in J : i \in I /\ Present[i] \in W /\ Says(id, Present[i])
      BY <1>3
    <3>. HIDE DEF I, J, W, f, g
    <3>. QED  BY <1>1, <1>2, <3>1
  <2>2. \A i, j \in J : Present[i] = Present[j] => i = j
    BY <1>3
  <2>. HIDE DEF I, J, W, f, g
  <2>3. SumFunctionOnSet(g, J) = SumFunctionOnSet(f, {Present[i] : i \in J})
    BY <1>0, <2>1, <2>2, SumRenamed
  <2>. QED  BY <1>4, <2>3
<1>6. SumFunctionOnSet(g, I \ J) = 0
  <2>1. \A i \in I \ J : g[i] = 0
    <3>1. \A i \in I \ J : i \in I /\ ~Says(id, Present[i])
      OBVIOUS
    <3>. HIDE DEF I, J, W, f, g
    <3>. QED  BY <1>2, <3>1
  <2>. HIDE DEF I, J, g
  <2>. QED  BY <1>0, <2>1, SumOfNone
<1>7. SumFunctionOnSet(g, I) = SumFunctionOnSet(f, W)
  <2>1. J \cap (I \ J) = {} /\ J \cup (I \ J) = I /\ \A i \in J \cup (I \ J) : g[i] \in Int
    <3>1. J \subseteq I
      OBVIOUS
    <3>2. \A i \in I : g[i] \in Int
      BY <1>2
    <3>. HIDE DEF I, J, g
    <3>. QED  BY <3>1, <3>2
  <2>. DEFINE K == I \ J
  <2>2. IsFiniteSet(K) /\ J \cap K = {} /\ J \cup K = I /\ \A i \in J \cup K : g[i] \in Int
    BY <1>0, <2>1
  <2>3. SumFunctionOnSet(g, K) = 0
    BY <1>6
  <2>. HIDE DEF I, J, g, f, W, K
  <2>4. SumFunctionOnSet(g, J \cup K) = SumFunctionOnSet(g, J) + SumFunctionOnSet(g, K)
    BY <1>0, <2>2, SumOfBoth
  <2>5. SumFunctionOnSet(f, W) \in Int
    BY <1>0, <1>1, SumIsInteger
  <2>6. SumFunctionOnSet(g, J \cup K) = SumFunctionOnSet(g, I)
    BY <2>2, Zenon
  <2>. DEFINE u == SumFunctionOnSet(g, J \cup K)
  <2>7. u = SumFunctionOnSet(g, J) + SumFunctionOnSet(g, K) /\ u = SumFunctionOnSet(g, I)
    BY <2>4, <2>6
  <2>. HIDE DEF u
  <2>. QED  BY <1>5, <2>3, <2>5, <2>7
<1>8. TrueScore(id) = AuthorityOf(id) * SumFunctionOnSet(f, W)
  <2>. DEFINE e(t) == Idf(Stats.docs, IF t \in DOMAIN Stats.freq THEN Stats.freq[t] ELSE Freq(t))
                        * Saturation(Weighted(Occurrences[corpus[id]][t]),
                                     LengthNorm(Tokens[corpus[id]], Stats.length, Stats.docs), Params)
              h == [t \in W |-> e(t)]
  <2>1. ASSUME NEW t \in W PROVE e(t) = Gain(t, id)
    <3>1. t \in Terms
      BY <1>1
    <3>2. IdfOf(t) = Idf(Stats.docs, IF t \in DOMAIN Stats.freq THEN Stats.freq[t] ELSE Freq(t))
      BY <3>1, TotalsAre
    <3>3. NormOf(id) = LengthNorm(Tokens[corpus[id]], Stats.length, Stats.docs)
      BY NormsAre
    <3>. QED  BY <3>2, <3>3 DEF Gain
  <2>2. h = f
    BY <2>1
  <2>3. AuthorityOf(id) = Authority(corpus[id].rank, Stats.docs)
    BY NormsAre
  <2>4. TrueScore(id) = Authority(corpus[id].rank, Stats.docs) * SumFunction(h)
    BY DEF TrueScore
  <2>5. DOMAIN f = W
    OBVIOUS
  <2>. HIDE DEF f, h, W
  <2>6. SumFunction(f) = SumFunctionOnSet(f, W)
    BY <2>5 DEF SumFunction
  <2>. QED  BY <2>2, <2>3, <2>4, <2>6
<1>9. AuthorityOf(id) \in Nat /\ AuthorityOf(id) > 0
  BY NormsAre
<1>10. SumFunctionOnSet(f, W) \in Nat
  <2>. HIDE DEF f, W
  <2>. QED  BY <1>0, <1>1, SumIsNatural
<1>11. ASSUME NEW t \in ScoringTerms(query), Says(id, t) PROVE SumFunctionOnSet(f, W) > 0
  <2>1. t \in W
    BY <1>11
  <2>2. \A x \in W : f[x] \in Int
    <3>. HIDE DEF f, W
    <3>. QED  BY <1>1
  <2>. DEFINE V == W \ {t}
  <2>3. IsFiniteSet(V) /\ \A x \in V : f[x] \in Nat
    <3>. HIDE DEF f, W
    <3>. QED  BY <1>0, <1>1, FS_RemoveElement
  <2>4. SumFunctionOnSet(f, V) \in Nat
    <3>. HIDE DEF f, V
    <3>. QED  BY <2>3, SumIsNatural
  <2>. HIDE DEF f, W
  <2>5. SumFunctionOnSet(f, W) = f[t] + SumFunctionOnSet(f, V)
    BY <1>0, <2>1, <2>2, SumTakesAny
  <2>6. f[t] \in Nat /\ f[t] > 0
    BY <1>1, <2>1
  <2>. HIDE DEF V
  <2>. QED  BY <2>4, <2>5, <2>6
<1>. HIDE DEF f, g, W, I
<1>12. AuthorityOf(id) * SumFunctionOnSet(f, W) \in Nat
  BY <1>9, <1>10, Products
<1>13. (\E t \in ScoringTerms(query) : Says(id, t)) => AuthorityOf(id) * SumFunctionOnSet(f, W) > 0
  BY <1>9, <1>10, <1>11, Products
<1>. QED  BY <1>7, <1>8, <1>12, <1>13 DEF g, I, n

-----------------------------------------------------------------------------
(* Cursors go forward, and what they pass over.                             *)

(* r is c further on, having left behind no document after the last.        *)
Onward(c, r, list, ids, last) ==
  /\ Reads(r, list, ids) /\ Passed(c) <= Passed(r)
  /\ \A q \in Nat : Passed(c) <= q /\ q < Passed(r) => ids[q + 1] <= last
(* c has not left the document behind.                                      *)
NotPast(c, list, ids, id) == \A q \in Nat : q < list.count /\ ids[q + 1] = id => Passed(c) <= q

LEMMA ReadsIs ==
  ASSUME NEW list, NEW ids, Lists(list, ids), NEW c, Reads(c, list, ids)
  PROVE  /\ c \in CursorsOn(list) /\ c.list = list /\ c.exhausted \in BOOLEAN /\ c.doc \in Nat /\ list.count \in Nat
         /\ Passed(c) \in 0..list.count
         /\ ~c.exhausted => /\ Stands(c, list, ids, Passed(c)) /\ Passed(c) < list.count /\ Passed(c) = c.index
                            /\ c.doc = ids[Passed(c) + 1] /\ c.fields = list.cells[Passed(c) + 1].fields
         /\ c.exhausted => Passed(c) = list.count
         /\ \A q \in Nat : q < list.count => q + 1 \in 1..list.count /\ ids[q + 1] \in Nat
<1>1. c \in CursorsOn(list) /\ c.list = list /\ c.exhausted \in BOOLEAN /\ c.doc \in Nat /\ list.count \in Nat
  BY DEF Reads, CursorsOn, Lists
<1>2. Passed(c) \in 0..list.count /\ Passed(c) = IF c.exhausted THEN list.count ELSE c.index
  BY PassedIs
<1>3. ASSUME ~c.exhausted
      PROVE  /\ Stands(c, list, ids, Passed(c)) /\ Passed(c) < list.count /\ Passed(c) = c.index
             /\ c.doc = ids[Passed(c) + 1] /\ c.fields = list.cells[Passed(c) + 1].fields
  BY <1>2, <1>3 DEF Reads, Stands
<1>4. c.exhausted => Passed(c) = list.count
  BY <1>2
<1>5. ASSUME NEW q \in Nat, q < list.count PROVE q + 1 \in 1..list.count /\ ids[q + 1] \in Nat
  <2>1. q + 1 \in 1..list.count
    BY <1>1, <1>5
  <2>. QED  BY <2>1 DEF Lists
<1>. QED  BY <1>1, <1>2, <1>3, <1>4, <1>5

LEMMA RisingIds ==
  ASSUME NEW list, NEW ids, Lists(list, ids)
  PROVE  \A p, q \in Nat : p < q /\ q < list.count => ids[p + 1] < ids[q + 1]
<1>. SUFFICES ASSUME NEW p \in Nat, NEW q \in Nat, p < q, q < list.count PROVE ids[p + 1] < ids[q + 1]
  OBVIOUS
<1>1. p + 1 \in 1..list.count /\ q + 1 \in 1..list.count /\ p + 1 < q + 1
  BY DEF Lists
<1>. QED  BY <1>1 DEF Lists

LEMMA OnwardStays ==
  ASSUME NEW list, NEW ids, Lists(list, ids), NEW c, Reads(c, list, ids), NEW last
  PROVE  Onward(c, c, list, ids, last)
<1>1. Passed(c) \in Nat
  BY ReadsIs
<1>. QED  BY <1>1 DEF Onward

LEMMA OnwardAgain ==
  ASSUME NEW list, NEW ids, Lists(list, ids), NEW c, Reads(c, list, ids), NEW r, NEW s, NEW last,
         Onward(c, r, list, ids, last), Onward(r, s, list, ids, last)
  PROVE  Onward(c, s, list, ids, last)
<1>1. Passed(c) \in Nat /\ Passed(r) \in Nat /\ Passed(s) \in Nat
  BY ReadsIs DEF Onward
<1>. QED  BY <1>1 DEF Onward

LEMMA AdvancedOnward ==
  ASSUME NEW list, NEW ids, Lists(list, ids), NEW c, Reads(c, list, ids), NEW doc, On(c, doc)
  PROVE  /\ Onward(c, Advanced(c), list, ids, doc)
         /\ Passed(c) < Passed(Advanced(c))
         /\ Advanced(c).exhausted \/ Advanced(c).doc > doc
<1>. DEFINE r == Advanced(c)
            n == Passed(c)
<1>1. /\ ~c.exhausted /\ c.doc = doc /\ Stands(c, list, ids, n) /\ n \in Nat /\ n < list.count /\ list.count \in Nat
      /\ ids[n + 1] = doc
  BY ReadsIs DEF On
<1>2. /\ r \in CursorsOn(list)
      /\ IF n + 1 >= list.count THEN r.exhausted ELSE Stands(r, list, ids, n + 1)
  BY <1>1, AdvancedStands
<1>. HIDE DEF r, n
<1>3. Reads(r, list, ids) /\ Passed(r) = n + 1 /\ (r.exhausted \/ r.doc > doc)
  <2>1. CASE n + 1 >= list.count
    <3>1. Reads(r, list, ids) /\ r.exhausted
      BY <1>2, <2>1 DEF Reads
    <3>2. Passed(r) = list.count
      BY <3>1, ReadsIs
    <3>. QED  BY <1>1, <2>1, <3>1, <3>2
  <2>2. CASE ~(n + 1 >= list.count)
    <3>1. Stands(r, list, ids, n + 1)
      BY <1>2, <2>2
    <3>2. r.index = n + 1 /\ Stands(r, list, ids, r.index)
      BY <3>1 DEF Stands
    <3>3. Reads(r, list, ids) /\ ~r.exhausted
      BY <1>2, <3>2 DEF Reads, Stands
    <3>4. Passed(r) = n + 1 /\ r.doc = ids[n + 1 + 1]
      BY <3>2, <3>3, ReadsIs
    <3>5. n + 1 \in Nat /\ n < n + 1 /\ n + 1 < list.count
      BY <1>1, <2>2
    <3>6. ids[n + 1] < ids[n + 1 + 1] /\ ids[n + 1 + 1] \in Nat /\ ids[n + 1] \in Nat
      BY <1>1, <3>3, <3>5, RisingIds, ReadsIs
    <3>. QED  BY <1>1, <3>3, <3>4, <3>6
  <2>. QED  BY <2>1, <2>2
<1>4. \A q \in Nat : n <= q /\ q < Passed(r) => q = n
  BY <1>1, <1>3
<1>5. ids[n + 1] <= doc /\ n < Passed(r)
  <2>1. ids[n + 1] \in Nat
    BY <1>1, ReadsIs
  <2>. QED  BY <1>1, <1>3, <2>1
<1>6. Onward(c, r, list, ids, doc)
  BY <1>1, <1>3, <1>4, <1>5 DEF Onward, n
<1>. QED  BY <1>3, <1>5, <1>6 DEF r, n

LEMMA SoughtOnward ==
  ASSUME NEW list, NEW ids, Lists(list, ids), NEW c, Reads(c, list, ids), NEW doc \in Nat
  PROVE  /\ Onward(c, Sought(c, doc), list, ids, doc)
         /\ Sought(c, doc).exhausted \/ Sought(c, doc).doc >= doc
<1>. DEFINE r == Sought(c, doc)
<1>1. Finds(c, r, list, ids, doc)
  BY SoughtFinds
<1>. HIDE DEF r
<1>2. Reads(r, list, ids) /\ Passed(c) <= Passed(r) /\ (r.exhausted \/ r.doc >= doc)
  BY <1>1 DEF Finds
<1>3. Passed(r) \in 0..list.count /\ list.count \in Nat
  BY <1>2, ReadsIs
<1>4. ASSUME NEW q \in Nat, Passed(c) <= q, q < Passed(r) PROVE ids[q + 1] <= doc
  <2>1. ids[q + 1] < doc
    BY <1>1, <1>4 DEF Finds
  <2>2. ids[q + 1] \in Nat
    BY <1>2, <1>3, <1>4, ReadsIs
  <2>. QED  BY <2>1, <2>2
<1>. QED  BY <1>2, <1>4 DEF Onward, r

(* To the next block, or off the end: only what is in the block is passed.  *)
LEMMA SkippedOnward ==
  ASSUME NEW list, NEW ids, Lists(list, ids), NEW c, Reads(c, list, ids), ~c.exhausted
  PROVE  /\ Reads(SkippedBlock(c), list, ids)
         /\ Passed(c) < Passed(SkippedBlock(c))
         /\ \A q \in Nat : Passed(c) <= q /\ q < Passed(SkippedBlock(c)) => q \div SkipInterval = CurrentBlock(c)
         /\ CurrentBlock(SkippedBlock(c)) # CurrentBlock(c) <=> ~SkippedBlock(c).exhausted
<1>. DEFINE r == SkippedBlock(c)
            n == Passed(c)
            b == n \div SkipInterval
            B == Blocks(list.count)
            next == (b + 1) * SkipInterval
<1>1. Stands(c, list, ids, n) /\ n \in Nat /\ n < list.count /\ list.count \in Nat /\ c.index = n
  BY ReadsIs
<1>2. /\ r \in CursorsOn(list)
      /\ IF b + 1 < B
         THEN Stands(r, list, ids, next) /\ n < next /\ CurrentBlock(r) # CurrentBlock(c)
         ELSE r.exhausted /\ CurrentBlock(r) = CurrentBlock(c)
  BY <1>1, SkippedStands
<1>3. b \in Nat /\ b * SkipInterval \in 0..n /\ n < b * SkipInterval + SkipInterval /\ CurrentBlock(c) = b
  BY <1>1, BlockOf DEF CurrentBlock
<1>4. next = b * SkipInterval + SkipInterval /\ next \in Nat
  <2>. HIDE DEF b
  <2>. QED  BY <1>3, IntervalIsNumber
<1>5. B \in Nat /\ \A k \in Nat : k < B <=> k * SkipInterval < list.count
  BY <1>1, BlocksOf
<1>. HIDE DEF r, n, b, B, next
<1>6. ASSUME NEW q \in Nat, n <= q, q < next PROVE q \div SkipInterval = b
  <2>1. b * SkipInterval <= n /\ n \in Nat /\ b * SkipInterval \in Nat
    BY <1>1, <1>3
  <2>2. b * SkipInterval <= q /\ q < b * SkipInterval + SkipInterval
    BY <1>4, <1>6, <2>1
  <2>. QED  BY <1>3, <2>2, DivisionIs
<1>7. CASE b + 1 < B
  <2>1. Stands(r, list, ids, next) /\ n < next /\ CurrentBlock(r) # CurrentBlock(c)
    BY <1>2, <1>7
  <2>2. Reads(r, list, ids) /\ ~r.exhausted /\ r.index = next
    BY <2>1 DEF Reads, Stands
  <2>3. Passed(r) = next
    BY <2>2, ReadsIs
  <2>. QED  BY <1>1, <1>3, <1>6, <2>1, <2>2, <2>3 DEF r, n
<1>8. CASE ~(b + 1 < B)
  <2>1. r.exhausted /\ CurrentBlock(r) = CurrentBlock(c) /\ Reads(r, list, ids)
    BY <1>2, <1>8 DEF Reads
  <2>2. Passed(r) = list.count
    BY <2>1, ReadsIs
  <2>3. b + 1 \in Nat /\ (b + 1 < B <=> (b + 1) * SkipInterval < list.count)
    BY <1>3, <1>5
  <2>4. ~(next < list.count)
    BY <1>8, <2>3 DEF next
  <2>5. \A q \in Nat : n <= q /\ q < Passed(r) => q < next
    BY <1>1, <1>4, <2>2, <2>4
  <2>. QED  BY <1>1, <1>3, <1>6, <2>1, <2>2, <2>5 DEF r, n
<1>. QED  BY <1>7, <1>8

(* What lies ahead stays ahead, but for what is passed over.                *)
LEMMA OnwardNotPast ==
  ASSUME NEW list, NEW ids, Lists(list, ids), NEW c, Reads(c, list, ids), NEW r, NEW last \in Int,
         Onward(c, r, list, ids, last), NEW id \in Int, id > last, NotPast(c, list, ids, id)
  PROVE  NotPast(r, list, ids, id)
<1>. SUFFICES ASSUME NEW q \in Nat, q < list.count, ids[q + 1] = id PROVE Passed(r) <= q
  BY DEF NotPast
<1>1. Passed(c) <= q
  BY DEF NotPast
<1>2. Passed(r) \in Nat
  BY ReadsIs DEF Onward
<1>3. q < Passed(r) => ids[q + 1] <= last
  BY <1>1 DEF Onward
<1>. QED  BY <1>2, <1>3

LEMMA AheadIsOn ==
  ASSUME NEW list, NEW ids, Lists(list, ids), NEW c, Reads(c, list, ids), NEW id, NotPast(c, list, ids, id),
         NEW p \in 1..list.count, ids[p] = id
  PROVE  /\ ~c.exhausted /\ c.doc <= id
         /\ c.doc >= id => On(c, id)
<1>. DEFINE q == p - 1
            n == Passed(c)
<1>1. q \in Nat /\ q < list.count /\ ids[q + 1] = id /\ list.count \in Nat /\ q + 1 = p
  BY ReadsIs
<1>. HIDE DEF q
<1>2. n <= q /\ n \in 0..list.count /\ (c.exhausted => n = list.count)
  BY <1>1, ReadsIs DEF NotPast
<1>3. ~c.exhausted
  BY <1>1, <1>2
<1>4. c.doc = ids[n + 1] /\ ids[n + 1] \in Nat /\ id \in Nat /\ n \in Nat
  BY <1>1, <1>3, ReadsIs
<1>5. n < q => ids[n + 1] < ids[q + 1]
  BY <1>1, <1>4, RisingIds
<1>6. n = q \/ n < q
  BY <1>1, <1>2
<1>7. c.doc <= id
  BY <1>1, <1>4, <1>5, <1>6
<1>. QED  BY <1>3, <1>4, <1>7 DEF On

-----------------------------------------------------------------------------
(* A walk: the words in the order of their ceilings, and the sums of those. *)

Ceilings == [i \in 1..Len(Present) |-> CeilingOf(Present[i])]
Order ==
  /\ byCeiling \in [1..Len(Present) -> 1..Len(Present)]
  /\ \A i, j \in 1..Len(Present) : byCeiling[i] = byCeiling[j] => i = j
  /\ \A x \in 1..Len(Present) : \E i \in 1..Len(Present) : byCeiling[i] = x
Walks ==
  /\ Asked /\ limit > 0 /\ Order
  /\ prefix = [k \in 0..Len(Present) |-> SumFunction([j \in 1..k |-> Ceilings[byCeiling[j]]])]
Low(k) == {byCeiling[j] : j \in 1..k}
IsHeap(h) == IsFiniteSet(h) /\ h \subseteq [score : Nat, doc : Nat]

LEMMA CeilingsAre ==
  ASSUME Asked
  PROVE  \A i \in 1..Len(Present) : /\ Present[i] \in Terms /\ ListOf(Present[i]).count > 0
                                    /\ IdfOf(Present[i]) \in Nat /\ IdfOf(Present[i]) > 0
                                    /\ Ceilings[i] = CeilingOf(Present[i]) /\ Ceilings[i] \in Nat
<1>. SUFFICES ASSUME NEW i \in 1..Len(Present)
              PROVE  /\ Present[i] \in Terms /\ ListOf(Present[i]).count > 0
                     /\ IdfOf(Present[i]) \in Nat /\ IdfOf(Present[i]) > 0
                     /\ Ceilings[i] = CeilingOf(Present[i]) /\ Ceilings[i] \in Nat
  OBVIOUS
<1>1. Present[i] \in Terms /\ ListOf(Present[i]).count > 0
  BY PresentIs
<1>2. IdfOf(Present[i]) \in Nat /\ IdfOf(Present[i]) > 0
  BY <1>1, TotalsAre
<1>3. CeilingOf(Present[i]) \in Nat
  BY <1>1, <1>2, CeilingIs DEF Asked
<1>. QED  BY <1>1, <1>2, <1>3 DEF Ceilings

LEMMA OpenedIs ==
  ASSUME Asked, NEW list, list = [i \in DOMAIN Present |-> Opened(Present[i])]
  PROVE  /\ OnWords(list)
         /\ \A i \in DOMAIN Present : list[i].ceiling = Ceilings[i]
         /\ \A i \in DOMAIN Present : list[i].cursor = Cursor(ListOf(Present[i]))
<1>1. ASSUME NEW i \in DOMAIN Present
      PROVE  /\ IsWord(list[i], Present[i]) /\ list[i].ceiling = Ceilings[i]
             /\ list[i].cursor = Cursor(ListOf(Present[i]))
  <2>. DEFINE t == Present[i]
              c == Cursor(ListOf(t))
  <2>1. i \in 1..Len(Present) /\ t \in Terms
    BY PresentIs
  <2>2. list[i] = Opened(t)
    OBVIOUS
  <2>3. Opened(t) = [idf |-> IdfOf(t), ceiling |-> CeilingOf(t), cursor |-> c]
    BY DEF Opened, IdfOf, CeilingOf, ListOf
  <2>4. Lists(ListOf(t), IdsOf(t))
    BY <2>1, WordLists DEF Asked
  <2>5. Reads(c, ListOf(t), IdsOf(t))
    BY <2>4, CursorReads
  <2>6. c \in CursorsOn(ListOf(t))
    BY <2>5 DEF Reads
  <2>7. Ceilings[i] = CeilingOf(t)
    BY <2>1 DEF Ceilings
  <2>. HIDE DEF c, t
  <2>8. IsWord(list[i], t)
    BY <2>2, <2>3, <2>5, <2>6 DEF IsWord
  <2>9. list[i].ceiling = Ceilings[i] /\ list[i].cursor = c
    BY <2>2, <2>3, <2>7
  <2>. QED  BY <2>8, <2>9 DEF c, t
<1>2. DOMAIN list = DOMAIN Present
  OBVIOUS
<1>3. list = [i \in DOMAIN Present |-> list[i]]
  OBVIOUS
<1>. QED  BY <1>1, <1>2, <1>3 DEF OnWords

LEMMA LengthIs ==
  ASSUME Asked, NEW list, OnWords(list) PROVE Len(list) = Len(Present) /\ DOMAIN list = 1..Len(Present)
<1>1. DOMAIN list = 1..Len(Present) /\ Len(Present) \in Nat /\ list = [i \in 1..Len(Present) |-> list[i]]
  BY PresentIs DEF OnWords
<1>. QED  BY <1>1

LEMMA LowIs ==
  ASSUME Asked, Order, NEW k \in 0..Len(Present)
  PROVE  /\ Low(k) \subseteq 1..Len(Present) /\ IsFiniteSet(Low(k))
         /\ Low(0) = {} /\ Low(Len(Present)) = 1..Len(Present)
<1>. DEFINE n == Len(Present)
<1>0. n \in Nat
  BY PresentIs
<1>1. \A j \in 1..n : byCeiling[j] \in 1..n
  BY DEF Order
<1>2. \A j \in 1..k : j \in 1..n
  BY <1>0
<1>3. Low(k) \subseteq 1..n
  BY <1>1, <1>2 DEF Low
<1>4. IsFiniteSet(Low(k))
  <2>1. IsFiniteSet(1..k)
    BY FS_Interval
  <2>. QED  BY <2>1, FiniteImage DEF Low
<1>5. Low(0) = {}
  BY DEF Low
<1>6. Low(n) = 1..n
  BY <1>1 DEF Low, Order
<1>. QED  BY <1>3, <1>4, <1>5, <1>6

LEMMA PrefixIs ==
  ASSUME Walks, NEW k \in 0..Len(Present)
  PROVE  /\ prefix[k] = SumFunctionOnSet(Ceilings, Low(k)) /\ prefix[k] \in Nat
         /\ prefix[0] = 0
<1>. DEFINE g == [j \in 1..k |-> Ceilings[byCeiling[j]]]
<1>1. Asked /\ Order
  BY DEF Walks
<1>2. prefix[k] = SumFunction(g)
  BY DEF Walks
<1>3. SumFunction(g) = SumFunctionOnSet(g, 1..k)
  BY DEF SumFunction
<1>4. \A j \in 1..k : byCeiling[j] \in 1..Len(Present) /\ j \in 1..Len(Present)
  <2>1. Len(Present) \in Nat
    BY <1>1, PresentIs
  <2>2. \A j \in 1..k : j \in 1..Len(Present)
    BY <2>1
  <2>3. \A j \in 1..Len(Present) : byCeiling[j] \in 1..Len(Present)
    BY <1>1 DEF Order
  <2>. QED  BY <2>2, <2>3
<1>5. \A j \in 1..k : Ceilings[byCeiling[j]] \in Int /\ g[j] = Ceilings[byCeiling[j]]
  <2>1. \A i \in 1..Len(Present) : Ceilings[i] \in Int
    BY <1>1, CeilingsAre
  <2>. QED  BY <1>4, <2>1
<1>6. \A i, j \in 1..k : byCeiling[i] = byCeiling[j] => i = j
  BY <1>1, <1>4 DEF Order
<1>7. IsFiniteSet(1..k)
  BY FS_Interval
<1>. HIDE DEF g
<1>8. SumFunctionOnSet(g, 1..k) = SumFunctionOnSet(Ceilings, Low(k))
  <2>. DEFINE S == 1..k
  <2>1. \A j \in S : Ceilings[byCeiling[j]] \in Int /\ g[j] = Ceilings[byCeiling[j]]
    BY <1>5
  <2>2. (\A i, j \in S : byCeiling[i] = byCeiling[j] => i = j) /\ IsFiniteSet(S)
    BY <1>6, <1>7
  <2>. HIDE DEF S
  <2>3. SumFunctionOnSet(g, S) = SumFunctionOnSet(Ceilings, {byCeiling[j] : j \in S})
    BY <2>1, <2>2, SumRenamed
  <2>. QED  BY <2>3 DEF S, Low
<1>9. SumFunctionOnSet(Ceilings, Low(k)) \in Nat
  <2>1. \A i \in Low(k) : Ceilings[i] \in Nat
    BY <1>1, LowIs, CeilingsAre
  <2>. QED  BY <1>1, <2>1, LowIs, SumIsNatural
<1>10. prefix[0] = 0
  <2>1. Len(Present) \in Nat
    BY <1>1, PresentIs
  <2>2. prefix[0] = SumFunction([j \in 1..0 |-> Ceilings[byCeiling[j]]])
    BY <2>1 DEF Walks
  <2>3. SumFunction([j \in 1..0 |-> Ceilings[byCeiling[j]]]) = SumFunctionOnSet([j \in 1..0 |-> Ceilings[byCeiling[j]]], 1..0)
    BY DEF SumFunction
  <2>4. 1..0 = {}
    OBVIOUS
  <2>5. SumFunctionOnSet([j \in 1..0 |-> Ceilings[byCeiling[j]]], {}) = 0
    BY SumOfNothing
  <2>. QED  BY <2>2, <2>3, <2>4, <2>5
<1>. QED  BY <1>2, <1>3, <1>8, <1>9, <1>10

LEMMA EssentialIs ==
  ASSUME Walks, OnWords(terms), NEW k \in 0..Len(Present)
  PROVE  Essential(k) = (1..Len(Present)) \ Low(k)
<1>. DEFINE n == Len(Present)
<1>0. Asked /\ Order /\ n \in Nat /\ Len(terms) = n
  BY PresentIs, LengthIs DEF Walks
<1>1. Essential(k) = {byCeiling[j] : j \in (k + 1)..n}
  BY <1>0 DEF Essential
<1>2. \A j \in (k + 1)..n : j \in 1..n /\ j \notin 1..k
  BY <1>0
<1>3. \A j \in 1..n : byCeiling[j] \in 1..n
  BY <1>0 DEF Order
<1>4. \A j \in 1..n : j \in 1..k \/ j \in (k + 1)..n
  BY <1>0
<1>5. \A j \in 1..k : j \in 1..n
  BY <1>0
<1>6. ASSUME NEW x \in Essential(k) PROVE x \in 1..n /\ x \notin Low(k)
  <2>1. PICK j \in (k + 1)..n : x = byCeiling[j]
    BY <1>1
  <2>2. j \in 1..n /\ j \notin 1..k
    BY <1>2
  <2>3. \A i \in 1..n : byCeiling[i] = byCeiling[j] => i = j
    BY <1>0, <2>2 DEF Order
  <2>4. \A i \in 1..k : byCeiling[i] # x
    <3>. HIDE DEF n
    <3>. QED  BY <1>5, <2>1, <2>2, <2>3
  <2>5. x \in 1..n
    BY <1>3, <2>1, <2>2
  <2>6. x \notin Low(k)
    BY <2>4 DEF Low
  <2>. QED  BY <2>5, <2>6
<1>7. ASSUME NEW x \in 1..n, x \notin Low(k) PROVE x \in Essential(k)
  <2>1. PICK j \in 1..n : byCeiling[j] = x
    BY <1>0 DEF Order
  <2>2. j \notin 1..k
    BY <1>7, <2>1 DEF Low
  <2>. QED  BY <1>1, <1>4, <2>1, <2>2
<1>. QED  BY <1>6, <1>7

(* What a document must be worth more than, with such a heap.               *)
ThresholdOf(h) == IF Cardinality(h) < limit THEN 0 ELSE Min({r.score : r \in h})
LEMMA ThresholdOfIs ==
  ASSUME NEW h, IsHeap(h), limit \in Nat, limit > 0
  PROVE  /\ ThresholdOf(h) \in Nat /\ Cardinality(h) \in Nat
         /\ Cardinality(h) < limit => ThresholdOf(h) = 0
         /\ ~(Cardinality(h) < limit) => /\ \A r \in h : ThresholdOf(h) <= r.score
                                         /\ \E r \in h : ThresholdOf(h) = r.score
<1>. DEFINE score == [r \in h |-> r.score]
            S == {score[r] : r \in h}
<1>1. Cardinality(h) \in Nat /\ IsFiniteSet(h) /\ \A r \in h : r.score \in Nat
  BY FS_CardinalityType DEF IsHeap
<1>2. CASE Cardinality(h) < limit
  BY <1>1, <1>2 DEF ThresholdOf
<1>3. CASE ~(Cardinality(h) < limit)
  <2>1. h # {}
    BY <1>1, <1>3, FS_EmptySet
  <2>2. IsFiniteSet(S) /\ S # {} /\ \A x \in S : x \in Int
    <3>1. \A r \in h : score[r] \in Int
      BY <1>1
    <3>2. \A x \in S : x \in Int
      <4>. HIDE DEF score
      <4>. QED  BY <3>1
    <3>. HIDE DEF score
    <3>. QED  BY <1>1, <2>1, <3>2, FiniteImage
  <2>3. {r.score : r \in h} = S
    OBVIOUS
  <2>4. ThresholdOf(h) = Min(S)
    BY <1>3, <2>3 DEF ThresholdOf
  <2>5. Min(S) \in S /\ \A x \in S : Min(S) <= x
    <3>. HIDE DEF S
    <3>. QED  BY <2>2, MinIs
  <2>6. \A r \in h : score[r] = r.score /\ score[r] \in S
    OBVIOUS
  <2>7. \E r \in h : Min(S) = score[r]
    BY <2>5
  <2>8. \A r \in h : Min(S) <= score[r]
    BY <2>5, <2>6
  <2>. HIDE DEF score, S
  <2>. QED  BY <1>1, <1>3, <2>4, <2>6, <2>7, <2>8
<1>. QED  BY <1>2, <1>3

LEMMA ThresholdIs ==
  ASSUME IsHeap(heap), limit \in Nat, limit > 0
  PROVE  /\ Threshold \in Nat /\ Cardinality(heap) \in Nat
         /\ Cardinality(heap) < limit => Threshold = 0
         /\ ~(Cardinality(heap) < limit) => /\ \A r \in heap : Threshold <= r.score
                                            /\ \E r \in heap : Threshold = r.score
<1>1. Threshold = ThresholdOf(heap)
  BY DEF Threshold, ThresholdOf
<1>. QED  BY <1>1, ThresholdOfIs

LEMMA SplitIs ==
  ASSUME Walks, OnWords(terms), IsHeap(heap)
  PROVE  /\ NonEssential \in 0..Len(Present) /\ prefix[NonEssential] <= Threshold
         /\ BoundsHold => \A k \in 0..Len(Present) : prefix[k] <= Threshold => k <= NonEssential
         /\ ~BoundsHold => NonEssential = 0
<1>. DEFINE n == Len(Present)
            S == {k \in 0..n : prefix[k] <= Threshold}
<1>0. /\ Asked /\ Order /\ n \in Nat /\ Len(terms) = n /\ limit \in Nat /\ limit > 0
  BY PresentIs, LengthIs, AskedIs DEF Walks
<1>1. Threshold \in Nat
  BY <1>0, ThresholdIs
<1>2. \A k \in 0..n : prefix[k] \in Nat
  BY PrefixIs
<1>3. prefix[0] = 0 /\ 0 \in 0..n
  BY <1>0, PrefixIs
<1>4. CASE BoundsHold
  <2>1. 0 \in S
    BY <1>1, <1>3
  <2>2. IsFiniteSet(S) /\ \A k \in S : k \in Int
    <3>1. IsFiniteSet(0..n)
      BY <1>0, FS_Interval
    <3>2. S \subseteq 0..n /\ \A k \in S : k \in Int
      OBVIOUS
    <3>. HIDE DEF S, n
    <3>. QED  BY <3>1, <3>2, FS_Subset
  <2>3. NonEssential = Max(S)
    BY <1>0, <1>4 DEF NonEssential
  <2>4. Max(S) \in S /\ \A k \in S : k <= Max(S)
    <3>. HIDE DEF S
    <3>. QED  BY <2>1, <2>2, MaxIs
  <2>. QED  BY <1>4, <2>3, <2>4
<1>5. CASE ~BoundsHold
  BY <1>1, <1>3, <1>5 DEF NonEssential
<1>. QED  BY <1>4, <1>5

LEMMA WordReads ==
  ASSUME Asked, NEW list, OnWords(list), NEW i \in 1..Len(Present)
  PROVE  /\ Present[i] \in Terms /\ Lists(ListOf(Present[i]), IdsOf(Present[i]))
         /\ IsWord(list[i], Present[i])
         /\ Reads(list[i].cursor, ListOf(Present[i]), IdsOf(Present[i]))
         /\ list[i].idf = IdfOf(Present[i]) /\ list[i].ceiling = Ceilings[i] /\ Ceilings[i] = CeilingOf(Present[i])
         /\ list[i].cursor.doc \in Nat /\ list[i].cursor.exhausted \in BOOLEAN
         /\ list[i].cursor.list = ListOf(Present[i])
<1>1. Present[i] \in Terms /\ DOMAIN Present = 1..Len(Present)
  BY PresentIs
<1>2. Lists(ListOf(Present[i]), IdsOf(Present[i]))
  BY <1>1, WordLists DEF Asked
<1>3. IsWord(list[i], Present[i])
  BY <1>1 DEF OnWords
<1>4. Ceilings[i] = CeilingOf(Present[i])
  BY DEF Ceilings
<1>5. Reads(list[i].cursor, ListOf(Present[i]), IdsOf(Present[i]))
      /\ list[i].idf = IdfOf(Present[i]) /\ list[i].ceiling = CeilingOf(Present[i])
  BY <1>3 DEF IsWord
<1>6. list[i].cursor.doc \in Nat /\ list[i].cursor.exhausted \in BOOLEAN /\ list[i].cursor.list = ListOf(Present[i])
  BY <1>2, <1>5, ReadsIs
<1>. QED  BY <1>1, <1>2, <1>3, <1>4, <1>5, <1>6

LEMMA WordMoved ==
  ASSUME NEW r, NEW t, IsWord(r, t), NEW c, Reads(c, ListOf(t), IdsOf(t))
  PROVE  IsWord([r EXCEPT !.cursor = c], t) /\ [r EXCEPT !.cursor = c].cursor = c
<1>. DEFINE C == CursorsOn(ListOf(t))
<1>1. r \in [idf : {IdfOf(t)}, ceiling : {CeilingOf(t)}, cursor : C] /\ c \in C
  BY DEF IsWord, Reads
<1>. HIDE DEF C
<1>2. [r EXCEPT !.cursor = c] \in [idf : {IdfOf(t)}, ceiling : {CeilingOf(t)}, cursor : C]
      /\ [r EXCEPT !.cursor = c].cursor = c
  BY <1>1
<1>. QED  BY <1>2 DEF IsWord, C

LEMMA WalkingIs ==
  ASSUME Walks, OnWords(terms), NEW split \in 0..Len(Present)
  PROVE  /\ Essential(split) \subseteq 1..Len(Present) /\ Walking(split) \subseteq Essential(split)
         /\ IsFiniteSet(Walking(split))
         /\ \A i \in Essential(split) : i \in Walking(split) <=> ~terms[i].cursor.exhausted
<1>1. Essential(split) \subseteq 1..Len(Present)
  BY EssentialIs
<1>2. Walking(split) \subseteq Essential(split) /\ \A i \in Essential(split) : i \in Walking(split) <=> ~terms[i].cursor.exhausted
  BY DEF Walking
<1>3. IsFiniteSet(1..Len(Present))
  BY PresentIs, FS_Interval DEF Walks
<1>4. IsFiniteSet(Walking(split))
  <2>1. Walking(split) \subseteq 1..Len(Present)
    BY <1>1, <1>2
  <2>. QED  BY <1>3, <2>1, FS_Subset
<1>. QED  BY <1>1, <1>2, <1>4

LEMMA CurrentIs ==
  ASSUME Walks, OnWords(terms), NEW split \in 0..Len(Present), Walking(split) # {}
  PROVE  /\ Current(split) \in Nat
         /\ \A i \in Walking(split) : Current(split) <= terms[i].cursor.doc
         /\ \E i \in Walking(split) : On(terms[i].cursor, Current(split))
<1>. DEFINE doc == [i \in Walking(split) |-> terms[i].cursor.doc]
            S == {doc[i] : i \in Walking(split)}
<1>1. \A i \in Walking(split) : doc[i] = terms[i].cursor.doc /\ doc[i] \in Nat /\ ~terms[i].cursor.exhausted
  <2>1. \A i \in Walking(split) : i \in 1..Len(Present) /\ ~terms[i].cursor.exhausted
    BY WalkingIs
  <2>. QED  BY <2>1, WordReads DEF Walks
<1>2. Current(split) = Min(S)
  <2>1. {terms[i].cursor.doc : i \in Walking(split)} = S
    OBVIOUS
  <2>. QED  BY <2>1 DEF Current
<1>3. IsFiniteSet(S) /\ S # {} /\ \A x \in S : x \in Nat /\ x \in Int
  <2>1. \A x \in S : x \in Nat
    <3>. HIDE DEF doc
    <3>. QED  BY <1>1
  <2>2. S # {}
    OBVIOUS
  <2>3. IsFiniteSet(S)
    <3>. HIDE DEF doc
    <3>. QED  BY WalkingIs, FiniteImage
  <2>. HIDE DEF S
  <2>. QED  BY <2>1, <2>2, <2>3
<1>4. Min(S) \in S /\ \A x \in S : Min(S) <= x
  <2>. HIDE DEF S
  <2>. QED  BY <1>3, MinIs
<1>. HIDE DEF doc
<1>5. Min(S) \in Nat /\ (\A i \in Walking(split) : Min(S) <= doc[i]) /\ \E i \in Walking(split) : Min(S) = doc[i]
  BY <1>3, <1>4
<1>. HIDE DEF S
<1>. QED  BY <1>1, <1>2, <1>5 DEF On

LEMMA AtIs ==
  ASSUME Walks, OnWords(terms), NEW split \in 0..Len(Present), NEW doc,
         \E i \in Walking(split) : On(terms[i].cursor, doc)
  PROVE  At(split, doc) \in Essential(split) /\ On(terms[At(split, doc)].cursor, doc) /\ At(split, doc) \in 1..Len(Present)
<1>. DEFINE n == Len(Present)
            S == {k \in (split + 1)..n : On(terms[byCeiling[k]].cursor, doc)}
<1>0. n \in Nat /\ Len(terms) = n
  BY PresentIs, LengthIs DEF Walks
<1>1. Essential(split) = {byCeiling[k] : k \in (split + 1)..n}
  BY <1>0 DEF Essential
<1>2. S # {}
  <2>1. PICK i \in Essential(split) : On(terms[i].cursor, doc)
    BY WalkingIs
  <2>2. PICK k \in (split + 1)..n : byCeiling[k] = i
    BY <1>1, <2>1
  <2>. QED  BY <2>1, <2>2
<1>3. IsFiniteSet(S) /\ \A k \in S : k \in Int
  <2>1. IsFiniteSet((split + 1)..n)
    BY <1>0, FS_Interval
  <2>2. S \subseteq (split + 1)..n /\ \A k \in S : k \in Int
    OBVIOUS
  <2>. HIDE DEF S, n
  <2>. QED  BY <2>1, <2>2, FS_Subset
<1>4. Min(S) \in S
  <2>. HIDE DEF S
  <2>. QED  BY <1>2, <1>3, MinIs
<1>5. At(split, doc) = byCeiling[Min(S)]
  BY <1>0 DEF At
<1>6. At(split, doc) \in Essential(split) /\ On(terms[At(split, doc)].cursor, doc)
  BY <1>1, <1>4, <1>5
<1>. QED  BY <1>6, WalkingIs

(* The two things a turn of the loop may do.                                *)
HereIs(i, here) == here = IF Hopeless(i) THEN [terms EXCEPT ![i].cursor = SkippedBlock(@)] ELSE terms
Skips(i, here) == /\ Hopeless(i) /\ Moves(i)
                  /\ terms' = here /\ excluded' = excluded /\ heap' = heap
Considers(split, doc, i, here) ==
  /\ ~(Hopeless(i) /\ Moves(i))
  /\ terms' = GoneOn(split, Considered(split, here, doc).list, doc)
  /\ heap' = Considered(split, here, doc).heap
  /\ excluded' = SoughtExcluded(doc)

LEMMA TurnIs ==
  ASSUME Turn
  PROVE  /\ pc = "walk" /\ Walking(NonEssential) # {}
         /\ UNCHANGED <<corpus, query, limit, global, segments, byCeiling, prefix, pc>>
         /\ \E here : /\ HereIs(At(NonEssential, Current(NonEssential)), here)
                      /\ \/ Skips(At(NonEssential, Current(NonEssential)), here)
                         \/ Considers(NonEssential, Current(NonEssential), At(NonEssential, Current(NonEssential)), here)
<1>. DEFINE i == At(NonEssential, Current(NonEssential))
            here == IF Hopeless(i) THEN [terms EXCEPT ![i].cursor = SkippedBlock(@)] ELSE terms
<1>1. /\ pc = "walk" /\ Walking(NonEssential) # {}
      /\ UNCHANGED <<corpus, query, limit, global, segments, byCeiling, prefix, pc>>
  BY DEF Turn, input
<1>2. Skips(i, here) \/ Considers(NonEssential, Current(NonEssential), i, here)
  BY DEF Turn, Skips, Considers
<1>3. HereIs(i, here)
  BY DEF HereIs
<1>. HIDE DEF here
<1>. QED  BY <1>1, <1>2, <1>3

LEMMA HereReads ==
  ASSUME Walks, OnWords(terms), NEW i \in 1..Len(Present), NEW doc, On(terms[i].cursor, doc), NEW here, HereIs(i, here)
  PROVE  /\ OnWords(here)
         /\ \A j \in 1..Len(Present) : j # i => here[j] = terms[j]
         /\ here[i].cursor = IF Hopeless(i) THEN SkippedBlock(terms[i].cursor) ELSE terms[i].cursor
         /\ Hopeless(i) => /\ Passed(terms[i].cursor) < Passed(here[i].cursor)
                           /\ Moves(i) <=> ~here[i].cursor.exhausted
<1>. DEFINE t == Present[i]
            c == terms[i].cursor
            s == SkippedBlock(c)
<1>0. Asked /\ DOMAIN Present = 1..Len(Present) /\ DOMAIN terms = 1..Len(Present)
  BY PresentIs, LengthIs DEF Walks
<1>1. t \in Terms /\ Lists(ListOf(t), IdsOf(t)) /\ Reads(c, ListOf(t), IdsOf(t)) /\ IsWord(terms[i], t)
  BY <1>0, WordReads
<1>2. /\ Reads(s, ListOf(t), IdsOf(t)) /\ Passed(c) < Passed(s)
      /\ CurrentBlock(s) # CurrentBlock(c) <=> ~s.exhausted
  BY <1>1, SkippedOnward DEF On
<1>3. CASE ~Hopeless(i)
  BY <1>3 DEF HereIs
<1>4. CASE Hopeless(i)
  <2>1. here = [terms EXCEPT ![i].cursor = s]
    BY <1>4 DEF HereIs
  <2>2. terms = [j \in DOMAIN Present |-> terms[j]]
    BY DEF OnWords
  <2>3. Moves(i) <=> CurrentBlock(s) # CurrentBlock(c)
    BY DEF Moves
  <2>. HIDE DEF s, c
  <2>. DEFINE w == [terms[i] EXCEPT !.cursor = s]
  <2>4. here = [terms EXCEPT ![i] = w]
    BY <2>1, <2>2, <1>0
  <2>5. IsWord(w, t) /\ w.cursor = s
    BY <1>1, <1>2, WordMoved
  <2>. HIDE DEF w, t
  <2>6. here = [j \in 1..Len(Present) |-> IF j = i THEN w ELSE terms[j]]
    BY <1>0, <2>2, <2>4
  <2>7. DOMAIN here = DOMAIN Present /\ here = [j \in DOMAIN Present |-> here[j]]
    BY <1>0, <2>6
  <2>8. \A j \in DOMAIN Present : IsWord(here[j], Present[j])
    <3>. SUFFICES ASSUME NEW j \in DOMAIN Present PROVE IsWord(here[j], Present[j])
      OBVIOUS
    <3>1. CASE j = i
      BY <1>0, <2>5, <2>6, <3>1 DEF t
    <3>2. CASE j # i
      <4>1. IsWord(terms[j], Present[j])
        BY DEF OnWords
      <4>. QED  BY <1>0, <2>6, <3>2, <4>1
    <3>. QED  BY <3>1, <3>2
  <2>9. OnWords(here)
    BY <2>7, <2>8 DEF OnWords
  <2>10. here[i] = w /\ \A j \in 1..Len(Present) : j # i => here[j] = terms[j]
    BY <2>6
  <2>. QED  BY <1>2, <1>4, <2>3, <2>5, <2>9, <2>10 DEF s, c
<1>. QED  BY <1>3, <1>4

LEMMA LookedUpReads ==
  ASSUME Asked, NEW split, NEW list, OnWords(list), NEW doc \in Nat
  PROVE  /\ OnWords(LookedUp(split, list, doc))
         /\ \A j \in 1..Len(Present) : j \in Essential(split) => LookedUp(split, list, doc)[j] = list[j]
         /\ \A j \in 1..Len(Present) : j \notin Essential(split) =>
                                         LookedUp(split, list, doc)[j].cursor = Sought(list[j].cursor, doc)
<1>. DEFINE looked == LookedUp(split, list, doc)
            w(j) == [list[j] EXCEPT !.cursor = Sought(list[j].cursor, doc)]
<1>0. DOMAIN Present = 1..Len(Present) /\ DOMAIN list = 1..Len(Present)
  BY PresentIs, LengthIs
<1>1. looked = [j \in 1..Len(Present) |-> IF j \in Essential(split) THEN list[j] ELSE w(j)]
  BY <1>0 DEF LookedUp
<1>2. ASSUME NEW j \in 1..Len(Present)
      PROVE  IsWord(list[j], Present[j]) /\ IsWord(w(j), Present[j]) /\ w(j).cursor = Sought(list[j].cursor, doc)
  <2>1. /\ Lists(ListOf(Present[j]), IdsOf(Present[j])) /\ IsWord(list[j], Present[j])
        /\ Reads(list[j].cursor, ListOf(Present[j]), IdsOf(Present[j]))
    BY WordReads
  <2>2. Reads(Sought(list[j].cursor, doc), ListOf(Present[j]), IdsOf(Present[j]))
    BY <2>1, SoughtOnward DEF Onward
  <2>. QED  BY <2>1, <2>2, WordMoved
<1>. HIDE DEF w, looked
<1>3. DOMAIN looked = DOMAIN Present /\ looked = [j \in DOMAIN Present |-> looked[j]]
  BY <1>0, <1>1
<1>4. \A j \in DOMAIN Present : IsWord(looked[j], Present[j])
  BY <1>0, <1>1, <1>2
<1>5. OnWords(looked)
  BY <1>3, <1>4 DEF OnWords
<1>. QED  BY <1>1, <1>2, <1>5 DEF looked

LEMMA GoneOnReads ==
  ASSUME Asked, NEW split, NEW list, OnWords(list), NEW doc
  PROVE  /\ OnWords(GoneOn(split, list, doc))
         /\ \A j \in 1..Len(Present) :
              IF j \in Essential(split) /\ On(list[j].cursor, doc)
              THEN GoneOn(split, list, doc)[j].cursor = Advanced(list[j].cursor)
              ELSE GoneOn(split, list, doc)[j] = list[j]
<1>. DEFINE gone == GoneOn(split, list, doc)
            goes(j) == j \in Essential(split) /\ On(list[j].cursor, doc)
            w(j) == [list[j] EXCEPT !.cursor = Advanced(list[j].cursor)]
<1>0. DOMAIN Present = 1..Len(Present) /\ DOMAIN list = 1..Len(Present)
  BY PresentIs, LengthIs
<1>1. gone = [j \in 1..Len(Present) |-> IF goes(j) THEN w(j) ELSE list[j]]
  BY <1>0 DEF GoneOn
<1>2. ASSUME NEW j \in 1..Len(Present)
      PROVE  IsWord(list[j], Present[j]) /\ (goes(j) => IsWord(w(j), Present[j]) /\ w(j).cursor = Advanced(list[j].cursor))
  <2>1. /\ Lists(ListOf(Present[j]), IdsOf(Present[j])) /\ IsWord(list[j], Present[j])
        /\ Reads(list[j].cursor, ListOf(Present[j]), IdsOf(Present[j]))
    BY WordReads
  <2>2. goes(j) => Reads(Advanced(list[j].cursor), ListOf(Present[j]), IdsOf(Present[j]))
    BY <2>1, AdvancedOnward DEF Onward
  <2>. QED  BY <2>1, <2>2, WordMoved
<1>3. \A j \in 1..Len(Present) : goes(j) <=> j \in Essential(split) /\ On(list[j].cursor, doc)
  OBVIOUS
<1>. HIDE DEF w, gone, goes
<1>4. DOMAIN gone = DOMAIN Present /\ gone = [j \in DOMAIN Present |-> gone[j]]
  BY <1>0, <1>1
<1>5. \A j \in DOMAIN Present : IsWord(gone[j], Present[j])
  BY <1>0, <1>1, <1>2
<1>6. OnWords(gone)
  BY <1>4, <1>5 DEF OnWords
<1>7. \A j \in 1..Len(Present) : IF goes(j) THEN gone[j].cursor = Advanced(list[j].cursor) ELSE gone[j] = list[j]
  BY <1>1, <1>2
<1>. QED  BY <1>3, <1>6, <1>7 DEF gone

(* What considering a document does to the cursors.                         *)
Forward(i, c, r, doc) == Onward(c, r, ListOf(Present[i]), IdsOf(Present[i]), doc)
GoesOn(j, split, list, gone, doc) ==
  /\ Forward(j, list[j].cursor, gone[j].cursor, doc)
  /\ j \in Essential(split) =>
       IF On(list[j].cursor, doc)
       THEN /\ Passed(list[j].cursor) < Passed(gone[j].cursor)
            /\ gone[j].cursor.exhausted \/ gone[j].cursor.doc > doc
       ELSE gone[j] = list[j]
LEMMA ConsideredMoves ==
  ASSUME Asked, NEW split, NEW list, OnWords(list), NEW doc \in Nat,
         NEW gone, gone = GoneOn(split, Considered(split, list, doc).list, doc)
  PROVE  /\ OnWords(gone)
         /\ \A j \in 1..Len(Present) : GoesOn(j, split, list, gone, doc)
<1>. DEFINE looked == Considered(split, list, doc).list
<1>1. looked = list \/ looked = LookedUp(split, list, doc)
  BY DEF Considered
<1>. HIDE DEF looked
<1>2. /\ OnWords(looked)
      /\ \A j \in 1..Len(Present) : j \in Essential(split) => looked[j] = list[j]
      /\ \A j \in 1..Len(Present) : j \notin Essential(split) => looked[j] = list[j] \/ looked[j].cursor = Sought(list[j].cursor, doc)
  <2>1. CASE looked = list
    BY <2>1
  <2>2. CASE looked = LookedUp(split, list, doc)
    <3>. DEFINE up == LookedUp(split, list, doc)
    <3>1. OnWords(up)
      BY LookedUpReads
    <3>2. \A j \in 1..Len(Present) : j \in Essential(split) => up[j] = list[j]
      BY LookedUpReads
    <3>3. \A j \in 1..Len(Present) : j \notin Essential(split) => up[j].cursor = Sought(list[j].cursor, doc)
      BY LookedUpReads
    <3>. HIDE DEF up
    <3>4. looked = up
      BY <2>2 DEF up
    <3>. QED  BY <3>1, <3>2, <3>3, <3>4
  <2>. QED  BY <1>1, <2>1, <2>2
<1>3. gone = GoneOn(split, looked, doc)
  BY DEF looked
<1>4. /\ OnWords(gone)
      /\ \A j \in 1..Len(Present) :
              IF j \in Essential(split) /\ On(looked[j].cursor, doc)
              THEN gone[j].cursor = Advanced(looked[j].cursor)
              ELSE gone[j] = looked[j]
  BY <1>2, <1>3, GoneOnReads
<1>5. ASSUME NEW j \in 1..Len(Present) PROVE GoesOn(j, split, list, gone, doc)
  <2>1. /\ Lists(ListOf(Present[j]), IdsOf(Present[j]))
        /\ Reads(list[j].cursor, ListOf(Present[j]), IdsOf(Present[j]))
    BY WordReads
  <2>2. Forward(j, list[j].cursor, list[j].cursor, doc)
    BY <2>1, OnwardStays DEF Forward
  <2>3. CASE j \in Essential(split) /\ On(list[j].cursor, doc)
    <3>1. gone[j].cursor = Advanced(list[j].cursor)
      BY <1>2, <1>4, <2>3
    <3>. QED  BY <2>1, <2>3, <3>1, AdvancedOnward DEF Forward, GoesOn
  <2>4. CASE j \in Essential(split) /\ ~On(list[j].cursor, doc)
    <3>1. gone[j] = list[j]
      BY <1>2, <1>4, <2>4
    <3>. QED  BY <2>2, <2>4, <3>1 DEF GoesOn
  <2>5. CASE j \notin Essential(split)
    <3>1. gone[j] = looked[j]
      BY <1>4, <2>5
    <3>2. looked[j] = list[j] \/ looked[j].cursor = Sought(list[j].cursor, doc)
      BY <1>2, <2>5
    <3>3. Forward(j, list[j].cursor, Sought(list[j].cursor, doc), doc)
      BY <2>1, SoughtOnward DEF Forward
    <3>. QED  BY <2>2, <2>5, <3>1, <3>2, <3>3 DEF GoesOn, Forward
  <2>. QED  BY <2>3, <2>4, <2>5
<1>. QED  BY <1>4, <1>5

LEMMA DroppedReads ==
  ASSUME Asked, NEW list, OnDropped(list), NEW i \in DOMAIN Dropped
  PROVE  /\ Dropped[i] \in Terms /\ Lists(ListOf(Dropped[i]), IdsOf(Dropped[i]))
         /\ Reads(list[i], ListOf(Dropped[i]), IdsOf(Dropped[i]))
<1>1. Dropped[i] \in Terms
  BY DroppedIs
<1>. QED  BY <1>1, WordLists DEF OnDropped, Asked

LEMMA DroppedMoves ==
  ASSUME Asked, OnDropped(excluded), NEW doc \in Nat
  PROVE  /\ OnDropped(SoughtExcluded(doc))
         /\ \A i \in DOMAIN Dropped : Onward(excluded[i], SoughtExcluded(doc)[i], ListOf(Dropped[i]), IdsOf(Dropped[i]), doc)
<1>. DEFINE s == SoughtExcluded(doc)
<1>0. DOMAIN s = DOMAIN Dropped /\ \A i \in DOMAIN Dropped : s[i] = excluded[i] \/ s[i] = Sought(excluded[i], doc)
  BY DEF SoughtExcluded, OnDropped
<1>. HIDE DEF s
<1>1. ASSUME NEW i \in DOMAIN Dropped
      PROVE  Onward(excluded[i], s[i], ListOf(Dropped[i]), IdsOf(Dropped[i]), doc)
  <2>1. /\ Lists(ListOf(Dropped[i]), IdsOf(Dropped[i]))
        /\ Reads(excluded[i], ListOf(Dropped[i]), IdsOf(Dropped[i]))
    BY DroppedReads
  <2>. QED  BY <1>0, <2>1, OnwardStays, SoughtOnward
<1>2. OnDropped(s)
  BY <1>0, <1>1 DEF OnDropped, Onward
<1>. QED  BY <1>1, <1>2 DEF s

(* A turn leaves every cursor on its list, and some word further on.        *)
LEMMA TurnMoves ==
  ASSUME Walks, OnWords(terms), OnDropped(excluded), IsHeap(heap), Turn
  PROVE  /\ OnWords(terms') /\ OnDropped(excluded')
         /\ \A j \in 1..Len(Present) : Passed(terms[j].cursor) <= Passed(terms'[j].cursor)
         /\ \E j \in 1..Len(Present) : Passed(terms[j].cursor) < Passed(terms'[j].cursor)
<1>. DEFINE split == NonEssential
            doc == Current(split)
            i == At(split, doc)
<1>0. Asked
  BY DEF Walks
<1>1. split \in 0..Len(Present)
  BY SplitIs
<1>2. Walking(split) # {}
  BY TurnIs
<1>3. PICK here : HereIs(i, here) /\ (Skips(i, here) \/ Considers(split, doc, i, here))
  BY TurnIs
<1>. HIDE DEF split
<1>4. doc \in Nat /\ \E k \in Walking(split) : On(terms[k].cursor, doc)
  BY <1>1, <1>2, CurrentIs
<1>. HIDE DEF doc
<1>5. i \in Essential(split) /\ i \in 1..Len(Present) /\ On(terms[i].cursor, doc)
  BY <1>1, <1>4, AtIs
<1>. HIDE DEF i
<1>6. /\ OnWords(here)
      /\ \A j \in 1..Len(Present) : j # i => here[j] = terms[j]
      /\ here[i].cursor = IF Hopeless(i) THEN SkippedBlock(terms[i].cursor) ELSE terms[i].cursor
      /\ Hopeless(i) => Passed(terms[i].cursor) < Passed(here[i].cursor)
  BY <1>3, <1>5, HereReads
<1>7. \A j \in 1..Len(Present) : /\ Passed(terms[j].cursor) \in Nat /\ Passed(here[j].cursor) \in Nat
                                 /\ Passed(terms[j].cursor) <= Passed(here[j].cursor)
  <2>. SUFFICES ASSUME NEW j \in 1..Len(Present)
                PROVE  /\ Passed(terms[j].cursor) \in Nat /\ Passed(here[j].cursor) \in Nat
                       /\ Passed(terms[j].cursor) <= Passed(here[j].cursor)
    OBVIOUS
  <2>1. Lists(ListOf(Present[j]), IdsOf(Present[j])) /\ Reads(terms[j].cursor, ListOf(Present[j]), IdsOf(Present[j]))
    BY <1>0, WordReads
  <2>2. Reads(here[j].cursor, ListOf(Present[j]), IdsOf(Present[j]))
    BY <1>0, <1>6, WordReads
  <2>3. Passed(terms[j].cursor) \in Nat /\ Passed(here[j].cursor) \in Nat
    BY <2>1, <2>2, ReadsIs
  <2>4. CASE j # i
    BY <1>6, <2>3, <2>4
  <2>5. CASE j = i
    BY <1>6, <2>3, <2>5
  <2>. QED  BY <2>3, <2>4, <2>5
<1>8. CASE Skips(i, here)
  <2>1. terms' = here /\ excluded' = excluded /\ Hopeless(i)
    BY <1>8 DEF Skips
  <2>2. OnWords(terms')
    BY <1>6, <2>1
  <2>. QED  BY <1>5, <1>6, <1>7, <2>1, <2>2
<1>9. CASE Considers(split, doc, i, here)
  <2>1. /\ terms' = GoneOn(split, Considered(split, here, doc).list, doc)
        /\ excluded' = SoughtExcluded(doc)
    BY <1>9 DEF Considers
  <2>. DEFINE gone == GoneOn(split, Considered(split, here, doc).list, doc)
  <2>8. gone = GoneOn(split, Considered(split, here, doc).list, doc)
    OBVIOUS
  <2>. HIDE DEF gone
  <2>2. OnWords(gone) /\ \A j \in 1..Len(Present) : GoesOn(j, split, here, gone, doc)
    BY <1>0, <1>4, <1>6, <2>8, ConsideredMoves
  <2>3. ASSUME NEW j \in 1..Len(Present)
        PROVE  Passed(here[j].cursor) <= Passed(gone[j].cursor) /\ Passed(gone[j].cursor) \in Nat
    <3>1. Passed(here[j].cursor) <= Passed(gone[j].cursor)
      BY <2>2 DEF GoesOn, Forward, Onward
    <3>2. Lists(ListOf(Present[j]), IdsOf(Present[j])) /\ Reads(gone[j].cursor, ListOf(Present[j]), IdsOf(Present[j]))
      BY <1>0, <2>2, WordReads
    <3>3. Passed(gone[j].cursor) \in Nat
      BY <3>2, ReadsIs
    <3>. QED  BY <3>1, <3>3
  <2>4. \A j \in 1..Len(Present) : Passed(terms[j].cursor) <= Passed(gone[j].cursor)
    BY <1>7, <2>3
  <2>5. Passed(terms[i].cursor) < Passed(gone[i].cursor)
    <3>1. CASE Hopeless(i)
      BY <1>5, <1>6, <1>7, <2>3, <3>1
    <3>2. CASE ~Hopeless(i)
      <4>1. here[i].cursor = terms[i].cursor
        BY <1>6, <3>2
      <4>. QED  BY <1>5, <2>2, <4>1 DEF GoesOn
    <3>. QED  BY <3>1, <3>2
  <2>6. terms' = gone
    BY <2>1 DEF gone
  <2>7. OnDropped(excluded')
    BY <1>0, <1>4, <2>1, DroppedMoves
  <2>. QED  BY <1>5, <2>2, <2>4, <2>5, <2>6, <2>7
<1>. QED  BY <1>3, <1>8, <1>9

-----------------------------------------------------------------------------
(* What the cursors on a document add up to, and the most it could be.      *)

LEMMA ContributionIs ==
  ASSUME Asked, NEW list, OnWords(list), NEW i \in 1..Len(Present), NEW doc
  PROVE  IF On(list[i].cursor, doc)
         THEN doc \in 1..Len(corpus) /\ Says(doc, Present[i]) /\ Contribution(list[i], doc) = Gain(Present[i], doc)
         ELSE Contribution(list[i], doc) = 0
<1>. DEFINE t == Present[i]
            c == list[i].cursor
<1>1. CASE ~On(c, doc)
  BY <1>1 DEF Contribution
<1>2. CASE On(c, doc)
  <2>1. t \in Terms /\ Lists(ListOf(t), IdsOf(t)) /\ Reads(c, ListOf(t), IdsOf(t)) /\ list[i].idf = IdfOf(t)
    BY WordReads
  <2>2. ~c.exhausted /\ c.doc = doc
    BY <1>2 DEF On
  <2>. DEFINE q == Passed(c)
  <2>3. /\ q \in Nat /\ q < ListOf(t).count /\ c.doc = IdsOf(t)[q + 1] /\ c.fields = ListOf(t).cells[q + 1].fields
        /\ q + 1 \in 1..ListOf(t).count
    BY <2>1, <2>2, ReadsIs
  <2>. HIDE DEF q
  <2>4. doc \in Carriers(t) /\ c.fields = Occurrences[corpus[doc]][t]
    BY <2>1, <2>2, <2>3, WordLists DEF Asked
  <2>5. doc \in 1..Len(corpus) /\ Says(doc, t)
    BY <2>1, <2>4, CarriersAre DEF Asked
  <2>6. Contribution(list[i], doc) = list[i].idf * Saturation(Weighted(list[i].cursor.fields), NormOf(doc), Params)
    BY <1>2 DEF Contribution
  <2>7. Contribution(list[i], doc) = Gain(t, doc)
    BY <2>1, <2>4, <2>6 DEF Gain
  <2>. QED  BY <1>2, <2>5, <2>7
<1>. QED  BY <1>1, <1>2

LEMMA SummedIs ==
  ASSUME Asked, NEW list, OnWords(list), NEW chosen, chosen \subseteq 1..Len(Present), NEW doc \in 1..Len(corpus)
  PROVE  /\ Summed(list, chosen, doc) \in Nat
         /\ SumFunctionOnSet(Gains(doc), chosen) \in Nat
         /\ Summed(list, chosen, doc) <= SumFunctionOnSet(Gains(doc), chosen)
         /\ (\A i \in chosen : Says(doc, Present[i]) => On(list[i].cursor, doc))
               => Summed(list, chosen, doc) = SumFunctionOnSet(Gains(doc), chosen)
         /\ (\A i \in chosen : ~Says(doc, Present[i])) => SumFunctionOnSet(Gains(doc), chosen) = 0
<1>. DEFINE f == [i \in chosen |-> Contribution(list[i], doc)]
            g == Gains(doc)
<1>0. IsFiniteSet(chosen)
  <2>1. IsFiniteSet(1..Len(Present))
    BY PresentIs, FS_Interval
  <2>. QED  BY <2>1, FS_Subset
<1>1. Summed(list, chosen, doc) = SumFunctionOnSet(f, chosen)
  BY DEF Summed, SumFunction
<1>2. ASSUME NEW i \in chosen
      PROVE  /\ f[i] \in Nat /\ g[i] \in Nat /\ f[i] <= g[i]
             /\ (Says(doc, Present[i]) => On(list[i].cursor, doc)) => f[i] = g[i]
             /\ ~Says(doc, Present[i]) => g[i] = 0
  <2>1. i \in 1..Len(Present)
    OBVIOUS
  <2>2. g[i] = (IF Says(doc, Present[i]) THEN Gain(Present[i], doc) ELSE 0) /\ g[i] \in Nat
    BY <2>1, GainsAre DEF GainAt
  <2>3. IF On(list[i].cursor, doc) THEN Says(doc, Present[i]) /\ f[i] = Gain(Present[i], doc) ELSE f[i] = 0
    BY <2>1, ContributionIs
  <2>. HIDE DEF f, g
  <2>. QED  BY <2>2, <2>3
<1>. HIDE DEF f, g
<1>3. /\ SumFunctionOnSet(f, chosen) \in Nat /\ SumFunctionOnSet(g, chosen) \in Nat
      /\ SumFunctionOnSet(f, chosen) <= SumFunctionOnSet(g, chosen)
  BY <1>0, <1>2, SumGrows
<1>4. ASSUME \A i \in chosen : Says(doc, Present[i]) => On(list[i].cursor, doc)
      PROVE  SumFunctionOnSet(f, chosen) = SumFunctionOnSet(g, chosen)
  <2>1. \A i \in chosen : f[i] = g[i]
    BY <1>2, <1>4
  <2>. QED  BY <1>0, <2>1, SumOfSame
<1>5. ASSUME \A i \in chosen : ~Says(doc, Present[i]) PROVE SumFunctionOnSet(g, chosen) = 0
  <2>1. \A i \in chosen : g[i] = 0
    BY <1>2, <1>5
  <2>. QED  BY <1>0, <2>1, SumOfNone
<1>. QED  BY <1>1, <1>3, <1>4, <1>5 DEF g

LEMMA ProductsRise == \A a, x, y \in Nat : x <= y => a * x <= a * y
OBVIOUS

(* With its own statistics, no block promises less than it has.             *)
LEMMA ShareIsCovered ==
  ASSUME Asked, NEW t \in Terms, NEW q \in Nat, q < ListOf(t).count
  PROVE  /\ q \div SkipInterval + 1 \in 1..Len(ListOf(t).blocks)
         /\ Shares(t)[IdsOf(t)[q + 1]] <= ListOf(t).blocks[q \div SkipInterval + 1].bound
         /\ IdsOf(t)[q + 1] \in 1..Len(corpus) /\ Says(IdsOf(t)[q + 1], t)
<1>1. Lists(ListOf(t), IdsOf(t)) /\ BoundsCover(ListOf(t), IdsOf(t), Shares(t))
      /\ \A i \in 1..ListOf(t).count : IdsOf(t)[i] \in Carriers(t)
  BY WordLists DEF Asked
<1>2. ListOf(t).count \in Nat /\ Len(ListOf(t).blocks) = Blocks(ListOf(t).count)
  BY <1>1 DEF Lists
<1>3. q + 1 \in 1..ListOf(t).count /\ q + 1 - 1 = q
  BY <1>2
<1>4. \A i \in 1..ListOf(t).count :
        /\ (i - 1) \div SkipInterval \in Nat /\ (i - 1) \div SkipInterval < Blocks(ListOf(t).count)
        /\ Shares(t)[IdsOf(t)[i]] <= ListOf(t).blocks[(i - 1) \div SkipInterval + 1].bound
  BY <1>1 DEF BoundsCover
<1>5. /\ q \div SkipInterval \in Nat /\ q \div SkipInterval < Blocks(ListOf(t).count)
      /\ Shares(t)[IdsOf(t)[q + 1]] <= ListOf(t).blocks[q \div SkipInterval + 1].bound
  BY <1>3, <1>4
<1>6. Blocks(ListOf(t).count) \in Nat
  BY <1>2, BlocksOf
<1>7. IdsOf(t)[q + 1] \in Carriers(t)
  BY <1>1, <1>3
<1>8. IdsOf(t)[q + 1] \in 1..Len(corpus) /\ Says(IdsOf(t)[q + 1], t)
  BY <1>7, CarriersAre DEF Asked
<1>. DEFINE b == q \div SkipInterval
<1>9. b + 1 \in 1..Len(ListOf(t).blocks)
  <2>. HIDE DEF b
  <2>. QED  BY <1>2, <1>5, <1>6 DEF b
<1>. QED  BY <1>5, <1>8, <1>9

LEMMA GainIsCapped ==
  ASSUME Asked, global = None, NEW i \in 1..Len(Present), NEW id \in 1..Len(corpus)
  PROVE  /\ AuthorityOf(id) * Gains(id)[i] <= Ceilings[i]
         /\ \A q \in Nat : q < ListOf(Present[i]).count /\ IdsOf(Present[i])[q + 1] = id =>
              /\ AuthorityOf(id) * Gains(id)[i]
                   <= IdfOf(Present[i]) * ListOf(Present[i]).blocks[q \div SkipInterval + 1].bound
              /\ ListOf(Present[i]).blocks[q \div SkipInterval + 1].bound \in Nat
<1>. DEFINE t == Present[i]
            idf == IdfOf(t)
            bound(q) == ListOf(t).blocks[q \div SkipInterval + 1].bound
            a == AuthorityOf(id)
<1>1. /\ t \in Terms /\ ListOf(t).count > 0 /\ idf \in Nat /\ Ceilings[i] = CeilingOf(t) /\ Ceilings[i] \in Nat
  BY CeilingsAre
<1>2. a \in Nat /\ a > 0
  BY NormsAre
<1>3. Gains(id)[i] = IF Says(id, t) THEN Gain(t, id) ELSE 0
  BY GainsAre DEF GainAt
<1>4. CASE ~Says(id, t)
  <2>1. a * Gains(id)[i] = 0
    BY <1>2, <1>3, <1>4
  <2>2. ASSUME NEW q \in Nat, q < ListOf(t).count, IdsOf(t)[q + 1] = id PROVE FALSE
    BY <1>1, <1>4, <2>2, ShareIsCovered
  <2>. QED  BY <1>1, <2>1, <2>2
<1>5. CASE Says(id, t)
  <2>1. a * Gains(id)[i] = idf * Shares(t)[id] /\ Shares(t)[id] \in Nat /\ id \in Carriers(t)
    BY <1>1, <1>3, <1>5, GainIs
  <2>2. ASSUME NEW q \in Nat, q < ListOf(t).count, IdsOf(t)[q + 1] = id
        PROVE  /\ a * Gains(id)[i] <= idf * bound(q) /\ bound(q) \in Nat /\ idf * bound(q) <= Ceilings[i]
    <3>1. q \div SkipInterval + 1 \in 1..Len(ListOf(t).blocks) /\ Shares(t)[id] <= bound(q)
      BY <1>1, <2>2, ShareIsCovered
    <3>2. bound(q) \in Nat /\ idf * bound(q) <= CeilingOf(t)
      BY <1>1, <3>1, CeilingIs DEF Asked
    <3>. HIDE DEF bound, idf
    <3>3. idf * Shares(t)[id] <= idf * bound(q)
      BY <1>1, <2>1, <3>1, <3>2, ProductsRise
    <3>. QED  BY <1>1, <2>1, <3>2, <3>3
  <2>3. \E q \in Nat : q < ListOf(t).count /\ IdsOf(t)[q + 1] = id
    <3>1. PICK p \in 1..ListOf(t).count : IdsOf(t)[p] = id
      BY <1>1, <2>1, WordLists DEF Asked
    <3>2. ListOf(t).count \in Nat
      BY <1>1, WordLists DEF Asked, Lists
    <3>3. p - 1 \in Nat /\ p - 1 < ListOf(t).count /\ p - 1 + 1 = p
      BY <3>2
    <3>. QED  BY <3>1, <3>3
  <2>4. PICK q \in Nat : q < ListOf(t).count /\ IdsOf(t)[q + 1] = id
    BY <2>3
  <2>5. a * Gains(id)[i] <= idf * bound(q) /\ bound(q) \in Nat /\ idf * bound(q) <= Ceilings[i]
    BY <2>2, <2>4
  <2>6. a * Gains(id)[i] <= Ceilings[i]
    <3>1. a * Gains(id)[i] \in Nat /\ idf * bound(q) \in Nat
      <4>1. Gains(id)[i] \in Nat
        BY GainsAre
      <4>. HIDE DEF a, idf, bound
      <4>. QED  BY <1>1, <1>2, <2>5, <4>1, Products
    <3>. HIDE DEF a, idf, bound
    <3>. QED  BY <1>1, <2>5, <3>1
  <2>. QED  BY <2>2, <2>6
<1>. QED  BY <1>4, <1>5

-----------------------------------------------------------------------------
(* What the score of a document is made of, and what bounds the parts.      *)

LEMMA SomeWords ==
  ASSUME Asked, NEW S, S \subseteq 1..Len(Present) PROVE IsFiniteSet(S)
<1>1. Len(Present) \in Nat BY PresentIs
<1>2. IsFiniteSet(1..Len(Present)) BY <1>1, FS_Interval
<1> QED BY <1>2, FS_Subset

LEMMA ScoreSplits ==
  ASSUME Asked, NEW id \in 1..Len(corpus), NEW S, NEW T, S \cup T = 1..Len(Present), S \cap T = {}
  PROVE  /\ SumFunctionOnSet(Gains(id), S) \in Nat /\ SumFunctionOnSet(Gains(id), T) \in Nat
         /\ TrueScore(id) = AuthorityOf(id) * SumFunctionOnSet(Gains(id), S) + AuthorityOf(id) * SumFunctionOnSet(Gains(id), T)
         /\ AuthorityOf(id) * SumFunctionOnSet(Gains(id), S) \in Nat
         /\ AuthorityOf(id) * SumFunctionOnSet(Gains(id), T) \in Nat
<1>3. S \subseteq 1..Len(Present) /\ T \subseteq 1..Len(Present) OBVIOUS
<1>4. IsFiniteSet(S) /\ IsFiniteSet(T) BY <1>3, SomeWords
<1>5. \A i \in 1..Len(Present) : Gains(id)[i] \in Nat BY GainsAre
<1>6. \A i \in S : Gains(id)[i] \in Nat BY <1>5, <1>3
<1>7. \A i \in T : Gains(id)[i] \in Nat BY <1>5, <1>3
<1>8. SumFunctionOnSet(Gains(id), S) \in Nat BY <1>4, <1>6, SumIsNatural
<1>9. SumFunctionOnSet(Gains(id), T) \in Nat BY <1>4, <1>7, SumIsNatural
<1>10. \A i \in S \cup T : Gains(id)[i] \in Int BY <1>6, <1>7
<1>11. SumFunctionOnSet(Gains(id), S \cup T) = SumFunctionOnSet(Gains(id), S) + SumFunctionOnSet(Gains(id), T)
  BY <1>4, <1>10, SumOfBoth
<1>12. SumFunctionOnSet(Gains(id), 1..Len(Present)) = SumFunctionOnSet(Gains(id), S) + SumFunctionOnSet(Gains(id), T)
  BY <1>11, Zenon
<1>13. TrueScore(id) = AuthorityOf(id) * SumFunctionOnSet(Gains(id), 1..Len(Present)) BY TrueScoreIs
<1>14. AuthorityOf(id) \in Nat BY NormsAre
<1> DEFINE s == SumFunctionOnSet(Gains(id), S)
           t == SumFunctionOnSet(Gains(id), T)
           a == AuthorityOf(id)
<1>15. TrueScore(id) = a * (s + t) BY <1>12, <1>13, Zenon
<1>16. s \in Nat /\ t \in Nat /\ a \in Nat BY <1>8, <1>9, <1>14
<1> HIDE DEF s, t, a
<1>17. a * (s + t) = a * s + a * t BY <1>16, Scaled
<1>18. a * s \in Nat /\ a * t \in Nat BY <1>16, Products
<1>19. TrueScore(id) = a * s + a * t BY <1>15, <1>17
<1> QED BY <1>16, <1>18, <1>19 DEF s, t, a

(* With its own statistics, no document has more of some words than they    *)
(* promise.                                                                 *)
LEMMA CapOf ==
  ASSUME Asked, global = None, NEW id \in 1..Len(corpus), NEW S, S \subseteq 1..Len(Present)
  PROVE  /\ AuthorityOf(id) * SumFunctionOnSet(Gains(id), S) <= SumFunctionOnSet(Ceilings, S)
         /\ SumFunctionOnSet(Ceilings, S) \in Nat
<1>2. IsFiniteSet(S) BY SomeWords
<1>3. AuthorityOf(id) \in Nat BY NormsAre
<1>4. \A i \in S : Gains(id)[i] \in Nat /\ Ceilings[i] \in Nat BY GainsAre, CeilingsAre
<1>5. \A i \in S : AuthorityOf(id) * Gains(id)[i] <= Ceilings[i] BY GainIsCapped
<1> DEFINE f == Gains(id)
<1>6. \A i \in S : f[i] \in Nat /\ Ceilings[i] \in Nat /\ AuthorityOf(id) * f[i] <= Ceilings[i] BY <1>4, <1>5
<1> HIDE DEF f
<1>7. AuthorityOf(id) * SumFunctionOnSet(f, S) <= SumFunctionOnSet(Ceilings, S) BY <1>2, <1>3, <1>6, SumUnder
<1>8. \A i \in S : Ceilings[i] \in Nat BY <1>4
<1>9. SumFunctionOnSet(Ceilings, S) \in Nat BY <1>2, <1>8, SumIsNatural
<1> QED BY <1>7, <1>9 DEF f

LEMMA LowCap ==
  ASSUME Walks, NEW id \in 1..Len(corpus), NEW k \in 0..Len(Present), BoundsHold \/ k = 0
  PROVE  AuthorityOf(id) * SumFunctionOnSet(Gains(id), Low(k)) <= prefix[k] /\ prefix[k] \in Nat
<1>1. Asked /\ Order BY DEF Walks
<1>2. prefix[k] = SumFunctionOnSet(Ceilings, Low(k)) /\ prefix[k] \in Nat /\ prefix[0] = 0 BY PrefixIs
<1>3. Low(k) \subseteq 1..Len(Present) BY <1>1, LowIs
<1>4. CASE BoundsHold BY <1>1, <1>2, <1>3, <1>4, CapOf DEF BoundsHold
<1>5. CASE k = 0
  <2>1. 0 \in 0..Len(Present) /\ Low(0) = {} BY <1>1, <1>5, LowIs
  <2>2. Low(k) = {} BY <2>1, <1>5
  <2>3. SumFunctionOnSet(Gains(id), {}) = 0 BY SumOfNothing
  <2>4. SumFunctionOnSet(Gains(id), Low(k)) = 0 BY <2>2, <2>3, Zenon
  <2>5. AuthorityOf(id) \in Nat BY <1>1, NormsAre
  <2>6. AuthorityOf(id) * 0 = 0 BY <2>5
  <2>7. AuthorityOf(id) * SumFunctionOnSet(Gains(id), Low(k)) = 0 BY <2>4, <2>6, Zenon
  <2> QED BY <2>7, <1>2
<1> QED BY <1>4, <1>5

(* A document of no other words is worth no more than those promise.        *)
LEMMA OnlyLow ==
  ASSUME Walks, NEW id \in 1..Len(corpus), NEW k \in 0..Len(Present), BoundsHold \/ k = 0,
         \A i \in 1..Len(Present) : Says(id, Present[i]) => i \in Low(k)
  PROVE  TrueScore(id) <= prefix[k]
<1>1. Asked /\ Order BY DEF Walks
<1> DEFINE Rest == (1..Len(Present)) \ Low(k)
<1>2. Low(k) \subseteq 1..Len(Present) BY <1>1, LowIs
<1>3. Low(k) \cup Rest = 1..Len(Present) /\ Low(k) \cap Rest = {} BY <1>2
<1>4. TrueScore(id) = AuthorityOf(id) * SumFunctionOnSet(Gains(id), Low(k)) + AuthorityOf(id) * SumFunctionOnSet(Gains(id), Rest)
  BY <1>1, <1>3, ScoreSplits
<1>5. IsFiniteSet(Rest) BY <1>1, SomeWords
<1>6. \A i \in Rest : Gains(id)[i] = 0 BY <1>1, GainsAre DEF GainAt
<1>7. SumFunctionOnSet(Gains(id), Rest) = 0
  <2> DEFINE f == Gains(id)
             R == Rest
  <2>1. IsFiniteSet(R) /\ \A i \in R : f[i] = 0 BY <1>5, <1>6
  <2> HIDE DEF f, R
  <2>2. SumFunctionOnSet(f, R) = 0 BY <2>1, SumOfNone
  <2> QED BY <2>2 DEF f, R
<1>8. AuthorityOf(id) \in Nat BY <1>1, NormsAre
<1>9. AuthorityOf(id) * SumFunctionOnSet(Gains(id), Low(k)) <= prefix[k] /\ prefix[k] \in Nat BY LowCap
<1>10. AuthorityOf(id) * SumFunctionOnSet(Gains(id), Low(k)) \in Nat BY <1>1, <1>3, ScoreSplits
<1>11. AuthorityOf(id) * SumFunctionOnSet(Gains(id), Rest) = 0
  <2>1. AuthorityOf(id) * 0 = 0 BY <1>8
  <2> QED BY <2>1, <1>7, Zenon
<1> HIDE DEF Rest
<1> QED BY <1>4, <1>9, <1>10, <1>11

LEMMA CeilingsSplit ==
  ASSUME NEW all, IsFiniteSet(all), \A j \in all : Ceilings[j] \in Int, NEW i \in all
  PROVE  SumFunctionOnSet(Ceilings, all) = Ceilings[i] + SumFunctionOnSet(Ceilings, all \ {i})
BY SumTakesAny

(* In a block that promises too little, with what every other word could    *)
(* add, no document is worth more than the threshold.                       *)
LEMMA HopelessBlock ==
  ASSUME Walks, OnWords(terms), IsHeap(heap), NEW i \in 1..Len(Present), Hopeless(i), ~terms[i].cursor.exhausted,
         NEW q \in Nat, q < ListOf(Present[i]).count, q \div SkipInterval = CurrentBlock(terms[i].cursor),
         NEW id, id = IdsOf(Present[i])[q + 1]
  PROVE  id \in 1..Len(corpus) /\ TrueScore(id) <= Threshold
<1>1. Asked /\ Order /\ limit > 0 BY DEF Walks
<1>2. global = None BY DEF Hopeless, BoundsHold
<1>3. Present[i] \in Terms /\ terms[i].idf = IdfOf(Present[i]) /\ terms[i].ceiling = Ceilings[i]
      /\ terms[i].cursor.list = ListOf(Present[i])
  BY <1>1, WordReads
<1>4. id \in 1..Len(corpus) BY <1>1, <1>3, ShareIsCovered
<1> DEFINE one == {i}
           rest == (1..Len(Present)) \ {i}
           a == AuthorityOf(id)
           bound == ListOf(Present[i]).blocks[q \div SkipInterval + 1].bound
<1>5. one \cup rest = 1..Len(Present) /\ one \cap rest = {} OBVIOUS
<1>6. TrueScore(id) = a * SumFunctionOnSet(Gains(id), one) + a * SumFunctionOnSet(Gains(id), rest)
      /\ a * SumFunctionOnSet(Gains(id), rest) \in Nat
  BY <1>1, <1>4, <1>5, ScoreSplits
<1>7. Gains(id)[i] \in Nat BY <1>1, <1>4, GainsAre
<1>8. SumFunctionOnSet(Gains(id), one) = Gains(id)[i]
  <2>1. Gains(id)[i] \in Int BY <1>7
  <2> QED BY <2>1, SumOfOne
<1>9. a * Gains(id)[i] <= IdfOf(Present[i]) * bound BY <1>1, <1>2, <1>4, GainIsCapped
<1>10. a * SumFunctionOnSet(Gains(id), rest) <= SumFunctionOnSet(Ceilings, rest) /\ SumFunctionOnSet(Ceilings, rest) \in Nat
  BY <1>1, <1>2, <1>4, <1>5, CapOf
<1>11. Len(terms) = Len(Present) BY <1>1, LengthIs
<1>12. Len(Present) \in 0..Len(Present) BY <1>1, PresentIs
<1>13. prefix[Len(Present)] = SumFunctionOnSet(Ceilings, Low(Len(Present))) /\ prefix[Len(Present)] \in Nat
  BY <1>12, PrefixIs
<1>14. Low(Len(Present)) = 1..Len(Present) BY <1>1, <1>12, LowIs
<1>15. prefix[Len(Present)] = SumFunctionOnSet(Ceilings, 1..Len(Present)) BY <1>13, <1>14, Zenon
<1>16. IsFiniteSet(1..Len(Present)) BY <1>1, SomeWords
<1>17. \A j \in 1..Len(Present) : Ceilings[j] \in Int BY <1>1, CeilingsAre
<1>18. SumFunctionOnSet(Ceilings, 1..Len(Present)) = Ceilings[i] + SumFunctionOnSet(Ceilings, (1..Len(Present)) \ {i})
  BY <1>16, <1>17, CeilingsSplit
<1>19. terms[i].idf * BlockBound(terms[i].cursor) + (prefix[Len(terms)] - terms[i].ceiling) <= Threshold BY DEF Hopeless
<1>20. BlockBound(terms[i].cursor) = bound BY <1>3 DEF BlockBound
<1>21. IdfOf(Present[i]) * bound + (prefix[Len(Present)] - Ceilings[i]) <= Threshold
  BY <1>3, <1>11, <1>19, <1>20
<1>22. Threshold \in Nat BY <1>1, AskedIs, ThresholdIs
<1>23. a * SumFunctionOnSet(Gains(id), one) <= IdfOf(Present[i]) * bound BY <1>8, <1>9
<1>24. bound \in Nat /\ IdfOf(Present[i]) \in Nat
  <2>1. IdfOf(Present[i]) \in Nat BY <1>1, CeilingsAre
  <2>2. ListOf(Present[i]).blocks[q \div SkipInterval + 1].bound \in Nat BY <1>1, <1>2, <1>4, GainIsCapped
  <2> QED BY <2>1, <2>2
<1>25. IdfOf(Present[i]) * bound \in Nat BY <1>24, Products
<1>26. a * SumFunctionOnSet(Gains(id), one) \in Nat BY <1>1, <1>4, <1>5, ScoreSplits
<1>27. prefix[Len(Present)] = Ceilings[i] + SumFunctionOnSet(Ceilings, rest) BY <1>15, <1>18
<1>28. Ceilings[i] \in Nat BY <1>1, CeilingsAre
<1> HIDE DEF one, rest, a, bound
<1>29. TrueScore(id) <= Threshold BY <1>6, <1>10, <1>21, <1>22, <1>23, <1>25, <1>26, <1>27, <1>28
<1> QED BY <1>4, <1>29

(* What the essential words have of a document and the others could add is  *)
(* too little: so is what it is worth.                                      *)
LEMMA NotScoredEnough ==
  ASSUME Walks, OnWords(terms), IsHeap(heap), NEW list, OnWords(list), NEW id \in 1..Len(corpus),
         \A j \in Essential(NonEssential) : Says(id, Present[j]) => On(list[j].cursor, id),
         ~((prefix[NonEssential] + Summed(list, Essential(NonEssential), id)) * AuthorityOf(id) > Threshold)
  PROVE  TrueScore(id) <= Threshold
<1>1. Asked /\ Order /\ limit > 0 /\ limit \in Nat BY AskedIs DEF Walks
<1> DEFINE split == NonEssential
           low == Low(split)
           high == Essential(split)
           a == AuthorityOf(id)
<1>2. split \in 0..Len(Present) /\ (BoundsHold \/ split = 0) BY SplitIs
<1>3. high = (1..Len(Present)) \ low BY <1>2, EssentialIs
<1>4. low \subseteq 1..Len(Present) BY <1>1, <1>2, LowIs
<1>5. low \cup high = 1..Len(Present) /\ low \cap high = {} /\ high \subseteq 1..Len(Present) BY <1>3, <1>4
<1>6. TrueScore(id) = a * SumFunctionOnSet(Gains(id), low) + a * SumFunctionOnSet(Gains(id), high)
      /\ a * SumFunctionOnSet(Gains(id), low) \in Nat /\ SumFunctionOnSet(Gains(id), high) \in Nat
  BY <1>1, <1>5, ScoreSplits
<1>7. a * SumFunctionOnSet(Gains(id), low) <= prefix[split] /\ prefix[split] \in Nat BY <1>2, LowCap
<1>8. Summed(list, high, id) = SumFunctionOnSet(Gains(id), high) BY <1>1, <1>5, SummedIs
<1>9. a \in Nat /\ a > 0 BY <1>1, NormsAre
<1>10. Threshold \in Nat BY <1>1, ThresholdIs
<1> DEFINE p == prefix[split]
           h == SumFunctionOnSet(Gains(id), high)
           l == a * SumFunctionOnSet(Gains(id), low)
<1>11. ~((p + h) * a > Threshold) BY <1>8
<1>12. TrueScore(id) = l + a * h /\ l <= p /\ p \in Nat /\ l \in Nat /\ h \in Nat BY <1>6, <1>7
<1> HIDE DEF split, low, high, a, p, h, l
<1>13. (p + h) * a = a * p + a * h
  <2>1. a * (p + h) = a * p + a * h BY <1>9, <1>12, Scaled
  <2>2. (p + h) * a = a * (p + h) BY <1>9, <1>12
  <2> QED BY <2>1, <2>2
<1>14. a * p \in Nat /\ a * h \in Nat BY <1>9, <1>12, Products
<1>15. p <= a * p
  <2>1. p * 1 <= p * a BY <1>9, <1>12, ProductsRise
  <2> QED BY <2>1, <1>9, <1>12
<1> QED BY <1>10, <1>11, <1>12, <1>13, <1>14, <1>15

-----------------------------------------------------------------------------
(* The heap: what is kept, and what is let go.                              *)

Record == [score : Nat, doc : Nat]
(* A full heap of better ones.                                              *)
Dominated(h, r) == Cardinality(h) = limit /\ \A s \in h : Worse(r, s)

LEMMA WorseOrders ==
  /\ \A r \in Record : ~Worse(r, r)
  /\ \A r, s, t \in Record : Worse(r, s) /\ Worse(s, t) => Worse(r, t)
  /\ \A r, s \in Record : r = s \/ Worse(r, s) \/ Worse(s, r)
<1>1. \A r \in Record : r.score \in Nat /\ r.doc \in Nat BY DEF Record
<1>2. \A r, s \in Record : r.score = s.score /\ r.doc = s.doc => r = s BY DEF Record
<1>3. \A r \in Record : ~Worse(r, r) BY <1>1 DEF Worse
<1>4. \A r, s, t \in Record : Worse(r, s) /\ Worse(s, t) => Worse(r, t) BY <1>1 DEF Worse
<1>5. \A r, s \in Record : r = s \/ Worse(r, s) \/ Worse(s, r) BY <1>1, <1>2 DEF Worse
<1> QED BY <1>3, <1>4, <1>5

LEMMA WorstIs ==
  ASSUME NEW S, IsHeap(S), S # {}
  PROVE  \E w \in S : \A o \in S \ {w} : Worse(w, o)
<1> DEFINE ahead == [x \in S |-> {y \in S : Worse(y, x)}]
<1>1. IsFiniteSet(S) /\ S \subseteq Record BY DEF IsHeap, Record
<1>2. \A x, y \in S : x \in ahead[y] <=> Worse(x, y) OBVIOUS
<1>3. \A x \in S : ahead[x] \subseteq S OBVIOUS
<1> HIDE DEF ahead
<1>4. \A x \in S : x \notin ahead[x] BY <1>1, <1>2, WorseOrders
<1>5. \A x, y \in S : x \in ahead[y] => ahead[x] \subseteq ahead[y] BY <1>1, <1>2, <1>3, WorseOrders
<1>6. \A x, y \in S : x = y \/ x \in ahead[y] \/ y \in ahead[x] BY <1>1, <1>2, WorseOrders
<1>7. IsAhead(S, ahead) BY <1>3, <1>4, <1>5, <1>6 DEF IsAhead
<1>8. Cardinality(S) \in Nat /\ Cardinality(S) # 0 BY <1>1, FS_CardinalityType, FS_EmptySet
<1>9. 0 \in 0..Cardinality(S) - 1 BY <1>8
<1>10. PICK w \in S : Cardinality(ahead[w]) = 0 BY <1>1, <1>7, <1>9, RanksFill
<1>11. IsFiniteSet(ahead[w]) BY <1>1, <1>3, FS_Subset
<1>12. ahead[w] = {} BY <1>10, <1>11, FS_EmptySet
<1>13. \A o \in S \ {w} : Worse(w, o) BY <1>2, <1>6, <1>12
<1> QED BY <1>13

(* Pushing keeps the best of them.                                          *)
LEMMA PushedIs ==
  ASSUME limit \in Nat, limit > 0, NEW h, IsHeap(h), Cardinality(h) <= limit, NEW r \in Record, r \notin h
  PROVE  /\ IsHeap(Pushed(h, r)) /\ Pushed(h, r) \subseteq h \cup {r} /\ Cardinality(Pushed(h, r)) <= limit
         /\ \A s \in h \cup {r} : s \in Pushed(h, r) \/ Dominated(Pushed(h, r), s)
         /\ \A s \in Record : Dominated(h, s) => Dominated(Pushed(h, r), s)
         /\ Dominated(h, r) => Pushed(h, r) = h
         /\ ThresholdOf(h) <= ThresholdOf(Pushed(h, r))
<1> DEFINE all == h \cup {r}
           p == Pushed(h, r)
<1>1. IsFiniteSet(h) /\ h \subseteq Record BY DEF IsHeap, Record
<1>2. IsFiniteSet(all) /\ all \subseteq Record /\ Cardinality(h) \in Nat /\ Cardinality(all) = Cardinality(h) + 1
  BY <1>1, FS_AddElement, FS_CardinalityType
<1>3. ThresholdOf(h) \in Nat /\ (Cardinality(h) < limit => ThresholdOf(h) = 0)
      /\ (~(Cardinality(h) < limit) => \A s \in h : ThresholdOf(h) <= s.score)
  BY ThresholdOfIs
<1>4. CASE Cardinality(all) <= limit
  <2>1. p = all BY <1>4 DEF Pushed
  <2>2. Cardinality(h) < limit BY <1>2, <1>4
  <2>3. IsHeap(all) BY <1>2 DEF IsHeap, Record
  <2>4. ThresholdOf(all) \in Nat BY <2>3, ThresholdOfIs
  <2>5. \A s : ~Dominated(h, s) BY <2>2, <1>2 DEF Dominated
  <2> HIDE DEF all, p
  <2>6. ThresholdOf(h) <= ThresholdOf(p) BY <1>3, <2>1, <2>2, <2>4
  <2> QED BY <1>4, <2>1, <2>3, <2>5, <2>6 DEF all, p
<1>5. CASE ~(Cardinality(all) <= limit)
  <2> DEFINE w == CHOOSE x \in all : \A o \in all \ {x} : Worse(x, o)
  <2>1. Cardinality(h) = limit BY <1>2, <1>5
  <2>2. IsHeap(all) /\ all # {} BY <1>2 DEF IsHeap, Record
  <2>3. \E x \in all : \A o \in all \ {x} : Worse(x, o)
    <3> HIDE DEF all
    <3> QED BY <2>2, WorstIs
  <2>4. w \in all /\ \A o \in all \ {w} : Worse(w, o)
    <3> HIDE DEF all
    <3> QED BY <2>3
  <2>5. p = all \ {w} BY <1>5 DEF Pushed
  <2> HIDE DEF w
  <2>6. IsFiniteSet(p) /\ Cardinality(p) = limit
    <3>1. Cardinality(all \ {w}) = Cardinality(all) - 1 /\ IsFiniteSet(all \ {w})
      <4> HIDE DEF all
      <4> QED BY <1>2, <2>4, FS_RemoveElement
    <3> QED BY <3>1, <1>2, <2>1, <2>5
  <2>7. IsHeap(p) /\ p \subseteq all
    <3> HIDE DEF p, all
    <3> QED BY <2>5, <2>2, <2>6 DEF IsHeap
  <2>8. \A s \in all : s \in p \/ Dominated(p, s)
    <3> HIDE DEF p, all
    <3> QED BY <2>4, <2>5, <2>6 DEF Dominated
  <2>9. \A s \in Record : Dominated(h, s) => Dominated(p, s)
    <3> SUFFICES ASSUME NEW s \in Record, Dominated(h, s), NEW o \in p PROVE Worse(s, o)
      <4> HIDE DEF p
      <4> QED BY <2>6 DEF Dominated
    <3>1. CASE o \in h BY <3>1 DEF Dominated
    <3>2. CASE o \notin h
      <4>1. o = r /\ o # w /\ w \in h BY <3>2, <2>4, <2>5
      <4>2. Worse(s, w) BY <4>1 DEF Dominated
      <4>3. Worse(w, o) BY <4>1, <2>4
      <4>4. w \in Record /\ o \in Record BY <4>1, <1>1
      <4> QED BY <4>2, <4>3, <4>4, WorseOrders
    <3> QED BY <3>1, <3>2
  <2>10. ASSUME Dominated(h, r) PROVE p = h
    <3>1. \A o \in h : Worse(r, o) BY <2>10 DEF Dominated
    <3>2. CASE w = r BY <3>2, <2>5
    <3>3. CASE w # r
      <4>1. w \in h /\ Worse(w, r) /\ Worse(r, w) BY <3>1, <3>3, <2>4
      <4>2. w \in Record BY <4>1, <1>1
      <4> QED BY <4>1, <4>2, WorseOrders
    <3> QED BY <3>2, <3>3
  <2>11. ThresholdOf(h) <= ThresholdOf(p)
    <3>1. ~(Cardinality(p) < limit) BY <2>6
    <3>2. \E s \in p : ThresholdOf(p) = s.score
      <4> HIDE DEF p
      <4> QED BY <2>7, <3>1, ThresholdOfIs
    <3>3. PICK s \in p : ThresholdOf(p) = s.score BY <3>2
    <3>4. \A o \in h : ThresholdOf(h) <= o.score BY <2>1, <1>3
    <3>5. CASE s \in h BY <3>3, <3>4, <3>5
    <3>6. CASE s \notin h
      <4>1. s = r /\ w \in h /\ Worse(w, s) BY <3>6, <2>4, <2>5
      <4>2. w.score <= s.score /\ w.score \in Nat /\ s.score \in Nat
        <5>1. w \in Record /\ s \in Record BY <4>1, <1>1
        <5>2. w.score \in Nat /\ s.score \in Nat BY <5>1 DEF Record
        <5> QED BY <4>1, <5>2 DEF Worse
      <4>3. ThresholdOf(h) <= w.score BY <4>1, <3>4
      <4> HIDE DEF p
      <4> QED BY <1>3, <3>3, <4>2, <4>3
    <3> QED BY <3>5, <3>6
  <2> HIDE DEF p, all
  <2> QED BY <2>1, <2>6, <2>7, <2>8, <2>9, <2>10, <2>11 DEF p, all
<1> QED BY <1>4, <1>5

(* Of a full heap of documents that came before it, one that is worth no    *)
(* more than the threshold is worse than all.                               *)
LEMMA BelowThreshold ==
  ASSUME limit \in Nat, limit > 0, NEW h, IsHeap(h), Cardinality(h) <= limit, NEW r \in Record,
         r.score > 0, r.score <= ThresholdOf(h), \A s \in h : s.doc < r.doc
  PROVE  Dominated(h, r)
<1>1. ThresholdOf(h) \in Nat /\ Cardinality(h) \in Nat /\ (Cardinality(h) < limit => ThresholdOf(h) = 0)
      /\ (~(Cardinality(h) < limit) => \A s \in h : ThresholdOf(h) <= s.score)
  BY ThresholdOfIs
<1>2. r.score \in Nat BY DEF Record
<1>3. Cardinality(h) = limit /\ \A s \in h : ThresholdOf(h) <= s.score BY <1>1, <1>2
<1>4. \A s \in h : s.score \in Nat /\ s.doc \in Nat BY DEF IsHeap
<1>5. r.doc \in Nat BY DEF Record
<1>6. \A s \in h : Worse(r, s) BY <1>1, <1>2, <1>3, <1>4, <1>5 DEF Worse
<1> QED BY <1>3, <1>6 DEF Dominated

(* What is left when each of them is kept or worse than a full heap.        *)
LEMMA KeptIsBest ==
  ASSUME limit \in Nat, NEW S, IsFiniteSet(S), S \subseteq Record, NEW h, h \subseteq S, Cardinality(h) <= limit,
         \A r \in S : r \in h \/ Dominated(h, r)
  PROVE  h = Best(S)
<1> DEFINE better(r) == {s \in S : Worse(r, s)}
<1>1. IsFiniteSet(h) /\ Cardinality(h) \in Nat BY FS_Subset, FS_CardinalityType
<1>2. ASSUME NEW r \in h PROVE Cardinality(better(r)) < limit
  <2>1. better(r) \subseteq h \ {r}
    <3> SUFFICES ASSUME NEW s \in S, Worse(r, s) PROVE s \in h /\ s # r
      OBVIOUS
    <3>1. s # r BY WorseOrders
    <3>2. ~Worse(s, r) BY WorseOrders
    <3> QED BY <3>1, <3>2 DEF Dominated
  <2>2. IsFiniteSet(h \ {r}) /\ Cardinality(h \ {r}) = Cardinality(h) - 1 BY <1>1, FS_RemoveElement
  <2> HIDE DEF better
  <2>3. Cardinality(better(r)) <= Cardinality(h \ {r}) /\ Cardinality(better(r)) \in Nat
    <3>1. IsFiniteSet(better(r)) BY <2>1, <2>2, FS_Subset
    <3> QED BY <2>1, <2>2, <3>1, FS_Subset, FS_CardinalityType
  <2> QED BY <1>1, <2>2, <2>3
<1>3. ASSUME NEW r \in S, r \notin h PROVE ~(Cardinality(better(r)) < limit)
  <2>1. Cardinality(h) = limit /\ h \subseteq better(r) BY <1>3 DEF Dominated
  <2>2. IsFiniteSet(better(r)) BY FS_Subset
  <2> HIDE DEF better
  <2>3. Cardinality(h) <= Cardinality(better(r)) /\ Cardinality(better(r)) \in Nat BY <2>1, <2>2, FS_Subset, FS_CardinalityType
  <2> QED BY <2>1, <2>3
<1>4. Best(S) = {r \in S : Cardinality(better(r)) < limit} BY DEF Best
<1> HIDE DEF better
<1> QED BY <1>2, <1>3, <1>4

-----------------------------------------------------------------------------
(* Nothing that is wanted is missed.                                        *)

Wants == {d \in 1..Len(corpus) : Wanted(d)}
RecordOf(d) == [score |-> TrueScore(d), doc |-> d]
Ahead(list, d) ==
  \A i \in 1..Len(Present) : NotPast(list[i].cursor, ListOf(Present[i]), IdsOf(Present[i]), d)
AheadOf(drop, d) ==
  \A i \in DOMAIN Dropped : NotPast(drop[i], ListOf(Dropped[i]), IdsOf(Dropped[i]), d)
(* A word that need not be read, for what it and those below it could add.  *)
Spared(i, h) ==
  BoundsHold /\ \E k \in 0..Len(Present) : i \in Low(k) /\ prefix[k] <= ThresholdOf(h)

(* Of the documents up to the last: the best are kept.                      *)
Kept(h, last) ==
  /\ IsHeap(h) /\ Cardinality(h) <= limit
  /\ \A r \in h : \E d \in Wants : d <= last /\ r = RecordOf(d)
  /\ \A d \in Wants : d <= last => RecordOf(d) \in h \/ Dominated(h, RecordOf(d))
(* Of those after it: no cursor has left one behind that could be kept.     *)
NoneMissed(list, h, last) ==
  \A d \in Wants : d > last => Dominated(h, RecordOf(d)) \/ Ahead(list, d)
BeyondLast(list, h, last) ==
  \A i \in 1..Len(Present) : list[i].cursor.exhausted \/ list[i].cursor.doc > last \/ Spared(i, h)
NoneDropped(drop, last) ==
  \A d \in 1..Len(corpus) : d > last => AheadOf(drop, d)
WalkInv(list, drop, h) ==
  \E last \in Nat : /\ Kept(h, last) /\ NoneMissed(list, h, last)
                    /\ BeyondLast(list, h, last) /\ NoneDropped(drop, last)

LEMMA WantsAre ==
  ASSUME Asked, query.phrases = {}
  PROVE  /\ \A d \in Wants : d \in 1..Len(corpus) /\ d \in Nat /\ TrueScore(d) \in Nat /\ TrueScore(d) > 0
                             /\ RecordOf(d) \in Record /\ RecordOf(d).score = TrueScore(d) /\ RecordOf(d).doc = d
         /\ \A d \in 1..Len(corpus) : \A i \in 1..Len(Present) :
              Says(d, Present[i]) => (d \in Wants <=> \A t \in query.excluded : ~Says(d, t))
<1>1. ScoringTerms(query) = query.terms BY DEF ScoringTerms
<1>2. DOMAIN Present = 1..Len(Present) /\ \A i \in DOMAIN Present : Present[i] \in ScoringTerms(query) BY PresentIs
<1>3. \A d : d \in Wants <=> /\ d \in 1..Len(corpus)
                             /\ \E t \in query.terms : Says(d, t)
                             /\ \A t \in query.excluded : ~Says(d, t)
  BY DEF Wants, Wanted
<1>4. ASSUME NEW d \in Wants
      PROVE  d \in 1..Len(corpus) /\ d \in Nat /\ TrueScore(d) \in Nat /\ TrueScore(d) > 0
  <2>1. d \in 1..Len(corpus) /\ \E t \in ScoringTerms(query) : Says(d, t) BY <1>1, <1>3
  <2>2. d \in Nat BY <2>1
  <2> QED BY <2>1, <2>2, TrueScoreIs
<1>5. \A d \in Wants : RecordOf(d) \in Record /\ RecordOf(d).score = TrueScore(d) /\ RecordOf(d).doc = d
  BY <1>4 DEF RecordOf, Record
<1>6. \A d \in 1..Len(corpus) : \A i \in 1..Len(Present) :
              Says(d, Present[i]) => (d \in Wants <=> \A t \in query.excluded : ~Says(d, t))
  BY <1>1, <1>2, <1>3
<1> QED BY <1>4, <1>5, <1>6

LEMMA OnIsCarried ==
  ASSUME NEW list, NEW ids, Lists(list, ids), NEW c, Reads(c, list, ids), NEW doc, On(c, doc)
  PROVE  \E p \in 1..list.count : ids[p] = doc
<1>1. /\ ~c.exhausted /\ c.doc = doc /\ Passed(c) \in 0..list.count /\ Passed(c) < list.count
      /\ c.doc = ids[Passed(c) + 1] /\ list.count \in Nat
  BY ReadsIs DEF On
<1> DEFINE p == Passed(c) + 1
<1>2. p \in 1..list.count BY <1>1
<1>3. ids[p] = doc BY <1>1
<1> QED BY <1>2, <1>3

(* Seeking a document that is ahead finds it.                               *)
LEMMA SoughtIsOn ==
  ASSUME NEW list, NEW ids, Lists(list, ids), NEW c, Reads(c, list, ids), NEW doc \in Nat,
         NotPast(c, list, ids, doc), NEW p \in 1..list.count, ids[p] = doc
  PROVE  On(Sought(c, doc), doc)
<1> DEFINE s == Sought(c, doc)
<1>1. Finds(c, s, list, ids, doc) BY SoughtFinds
<1> HIDE DEF s
<1>2. Reads(s, list, ids) /\ (s.exhausted \/ s.doc >= doc) BY <1>1 DEF Finds
<1>3. \A q \in Nat : Passed(c) <= q /\ q < Passed(s) => ids[q + 1] < doc BY <1>1 DEF Finds
<1>4. Passed(c) \in Int /\ Passed(s) \in Int
  <2>1. Passed(c) \in 0..list.count BY ReadsIs
  <2>2. Passed(s) \in 0..list.count BY <1>2, ReadsIs
  <2> QED BY <2>1, <2>2
<1>5. NotPast(s, list, ids, doc)
  <2> SUFFICES ASSUME NEW q \in Nat, q < list.count, ids[q + 1] = doc PROVE Passed(s) <= q
    BY DEF NotPast
  <2>1. Passed(c) <= q BY DEF NotPast
  <2>2. ~(ids[q + 1] < doc) OBVIOUS
  <2> QED BY <1>3, <1>4, <2>1, <2>2
<1>6. ~s.exhausted /\ (s.doc >= doc => On(s, doc)) BY <1>2, <1>5, AheadIsOn
<1>7. On(s, doc) BY <1>2, <1>6
<1> QED BY <1>7 DEF s

LEMMA CarriedIsSaid ==
  ASSUME corpus \in Corpora, segments = <<Encoded(Whole)>>, NEW t \in Terms, NEW d
  PROVE  d \in 1..Len(corpus) /\ Says(d, t) <=> \E p \in 1..ListOf(t).count : IdsOf(t)[p] = d
<1>1. \A id : id \in Carriers(t) <=> id \in 1..Len(corpus) /\ Says(id, t) BY CarriersAre
<1>2. \A i \in 1..ListOf(t).count : IdsOf(t)[i] \in Carriers(t) BY WordLists
<1>3. \A id \in Carriers(t) : \E i \in 1..ListOf(t).count : IdsOf(t)[i] = id BY WordLists
<1> QED BY <1>1, <1>2, <1>3

(* The excluded words are sought: one is on the document if it says one.    *)
LEMMA DroppingIs ==
  ASSUME Asked, OnDropped(excluded), NEW doc \in 1..Len(corpus), AheadOf(excluded, doc)
  PROVE  Dropping(doc) = {} <=> \A t \in query.excluded : ~Says(doc, t)
<1>1. DOMAIN excluded = DOMAIN Dropped BY DEF OnDropped
<1>2. doc \in Nat OBVIOUS
<1>3. corpus \in Corpora /\ segments = <<Encoded(Whole)>> BY DEF Asked
<1>4. ASSUME NEW i \in DOMAIN Dropped PROVE On(Sought(excluded[i], doc), doc) <=> Says(doc, Dropped[i])
  <2> DEFINE list == ListOf(Dropped[i])
             ids == IdsOf(Dropped[i])
  <2>1. Dropped[i] \in Terms /\ Lists(list, ids) /\ Reads(excluded[i], list, ids) BY DroppedReads
  <2>2. NotPast(excluded[i], list, ids, doc) BY DEF AheadOf
  <2>3. Says(doc, Dropped[i]) <=> \E p \in 1..list.count : ids[p] = doc BY <1>3, <2>1, CarriedIsSaid
  <2> HIDE DEF list, ids
  <2>4. Reads(Sought(excluded[i], doc), list, ids) BY <1>2, <2>1, SoughtFinds DEF Finds
  <2>5. ASSUME On(Sought(excluded[i], doc), doc) PROVE Says(doc, Dropped[i]) BY <2>1, <2>3, <2>4, <2>5, OnIsCarried
  <2>6. ASSUME Says(doc, Dropped[i]) PROVE On(Sought(excluded[i], doc), doc)
    <3>1. PICK p \in 1..list.count : ids[p] = doc BY <2>3, <2>6
    <3> QED BY <1>2, <2>1, <2>2, <3>1, SoughtIsOn
  <2> QED BY <2>5, <2>6
<1>5. \A i \in DOMAIN Dropped : Dropped[i] \in query.excluded BY DroppedIs
<1>6. \A t \in query.excluded : \E i \in DOMAIN Dropped : Dropped[i] = t BY DroppedIs
<1>7. Dropping(doc) = {i \in DOMAIN Dropped : On(Sought(excluded[i], doc), doc)} BY <1>1 DEF Dropping
<1> QED BY <1>4, <1>5, <1>6, <1>7

(* A word of a document that is ahead: its cursor is on it or before it.    *)
LEMMA SaidIsAhead ==
  ASSUME Asked, NEW list, OnWords(list), NEW i \in 1..Len(Present), NEW d \in 1..Len(corpus),
         Says(d, Present[i]), NotPast(list[i].cursor, ListOf(Present[i]), IdsOf(Present[i]), d)
  PROVE  /\ ~list[i].cursor.exhausted /\ list[i].cursor.doc <= d
         /\ list[i].cursor.doc >= d => On(list[i].cursor, d)
<1>1. corpus \in Corpora /\ segments = <<Encoded(Whole)>> BY DEF Asked
<1>2. Present[i] \in Terms /\ Lists(ListOf(Present[i]), IdsOf(Present[i]))
      /\ Reads(list[i].cursor, ListOf(Present[i]), IdsOf(Present[i]))
  BY WordReads
<1>3. PICK p \in 1..ListOf(Present[i]).count : IdsOf(Present[i])[p] = d BY <1>1, <1>2, CarriedIsSaid
<1> QED BY <1>2, <1>3, AheadIsOn

(* What lies before where the walk is, or after its end, has only words     *)
(* that promise too little.                                                 *)
LEMMA BehindIsLow ==
  ASSUME Walks, OnWords(terms), IsHeap(heap), NEW d \in 1..Len(corpus), Ahead(terms, d),
         Walking(NonEssential) = {} \/ d < Current(NonEssential)
  PROVE  TrueScore(d) <= Threshold
<1>1. Asked /\ Order /\ limit > 0 /\ limit \in Nat BY AskedIs DEF Walks
<1> DEFINE split == NonEssential
<1>2. split \in 0..Len(Present) /\ (BoundsHold \/ split = 0) /\ prefix[split] <= Threshold BY SplitIs
<1>3. Essential(split) = (1..Len(Present)) \ Low(split) BY <1>2, EssentialIs
<1>4. ASSUME NEW i \in 1..Len(Present), Says(d, Present[i]), i \notin Low(split) PROVE FALSE
  <2>1. i \in Essential(split) BY <1>3, <1>4
  <2>2. NotPast(terms[i].cursor, ListOf(Present[i]), IdsOf(Present[i]), d) BY DEF Ahead
  <2>3. ~terms[i].cursor.exhausted /\ terms[i].cursor.doc <= d BY <1>1, <1>4, <2>2, SaidIsAhead
  <2>4. i \in Walking(split) BY <1>2, <2>1, <2>3, WalkingIs
  <2>5. Current(split) <= terms[i].cursor.doc /\ Current(split) \in Nat BY <1>2, <2>4, CurrentIs
  <2>6. terms[i].cursor.doc \in Nat BY <1>1, WordReads
  <2> QED BY <2>3, <2>4, <2>5, <2>6
<1>5. TrueScore(d) <= prefix[split] BY <1>2, <1>4, OnlyLow
<1>6. TrueScore(d) \in Nat BY <1>1, TrueScoreIs
<1>7. prefix[split] \in Nat BY <1>2, PrefixIs
<1>8. Threshold \in Nat BY <1>1, ThresholdIs
<1> HIDE DEF split
<1> QED BY <1>2, <1>5, <1>6, <1>7, <1>8

(* A cursor further on is on a later document, or spent.                    *)
LEMMA FurtherOn ==
  ASSUME NEW list, NEW ids, Lists(list, ids), NEW c, Reads(c, list, ids), NEW r, Reads(r, list, ids), Passed(c) <= Passed(r)
  PROVE  r.exhausted \/ (~c.exhausted /\ c.doc <= r.doc)
<1> SUFFICES ASSUME ~r.exhausted PROVE ~c.exhausted /\ c.doc <= r.doc OBVIOUS
<1>1. Passed(r) < list.count /\ r.doc = ids[Passed(r) + 1] /\ Passed(r) \in 0..list.count /\ list.count \in Nat /\ r.doc \in Nat
  BY ReadsIs
<1>2. c.exhausted => Passed(c) = list.count BY ReadsIs
<1>3. ~c.exhausted BY <1>1, <1>2
<1>4. Passed(c) < list.count /\ c.doc = ids[Passed(c) + 1] /\ Passed(c) \in 0..list.count BY <1>3, ReadsIs
<1>5. CASE Passed(c) = Passed(r) BY <1>1, <1>3, <1>4, <1>5
<1>6. CASE Passed(c) # Passed(r)
  <2>1. Passed(c) < Passed(r) BY <1>1, <1>4, <1>6
  <2>2. Passed(c) \in Nat /\ Passed(r) \in Nat BY <1>1, <1>4
  <2>3. ids[Passed(c) + 1] < ids[Passed(r) + 1] BY <1>1, <2>1, <2>2, RisingIds
  <2>4. c.doc \in Nat BY ReadsIs
  <2> QED BY <1>1, <1>3, <1>4, <2>3, <2>4
<1> QED BY <1>5, <1>6

LEMMA DominatedBelow ==
  ASSUME Asked, limit > 0, query.phrases = {}, NEW last \in Nat, NEW h, Kept(h, last), NEW d \in Wants, d > last,
         TrueScore(d) <= ThresholdOf(h)
  PROVE  Dominated(h, RecordOf(d))
<1>1. limit \in Nat BY AskedIs
<1>2. IsHeap(h) /\ Cardinality(h) <= limit BY DEF Kept
<1>3. RecordOf(d) \in Record /\ RecordOf(d).score = TrueScore(d) /\ RecordOf(d).doc = d /\ d \in Nat /\ TrueScore(d) > 0
  BY WantsAre
<1>4. ASSUME NEW s \in h PROVE s.doc < d
  <2>1. PICK e \in Wants : e <= last /\ s = RecordOf(e) BY DEF Kept
  <2>2. s.doc = e /\ e \in Nat BY <2>1, WantsAre
  <2> QED BY <1>3, <2>1, <2>2
<1> QED BY <1>1, <1>2, <1>3, <1>4, BelowThreshold

(* Leaving out a hopeless block misses nothing that could be kept.          *)
LEMMA HereMisses ==
  ASSUME Walks, OnWords(terms), query.phrases = {}, NEW last \in Nat, Kept(heap, last), NoneMissed(terms, heap, last),
         NEW i \in 1..Len(Present), NEW doc, On(terms[i].cursor, doc), NEW here, HereIs(i, here)
  PROVE  NoneMissed(here, heap, last)
<1>1. Asked /\ limit > 0 BY DEF Walks
<1>2. CASE ~Hopeless(i) BY <1>2 DEF HereIs
<1>3. CASE Hopeless(i)
  <2> DEFINE list == ListOf(Present[i])
             ids == IdsOf(Present[i])
             c == terms[i].cursor
  <2>1. /\ OnWords(here)
        /\ \A j \in 1..Len(Present) : j # i => here[j] = terms[j]
        /\ here[i].cursor = SkippedBlock(c)
    BY <1>3, HereReads
  <2>2. Lists(list, ids) /\ Reads(c, list, ids) BY <1>1, WordReads
  <2>3. ~c.exhausted BY DEF On
  <2>4. \A q \in Nat : Passed(c) <= q /\ q < Passed(SkippedBlock(c)) => q \div SkipInterval = CurrentBlock(c)
    <3> HIDE DEF list, ids, c
    <3> QED BY <2>2, <2>3, SkippedOnward
  <2>5. Passed(c) \in Int /\ Passed(SkippedBlock(c)) \in Int
    <3> HIDE DEF list, ids, c
    <3>1. Reads(SkippedBlock(c), list, ids) BY <2>2, <2>3, SkippedOnward
    <3>2. Passed(c) \in 0..list.count BY <2>2, ReadsIs
    <3>3. Passed(SkippedBlock(c)) \in 0..list.count BY <2>2, <3>1, ReadsIs
    <3> QED BY <3>2, <3>3
  <2>6. IsHeap(heap) BY DEF Kept
  <2>7. Threshold = ThresholdOf(heap) BY DEF Threshold, ThresholdOf
  <2> SUFFICES ASSUME NEW d \in Wants, d > last, ~Dominated(heap, RecordOf(d)) PROVE Ahead(here, d)
    BY DEF NoneMissed
  <2>8. Ahead(terms, d) BY DEF NoneMissed
  <2>9. NotPast(here[i].cursor, list, ids, d)
    <3> SUFFICES ASSUME NEW q \in Nat, q < list.count, ids[q + 1] = d PROVE Passed(SkippedBlock(c)) <= q
      BY <2>1 DEF NotPast
    <3>1. Passed(c) <= q BY <2>8 DEF Ahead, NotPast
    <3>2. ASSUME q < Passed(SkippedBlock(c)) PROVE FALSE
      <4>1. q \div SkipInterval = CurrentBlock(c) BY <2>4, <3>1, <3>2
      <4>2. TrueScore(d) <= Threshold BY <1>3, <2>3, <2>6, <4>1, HopelessBlock
      <4>3. Dominated(heap, RecordOf(d)) BY <1>1, <2>7, <4>2, DominatedBelow
      <4> QED BY <4>3
    <3> QED BY <2>5, <3>2
  <2>10. ASSUME NEW j \in 1..Len(Present) PROVE NotPast(here[j].cursor, ListOf(Present[j]), IdsOf(Present[j]), d)
    <3>1. CASE j = i BY <2>9, <3>1
    <3>2. CASE j # i BY <2>1, <2>8, <3>2 DEF Ahead
    <3> QED BY <3>1, <3>2
  <2> QED BY <2>10 DEF Ahead
<1> QED BY <1>2, <1>3

(* The cursors are on what they were on before, or further on.              *)
LEMMA HereFurther ==
  ASSUME Walks, OnWords(terms), NEW i \in 1..Len(Present), NEW doc, On(terms[i].cursor, doc), NEW here, HereIs(i, here),
         NEW j \in 1..Len(Present)
  PROVE  here[j].cursor.exhausted \/ (~terms[j].cursor.exhausted /\ terms[j].cursor.doc <= here[j].cursor.doc)
<1>1. Asked BY DEF Walks
<1> DEFINE list == ListOf(Present[j])
           ids == IdsOf(Present[j])
<1>2. Lists(list, ids) /\ Reads(terms[j].cursor, list, ids) /\ terms[j].cursor.doc \in Nat BY <1>1, WordReads
<1>3. CASE here[j] = terms[j] BY <1>2, <1>3
<1>4. CASE here[j] # terms[j]
  <2>1. j = i /\ Hopeless(i)
    <3>1. j = i BY <1>4, HereReads
    <3>2. here # terms BY <1>4
    <3> QED BY <3>1, <3>2 DEF HereIs
  <2>2. OnWords(here) /\ Passed(terms[j].cursor) < Passed(here[j].cursor) BY <2>1, HereReads
  <2>3. Reads(here[j].cursor, list, ids) BY <1>1, <2>2, WordReads
  <2> HIDE DEF list, ids
  <2>4. Passed(terms[j].cursor) <= Passed(here[j].cursor)
    <3>1. Passed(terms[j].cursor) \in 0..list.count BY <1>2, ReadsIs
    <3>2. Passed(here[j].cursor) \in 0..list.count BY <1>2, <2>3, ReadsIs
    <3> QED BY <2>2, <3>1, <3>2
  <2> QED BY <1>2, <2>3, <2>4, FurtherOn
<1> QED BY <1>3, <1>4

LEMMA SkipKeeps ==
  ASSUME Walks, OnWords(terms), query.phrases = {}, WalkInv(terms, excluded, heap),
         NEW i \in 1..Len(Present), NEW doc, On(terms[i].cursor, doc), NEW here, HereIs(i, here)
  PROVE  WalkInv(here, excluded, heap)
<1>1. PICK last \in Nat : /\ Kept(heap, last) /\ NoneMissed(terms, heap, last)
                          /\ BeyondLast(terms, heap, last) /\ NoneDropped(excluded, last)
  BY DEF WalkInv
<1>2. NoneMissed(here, heap, last) BY <1>1, HereMisses
<1>3. Asked BY DEF Walks
<1>4. ASSUME NEW j \in 1..Len(Present), ~here[j].cursor.exhausted, ~Spared(j, heap) PROVE here[j].cursor.doc > last
  <2>1. ~terms[j].cursor.exhausted /\ terms[j].cursor.doc <= here[j].cursor.doc BY <1>4, HereFurther
  <2>2. terms[j].cursor.doc > last BY <1>1, <1>4, <2>1 DEF BeyondLast
  <2>3. OnWords(here) BY HereReads
  <2>4. terms[j].cursor.doc \in Nat /\ here[j].cursor.doc \in Nat
    <3>1. terms[j].cursor.doc \in Nat BY <1>3, WordReads
    <3>2. here[j].cursor.doc \in Nat BY <1>3, <2>3, WordReads
    <3> QED BY <3>1, <3>2
  <2> QED BY <2>1, <2>2, <2>4
<1>5. BeyondLast(here, heap, last) BY <1>4 DEF BeyondLast
<1> QED BY <1>1, <1>2, <1>5 DEF WalkInv

(* A document is considered where the walk is: after the last, and on the   *)
(* cursor that is first.                                                    *)
Stage(last, doc, i, here) ==
  /\ Walks /\ OnWords(terms) /\ OnDropped(excluded) /\ query.phrases = {}
  /\ last \in Nat /\ Kept(heap, last) /\ NoneMissed(terms, heap, last)
  /\ BeyondLast(terms, heap, last) /\ NoneDropped(excluded, last)
  /\ Walking(NonEssential) # {} /\ doc = Current(NonEssential) /\ i = At(NonEssential, doc)
  /\ HereIs(i, here)

LEMMA StageIs ==
  ASSUME NEW last, NEW doc, NEW i, NEW here, Stage(last, doc, i, here)
  PROVE  /\ Asked /\ Order /\ limit > 0 /\ limit \in Nat /\ IsHeap(heap) /\ Cardinality(heap) <= limit
         /\ Threshold = ThresholdOf(heap) /\ NonEssential \in 0..Len(Present) /\ prefix[NonEssential] <= Threshold
         /\ BoundsHold \/ NonEssential = 0
         /\ doc \in 1..Len(corpus) /\ last < doc /\ last \in Nat
         /\ i \in 1..Len(Present) /\ i \in Essential(NonEssential) /\ On(terms[i].cursor, doc) /\ Says(doc, Present[i])
         /\ OnWords(here) /\ NoneMissed(here, heap, last)
         /\ \A j \in Essential(NonEssential) : ~here[j].cursor.exhausted => here[j].cursor.doc >= doc
         /\ \A j \in 1..Len(Present) : here[j].cursor.doc \in Nat
<1>0. Walks /\ OnWords(terms) /\ query.phrases = {} /\ last \in Nat /\ Kept(heap, last) /\ NoneMissed(terms, heap, last)
      /\ BeyondLast(terms, heap, last) /\ doc = Current(NonEssential) /\ HereIs(i, here) /\ Walking(NonEssential) # {}
      /\ i = At(NonEssential, doc)
  BY DEF Stage
<1>1. Asked /\ Order /\ limit > 0 /\ limit \in Nat /\ IsHeap(heap) /\ Cardinality(heap) <= limit
  BY <1>0, AskedIs DEF Walks, Kept
<1>2. Threshold = ThresholdOf(heap) BY DEF Threshold, ThresholdOf
<1>3. NonEssential \in 0..Len(Present) /\ prefix[NonEssential] <= Threshold /\ (BoundsHold \/ NonEssential = 0)
      /\ (BoundsHold => \A k \in 0..Len(Present) : prefix[k] <= Threshold => k <= NonEssential)
  BY <1>0, <1>1, SplitIs
<1>4. /\ doc \in Nat
      /\ \A j \in Walking(NonEssential) : doc <= terms[j].cursor.doc
      /\ \E j \in Walking(NonEssential) : On(terms[j].cursor, doc)
  BY <1>0, <1>3, CurrentIs
<1>5. i \in Essential(NonEssential) /\ On(terms[i].cursor, doc) /\ i \in 1..Len(Present) BY <1>0, <1>3, <1>4, AtIs
<1>6. doc \in 1..Len(corpus) /\ Says(doc, Present[i]) BY <1>0, <1>1, <1>5, ContributionIs
<1>7. OnWords(here) BY <1>0, <1>5, HereReads
<1>8. NoneMissed(here, heap, last) BY <1>0, <1>5, HereMisses
<1>9. \A j \in 1..Len(Present) : here[j].cursor.doc \in Nat /\ terms[j].cursor.doc \in Nat BY <1>0, <1>1, <1>7, WordReads
<1>10. Essential(NonEssential) \subseteq 1..Len(Present)
       /\ \A j \in Essential(NonEssential) : j \in Walking(NonEssential) <=> ~terms[j].cursor.exhausted
  BY <1>0, <1>3, WalkingIs
<1>11. ASSUME NEW j \in Essential(NonEssential), ~here[j].cursor.exhausted PROVE here[j].cursor.doc >= doc
  <2>1. j \in 1..Len(Present) BY <1>10
  <2>2. ~terms[j].cursor.exhausted /\ terms[j].cursor.doc <= here[j].cursor.doc BY <1>0, <1>5, <1>11, <2>1, HereFurther
  <2>3. doc <= terms[j].cursor.doc BY <1>4, <1>10, <2>2
  <2> QED BY <1>4, <1>9, <2>1, <2>2, <2>3
<1>12. Essential(NonEssential) = (1..Len(Present)) \ Low(NonEssential) BY <1>0, <1>3, EssentialIs
<1>13. ~Spared(i, heap)
  <2> SUFFICES ASSUME BoundsHold, NEW k \in 0..Len(Present), i \in Low(k), prefix[k] <= ThresholdOf(heap) PROVE FALSE
    BY DEF Spared
  <2>1. k <= NonEssential BY <1>2, <1>3
  <2>2. i \in Low(NonEssential) BY <1>3, <2>1 DEF Low
  <2> QED BY <1>5, <1>12, <2>2
<1>14. last < doc
  <2>1. ~terms[i].cursor.exhausted /\ terms[i].cursor.doc = doc BY <1>5 DEF On
  <2>2. terms[i].cursor.doc > last BY <1>0, <1>5, <1>13, <2>1 DEF BeyondLast
  <2> QED BY <1>0, <1>4, <2>1, <2>2
<1> QED BY <1>0, <1>1, <1>2, <1>3, <1>5, <1>6, <1>7, <1>8, <1>9, <1>11, <1>14

(* With no cursor past the document, its score is the true one, and short   *)
(* of it otherwise.                                                         *)
LEMMA LookedUpSums ==
  ASSUME NEW last, NEW doc, NEW i, NEW here, Stage(last, doc, i, here),
         NEW looked, looked = LookedUp(NonEssential, here, doc)
  PROVE  LET score == Summed(looked, DOMAIN looked, doc) * AuthorityOf(doc)
         IN /\ score \in Nat /\ score <= TrueScore(doc)
            /\ Ahead(here, doc) => score = TrueScore(doc)
<1> DEFINE n == Len(Present)
           a == AuthorityOf(doc)
           s == Summed(looked, DOMAIN looked, doc)
           g == SumFunctionOnSet(Gains(doc), 1..n)
<1>1. Asked /\ doc \in 1..Len(corpus) /\ doc \in Nat /\ OnWords(here) BY StageIs
<1>2. /\ OnWords(looked)
      /\ \A j \in 1..n : j \in Essential(NonEssential) => looked[j] = here[j]
      /\ \A j \in 1..n : j \notin Essential(NonEssential) => looked[j].cursor = Sought(here[j].cursor, doc)
  <2> DEFINE split == NonEssential
  <2>0. looked = LookedUp(split, here, doc) OBVIOUS
  <2> HIDE DEF split
  <2>1. OnWords(LookedUp(split, here, doc)) BY <1>1, LookedUpReads
  <2>2. \A j \in 1..n : j \in Essential(split) => LookedUp(split, here, doc)[j] = here[j] BY <1>1, LookedUpReads
  <2>3. \A j \in 1..n : j \notin Essential(split) => LookedUp(split, here, doc)[j].cursor = Sought(here[j].cursor, doc)
    BY <1>1, LookedUpReads
  <2> QED BY <2>0, <2>1, <2>2, <2>3 DEF split
<1>3. DOMAIN looked = 1..n BY <1>1, <1>2, LengthIs
<1>4. a \in Nat BY <1>1, NormsAre
<1>5. s = Summed(looked, 1..n, doc) BY <1>3
<1>6. s \in Nat /\ g \in Nat /\ s <= g /\ ((\A j \in 1..n : Says(doc, Present[j]) => On(looked[j].cursor, doc)) => s = g)
  <2> HIDE DEF s, g
  <2>1. 1..n \subseteq 1..Len(Present) OBVIOUS
  <2> QED BY <1>1, <1>2, <1>5, <2>1, SummedIs DEF g
<1>7. TrueScore(doc) = a * g BY <1>1, TrueScoreIs
<1>8. ASSUME Ahead(here, doc) PROVE s = g
  <2> SUFFICES ASSUME NEW j \in 1..n, Says(doc, Present[j]) PROVE On(looked[j].cursor, doc)
    BY <1>6
  <2> DEFINE list == ListOf(Present[j])
             ids == IdsOf(Present[j])
  <2>1. Present[j] \in Terms /\ Lists(list, ids) /\ Reads(here[j].cursor, list, ids) BY <1>1, WordReads
  <2>2. NotPast(here[j].cursor, list, ids, doc) BY <1>8 DEF Ahead
  <2>3. CASE j \in Essential(NonEssential)
    <3>1. ~here[j].cursor.exhausted /\ (here[j].cursor.doc >= doc => On(here[j].cursor, doc)) BY <1>1, <2>2, SaidIsAhead
    <3>2. here[j].cursor.doc >= doc BY <2>3, <3>1, StageIs
    <3> QED BY <1>2, <2>3, <3>1, <3>2
  <2>4. CASE j \notin Essential(NonEssential)
    <3>1. corpus \in Corpora /\ segments = <<Encoded(Whole)>> BY <1>1 DEF Asked
    <3>2. \E p \in 1..list.count : ids[p] = doc BY <1>1, <2>1, <3>1, CarriedIsSaid
    <3> HIDE DEF list, ids
    <3>3. On(Sought(here[j].cursor, doc), doc) BY <1>1, <2>1, <2>2, <3>2, SoughtIsOn
    <3> QED BY <1>2, <2>4, <3>3
  <2> QED BY <2>3, <2>4
<1> HIDE DEF s, g, a
<1>9. s * a = a * s /\ a * s \in Nat /\ a * s <= a * g BY <1>4, <1>6, Products, ProductsRise
<1> QED BY <1>7, <1>8, <1>9 DEF s, a

(* What considering a document does to the heap: it is pushed if it is      *)
(* wanted, or is not good enough.                                           *)
LEMMA ConsideredHeap ==
  ASSUME NEW last, NEW doc, NEW i, NEW here, Stage(last, doc, i, here),
         NEW h, h = Considered(NonEssential, here, doc).heap
  PROVE  \/ h = heap /\ (doc \in Wants => Dominated(heap, RecordOf(doc)))
         \/ h = Pushed(heap, RecordOf(doc)) /\ doc \in Wants
<1> DEFINE split == NonEssential
           looked == LookedUp(split, here, doc)
           a == AuthorityOf(doc)
           score == Summed(looked, DOMAIN looked, doc) * a
           r == [score |-> score, doc |-> doc]
<1>1. /\ Asked /\ limit > 0 /\ limit \in Nat /\ IsHeap(heap) /\ Cardinality(heap) <= limit
      /\ doc \in 1..Len(corpus) /\ doc \in Nat /\ last < doc /\ last \in Nat
      /\ i \in 1..Len(Present) /\ Says(doc, Present[i])
      /\ Threshold = ThresholdOf(heap)
  BY StageIs
<1>2. /\ Walks /\ OnWords(terms) /\ OnDropped(excluded) /\ query.phrases = {}
      /\ Kept(heap, last) /\ NoneDropped(excluded, last)
  BY DEF Stage
<1>3. doc \in Wants <=> Dropping(doc) = {}
  <2>1. AheadOf(excluded, doc) BY <1>1, <1>2 DEF NoneDropped
  <2>2. Dropping(doc) = {} <=> \A t \in query.excluded : ~Says(doc, t) BY <1>1, <1>2, <2>1, DroppingIs
  <2>3. doc \in Wants <=> \A t \in query.excluded : ~Says(doc, t) BY <1>1, <1>2, WantsAre
  <2> QED BY <2>2, <2>3
<1>4. doc \in Wants => Dominated(heap, RecordOf(doc)) \/ Ahead(here, doc)
  <2>1. NoneMissed(here, heap, last) BY StageIs
  <2> QED BY <1>1, <2>1 DEF NoneMissed
<1>5. CASE ~Scored(split, here, doc)
  <2>1. h = heap BY <1>5 DEF Considered
  <2> SUFFICES ASSUME doc \in Wants, Ahead(here, doc) PROVE Dominated(heap, RecordOf(doc))
    BY <2>1, <1>4
  <2>2. ~((prefix[split] + Summed(here, Essential(split), doc)) * AuthorityOf(doc) > Threshold)
    BY <1>3, <1>5 DEF Scored
  <2>3. ASSUME NEW j \in Essential(split), Says(doc, Present[j]) PROVE On(here[j].cursor, doc)
    <3>1. OnWords(here) /\ split \in 0..Len(Present) BY StageIs
    <3>2. j \in 1..Len(Present) BY <1>2, <3>1, WalkingIs
    <3>3. NotPast(here[j].cursor, ListOf(Present[j]), IdsOf(Present[j]), doc) BY <3>2 DEF Ahead
    <3>4. ~here[j].cursor.exhausted /\ (here[j].cursor.doc >= doc => On(here[j].cursor, doc))
      BY <1>1, <2>3, <3>1, <3>2, <3>3, SaidIsAhead
    <3>5. here[j].cursor.doc >= doc BY <2>3, <3>4, StageIs
    <3> QED BY <3>4, <3>5
  <2>4. OnWords(here) BY StageIs
  <2>5. TrueScore(doc) <= Threshold BY <1>1, <1>2, <2>2, <2>3, <2>4, NotScoredEnough
  <2> QED BY <1>1, <1>2, <2>5, DominatedBelow
<1>6. CASE Scored(split, here, doc)
  <2>1. h = Pushed(heap, r) BY <1>6 DEF Considered
  <2>2. doc \in Wants BY <1>3, <1>6 DEF Scored
  <2>3. score \in Nat /\ score <= TrueScore(doc) /\ (Ahead(here, doc) => score = TrueScore(doc)) BY LookedUpSums
  <2>4. RecordOf(doc) \in Record /\ RecordOf(doc).score = TrueScore(doc) /\ RecordOf(doc).doc = doc
    BY <1>1, <1>2, <2>2, WantsAre
  <2>5. r \in Record /\ r.score = score /\ r.doc = doc BY <1>1, <2>3 DEF Record
  <2> HIDE DEF score, looked, split, a
  <2>6. CASE Ahead(here, doc)
    <3>1. r = RecordOf(doc) BY <2>3, <2>6 DEF RecordOf
    <3> QED BY <2>1, <2>2, <3>1
  <2>7. CASE Dominated(heap, RecordOf(doc))
    <3> HIDE DEF r
    <3>1. \A s \in heap : s.score \in Nat /\ s.doc \in Nat BY <1>1 DEF IsHeap
    <3>2. TrueScore(doc) \in Nat BY <1>1, TrueScoreIs
    <3>3. \A s \in heap : Worse(r, s) BY <1>1, <2>3, <2>4, <2>5, <2>7, <3>1, <3>2 DEF Dominated, Worse
    <3>4. r \notin heap
      <4>1. ~Worse(r, r) BY <2>5, WorseOrders
      <4> QED BY <3>3, <4>1
    <3>5. Dominated(heap, r) BY <2>7, <3>3 DEF Dominated
    <3>6. Pushed(heap, r) = heap BY <1>1, <2>5, <3>4, <3>5, PushedIs
    <3> QED BY <2>1, <2>7, <3>6
  <2> QED BY <1>4, <2>2, <2>6, <2>7
<1> QED BY <1>5, <1>6

(* What is wanted before the document has been kept, or could not be.       *)
LEMMA BeforeIsKept ==
  ASSUME NEW last, NEW doc, NEW i, NEW here, Stage(last, doc, i, here), NEW d \in Wants, d < doc
  PROVE  RecordOf(d) \in heap \/ Dominated(heap, RecordOf(d))
<1>1. /\ Asked /\ limit > 0 /\ IsHeap(heap) /\ Threshold = ThresholdOf(heap) /\ last \in Nat
  BY StageIs
<1>2. /\ Walks /\ OnWords(terms) /\ query.phrases = {} /\ Kept(heap, last) /\ NoneMissed(terms, heap, last)
      /\ doc = Current(NonEssential)
  BY DEF Stage
<1>3. d \in 1..Len(corpus) /\ d \in Nat BY <1>1, <1>2, WantsAre
<1>4. CASE d <= last BY <1>2, <1>4 DEF Kept
<1>5. CASE d > last
  <2>1. Dominated(heap, RecordOf(d)) \/ Ahead(terms, d) BY <1>2, <1>5 DEF NoneMissed
  <2>2. ASSUME Ahead(terms, d) PROVE Dominated(heap, RecordOf(d))
    <3>1. TrueScore(d) <= Threshold BY <1>1, <1>2, <1>3, <2>2, BehindIsLow
    <3> QED BY <1>1, <1>2, <1>5, <3>1, DominatedBelow
  <2> QED BY <2>1, <2>2
<1> QED BY <1>1, <1>3, <1>4, <1>5

(* The heap that is left is the best of the documents up to this one.       *)
LEMMA ConsideredKeeps ==
  ASSUME NEW last, NEW doc, NEW i, NEW here, Stage(last, doc, i, here),
         NEW h, h = Considered(NonEssential, here, doc).heap
  PROVE  /\ Kept(h, doc)
         /\ \A d \in Wants : Dominated(heap, RecordOf(d)) => Dominated(h, RecordOf(d))
         /\ ThresholdOf(heap) <= ThresholdOf(h)
<1> DEFINE r == RecordOf(doc)
<1>1. /\ Asked /\ limit > 0 /\ limit \in Nat /\ IsHeap(heap) /\ Cardinality(heap) <= limit
      /\ doc \in Nat /\ last < doc /\ last \in Nat
  BY StageIs
<1>2. query.phrases = {} /\ Kept(heap, last) BY DEF Stage
<1>3. \A d \in Wants : d \in Nat /\ RecordOf(d) \in Record /\ RecordOf(d).doc = d BY <1>1, <1>2, WantsAre
<1>4. \A d \in Wants : d < doc => RecordOf(d) \in heap \/ Dominated(heap, RecordOf(d)) BY BeforeIsKept
<1>5. \A s \in heap : \E d \in Wants : d <= last /\ s = RecordOf(d) BY <1>2 DEF Kept
<1>6. \A d \in Wants : d <= last => d <= doc /\ d # doc BY <1>1, <1>3
<1>7. CASE h = heap /\ (doc \in Wants => Dominated(heap, r))
  <2>1. \A s \in h : \E d \in Wants : d <= doc /\ s = RecordOf(d) BY <1>5, <1>6, <1>7
  <2>2. \A d \in Wants : d <= doc => RecordOf(d) \in h \/ Dominated(h, RecordOf(d)) BY <1>1, <1>3, <1>4, <1>7
  <2>3. ThresholdOf(heap) \in Nat BY <1>1, ThresholdOfIs
  <2> QED BY <1>1, <1>7, <2>1, <2>2, <2>3 DEF Kept
<1>8. CASE h = Pushed(heap, r) /\ doc \in Wants
  <2>1. r \in Record BY <1>3, <1>8
  <2>2. r \notin heap
    <3> SUFFICES ASSUME r \in heap PROVE FALSE OBVIOUS
    <3>1. PICK d \in Wants : d <= last /\ r = RecordOf(d) BY <1>5
    <3>2. d = doc BY <1>3, <1>8, <3>1
    <3> QED BY <1>6, <3>1, <3>2
  <2> HIDE DEF r
  <2>3. /\ IsHeap(h) /\ h \subseteq heap \cup {r} /\ Cardinality(h) <= limit
        /\ \A s \in heap \cup {r} : s \in h \/ Dominated(h, s)
        /\ \A s \in Record : Dominated(heap, s) => Dominated(h, s)
        /\ ThresholdOf(heap) <= ThresholdOf(h)
    BY <1>1, <1>8, <2>1, <2>2, PushedIs
  <2>4. \A s \in h : \E d \in Wants : d <= doc /\ s = RecordOf(d)
    <3> SUFFICES ASSUME NEW s \in h PROVE \E d \in Wants : d <= doc /\ s = RecordOf(d) OBVIOUS
    <3>1. CASE s \in heap BY <1>5, <1>6, <3>1
    <3>2. CASE s = r BY <1>1, <1>8, <3>2 DEF r
    <3> QED BY <2>3, <3>1, <3>2
  <2>5. ASSUME NEW d \in Wants, d <= doc PROVE RecordOf(d) \in h \/ Dominated(h, RecordOf(d))
    <3>1. CASE d = doc BY <2>3, <3>1 DEF r
    <3>2. CASE d # doc
      <4>1. d < doc BY <1>1, <1>3, <2>5, <3>2
      <4> QED BY <1>3, <1>4, <2>3, <4>1
    <3> QED BY <3>1, <3>2
  <2>6. \A d \in Wants : Dominated(heap, RecordOf(d)) => Dominated(h, RecordOf(d)) BY <1>3, <2>3
  <2> QED BY <2>3, <2>4, <2>5, <2>6 DEF Kept
<1>9. \/ h = heap /\ (doc \in Wants => Dominated(heap, RecordOf(doc)))
      \/ h = Pushed(heap, RecordOf(doc)) /\ doc \in Wants
  BY ConsideredHeap
<1> QED BY <1>7, <1>8, <1>9

(* Considering a document misses nothing, and nothing after it.             *)
LEMMA ConsiderKeeps ==
  ASSUME NEW last, NEW doc, NEW i, NEW here, Stage(last, doc, i, here), ~(Hopeless(i) /\ Moves(i)),
         NEW h, h = Considered(NonEssential, here, doc).heap,
         NEW gone, gone = GoneOn(NonEssential, Considered(NonEssential, here, doc).list, doc)
  PROVE  WalkInv(gone, SoughtExcluded(doc), h)
<1> DEFINE split == NonEssential
<1>1. /\ Asked /\ Order /\ limit > 0 /\ limit \in Nat /\ IsHeap(heap) /\ Cardinality(heap) <= limit
      /\ doc \in 1..Len(corpus) /\ doc \in Nat /\ last < doc /\ last \in Nat
      /\ OnWords(here) /\ NoneMissed(here, heap, last)
      /\ split \in 0..Len(Present) /\ (BoundsHold \/ split = 0)
      /\ Threshold = ThresholdOf(heap) /\ prefix[split] <= Threshold
  BY StageIs
<1>2. Walks /\ OnWords(terms) /\ OnDropped(excluded) /\ query.phrases = {} /\ NoneDropped(excluded, last)
  BY DEF Stage
<1>3. /\ Kept(h, doc)
      /\ \A d \in Wants : Dominated(heap, RecordOf(d)) => Dominated(h, RecordOf(d))
      /\ ThresholdOf(heap) <= ThresholdOf(h)
  BY ConsideredKeeps
<1>4. OnWords(gone) /\ \A j \in 1..Len(Present) : GoesOn(j, split, here, gone, doc) BY <1>1, ConsideredMoves
<1>5. NoneMissed(gone, h, doc)
  <2> SUFFICES ASSUME NEW d \in Wants, d > doc PROVE Dominated(h, RecordOf(d)) \/ Ahead(gone, d)
    BY DEF NoneMissed
  <2>1. d \in Nat /\ d > last
    <3>1. d \in Nat BY <1>1, <1>2, WantsAre
    <3> QED BY <1>1, <3>1
  <2>2. Dominated(heap, RecordOf(d)) \/ Ahead(here, d) BY <1>1, <2>1 DEF NoneMissed
  <2>3. ASSUME Ahead(here, d) PROVE Ahead(gone, d)
    <3> SUFFICES ASSUME NEW j \in 1..Len(Present) PROVE NotPast(gone[j].cursor, ListOf(Present[j]), IdsOf(Present[j]), d)
      BY DEF Ahead
    <3> DEFINE list == ListOf(Present[j])
               ids == IdsOf(Present[j])
    <3>1. NotPast(here[j].cursor, list, ids, d) BY <2>3 DEF Ahead
    <3>2. Lists(list, ids) /\ Reads(here[j].cursor, list, ids) BY <1>1, WordReads
    <3>3. Onward(here[j].cursor, gone[j].cursor, list, ids, doc) BY <1>4 DEF GoesOn, Forward
    <3>4. d \in Int /\ doc \in Int BY <1>1, <2>1
    <3> HIDE DEF list, ids
    <3>5. NotPast(gone[j].cursor, list, ids, d) BY <3>1, <3>2, <3>3, <3>4, OnwardNotPast
    <3> QED BY <3>5 DEF list, ids
  <2> QED BY <1>3, <2>2, <2>3
<1>6. BeyondLast(gone, h, doc)
  <2> SUFFICES ASSUME NEW j \in 1..Len(Present), ~Spared(j, h), ~gone[j].cursor.exhausted PROVE gone[j].cursor.doc > doc
    BY DEF BeyondLast
  <2>1. j \in Essential(split)
    <3> SUFFICES ASSUME j \notin Essential(split) PROVE FALSE OBVIOUS
    <3>1. j \in Low(split) BY <1>1, <1>2, EssentialIs
    <3>2. BoundsHold
      <4>1. 0 \in 0..Len(Present) BY <1>1
      <4>2. Low(0) = {} BY <1>1, <4>1, LowIs
      <4> QED BY <1>1, <3>1, <4>2
    <3>3. prefix[split] <= ThresholdOf(h)
      <4>1. prefix[split] \in Nat BY <1>1, <1>2, PrefixIs
      <4>2. ThresholdOf(heap) \in Nat BY <1>1, ThresholdOfIs
      <4>3. ThresholdOf(h) \in Nat BY <1>1, <1>3, ThresholdOfIs DEF Kept
      <4> HIDE DEF split
      <4> QED BY <1>1, <1>3, <4>1, <4>2, <4>3
    <3> QED BY <1>1, <3>1, <3>2, <3>3 DEF Spared
  <2>2. GoesOn(j, split, here, gone, doc) BY <1>4
  <2>3. CASE On(here[j].cursor, doc) BY <2>1, <2>2, <2>3 DEF GoesOn
  <2>4. CASE ~On(here[j].cursor, doc)
    <3>1. gone[j] = here[j] BY <2>1, <2>2, <2>4 DEF GoesOn
    <3>2. here[j].cursor.doc >= doc /\ here[j].cursor.doc \in Nat BY <2>1, <3>1, StageIs
    <3>3. here[j].cursor.doc # doc BY <2>4, <3>1 DEF On
    <3> QED BY <1>1, <3>1, <3>2, <3>3
  <2> QED BY <2>3, <2>4
<1>7. NoneDropped(SoughtExcluded(doc), doc)
  <2> SUFFICES ASSUME NEW d \in 1..Len(corpus), d > doc, NEW j \in DOMAIN Dropped
               PROVE  NotPast(SoughtExcluded(doc)[j], ListOf(Dropped[j]), IdsOf(Dropped[j]), d)
    BY DEF NoneDropped, AheadOf
  <2> DEFINE list == ListOf(Dropped[j])
             ids == IdsOf(Dropped[j])
  <2>1. d \in Int /\ doc \in Int /\ d > last BY <1>1
  <2>2. NotPast(excluded[j], list, ids, d) BY <1>2, <2>1 DEF NoneDropped, AheadOf
  <2>3. Lists(list, ids) /\ Reads(excluded[j], list, ids) BY <1>1, <1>2, DroppedReads
  <2>4. Onward(excluded[j], SoughtExcluded(doc)[j], list, ids, doc) BY <1>1, <1>2, DroppedMoves
  <2> HIDE DEF list, ids
  <2>5. NotPast(SoughtExcluded(doc)[j], list, ids, d) BY <2>1, <2>2, <2>3, <2>4, OnwardNotPast
  <2> QED BY <2>5 DEF list, ids
<1> QED BY <1>1, <1>3, <1>5, <1>6, <1>7 DEF WalkInv

(* A turn of the loop.                                                      *)
LEMMA TurnKeeps ==
  ASSUME Walks, OnWords(terms), OnDropped(excluded), query.phrases = {}, WalkInv(terms, excluded, heap), Turn,
         NEW list, NEW drop, NEW h, list = terms', drop = excluded', h = heap'
  PROVE  WalkInv(list, drop, h)
<1> DEFINE split == NonEssential
           doc == Current(split)
           i == At(split, doc)
<1>1. Walking(split) # {} BY TurnIs
<1>2. PICK here : /\ HereIs(i, here)
                  /\ \/ Skips(i, here)
                     \/ Considers(split, doc, i, here)
  BY TurnIs
<1>3. PICK last \in Nat : /\ Kept(heap, last) /\ NoneMissed(terms, heap, last)
                          /\ BeyondLast(terms, heap, last) /\ NoneDropped(excluded, last)
  BY DEF WalkInv
<1>4. Stage(last, doc, i, here) BY <1>1, <1>2, <1>3 DEF Stage
<1>5. i \in 1..Len(Present) /\ On(terms[i].cursor, doc) /\ HereIs(i, here)
  <2> HIDE DEF split, doc, i
  <2> QED BY <1>2, <1>4, StageIs
<1>6. CASE Skips(i, here)
  <2>1. list = here /\ drop = excluded /\ h = heap BY <1>6 DEF Skips
  <2> HIDE DEF split, doc, i
  <2>2. WalkInv(here, excluded, heap) BY <1>5, SkipKeeps
  <2> QED BY <2>1, <2>2
<1>7. CASE Considers(split, doc, i, here)
  <2>1. /\ ~(Hopeless(i) /\ Moves(i))
        /\ list = GoneOn(split, Considered(split, here, doc).list, doc)
        /\ h = Considered(split, here, doc).heap
        /\ drop = SoughtExcluded(doc)
    BY <1>7 DEF Considers
  <2> HIDE DEF doc, i
  <2>2. WalkInv(list, SoughtExcluded(doc), h) BY <1>4, <2>1, ConsiderKeeps
  <2> QED BY <2>1, <2>2
<1> QED BY <1>2, <1>6, <1>7

(* At the end of the walk the heap is what an exhaustive ranking keeps.     *)
Records == {RecordOf(d) : d \in Wants}

LEMMA RecordsAre ==
  ASSUME Asked PROVE IsFiniteSet(Wants) /\ IsFiniteSet(Records)
<1>1. Len(corpus) \in Nat BY CorpusIs DEF Asked
<1>2. IsFiniteSet(1..Len(corpus)) BY <1>1, FS_Interval
<1>3. Wants \subseteq 1..Len(corpus) BY DEF Wants
<1>4. IsFiniteSet(Wants) BY <1>2, <1>3, FS_Subset
<1> DEFINE f == [d \in Wants |-> RecordOf(d)]
<1>5. IsFiniteSet({f[d] : d \in Wants})
  <2> HIDE DEF f
  <2> QED BY <1>4, FiniteImage
<1>6. {f[d] : d \in Wants} = Records BY DEF Records
<1> QED BY <1>4, <1>5, <1>6

LEMMA StopIsBest ==
  ASSUME Walks, OnWords(terms), query.phrases = {}, WalkInv(terms, excluded, heap), Walking(NonEssential) = {}
  PROVE  heap = Best(Records)
<1>1. PICK last \in Nat : Kept(heap, last) /\ NoneMissed(terms, heap, last) BY DEF WalkInv
<1>2. Asked /\ limit > 0 /\ limit \in Nat BY AskedIs DEF Walks
<1>3. IsHeap(heap) /\ Cardinality(heap) <= limit BY <1>1 DEF Kept
<1>4. Threshold = ThresholdOf(heap) BY DEF Threshold, ThresholdOf
<1>5. ASSUME NEW d \in Wants PROVE RecordOf(d) \in heap \/ Dominated(heap, RecordOf(d))
  <2>1. d \in 1..Len(corpus) /\ d \in Nat BY <1>2, WantsAre
  <2>2. CASE d <= last BY <1>1, <2>2 DEF Kept
  <2>3. CASE d > last
    <3>1. Dominated(heap, RecordOf(d)) \/ Ahead(terms, d) BY <1>1, <2>3 DEF NoneMissed
    <3>2. ASSUME Ahead(terms, d) PROVE Dominated(heap, RecordOf(d))
      <4>1. TrueScore(d) <= Threshold BY <1>3, <2>1, <3>2, BehindIsLow
      <4> QED BY <1>1, <1>2, <1>4, <2>3, <4>1, DominatedBelow
    <3> QED BY <3>1, <3>2
  <2> QED BY <2>1, <2>2, <2>3
<1>6. heap \subseteq Records BY <1>1 DEF Kept, Records
<1>7. IsFiniteSet(Records) BY <1>2, RecordsAre
<1>8. Records \subseteq Record BY <1>2, WantsAre DEF Records
<1>9. \A r \in Records : r \in heap \/ Dominated(heap, r) BY <1>5 DEF Records
<1> QED BY <1>2, <1>3, <1>6, <1>7, <1>8, <1>9, KeptIsBest

-----------------------------------------------------------------------------
(* What does not change while a query is answered.                          *)

Asking == <<corpus, query, limit, global, segments>>
Planned == <<byCeiling, prefix>>

LEMMA AskingStays ==
  ASSUME UNCHANGED Asking
  PROVE  /\ Asked' <=> Asked
         /\ Present' = Present /\ Dropped' = Dropped
         /\ \A t : ListOf(t)' = ListOf(t)
         /\ \A t : IdsOf(t)' = IdsOf(t)
         /\ \A t : IdfOf(t)' = IdfOf(t)
<1>1. corpus' = corpus /\ query' = query /\ limit' = limit /\ global' = global /\ segments' = segments
  BY DEF Asking
<1>2. Whole' = Whole BY <1>1, CorpusStays
<1>3. Asked' <=> Asked BY <1>1, <1>2 DEF Asked
<1>4. ScoringTerms(query)' = ScoringTerms(query) BY <1>1 DEF ScoringTerms
<1>5. Present' = Present BY <1>1, <1>4 DEF Present, segment
<1>6. Dropped' = Dropped BY <1>1 DEF Dropped
<1>7. \A t : ListOf(t)' = ListOf(t) BY <1>1 DEF ListOf, segment
<1>8. \A t : IdsOf(t)' = IdsOf(t) BY <1>1 DEF IdsOf, Carriers, Having
<1>9. TotalDocs' = TotalDocs BY <1>1 DEF TotalDocs, segment
<1>10. \A t : IdfOf(t)' = IdfOf(t) BY <1>1, <1>7, <1>9 DEF IdfOf, DocFreq
<1> QED BY <1>3, <1>5, <1>6, <1>7, <1>8, <1>10

LEMMA ScoresStay ==
  ASSUME UNCHANGED Asking
  PROVE  /\ \A d : TrueScore(d)' = TrueScore(d)
         /\ \A d : Wanted(d)' <=> Wanted(d)
         /\ Wants' = Wants
         /\ \A d : RecordOf(d)' = RecordOf(d)
         /\ Records' = Records
         /\ \A h, r : Dominated(h, r)' <=> Dominated(h, r)
         /\ \A h : ThresholdOf(h)' = ThresholdOf(h)
         /\ \A S : Best(S)' = Best(S)
<1>1. corpus' = corpus /\ query' = query /\ limit' = limit /\ global' = global
  BY DEF Asking
<1>2. \A d : TrueScore(d)' = TrueScore(d) BY <1>1 DEF TrueScore, Stats, AllTokens, Freq, Says, ScoringTerms
<1>3. \A d : Wanted(d)' <=> Wanted(d) BY <1>1 DEF Wanted, Says
<1>4. Wants' = Wants BY <1>1, <1>3 DEF Wants
<1>5. \A d : RecordOf(d)' = RecordOf(d) BY <1>2 DEF RecordOf
<1>6. Records' = Records BY <1>4, <1>5 DEF Records
<1>7. \A h, r : Dominated(h, r)' <=> Dominated(h, r) BY <1>1 DEF Dominated
<1>8. \A h : ThresholdOf(h)' = ThresholdOf(h) BY <1>1 DEF ThresholdOf
<1>9. \A S : Best(S)' = Best(S) BY <1>1 DEF Best
<1> QED BY <1>2, <1>3, <1>4, <1>5, <1>6, <1>7, <1>8, <1>9

LEMMA CursorsStay ==
  ASSUME UNCHANGED Asking
  PROVE  /\ \A list : OnWords(list)' <=> OnWords(list)
         /\ \A drop : OnDropped(drop)' <=> OnDropped(drop)
         /\ \A list, d : Ahead(list, d)' <=> Ahead(list, d)
         /\ \A drop, d : AheadOf(drop, d)' <=> AheadOf(drop, d)
<1>1. /\ Present' = Present /\ Dropped' = Dropped
      /\ \A t : ListOf(t)' = ListOf(t)
      /\ \A t : IdsOf(t)' = IdsOf(t)
      /\ \A t : IdfOf(t)' = IdfOf(t)
  BY AskingStays
<1>2. \A t : CeilingOf(t)' = CeilingOf(t) BY <1>1 DEF CeilingOf
<1>3. \A r, t : IsWord(r, t)' <=> IsWord(r, t) BY <1>1, <1>2 DEF IsWord
<1>4. \A list : OnWords(list)' <=> OnWords(list) BY <1>1, <1>3 DEF OnWords
<1>5. \A drop : OnDropped(drop)' <=> OnDropped(drop) BY <1>1 DEF OnDropped
<1>6. \A list, d : Ahead(list, d)' <=> Ahead(list, d) BY <1>1 DEF Ahead
<1>7. \A drop, d : AheadOf(drop, d)' <=> AheadOf(drop, d) BY <1>1 DEF AheadOf
<1> QED BY <1>4, <1>5, <1>6, <1>7

LEMMA KeptStays ==
  ASSUME UNCHANGED Asking
  PROVE  /\ \A h, last : Kept(h, last)' <=> Kept(h, last)
         /\ \A list, h, last : NoneMissed(list, h, last)' <=> NoneMissed(list, h, last)
         /\ \A drop, last : NoneDropped(drop, last)' <=> NoneDropped(drop, last)
<1>1. corpus' = corpus /\ limit' = limit BY DEF Asking
<1>2. Wants' = Wants /\ (\A d : RecordOf(d)' = RecordOf(d)) /\ (\A h, r : Dominated(h, r)' <=> Dominated(h, r))
  BY ScoresStay
<1>3. \A list, d : Ahead(list, d)' <=> Ahead(list, d) BY CursorsStay
<1>4. \A drop, d : AheadOf(drop, d)' <=> AheadOf(drop, d) BY CursorsStay
<1>5. \A h, last : Kept(h, last)' <=> Kept(h, last) BY <1>1, <1>2 DEF Kept
<1>6. \A list, h, last : NoneMissed(list, h, last)' <=> NoneMissed(list, h, last) BY <1>2, <1>3 DEF NoneMissed
<1>7. \A drop, last : NoneDropped(drop, last)' <=> NoneDropped(drop, last) BY <1>1, <1>4 DEF NoneDropped
<1> QED BY <1>5, <1>6, <1>7

LEMMA WalkStays ==
  ASSUME UNCHANGED Asking, UNCHANGED Planned
  PROVE  /\ Walks' <=> Walks
         /\ \A list, drop, h : WalkInv(list, drop, h)' <=> WalkInv(list, drop, h)
<1>1. limit' = limit /\ global' = global /\ byCeiling' = byCeiling /\ prefix' = prefix BY DEF Asking, Planned
<1>2. (Asked' <=> Asked) /\ Present' = Present /\ (\A t : ListOf(t)' = ListOf(t)) /\ (\A t : IdfOf(t)' = IdfOf(t)) BY AskingStays
<1>3. \A t : CeilingOf(t)' = CeilingOf(t) BY <1>2 DEF CeilingOf
<1>4. Ceilings' = Ceilings BY <1>2, <1>3 DEF Ceilings
<1>5. Order' <=> Order BY <1>1, <1>2 DEF Order
<1>6. Walks' <=> Walks BY <1>1, <1>2, <1>4, <1>5 DEF Walks
<1>7. \A k : Low(k)' = Low(k) BY <1>1 DEF Low
<1>8. \A h : ThresholdOf(h)' = ThresholdOf(h) BY ScoresStay
<1>9. \A i, h : Spared(i, h)' <=> Spared(i, h) BY <1>1, <1>2, <1>7, <1>8 DEF Spared, BoundsHold
<1>10. \A list, h, last : BeyondLast(list, h, last)' <=> BeyondLast(list, h, last) BY <1>2, <1>9 DEF BeyondLast
<1>11. \A h, last : Kept(h, last)' <=> Kept(h, last) BY KeptStays
<1>12. \A list, h, last : NoneMissed(list, h, last)' <=> NoneMissed(list, h, last) BY KeptStays
<1>13. \A drop, last : NoneDropped(drop, last)' <=> NoneDropped(drop, last) BY KeptStays
<1>14. \A list, drop, h : WalkInv(list, drop, h)' <=> WalkInv(list, drop, h)
  BY <1>10, <1>11, <1>12, <1>13 DEF WalkInv
<1> QED BY <1>6, <1>14

LEMMA RankingStays ==
  ASSUME UNCHANGED Asking PROVE Ranking' = Ranking
<1>1. corpus' = corpus BY DEF Asking
<1>2. \A d : TrueScore(d)' = TrueScore(d) BY ScoresStay
<1>3. \A d : Wanted(d)' <=> Wanted(d) BY ScoresStay
<1>4. \A S : Best(S)' = Best(S) BY ScoresStay
<1> DEFINE scored == {[score |-> TrueScore(id), doc |-> id] : id \in {d \in DOMAIN corpus : Wanted(d)}}
<1>5. scored' = scored BY <1>1, <1>2, <1>3
<1>6. Ranking = {[uri |-> Uri[r.doc], score |-> r.score] : r \in Best(scored)} BY DEF Ranking
<1>7. Ranking' = {[uri |-> Uri[r.doc], score |-> r.score] : r \in Best(scored)'} BY DEF Ranking
<1>8. Best(scored)' = Best(scored)
  <2>1. Best(scored)' = {r \in scored' : Cardinality({s \in scored' : Worse(r, s)}) < limit'} BY DEF Best, Worse
  <2>2. Best(scored) = {r \in scored : Cardinality({s \in scored : Worse(r, s)}) < limit} BY DEF Best
  <2>3. limit' = limit BY DEF Asking
  <2> HIDE DEF scored
  <2> QED BY <1>5, <2>1, <2>2, <2>3
<1> HIDE DEF scored
<1> QED BY <1>6, <1>7, <1>8

-----------------------------------------------------------------------------
(* The answer: what the heap holds, in order.                               *)

LEMMA RankingIs ==
  ASSUME Asked
  PROVE  Ranking = {[uri |-> segment.docs[r.doc].uri, score |-> r.score] : r \in Best(Records)}
<1>1. /\ DOMAIN corpus = 1..Len(corpus)
      /\ \A id \in 1..Len(corpus) : segment.docs[id] = MetaAt(id)
  BY CorpusIs, DocsAre DEF Asked
<1>2. {d \in DOMAIN corpus : Wanted(d)} = Wants BY <1>1 DEF Wants
<1>3. {[score |-> TrueScore(id), doc |-> id] : id \in {d \in DOMAIN corpus : Wanted(d)}} = Records
  BY <1>2 DEF Records, RecordOf
<1>4. Ranking = {[uri |-> Uri[r.doc], score |-> r.score] : r \in Best(Records)} BY <1>3 DEF Ranking
<1>5. ASSUME NEW r \in Best(Records) PROVE segment.docs[r.doc].uri = Uri[r.doc]
  <2>1. r \in Records BY DEF Best
  <2>2. PICK d \in Wants : r = RecordOf(d) BY <2>1 DEF Records
  <2>3. r.doc = d BY <2>2 DEF RecordOf
  <2>4. d \in 1..Len(corpus) BY DEF Wants
  <2>5. segment.docs[d] = MetaAt(d) BY <1>1, <2>4
  <2>6. MetaAt(d).uri = Uri[d] BY DEF MetaAt
  <2> QED BY <2>3, <2>5, <2>6
<1> QED BY <1>4, <1>5

LEMMA HitsAreRanked ==
  ASSUME Asked, heap = Best(Records) PROVE Hits(heap) = Ordered(Ranking)
<1>1. Ranking = {[uri |-> segment.docs[r.doc].uri, score |-> r.score] : r \in heap} BY RankingIs
<1> QED BY <1>1 DEF Hits

LEMMA NothingIsRanked ==
  ASSUME Asked, Best(Records) = {} PROVE Ordered(Ranking) = << >>
<1>1. Ranking = {} BY RankingIs
<1>2. Cardinality({}) = 0 BY FS_EmptySet
<1>3. Sorted({}, Before) = [i \in 1..0 |-> CHOOSE x \in {} : Cardinality({y \in {} : Before(y, x)}) = i - 1]
  BY <1>2 DEF Sorted
<1>4. 1..0 = {} OBVIOUS
<1>5. Sorted({}, Before) = << >> BY <1>3, <1>4
<1> QED BY <1>1, <1>5 DEF Ordered

LEMMA NothingWanted ==
  ASSUME Wants = {} PROVE Best(Records) = {}
BY DEF Records, Best

LEMMA NothingToFind ==
  ASSUME Asked, NothingToSearch PROVE Best(Records) = {}
<1>1. CASE EmptyQuery
  <2>1. \A d : ~Wanted(d) BY <1>1 DEF EmptyQuery, Wanted
  <2> QED BY <2>1, NothingWanted DEF Wants
<1>2. CASE limit = 0
  <2>1. ASSUME NEW r \in Records PROVE ~(Cardinality({s \in Records : Worse(r, s)}) < limit)
    <3>1. IsFiniteSet(Records) BY RecordsAre
    <3>2. IsFiniteSet({s \in Records : Worse(r, s)}) BY <3>1, FS_Subset
    <3>3. Cardinality({s \in Records : Worse(r, s)}) \in Nat BY <3>2, FS_CardinalityType
    <3> QED BY <1>2, <3>3
  <2> QED BY <2>1 DEF Best
<1>3. CASE segment.docs = << >>
  <2>1. Len(corpus) = 0 BY <1>3, DocsAre DEF Asked
  <2>2. Wants = {} BY <2>1 DEF Wants
  <2> QED BY <2>2, NothingWanted
<1> QED BY <1>1, <1>2, <1>3 DEF NothingToSearch

(* A word nobody has is left out: with no other there is nothing to find.   *)
LEMMA NoWordsPresent ==
  ASSUME Asked, query.phrases = {}, Present = << >> PROVE Best(Records) = {}
<1>1. ScoringTerms(query) = query.terms BY DEF ScoringTerms
<1>2. \A t \in ScoringTerms(query) : ListOf(t).count > 0 => \E i \in DOMAIN Present : Present[i] = t BY PresentIs
<1>3. DOMAIN Present = {} OBVIOUS
<1>4. ASSUME NEW d \in Wants PROVE FALSE
  <2>1. d \in 1..Len(corpus) BY DEF Wants
  <2>2. PICK t \in query.terms : Says(d, t) BY DEF Wants, Wanted
  <2>3. t \in Terms BY <1>1, AskedIs
  <2>4. ListOf(t).count > 0 BY <2>1, <2>2, <2>3, GainIs
  <2> QED BY <1>1, <1>2, <1>3, <2>4
<1> QED BY <1>4, NothingWanted

-----------------------------------------------------------------------------
(* The start of a walk.                                                     *)

LEMMA CursorIsAhead ==
  ASSUME NEW list, NEW ids, Lists(list, ids)
  PROVE  /\ Reads(Cursor(list), list, ids)
         /\ \A d : NotPast(Cursor(list), list, ids, d)
         /\ Cursor(list).exhausted \/ Cursor(list).doc > 0
<1> DEFINE c == Cursor(list)
<1>1. Reads(c, list, ids) /\ (IF list.count = 0 THEN c.exhausted ELSE Stands(c, list, ids, 0)) BY CursorReads
<1> HIDE DEF c
<1>2. list.count \in Nat /\ ids \in [1..list.count -> Nat \ {0}] BY DEF Lists
<1>3. CASE list.count = 0
  <2>1. \A d : NotPast(c, list, ids, d) BY <1>3 DEF NotPast
  <2> QED BY <1>1, <1>3, <2>1 DEF c
<1>4. CASE list.count # 0
  <2>1. ~c.exhausted /\ c.index = 0 /\ c.doc = ids[0 + 1] BY <1>1, <1>4 DEF Stands
  <2>2. 0 + 1 \in 1..list.count BY <1>2, <1>4
  <2>3. ids[0 + 1] \in Nat \ {0} BY <1>2, <2>2
  <2>4. c.doc > 0 BY <2>1, <2>3
  <2>5. Passed(c) = 0 BY <2>1 DEF Passed
  <2>6. \A d : NotPast(c, list, ids, d) BY <2>5 DEF NotPast
  <2> QED BY <1>1, <2>4, <2>6 DEF c
<1> QED BY <1>3, <1>4

LEMMA OpenedReads ==
  ASSUME Asked, limit > 0, query.phrases = {},
         NEW list, list = [i \in DOMAIN Present |-> Opened(Present[i])],
         NEW drop, drop = [i \in DOMAIN Dropped |-> Cursor(segment.lists[Dropped[i]])]
  PROVE  /\ OnWords(list) /\ OnDropped(drop)
         /\ Kept({}, 0) /\ NoneMissed(list, {}, 0) /\ NoneDropped(drop, 0)
         /\ \A i \in 1..Len(Present) : list[i].cursor.exhausted \/ list[i].cursor.doc > 0
<1>1. OnWords(list) /\ \A i \in DOMAIN Present : list[i].cursor = Cursor(ListOf(Present[i])) BY OpenedIs
<1>2. DOMAIN Present = 1..Len(Present) BY PresentIs
<1>3. corpus \in Corpora /\ segments = <<Encoded(Whole)>> /\ limit \in Nat BY AskedIs DEF Asked
<1>4. ASSUME NEW i \in 1..Len(Present)
      PROVE  /\ \A d : NotPast(list[i].cursor, ListOf(Present[i]), IdsOf(Present[i]), d)
             /\ list[i].cursor.exhausted \/ list[i].cursor.doc > 0
  <2>1. Lists(ListOf(Present[i]), IdsOf(Present[i])) BY <1>1, WordReads
  <2>2. list[i].cursor = Cursor(ListOf(Present[i])) BY <1>1, <1>2
  <2> QED BY <2>1, <2>2, CursorIsAhead
<1>5. ASSUME NEW i \in DOMAIN Dropped
      PROVE  /\ Reads(drop[i], ListOf(Dropped[i]), IdsOf(Dropped[i]))
             /\ \A d : NotPast(drop[i], ListOf(Dropped[i]), IdsOf(Dropped[i]), d)
  <2>1. Dropped[i] \in Terms BY DroppedIs
  <2>2. Lists(ListOf(Dropped[i]), IdsOf(Dropped[i])) BY <1>3, <2>1, WordLists
  <2>3. drop[i] = Cursor(ListOf(Dropped[i])) BY DEF ListOf
  <2> QED BY <2>2, <2>3, CursorIsAhead
<1>6. OnDropped(drop) BY <1>5 DEF OnDropped
<1>7. NoneMissed(list, {}, 0) BY <1>4 DEF NoneMissed, Ahead
<1>8. NoneDropped(drop, 0) BY <1>5 DEF NoneDropped, AheadOf
<1>9. Kept({}, 0)
  <2>1. IsFiniteSet({}) /\ Cardinality({}) = 0 BY FS_EmptySet
  <2>2. IsHeap({}) BY <2>1 DEF IsHeap
  <2>3. \A d \in Wants : ~(d <= 0)
    <3>1. \A d \in 1..Len(corpus) : ~(d <= 0) OBVIOUS
    <3> QED BY <3>1 DEF Wants
  <2> QED BY <1>3, <2>1, <2>2, <2>3 DEF Kept
<1> QED BY <1>1, <1>4, <1>6, <1>7, <1>8, <1>9

(* The order of the ceilings, and their sums.                               *)
LEMMA OpenedWalks ==
  ASSUME Asked, limit > 0, UNCHANGED Asking,
         terms' = [i \in DOMAIN Present |-> Opened(Present[i])],
         byCeiling' = ByCeiling(terms'),
         prefix' = [n \in 0..Len(terms') |-> SumFunction([k \in 1..n |-> terms'[byCeiling'[k]].ceiling])]
  PROVE  Walks'
<1> DEFINE n == Len(Present)
<1>1. n \in Nat /\ DOMAIN Present = 1..n BY PresentIs
<1>2. OnWords(terms') /\ \A i \in DOMAIN Present : terms'[i].ceiling = Ceilings[i] BY OpenedIs
<1>3. Len(terms') = n /\ DOMAIN terms' = 1..n BY <1>2, LengthIs
<1>4. \A i \in 1..n : terms'[i].ceiling = Ceilings[i] /\ Ceilings[i] \in Nat BY <1>1, <1>2, CeilingsAre
<1>5. /\ byCeiling' \in [1..n -> 1..n]
      /\ \A i, j \in 1..n : byCeiling'[i] = byCeiling'[j] => i = j
      /\ \A x \in 1..n : \E i \in 1..n : byCeiling'[i] = x
  <2> DEFINE list == terms'
             o == ByCeiling(list)
  <2>0. byCeiling' = o OBVIOUS
  <2> HIDE DEF n, list
  <2>1. \A i \in 1..n : list[i].ceiling \in Nat BY <1>4 DEF list
  <2>2. DOMAIN list = 1..n BY <1>3 DEF list
  <2>3. o \in [1..n -> 1..n] BY <1>1, <2>1, <2>2, ByCeilingIs
  <2>4. \A i, j \in 1..n : o[i] = o[j] => i = j BY <1>1, <2>1, <2>2, ByCeilingIs
  <2>5. \A x \in 1..n : \E i \in 1..n : o[i] = x BY <1>1, <2>1, <2>2, ByCeilingIs
  <2> HIDE DEF o
  <2> QED BY <2>0, <2>3, <2>4, <2>5
<1>6. Asked' /\ Present' = Present /\ (\A t : ListOf(t)' = ListOf(t)) /\ (\A t : IdfOf(t)' = IdfOf(t)) /\ limit' = limit
  BY AskingStays DEF Asking
<1>7. \A t : CeilingOf(t)' = CeilingOf(t) BY <1>6 DEF CeilingOf
<1>8. Ceilings' = Ceilings BY <1>6, <1>7 DEF Ceilings
<1>9. Order' BY <1>5, <1>6 DEF Order
<1>10. prefix' = [k \in 0..n |-> SumFunction([j \in 1..k |-> Ceilings[byCeiling'[j]]])]
  <2>1. ASSUME NEW k \in 0..n
        PROVE  [j \in 1..k |-> terms'[byCeiling'[j]].ceiling] = [j \in 1..k |-> Ceilings[byCeiling'[j]]]
    <3>1. ASSUME NEW j \in 1..k PROVE terms'[byCeiling'[j]].ceiling = Ceilings[byCeiling'[j]]
      <4>1. j \in 1..n BY <1>1
      <4>2. byCeiling'[j] \in 1..n BY <1>5, <4>1
      <4> QED BY <1>4, <4>2
    <3> QED BY <3>1
  <2>2. \A k \in 0..n : SumFunction([j \in 1..k |-> terms'[byCeiling'[j]].ceiling]) = SumFunction([j \in 1..k |-> Ceilings[byCeiling'[j]]])
    BY <2>1, Zenon
  <2>3. prefix' = [k \in 0..n |-> SumFunction([j \in 1..k |-> terms'[byCeiling'[j]].ceiling])] BY <1>3
  <2> QED BY <2>2, <2>3
<1> QED BY <1>6, <1>8, <1>9, <1>10 DEF Walks

-----------------------------------------------------------------------------
(* Phrases: the positions say what a reader of the text would.              *)

LEMMA PhraseRead ==
  ASSUME NEW S, NEW text \in Seq(S), NEW phrase \in Seq(S) \ {<< >>}
  PROVE  ReadsIn(text, phrase) <=>
           \E start \in DOMAIN text : \A i \in DOMAIN phrase :
             start + i - 1 \in DOMAIN text /\ text[start + i - 1] = phrase[i]
<1> DEFINE n == Len(phrase)
<1>1. n \in Nat /\ n > 0 /\ DOMAIN phrase = 1..n /\ phrase \in Seq(S) BY EmptySeq
<1>2. Len(text) \in Nat /\ DOMAIN text = 1..Len(text) BY LenProperties
<1>3. ASSUME NEW s \in DOMAIN text, s + n - 1 \in DOMAIN text
      PROVE  /\ SubSeq(text, s, s + n - 1) \in Seq(S) /\ Len(SubSeq(text, s, s + n - 1)) = n
             /\ \A i \in 1..n : SubSeq(text, s, s + n - 1)[i] = text[s + i - 1] /\ s + i - 1 \in DOMAIN text
  <2> DEFINE e == s + n - 1
  <2>1. s \in Int /\ e \in Int /\ s <= e /\ e - s + 1 = n BY <1>1, <1>2, <1>3
  <2>2. \A i \in s..e : i \in 1..Len(text) BY <1>2, <1>3, <2>1
  <2>3. \A i \in s..e : text[i] \in S BY <1>2, <2>2, ElementOfSeq
  <2> HIDE DEF e, n
  <2>0. n \in Nat BY <1>1
  <2>4. ASSUME NEW i \in 1..n PROVE s + i - 1 \in s..e BY <2>0, <2>1
  <2>5. SubSeq(text, s, e) \in Seq(S) BY <2>1, <2>3, SubSeqProperties
  <2>6. Len(SubSeq(text, s, e)) = n BY <2>1, <2>3, SubSeqProperties
  <2>7. \A i \in 1..n : SubSeq(text, s, e)[i] = text[s + i - 1] BY <2>1, <2>3, SubSeqProperties
  <2> QED BY <1>2, <2>2, <2>4, <2>5, <2>6, <2>7 DEF e
<1>4. ASSUME ReadsIn(text, phrase)
      PROVE  \E start \in DOMAIN text : \A i \in DOMAIN phrase :
               start + i - 1 \in DOMAIN text /\ text[start + i - 1] = phrase[i]
  <2>1. PICK s \in DOMAIN text : s + n - 1 \in DOMAIN text /\ SubSeq(text, s, s + n - 1) = phrase BY <1>4 DEF ReadsIn
  <2>2. \A i \in 1..n : SubSeq(text, s, s + n - 1)[i] = text[s + i - 1] /\ s + i - 1 \in DOMAIN text BY <1>3, <2>1
  <2>3. \A i \in 1..n : phrase[i] = text[s + i - 1] /\ s + i - 1 \in DOMAIN text BY <2>1, <2>2
  <2> QED BY <1>1, <2>3
<1>5. ASSUME NEW start \in DOMAIN text,
             \A i \in DOMAIN phrase : start + i - 1 \in DOMAIN text /\ text[start + i - 1] = phrase[i]
      PROVE  ReadsIn(text, phrase)
  <2>1. n \in DOMAIN phrase BY <1>1
  <2>2. start + n - 1 \in DOMAIN text BY <1>5, <2>1
  <2> DEFINE part == SubSeq(text, start, start + n - 1)
  <2>3. part \in Seq(S) /\ Len(part) = n /\ \A i \in 1..n : part[i] = text[start + i - 1] BY <1>3, <2>2
  <2>4. \A i \in 1..n : part[i] = phrase[i] BY <1>1, <1>5, <2>3
  <2> HIDE DEF part
  <2>5. part = phrase
    <3>1. Len(part) = Len(phrase) BY <2>3
    <3>2. \A i \in 1..Len(part) : part[i] = phrase[i] BY <2>3, <2>4
    <3>3. part \in Seq(S) /\ phrase \in Seq(S) BY <1>1, <2>3
    <3> HIDE DEF n
    <3> QED BY <3>1, <3>2, <3>3, SeqEqual
  <2> QED BY <2>2, <2>5 DEF ReadsIn, part
<1> QED BY <1>4, <1>5

(* What was decoded for a query with phrases.                               *)
DecodedWords == [t \in ScoringTerms(query) \cup query.excluded |-> Decoded(ListOf(t))]

LEMMA DecodedWordsAre ==
  ASSUME Asked, postings = DecodedWords, NEW t \in ScoringTerms(query) \cup query.excluded
  PROVE  /\ t \in Terms
         /\ \A id : id \in DOMAIN postings[t] <=> id \in 1..Len(corpus) /\ Says(id, t)
         /\ \A id \in DOMAIN postings[t] : postings[t][id] = Occurrences[corpus[id]][t]
<1>1. t \in Terms BY AskedIs
<1>2. corpus \in Corpora /\ segments = <<Encoded(Whole)>> BY DEF Asked
<1>3. postings[t] = Decoded(ListOf(t)) BY DEF DecodedWords
<1>4. ListOf(t) = Encoded(Whole).lists[t] BY <1>2 DEF ListOf, segment
<1> DEFINE n == Len(corpus)
<1>5. n \in Nat /\ 1 \in 1..n + 1 /\ 1 + n <= n + 1
  <2>1. n \in Nat BY <1>2, CorpusIs
  <2> HIDE DEF n
  <2> QED BY <2>1
<1>6. Decoded(Encoded(Slice(1, n)).lists[t]) = Found(1, n, t) BY <1>1, <1>2, <1>5, SegmentDecodes
<1>7. postings[t] = Found(1, n, t) BY <1>3, <1>4, <1>6 DEF Whole
<1>8. DOMAIN Found(1, n, t) = Having(1, n, t)
      /\ \A id \in Having(1, n, t) : id \in 1..n /\ Found(1, n, t)[id] = Occurrences[corpus[1 + id - 1]][t]
  BY <1>1, <1>2, <1>5, FoundIs
<1>9. \A id : id \in Having(1, n, t) <=> id \in 1..n /\ Says(id, t) BY <1>1, <1>2, CarriersAre DEF Carriers
<1>10. \A id \in 1..n : 1 + id - 1 = id BY <1>5
<1> HIDE DEF n
<1> QED BY <1>1, <1>7, <1>8, <1>9, <1>10 DEF n

LEMMA MatchesAreRead ==
  ASSUME Asked, postings = DecodedWords, NEW p \in query.phrases, NEW id \in 1..Len(corpus)
  PROVE  /\ (\E f \in Fields : ReadsIn(Words(corpus[id], f), p)) => \A t \in ToSet(p) : Says(id, t)
         /\ (\A t \in ToSet(p) : Says(id, t)) =>
              (PhraseMatches(p, id) <=> \E f \in Fields : ReadsIn(Words(corpus[id], f), p))
<1>1. p \in Seq(Terms) \ {<< >>} /\ p \in Seq(Terms) BY AskedIs
<1>2. corpus[id] \in Documents BY CorpusIs DEF Asked
<1>3. \A i \in DOMAIN p : p[i] \in Terms /\ p[i] \in ToSet(p) BY <1>1, ElementOfSeq DEF ToSet
<1>4. 1 \in DOMAIN p
  <2>1. Len(p) \in Nat /\ Len(p) # 0 /\ DOMAIN p = 1..Len(p) BY <1>1, EmptySeq
  <2> QED BY <2>1
<1>5. \A i \in DOMAIN p : p[i] \in ScoringTerms(query) \cup query.excluded BY <1>3 DEF ScoringTerms
<1>6. \A f \in Fields : Words(corpus[id], f) \in Seq(Terms) BY <1>2, WordsAre
<1>7. ASSUME NEW f \in Fields, NEW i \in DOMAIN p
      PROVE  Occurrences[corpus[id]][p[i]][f] = {q \in DOMAIN Words(corpus[id], f) : Words(corpus[id], f)[q] = p[i]}
  BY <1>2, <1>3, OccurrencesAre
<1>8. ASSUME NEW f \in Fields
      PROVE  ReadsIn(Words(corpus[id], f), p) <=>
               \E start \in DOMAIN Words(corpus[id], f) : \A i \in DOMAIN p :
                 start + i - 1 \in Occurrences[corpus[id]][p[i]][f]
  <2> DEFINE text == Words(corpus[id], f)
  <2>1. text \in Seq(Terms) BY <1>6
  <2>2. \A i \in DOMAIN p : Occurrences[corpus[id]][p[i]][f] = {q \in DOMAIN text : text[q] = p[i]} BY <1>7
  <2> HIDE DEF text
  <2>3. ReadsIn(text, p) <=> \E start \in DOMAIN text : \A i \in DOMAIN p : start + i - 1 \in DOMAIN text /\ text[start + i - 1] = p[i]
    BY <1>1, <2>1, PhraseRead
  <2>4. \A start : \A i \in DOMAIN p :
          start + i - 1 \in Occurrences[corpus[id]][p[i]][f] <=> start + i - 1 \in DOMAIN text /\ text[start + i - 1] = p[i]
    BY <2>2
  <2>5. ReadsIn(text, p) <=> \E start \in DOMAIN text : \A i \in DOMAIN p : start + i - 1 \in Occurrences[corpus[id]][p[i]][f]
    BY <2>3, <2>4
  <2> QED BY <2>5 DEF text
<1>9. ASSUME NEW f \in Fields, ReadsIn(Words(corpus[id], f), p), NEW t \in ToSet(p) PROVE Says(id, t)
  <2>1. PICK i \in DOMAIN p : p[i] = t BY DEF ToSet
  <2>2. PICK start \in DOMAIN Words(corpus[id], f) : \A j \in DOMAIN p : start + j - 1 \in Occurrences[corpus[id]][p[j]][f]
    BY <1>8, <1>9
  <2>3. start + i - 1 \in Occurrences[corpus[id]][t][f] BY <2>1, <2>2
  <2>4. Occurrences[corpus[id]][t][f] # {} BY <2>3
  <2> QED BY <2>4 DEF Says, Has
<1>10. ASSUME \A t \in ToSet(p) : Says(id, t)
       PROVE  PhraseMatches(p, id) <=> \E f \in Fields : ReadsIn(Words(corpus[id], f), p)
  <2>1. ASSUME NEW i \in DOMAIN p PROVE postings[p[i]][id] = Occurrences[corpus[id]][p[i]]
    <3>1. Says(id, p[i]) BY <1>3, <1>10
    <3>2. id \in DOMAIN postings[p[i]] BY <1>5, <3>1, DecodedWordsAre
    <3> QED BY <1>5, <3>2, DecodedWordsAre
  <2>2. PhraseMatches(p, id) <=>
          \E f \in Fields : \E start \in Occurrences[corpus[id]][p[1]][f] :
            \A i \in DOMAIN p : start + i - 1 \in Occurrences[corpus[id]][p[i]][f]
    BY <1>4, <2>1 DEF PhraseMatches
  <2>3. ASSUME NEW f \in Fields
        PROVE  (\E start \in Occurrences[corpus[id]][p[1]][f] : \A i \in DOMAIN p : start + i - 1 \in Occurrences[corpus[id]][p[i]][f])
                 <=> ReadsIn(Words(corpus[id], f), p)
    <3> DEFINE text == Words(corpus[id], f)
               at(i) == Occurrences[corpus[id]][p[i]][f]
    <3>1. at(1) \subseteq DOMAIN text BY <1>4, <1>7
    <3>2. DOMAIN text \subseteq Int
      <4>1. DOMAIN text = 1..Len(text) BY <1>6, LenProperties
      <4> HIDE DEF text
      <4> QED BY <4>1
    <3>3. ReadsIn(text, p) <=> \E start \in DOMAIN text : \A i \in DOMAIN p : start + i - 1 \in at(i) BY <1>8
    <3> HIDE DEF text, at
    <3>4. \A start \in DOMAIN text : (\A i \in DOMAIN p : start + i - 1 \in at(i)) => start \in at(1)
      <4> SUFFICES ASSUME NEW start \in DOMAIN text, \A i \in DOMAIN p : start + i - 1 \in at(i) PROVE start \in at(1)
        OBVIOUS
      <4>1. start + 1 - 1 \in at(1) BY <1>4
      <4>2. start + 1 - 1 = start BY <3>2
      <4> QED BY <4>1, <4>2
    <3>5. ReadsIn(text, p) <=> \E start \in at(1) : \A i \in DOMAIN p : start + i - 1 \in at(i) BY <3>1, <3>3, <3>4
    <3> QED BY <3>5 DEF text, at
  <2> QED BY <2>2, <2>3
<1> QED BY <1>9, <1>10

(* The candidates are what is wanted, and each is scored in full.           *)
LEMMA CandidatesAreWanted ==
  ASSUME Asked, postings = DecodedWords, query.phrases # {}
  PROVE  Candidates = Wants
<1>1. DOMAIN segment.docs = 1..Len(corpus) BY DocsAre DEF Asked
<1>2. ASSUME NEW id \in 1..Len(corpus), NEW t \in ScoringTerms(query) \cup query.excluded
      PROVE  id \in DOMAIN postings[t] <=> Says(id, t)
  BY DecodedWordsAre
<1>3. \A p \in query.phrases : \A t \in ToSet(p) : t \in ScoringTerms(query) \cup query.excluded BY DEF ScoringTerms
<1>4. ASSUME NEW id \in 1..Len(corpus)
      PROVE  id \in Candidates <=> Wanted(id)
  <2>1. (\A p \in query.phrases : \A t \in ToSet(p) : id \in DOMAIN postings[t])
          <=> \A p \in query.phrases : \A t \in ToSet(p) : Says(id, t)
    BY <1>2, <1>3
  <2>2. (\A t \in query.excluded : id \notin DOMAIN postings[t]) <=> \A t \in query.excluded : ~Says(id, t)
    BY <1>2
  <2>3. \A p \in query.phrases :
          /\ (\E f \in Fields : ReadsIn(Words(corpus[id], f), p)) => \A t \in ToSet(p) : Says(id, t)
          /\ (\A t \in ToSet(p) : Says(id, t)) =>
               (PhraseMatches(p, id) <=> \E f \in Fields : ReadsIn(Words(corpus[id], f), p))
    BY MatchesAreRead
  <2>4. Wanted(id) <=> /\ \A p \in query.phrases : \E f \in Fields : ReadsIn(Words(corpus[id], f), p)
                       /\ \A t \in query.excluded : ~Says(id, t)
    BY DEF Wanted
  <2>5. id \in Candidates <=>
          /\ \A p \in query.phrases : \A t \in ToSet(p) : id \in DOMAIN postings[t]
          /\ \A t \in query.excluded : id \notin DOMAIN postings[t]
          /\ \A p \in query.phrases : PhraseMatches(p, id)
    BY <1>1 DEF Candidates
  <2> QED BY <2>1, <2>2, <2>3, <2>4, <2>5
<1>5. Candidates \subseteq 1..Len(corpus) BY <1>1 DEF Candidates
<1> QED BY <1>4, <1>5 DEF Wants

LEMMA CandidateScores ==
  ASSUME Asked, postings = DecodedWords, NEW id \in 1..Len(corpus)
  PROVE  CandidateScore(id) = TrueScore(id)
<1> DEFINE W == {u \in ScoringTerms(query) : Says(id, u)}
           V == {u \in ScoringTerms(query) : id \in DOMAIN postings[u]}
           e(t) == Idf(TotalDocs, DocFreq(t, segment.lists[t].count)) * Saturation(Weighted(postings[t][id]), NormOf(id), Params)
           g(t) == Idf(Stats.docs, IF t \in DOMAIN Stats.freq THEN Stats.freq[t] ELSE Freq(t))
                     * Saturation(Weighted(Occurrences[corpus[id]][t]),
                                  LengthNorm(Tokens[corpus[id]], Stats.length, Stats.docs), Params)
<1>1. V = W BY DecodedWordsAre
<1>2. ASSUME NEW t \in W PROVE e(t) = g(t)
  <2>1. t \in Terms BY AskedIs
  <2>2. IdfOf(t) = Idf(Stats.docs, IF t \in DOMAIN Stats.freq THEN Stats.freq[t] ELSE Freq(t)) BY <2>1, TotalsAre
  <2>3. NormOf(id) = LengthNorm(Tokens[corpus[id]], Stats.length, Stats.docs) BY NormsAre
  <2>4. id \in DOMAIN postings[t] BY <1>1
  <2>5. postings[t][id] = Occurrences[corpus[id]][t] BY <2>4, DecodedWordsAre
  <2>6. IdfOf(t) = Idf(TotalDocs, DocFreq(t, segment.lists[t].count)) BY DEF IdfOf, ListOf
  <2> QED BY <2>2, <2>3, <2>5, <2>6
<1>3. [t \in V |-> e(t)] = [t \in W |-> g(t)]
  <2> HIDE DEF e, g, V, W
  <2> QED BY <1>1, <1>2
<1>4. CandidateScore(id) = AuthorityOf(id) * SumFunction([t \in V |-> e(t)]) BY DEF CandidateScore
<1>5. TrueScore(id) = Authority(corpus[id].rank, Stats.docs) * SumFunction([t \in W |-> g(t)]) BY DEF TrueScore
<1>6. AuthorityOf(id) = Authority(corpus[id].rank, Stats.docs) BY NormsAre
<1> HIDE DEF e, g, V, W
<1> QED BY <1>3, <1>4, <1>5, <1>6

LEMMA PhrasesAreBest ==
  ASSUME Asked, postings = DecodedWords, query.phrases # {}
  PROVE  Best({[score |-> CandidateScore(id), doc |-> id] : id \in Candidates}) = Best(Records)
<1>1. Candidates = Wants BY CandidatesAreWanted
<1>2. \A id \in Wants : CandidateScore(id) = TrueScore(id) BY CandidateScores DEF Wants
<1>3. {[score |-> CandidateScore(id), doc |-> id] : id \in Candidates} = Records BY <1>1, <1>2 DEF Records, RecordOf
<1> QED BY <1>3

-----------------------------------------------------------------------------
(* The invariant, state by state of a search.                               *)

Unopened ==
  pc \in {"index", "absorb", "encode", "merge", "ask", "open", "phrases"} => terms = << >> /\ excluded = << >> /\ heap = {}
Cursored == \/ terms = << >> /\ excluded = << >>
            \/ Asked /\ OnWords(terms) /\ OnDropped(excluded)
Walked == pc = "walk" => /\ Walks /\ query.phrases = {} /\ OnWords(terms) /\ OnDropped(excluded)
                         /\ WalkInv(terms, excluded, heap)
Phrased == pc = "phrases" => query.phrases # {} /\ postings = DecodedWords
Finished == pc = "finish" => heap = Best(Records)
ScanInv == SegmentInv /\ Unopened /\ Cursored /\ Walked /\ Phrased /\ Finished /\ AnswerIsExhaustive

LEMMA SearchIsAsked ==
  ASSUME SegmentInv, pc \in Searching \ {"ask"} PROVE Asked
BY DEF SegmentInv, Asked

LEMMA CursoredStays ==
  ASSUME Cursored, UNCHANGED Asking, UNCHANGED <<terms, excluded>> PROVE Cursored'
<1>1. Asked' <=> Asked BY AskingStays
<1>2. OnWords(terms)' <=> OnWords(terms)
  <2>1. OnWords(terms)' <=> OnWords(terms') BY CursorsStay DEF OnWords
  <2> QED BY <2>1
<1>3. OnDropped(excluded)' <=> OnDropped(excluded) BY CursorsStay
<1> QED BY <1>1, <1>2, <1>3 DEF Cursored

LEMMA BestStays ==
  ASSUME UNCHANGED Asking PROVE Best(Records)' = Best(Records)
<1>1. Records' = Records BY ScoresStay
<1>2. limit' = limit BY DEF Asking
<1>3. Best(Records)' = {r \in Records' : Cardinality({s \in Records' : Worse(r, s)}) < limit'} BY DEF Best, Worse
<1>4. Best(Records) = {r \in Records : Cardinality({s \in Records : Worse(r, s)}) < limit} BY DEF Best
<1> QED BY <1>1, <1>2, <1>3, <1>4

LEMMA OrderedStays ==
  ASSUME UNCHANGED Asking PROVE Ordered(Ranking)' = Ordered(Ranking)
<1>1. Ranking' = Ranking BY RankingStays
<1>2. Ordered(Ranking)' = Sorted(Ranking', Before) BY DEF Ordered, Sorted, Before
<1>3. Ordered(Ranking) = Sorted(Ranking, Before) BY DEF Ordered
<1> QED BY <1>1, <1>2, <1>3

LEMMA ScanStarts == Init => ScanInv
<1> SUFFICES ASSUME Init PROVE ScanInv OBVIOUS
<1>1. SegmentInv BY SegmentStarts
<1>2. pc = "index" /\ terms = << >> /\ excluded = << >> /\ heap = {} BY DEF Init
<1> QED BY <1>1, <1>2 DEF ScanInv, Unopened, Cursored, Walked, Phrased, Finished, AnswerIsExhaustive

(* The segment is made, and a query comes in.                               *)
LEMMA MakingKeeps ==
  ASSUME ScanInv, SegmentInv', Index \/ Absorb \/ Encode \/ Merge \/ Ask PROVE ScanInv'
<1>1. pc \in {"index", "absorb", "encode", "merge", "ask"} /\ pc' \in {"absorb", "encode", "merge", "ask", "open"}
  BY DEF Index, Absorb, Encode, Merge, Ask
<1>2. UNCHANGED <<terms, excluded, heap>> BY DEF Index, Absorb, Encode, Merge, Ask
<1>3. terms = << >> /\ excluded = << >> /\ heap = {} BY <1>1 DEF ScanInv, Unopened
<1> QED BY <1>1, <1>2, <1>3 DEF ScanInv, Unopened, Cursored, Walked, Phrased, Finished, AnswerIsExhaustive

LEMMA SearchableIs ==
  ASSUME Asked, ~NothingToSearch PROVE limit \in Nat /\ limit > 0
<1>1. limit \in Nat BY AskedIs
<1>2. limit # 0 BY DEF NothingToSearch
<1> QED BY <1>1, <1>2

LEMMA OpenKeeps ==
  ASSUME ScanInv, SegmentInv', Open PROVE ScanInv'
<1>1. /\ pc = "open" /\ ~NothingToSearch /\ query.phrases = {}
      /\ UNCHANGED Asking /\ UNCHANGED heap
      /\ terms' = [i \in DOMAIN Present |-> Opened(Present[i])]
      /\ byCeiling' = ByCeiling(terms')
      /\ prefix' = [n \in 0..Len(terms') |-> SumFunction([k \in 1..n |-> terms'[byCeiling'[k]].ceiling])]
      /\ excluded' = [i \in DOMAIN Dropped |-> Cursor(segment.lists[Dropped[i]])]
      /\ pc' = IF Present = << >> THEN "finish" ELSE "walk"
  BY DEF Open, Asking, input, Dropped
<1>2. Asked
  <2>1. pc \in Searching \ {"ask"} BY <1>1 DEF Searching
  <2> QED BY <2>1, SearchIsAsked DEF ScanInv
<1>3. limit \in Nat /\ limit > 0 BY <1>1, <1>2, SearchableIs
<1>4. heap' = {} BY <1>1 DEF ScanInv, Unopened
<1>5. PICK list, drop : list = terms' /\ drop = excluded' OBVIOUS
<1>6. list = [i \in DOMAIN Present |-> Opened(Present[i])] /\ drop = [i \in DOMAIN Dropped |-> Cursor(segment.lists[Dropped[i]])]
  BY <1>1, <1>5
<1>7. Walks' BY <1>1, <1>2, <1>3, OpenedWalks
<1>8. /\ OnWords(list) /\ OnDropped(drop)
      /\ Kept({}, 0) /\ NoneMissed(list, {}, 0) /\ NoneDropped(drop, 0)
      /\ \A i \in 1..Len(Present) : list[i].cursor.exhausted \/ list[i].cursor.doc > 0
  BY <1>1, <1>2, <1>3, <1>6, OpenedReads
<1>9. OnWords(list)' /\ OnDropped(drop)' BY <1>1, <1>8, CursorsStay
<1>10. OnWords(terms)' /\ OnDropped(excluded)' BY <1>5, <1>9
<1>11. Kept({}, 0)' /\ NoneMissed(list, {}, 0)' /\ NoneDropped(drop, 0)' BY <1>1, <1>8, KeptStays
<1>12. BeyondLast(list, {}, 0)'
  <2>1. Present' = Present BY <1>1, AskingStays
  <2> QED BY <1>8, <2>1 DEF BeyondLast
<1>13. WalkInv(list, drop, {})' BY <1>11, <1>12 DEF WalkInv
<1>14. WalkInv(terms, excluded, heap)' BY <1>4, <1>5, <1>13
<1>15. Asked' /\ query' = query BY <1>1, <1>2, AskingStays DEF Asking
<1>16. Walked' BY <1>1, <1>7, <1>10, <1>14, <1>15 DEF Walked
<1>17. Cursored' BY <1>10, <1>15 DEF Cursored
<1>18. Finished'
  <2> SUFFICES ASSUME pc' = "finish" PROVE heap' = Best(Records)' BY DEF Finished
  <2>1. Present = << >> BY <1>1
  <2>2. Best(Records) = {} BY <1>1, <1>2, <2>1, NoWordsPresent
  <2>3. Best(Records)' = Best(Records) BY <1>1, BestStays
  <2> QED BY <1>4, <2>2, <2>3
<1>19. pc' \in {"finish", "walk"} BY <1>1
<1> QED BY <1>16, <1>17, <1>18, <1>19 DEF ScanInv, Unopened, Phrased, AnswerIsExhaustive

LEMMA OpenNothingKeeps ==
  ASSUME ScanInv, SegmentInv', OpenNothing PROVE ScanInv'
<1>1. /\ pc = "open" /\ NothingToSearch /\ answer' = << >> /\ pc' = "done"
      /\ UNCHANGED Asking /\ UNCHANGED <<terms, excluded>>
  BY DEF OpenNothing, Asking, input
<1>2. Asked
  <2>1. pc \in Searching \ {"ask"} BY <1>1 DEF Searching
  <2> QED BY <2>1, SearchIsAsked DEF ScanInv
<1>3. Best(Records) = {} BY <1>1, <1>2, NothingToFind
<1>4. Ordered(Ranking) = << >> BY <1>2, <1>3, NothingIsRanked
<1>5. Ordered(Ranking)' = Ordered(Ranking) BY <1>1, OrderedStays
<1>6. Cursored' BY <1>1, CursoredStays DEF ScanInv
<1> QED BY <1>1, <1>4, <1>5, <1>6 DEF ScanInv, Unopened, Walked, Phrased, Finished, AnswerIsExhaustive

LEMMA StopKeeps ==
  ASSUME ScanInv, SegmentInv', Stop PROVE ScanInv'
<1>1. /\ pc = "walk" /\ Walking(NonEssential) = {} /\ pc' = "finish"
      /\ UNCHANGED Asking /\ UNCHANGED <<terms, excluded>> /\ heap' = heap
  BY DEF Stop, Asking, input
<1>2. /\ Walks /\ query.phrases = {} /\ OnWords(terms) /\ WalkInv(terms, excluded, heap)
  BY <1>1 DEF ScanInv, Walked
<1>3. heap = Best(Records) BY <1>1, <1>2, StopIsBest
<1>4. Best(Records)' = Best(Records) BY <1>1, BestStays
<1>5. Cursored' BY <1>1, CursoredStays DEF ScanInv
<1> QED BY <1>1, <1>3, <1>4, <1>5 DEF ScanInv, Unopened, Walked, Phrased, Finished, AnswerIsExhaustive

LEMMA TurnInvariant ==
  ASSUME ScanInv, SegmentInv', Turn PROVE ScanInv'
<1>1. pc = "walk" /\ pc' = "walk" /\ UNCHANGED Asking /\ UNCHANGED Planned BY DEF Turn, Asking, Planned, input
<1>2. Walks /\ query.phrases = {} /\ OnWords(terms) /\ OnDropped(excluded) /\ WalkInv(terms, excluded, heap)
  BY <1>1 DEF ScanInv, Walked
<1>3. IsHeap(heap) BY <1>2 DEF WalkInv, Kept
<1>4. PICK list, drop, h : list = terms' /\ drop = excluded' /\ h = heap' OBVIOUS
<1>5. OnWords(terms') /\ OnDropped(excluded') BY <1>2, <1>3, TurnMoves
<1>6. WalkInv(list, drop, h) BY <1>2, <1>4, TurnKeeps
<1>7. OnWords(list)' /\ OnDropped(drop)' BY <1>1, <1>4, <1>5, CursorsStay
<1>8. Walks' /\ WalkInv(list, drop, h)' BY <1>1, <1>2, <1>6, WalkStays
<1>9. OnWords(terms)' /\ OnDropped(excluded)' BY <1>4, <1>7
<1>10. WalkInv(terms, excluded, heap)' BY <1>4, <1>8
<1>11. Asked' /\ query' = query BY <1>1, <1>2, AskingStays DEF Asking, Walks
<1> QED BY <1>1, <1>2, <1>8, <1>9, <1>10, <1>11
        DEF ScanInv, Unopened, Cursored, Walked, Phrased, Finished, AnswerIsExhaustive

LEMMA FinishKeeps ==
  ASSUME ScanInv, SegmentInv', Finish PROVE ScanInv'
<1>1. /\ pc = "finish" /\ answer' = Hits(heap) /\ pc' = "done"
      /\ UNCHANGED Asking /\ UNCHANGED <<terms, excluded>>
  BY DEF Finish, Asking, input
<1>2. Asked
  <2>1. pc \in Searching \ {"ask"} BY <1>1 DEF Searching
  <2> QED BY <2>1, SearchIsAsked DEF ScanInv
<1>3. heap = Best(Records) BY <1>1 DEF ScanInv, Finished
<1>4. Hits(heap) = Ordered(Ranking) BY <1>2, <1>3, HitsAreRanked
<1>5. Ordered(Ranking)' = Ordered(Ranking) BY <1>1, OrderedStays
<1>6. Cursored' BY <1>1, CursoredStays DEF ScanInv
<1> QED BY <1>1, <1>4, <1>5, <1>6 DEF ScanInv, Unopened, Walked, Phrased, Finished, AnswerIsExhaustive

LEMMA DecodeKeeps ==
  ASSUME ScanInv, SegmentInv', DecodeWords PROVE ScanInv'
<1>1. /\ pc = "open" /\ query.phrases # {} /\ pc' = "phrases"
      /\ postings' = DecodedWords
      /\ UNCHANGED Asking /\ UNCHANGED <<terms, excluded, heap>>
  BY DEF DecodeWords, Asking, input, DecodedWords, ListOf
<1>2. query' = query BY <1>1 DEF Asking
<1>3. \A t : ListOf(t)' = ListOf(t) BY <1>1, AskingStays
<1>4. DecodedWords' = DecodedWords BY <1>2, <1>3 DEF DecodedWords, ScoringTerms
<1>5. Cursored' BY <1>1, CursoredStays DEF ScanInv
<1> QED BY <1>1, <1>2, <1>4, <1>5 DEF ScanInv, Unopened, Walked, Phrased, Finished, AnswerIsExhaustive

LEMMA CandidatesKeep ==
  ASSUME ScanInv, SegmentInv', ScoreCandidates PROVE ScanInv'
<1>1. /\ pc = "phrases" /\ pc' = "finish"
      /\ heap' = Best({[score |-> CandidateScore(id), doc |-> id] : id \in Candidates})
      /\ UNCHANGED Asking /\ UNCHANGED <<terms, excluded>>
  BY DEF ScoreCandidates, Asking, input
<1>2. Asked
  <2>1. pc \in Searching \ {"ask"} BY <1>1 DEF Searching
  <2> QED BY <2>1, SearchIsAsked DEF ScanInv
<1>3. query.phrases # {} /\ postings = DecodedWords BY <1>1 DEF ScanInv, Phrased
<1>4. heap' = Best(Records) BY <1>1, <1>2, <1>3, PhrasesAreBest
<1>5. Best(Records)' = Best(Records) BY <1>1, BestStays
<1>6. Cursored' BY <1>1, CursoredStays DEF ScanInv
<1> QED BY <1>1, <1>4, <1>5, <1>6 DEF ScanInv, Unopened, Walked, Phrased, Finished, AnswerIsExhaustive

LEMMA NothingChanges ==
  ASSUME ScanInv, SegmentInv', UNCHANGED scanVars PROVE ScanInv'
<1>1. UNCHANGED Asking /\ UNCHANGED Planned /\ UNCHANGED <<terms, excluded, heap, answer, pc, postings>>
  BY DEF scanVars, Asking, Planned
<1>2. Unopened' BY <1>1 DEF ScanInv, Unopened
<1>3. Cursored' BY <1>1, CursoredStays DEF ScanInv
<1>4. Walked'
  <2> SUFFICES ASSUME pc = "walk"
               PROVE  /\ Walks' /\ query'.phrases = {} /\ OnWords(terms)' /\ OnDropped(excluded)'
                      /\ WalkInv(terms, excluded, heap)'
    BY <1>1 DEF Walked
  <2>1. Walks /\ query.phrases = {} /\ OnWords(terms) /\ OnDropped(excluded) /\ WalkInv(terms, excluded, heap)
    BY DEF ScanInv, Walked
  <2>2. PICK list, drop, h : list = terms' /\ drop = excluded' /\ h = heap' OBVIOUS
  <2>3. OnWords(list)' /\ OnDropped(drop)' BY <1>1, <2>1, <2>2, CursorsStay
  <2>4. Walks' /\ WalkInv(list, drop, h)' BY <1>1, <2>1, <2>2, WalkStays
  <2> QED BY <1>1, <2>1, <2>2, <2>3, <2>4 DEF Asking
<1>5. Phrased'
  <2>1. query' = query /\ DecodedWords' = DecodedWords
    <3>1. \A t : ListOf(t)' = ListOf(t) BY <1>1, AskingStays
    <3> QED BY <1>1, <3>1 DEF DecodedWords, ScoringTerms, Asking
  <2> QED BY <1>1, <2>1 DEF ScanInv, Phrased
<1>6. Finished' BY <1>1, BestStays DEF ScanInv, Finished
<1>7. AnswerIsExhaustive' BY <1>1, OrderedStays DEF ScanInv, AnswerIsExhaustive
<1> QED BY <1>2, <1>3, <1>4, <1>5, <1>6, <1>7 DEF ScanInv

LEMMA ScanStep == ScanInv /\ [Next]_scanVars => ScanInv'
<1> SUFFICES ASSUME ScanInv, [Next]_scanVars PROVE ScanInv' OBVIOUS
<1>1. SegmentInv' BY SegmentStep DEF ScanInv
<1>2. CASE Index \/ Absorb \/ Encode \/ Merge \/ Ask BY <1>1, <1>2, MakingKeeps
<1>3. CASE Open BY <1>1, <1>3, OpenKeeps
<1>4. CASE OpenNothing BY <1>1, <1>4, OpenNothingKeeps
<1>5. CASE Stop BY <1>1, <1>5, StopKeeps
<1>6. CASE Turn BY <1>1, <1>6, TurnInvariant
<1>7. CASE Finish BY <1>1, <1>7, FinishKeeps
<1>8. CASE DecodeWords BY <1>1, <1>8, DecodeKeeps
<1>9. CASE ScoreCandidates BY <1>1, <1>9, CandidatesKeep
<1>10. CASE UNCHANGED scanVars BY <1>1, <1>10, NothingChanges
<1> QED BY <1>2, <1>3, <1>4, <1>5, <1>6, <1>7, <1>8, <1>9, <1>10 DEF Next

(* The words' cursors are on their lists, the heap is the best of what the  *)
(* walk has gone past, and nothing ahead of it has been left behind.        *)
THEOREM SearchHolds == Spec => []ScanInv
BY ScanStarts, ScanStep, PTL DEF Spec

(* However the segment came to be, whichever blocks and words the walk of   *)
(* search.rs left unread and whichever statistics it scored with, the       *)
(* answer is the exhaustive ranking of the documents.                       *)
THEOREM SearchIsExhaustive == Spec => []AnswerIsExhaustive
<1>1. ScanInv => AnswerIsExhaustive BY DEF ScanInv
<1> QED BY <1>1, SearchHolds, PTL

LEMMA CursorsRead == ScanInv => CursorsReadTheList
<1> SUFFICES ASSUME ScanInv,
                    NEW c \in {terms[i].cursor : i \in DOMAIN terms} \cup ToSet(excluded), ~c.exhausted
             PROVE  /\ c.doc = DecodedDocs(c.list)[c.index + 1]
                    /\ c.at = c.index + 1
                    /\ c.fields = c.list.cells[c.index + 1].fields
  BY DEF CursorsReadTheList
<1>1. \E list, ids : Lists(list, ids) /\ Reads(c, list, ids)
  <2>1. CASE terms = << >> /\ excluded = << >> BY <2>1 DEF ToSet
  <2>2. CASE Asked /\ OnWords(terms) /\ OnDropped(excluded)
    <3>1. CASE c \in {terms[i].cursor : i \in DOMAIN terms}
      <4>1. PICK i \in DOMAIN terms : c = terms[i].cursor BY <3>1
      <4>2. i \in 1..Len(Present) BY <2>2, LengthIs
      <4> QED BY <2>2, <4>1, <4>2, WordReads
    <3>2. CASE c \in ToSet(excluded)
      <4>1. PICK i \in DOMAIN excluded : c = excluded[i] BY <3>2 DEF ToSet
      <4>2. i \in DOMAIN Dropped BY <2>2 DEF OnDropped
      <4> QED BY <2>2, <4>1, <4>2, DroppedReads
    <3> QED BY <3>1, <3>2
  <2> QED BY <2>1, <2>2 DEF ScanInv, Cursored
<1>2. PICK list, ids : Lists(list, ids) /\ Reads(c, list, ids) BY <1>1
<1>3. Stands(c, list, ids, c.index) /\ c.list = list BY <1>2, ReadsIs DEF Reads
<1>4. DecodedDocs(list) = ids BY <1>2, DecodedDocsAre
<1> QED BY <1>3, <1>4 DEF Stands

(* A cursor that skipped, sought or advanced (segment.rs) is on the posting *)
(* that a plain decode finds at its index, of any list and any interval.    *)
THEOREM CursorsAreFaithful == Spec => []CursorsReadTheList
BY CursorsRead, SearchHolds, PTL

LEMMA TurnsGoOn == ScanInv /\ Turn => PassedBy(terms') > PassedBy(terms)
<1> SUFFICES ASSUME ScanInv, Turn PROVE PassedBy(terms') > PassedBy(terms) OBVIOUS
<1>1. pc = "walk" BY DEF Turn
<1>2. Walks /\ OnWords(terms) /\ OnDropped(excluded) /\ WalkInv(terms, excluded, heap) BY <1>1 DEF ScanInv, Walked
<1>3. Asked /\ IsHeap(heap) BY <1>2 DEF Walks, WalkInv, Kept
<1> DEFINE n == Len(Present)
<1>4. PICK list : list = terms' OBVIOUS
<1>5. /\ OnWords(list)
      /\ \A j \in 1..n : Passed(terms[j].cursor) <= Passed(list[j].cursor)
      /\ \E j \in 1..n : Passed(terms[j].cursor) < Passed(list[j].cursor)
  <2>1. OnWords(terms') BY <1>2, <1>3, TurnMoves
  <2>2. \A j \in 1..Len(Present) : Passed(terms[j].cursor) <= Passed(terms'[j].cursor) BY <1>2, <1>3, TurnMoves
  <2>3. \E j \in 1..Len(Present) : Passed(terms[j].cursor) < Passed(terms'[j].cursor) BY <1>2, <1>3, TurnMoves
  <2> QED BY <1>4, <2>1, <2>2, <2>3
<1>6. DOMAIN terms = 1..n /\ DOMAIN list = 1..n BY <1>2, <1>3, <1>5, LengthIs
<1>7. ASSUME NEW j \in 1..n PROVE Passed(terms[j].cursor) \in Nat /\ Passed(list[j].cursor) \in Nat
  <2>1. Lists(ListOf(Present[j]), IdsOf(Present[j])) /\ Reads(terms[j].cursor, ListOf(Present[j]), IdsOf(Present[j]))
    BY <1>2, <1>3, WordReads
  <2>2. Reads(list[j].cursor, ListOf(Present[j]), IdsOf(Present[j])) BY <1>3, <1>5, WordReads
  <2>3. Passed(terms[j].cursor) \in 0..ListOf(Present[j]).count BY <2>1, ReadsIs
  <2>4. Passed(list[j].cursor) \in 0..ListOf(Present[j]).count BY <2>1, <2>2, ReadsIs
  <2> QED BY <2>3, <2>4
<1> DEFINE f == [j \in 1..n |-> Passed(terms[j].cursor)]
           g == [j \in 1..n |-> Passed(list[j].cursor)]
<1>8. PassedBy(terms) = SumFunctionOnSet(f, 1..n) BY <1>6 DEF PassedBy, SumFunction
<1>9. PassedBy(list) = SumFunctionOnSet(g, 1..n) BY <1>6 DEF PassedBy, SumFunction
<1>10. IsFiniteSet(1..n) BY <1>3, SomeWords
<1>11. \A j \in 1..n : f[j] \in Nat /\ g[j] \in Nat /\ f[j] <= g[j] BY <1>5, <1>7
<1>12. \E j \in 1..n : f[j] < g[j] BY <1>5
<1> HIDE DEF f, g, n
<1>13. SumFunctionOnSet(f, 1..n) < SumFunctionOnSet(g, 1..n)
       /\ SumFunctionOnSet(f, 1..n) \in Nat /\ SumFunctionOnSet(g, 1..n) \in Nat
  BY <1>10, <1>11, <1>12, SumGrows
<1>14. PassedBy(list) > PassedBy(terms) BY <1>8, <1>9, <1>13
<1>15. PassedBy(terms') = PassedBy(list) BY <1>4
<1> QED BY <1>14, <1>15

(* A turn of the loop leaves postings behind, so that the walk ends: the    *)
(* last block, which there is no skipping out of, does not hold it up.      *)
THEOREM WalkGoesOn == Spec => TurnsAdvance
<1>1. ScanInv /\ [Next]_scanVars => [pc = "walk" /\ pc' = "walk" => PassedBy(terms') > PassedBy(terms)]_scanVars
  <2> SUFFICES ASSUME ScanInv, Next, pc = "walk", pc' = "walk" PROVE PassedBy(terms') > PassedBy(terms)
    OBVIOUS
  <2>1. Turn
    BY DEF Next, Index, Absorb, Encode, Merge, Ask, Open, OpenNothing, Stop, Finish, DecodeWords, ScoreCandidates
  <2> QED BY <2>1, TurnsGoOn
<1> QED BY <1>1, SearchHolds, PTL DEF Spec, TurnsAdvance
=============================================================================
