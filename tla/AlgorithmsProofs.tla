-------------------------- MODULE AlgorithmsProofs --------------------------
(***************************************************************************)
(* What the algorithms make of any question: of any two links, of any key  *)
(* that shards are chosen for, and of any robots.txt.                      *)
(*                                                                         *)
(* What a recursive function computes is found by an induction over sets   *)
(* of numbers (Sums, NatIn): first that there is such a function up to any *)
(* number, then what it is.  A file is read line after line into State; a  *)
(* group is Settled when the next begins.  A pattern is found greedily: no *)
(* way of placing it gets anywhere before the cursor does.                 *)
(***************************************************************************)
EXTENDS Algorithms, Sums

-----------------------------------------------------------------------------
(* What a link asks for. *)

Keeping(q, n, w) ==
  w = [i \in 0..n |-> IF i = 0 THEN << >> ELSE IF q[i] \in Tracking THEN w[i - 1] ELSE Append(w[i - 1], q[i])]

LEMMA WithoutTrackingKeeps ==
  ASSUME NEW q PROVE WithoutTracking(q) = (CHOOSE w : Keeping(q, Len(q), w))[Len(q)]
BY DEF WithoutTracking, Keeping

LEMMA KeepingExists == ASSUME NEW q PROVE \A n \in Nat : \E w : Keeping(q, n, w)
<1>. DEFINE T == {n \in Nat : \E w : Keeping(q, n, w)}
<1>1. 0 \in T
  <2>1. Keeping(q, 0, [i \in 0..0 |-> << >>])
    BY DEF Keeping
  <2>. QED  BY <2>1
<1>2. ASSUME NEW n \in Nat, n \in T PROVE n + 1 \in T
  <2>1. PICK w : Keeping(q, n, w)
    BY <1>2
  <2>. DEFINE next == IF q[n + 1] \in Tracking THEN w[n] ELSE Append(w[n], q[n + 1])
              v == [i \in 0..n + 1 |-> IF i = n + 1 THEN next ELSE w[i]]
  <2>. SUFFICES Keeping(q, n + 1, v)
    OBVIOUS
  <2>2. SUFFICES ASSUME NEW i \in 0..n + 1
                 PROVE  v[i] = IF i = 0 THEN << >> ELSE IF q[i] \in Tracking THEN v[i - 1] ELSE Append(v[i - 1], q[i])
    BY DEF Keeping
  <2>3. \A k \in 0..n : v[k] = w[k]
    OBVIOUS
  <2>4. v[n + 1] = next
    OBVIOUS
  <2>. HIDE DEF v
  <2>5. CASE i = n + 1
    <3>1. i # 0 /\ i - 1 = n /\ n \in 0..n
      BY <2>5
    <3>. QED  BY <2>3, <2>4, <2>5, <3>1
  <2>6. CASE i \in 0..n
    <3>1. w[i] = IF i = 0 THEN << >> ELSE IF q[i] \in Tracking THEN w[i - 1] ELSE Append(w[i - 1], q[i])
      BY <2>1, <2>6 DEF Keeping
    <3>2. CASE i = 0
      BY <2>3, <2>6, <3>1, <3>2
    <3>3. CASE i # 0
      <4>1. i - 1 \in 0..n
        BY <2>6, <3>3
      <4>. QED  BY <2>3, <2>6, <3>1, <3>3, <4>1
    <3>. QED  BY <3>2, <3>3
  <2>. QED  BY <2>5, <2>6
<1>. HIDE DEF T
<1>3. Nat \subseteq T
  BY <1>1, <1>2, NatIn
<1>. QED  BY <1>3 DEF T

Untracked(q) == {i \in DOMAIN q : q[i] \notin Tracking}

(* What is left of a query is what is not tracking, in its order.           *)
LEMMA WhatIsLeft ==
  ASSUME NEW q \in Seq(STRING)
  PROVE  /\ IsFiniteSet(Untracked(q)) /\ Cardinality(Untracked(q)) \in Nat
         /\ WithoutTracking(q) = AtPlaces(q, Untracked(q))
<1>. DEFINE n == Len(q)
            w == CHOOSE v : Keeping(q, n, v)
            K == Untracked(q)
<1>1. n \in Nat /\ DOMAIN q = 1..n
  BY LenProperties
<1>. HIDE DEF n
<1>2. Keeping(q, n, w)
  BY <1>1, KeepingExists
<1>3. WithoutTracking(q) = w[n]
  BY WithoutTrackingKeeps DEF n
<1>. HIDE DEF w
<1>4. K \in SUBSET (1..n) /\ \A i \in 1..n : i \in K <=> q[i] \notin Tracking
  BY <1>1 DEF Untracked
<1>. HIDE DEF K
<1>5. ASSUME NEW i \in 0..n
      PROVE  w[i] = IF i = 0 THEN << >> ELSE IF i \in K THEN Append(w[i - 1], q[i]) ELSE w[i - 1]
  <2>1. w[i] = IF i = 0 THEN << >> ELSE IF q[i] \in Tracking THEN w[i - 1] ELSE Append(w[i - 1], q[i])
    BY <1>2 DEF Keeping
  <2>2. i # 0 => i \in 1..n
    BY <1>1
  <2>. QED  BY <1>4, <2>1, <2>2
<1>6. IsFiniteSet(K) /\ Cardinality(K) \in Nat /\ w[n] = AtPlaces(q, K)
  <2>1. K \in SUBSET (1..n)
    BY <1>4
  <2>2. n \in Nat
    BY <1>1
  <2>5. KeepsThose(n, q, K, w)
    BY <1>5 DEF KeepsThose
  <2>3. w[n] = AtPlaces(q, K)
    BY <2>5, <2>1, <2>2, KeptInOrder, Zenon
  <2>6. IsFiniteSet(1..n)
    BY <2>2, FS_Interval
  <2>4. IsFiniteSet(K)
    BY <2>1, <2>6, FS_Subset
  <2>. QED  BY <2>3, <2>4, FS_CardinalityType
<1>. QED  BY <1>3, <1>6 DEF K

(* Of what is left, nothing goes when tracking is removed again.            *)
LEMMA NothingMoreGoes ==
  ASSUME NEW q \in Seq(STRING)
  PROVE  WithoutTracking(q) \in Seq(STRING) /\ WithoutTracking(WithoutTracking(q)) = WithoutTracking(q)
<1>. DEFINE K == Untracked(q)
            c == Cardinality(K)
            e == InOrder(K)
            r == WithoutTracking(q)
<1>1. IsFiniteSet(K) /\ c \in Nat /\ r = [k \in 1..c |-> q[e[k]]]
  BY WhatIsLeft DEF AtPlaces
<1>2. \A x \in K : x \in Nat /\ q[x] \in STRING /\ q[x] \notin Tracking
  BY LenProperties DEF Untracked
<1>3. \A k \in 1..c : e[k] \in K
  BY <1>1, <1>2, InOrderIs
<1>. HIDE DEF K, c, e, r
<1>4. r \in [1..c -> STRING] /\ \A k \in 1..c : r[k] \notin Tracking
  BY <1>1, <1>2, <1>3
<1>5. r \in Seq(STRING) /\ Len(r) = c
  BY <1>1, <1>4
<1>6. Untracked(r) = 1..c
  BY <1>4 DEF Untracked
<1>. DEFINE id == [k \in 1..c |-> k]
<1>7. Cardinality(1..c) = c /\ InOrder(1..c) = id
  <2>1. id \in [1..c -> 1..c] /\ \A k \in 1..c : id[k] = k
    OBVIOUS
  <2>. HIDE DEF id
  <2>2. /\ \A x \in 1..c : x \in Nat /\ \E i \in 1..c : id[i] = x
        /\ \A i, j \in 1..c : i < j => id[i] < id[j]
    BY <1>1, <2>1
  <2>. QED  BY <1>1, <2>1, <2>2, OneOrder
<1>8. AtPlaces(r, 1..c) = r
  BY <1>4, <1>7 DEF AtPlaces
<1>9. WithoutTracking(r) = r
  BY <1>5, <1>6, <1>8, WhatIsLeft
<1>. QED  BY <1>5, <1>9 DEF r

(* And what is left is what two links are compared by.                      *)
LEMMA PickedIsLeft ==
  ASSUME NEW q \in Seq(STRING)
  PROVE  WithoutTracking(q) = Picked(q, {i \in DOMAIN q : q[i] \notin Tracking})
<1>. DEFINE K == Untracked(q)
            ranked(n) == CHOOSE x \in K : Cardinality({y \in K : y < x}) = n - 1
<1>1. Picked(q, K) = [n \in 1..Cardinality(K) |-> q[ranked(n)]]
  BY DEF Picked
<1>2. InOrder(K) = [n \in 1..Cardinality(K) |-> ranked(n)]
  BY DEF InOrder
<1>. HIDE DEF ranked
<1>3. AtPlaces(q, K) = Picked(q, K)
  BY <1>1, <1>2 DEF AtPlaces
<1>. QED  BY <1>3, WhatIsLeft DEF Untracked

-----------------------------------------------------------------------------
(* A link's URL. *)

Url(scheme, host, dots, port, path, query, asks, fragment, only) ==
  [scheme |-> scheme, host |-> host, dots |-> dots, port |-> port, path |-> path, query |-> query,
   asked |-> asks, fragment |-> fragment, onlyFragment |-> only]

Fetched(u) == u.scheme \in DOMAIN DefaultPort /\ ~u.onlyFragment /\ HostLeft(u)
Parts(u) ==
  /\ u = Url(u.scheme, u.host, u.dots, u.port, u.path, u.query, u.asked, u.fragment, u.onlyFragment)
  /\ u.port \in Nat /\ u.dots \in Nat /\ u.query \in Seq(STRING) /\ u.onlyFragment \in BOOLEAN
Port(u) == IF u.port = DefaultPort[u.scheme] THEN 0 ELSE u.port
Root(u) == IF u.path = "" THEN "/" ELSE u.path
Address(scheme, host, dots, port, path, query) ==
  Url(scheme, host, dots, port, path, query, query # << >>, FALSE, FALSE)

LEMMA DefaultPortIs ==
  DOMAIN DefaultPort = {"http", "https"} /\ DefaultPort["http"] = 80 /\ DefaultPort["https"] = 443
BY DEF DefaultPort

LEMMA AddressParts ==
  ASSUME NEW scheme, NEW host, NEW dots, NEW port, NEW path, NEW query,
         NEW u, u = Address(scheme, host, dots, port, path, query)
  PROVE  /\ u.scheme = scheme /\ u.host = host /\ u.dots = dots
         /\ u.port = port /\ u.path = path /\ u.query = query
BY DEF Address, Url

(* Each part that resolving changes, one after another.                     *)
Changed(u, p, r, d, q, b, f) ==
  [u EXCEPT !.fragment = f, !.port = p, !.path = r, !.dots = d, !.query = q, !.asked = b]

LEMMA PartsChanged ==
  ASSUME NEW scheme, NEW host, NEW dots, NEW port, NEW path, NEW query, NEW asks, NEW fragment, NEW only,
         NEW p, NEW r, NEW d, NEW q, NEW b, NEW f,
         NEW u, u = Url(scheme, host, dots, port, path, query, asks, fragment, only)
  PROVE  Changed(u, p, r, d, q, b, f) = Url(scheme, host, d, p, r, q, b, f, only)
<1>. DEFINE u1 == Url(scheme, host, dots, port, path, query, asks, f, only)
            u2 == Url(scheme, host, dots, p, path, query, asks, f, only)
            u3 == Url(scheme, host, dots, p, r, query, asks, f, only)
            u4 == Url(scheme, host, d, p, r, query, asks, f, only)
            u5 == Url(scheme, host, d, p, r, q, asks, f, only)
            u6 == Url(scheme, host, d, p, r, q, b, f, only)
<1>1. /\ [u EXCEPT !.fragment = f] = u1 /\ [u1 EXCEPT !.port = p] = u2 /\ [u2 EXCEPT !.path = r] = u3
      /\ [u3 EXCEPT !.dots = d] = u4 /\ [u4 EXCEPT !.query = q] = u5 /\ [u5 EXCEPT !.asked = b] = u6
  BY DEF Url
<1>. HIDE DEF u1, u2, u3, u4, u5, u6
<1>2. [u EXCEPT !.fragment = f, !.port = p, !.path = r, !.dots = d, !.query = q, !.asked = b]
        = [[[[[[u EXCEPT !.fragment = f] EXCEPT !.port = p] EXCEPT !.path = r] EXCEPT !.dots = d]
              EXCEPT !.query = q] EXCEPT !.asked = b]
  OBVIOUS
<1>3. [u EXCEPT !.fragment = f, !.port = p, !.path = r, !.dots = d, !.query = q, !.asked = b] = u6
  BY <1>1, <1>2
<1>. QED  BY <1>3 DEF u6, Changed

(* What is fetched is known by four parts.                                  *)
LEMMA ResolveIs ==
  ASSUME NEW u, Parts(u), Fetched(u)
  PROVE  Resolve(u) = Address(u.scheme, u.host, DotStripped(u.dots), Port(u), Root(u), WithoutTracking(u.query))
<1>. DEFINE d == DotStripped(u.dots)
            q == WithoutTracking(u.query)
            p == Port(u)
            r == Root(u)
<1>1. Resolve(u) = [u EXCEPT !.fragment = FALSE,
                             !.port = IF @ = DefaultPort[u.scheme] THEN 0 ELSE @,
                             !.path = IF @ = "" THEN "/" ELSE @,
                             !.dots = DotStripped(@),
                             !.query = WithoutTracking(@),
                             !.asked = WithoutTracking(u.query) # << >>]
  BY DEF Resolve, Fetched
<1>2. Resolve(u) = [u EXCEPT !.fragment = FALSE, !.port = p, !.path = r, !.dots = d, !.query = q,
                             !.asked = q # << >>]
  BY <1>1 DEF Parts, Port, Root
<1>. HIDE DEF d, p, q, r
<1>3. u.onlyFragment = FALSE
  BY DEF Fetched, Parts
<1>4. [u EXCEPT !.fragment = FALSE, !.port = p, !.path = r, !.dots = d, !.query = q, !.asked = q # << >>]
        = Address(u.scheme, u.host, d, p, r, q)
  <2>. DEFINE b == q # << >>
              f == FALSE
  <2>1. u = Url(u.scheme, u.host, u.dots, u.port, u.path, u.query, u.asked, u.fragment, f)
    BY <1>3 DEF Parts
  <2>. HIDE DEF b, f
  <2>2. Changed(u, p, r, d, q, b, f) = Url(u.scheme, u.host, d, p, r, q, b, f, f)
    BY <2>1, PartsChanged
  <2>. QED  BY <2>2 DEF b, f, Address, Changed
<1>. QED  BY <1>2, <1>4 DEF d, p, q, r

LEMMA ResolveNotFetched ==
  /\ \A u : ~Fetched(u) => Resolve(u) = NotFetched
  /\ Resolve(NotFetched) = NotFetched
  /\ \A u : Parts(u) /\ Fetched(u) => Resolve(u) # NotFetched
<1>1. ASSUME NEW u, ~Fetched(u) PROVE Resolve(u) = NotFetched
  BY <1>1 DEF Fetched, Resolve
<1>2. NotFetched.scheme = "not fetched"
  BY DEF NotFetched
<1>3. ~Fetched(NotFetched)
  BY <1>2, DefaultPortIs DEF Fetched
<1>4. ASSUME NEW u, Parts(u), Fetched(u) PROVE Resolve(u) # NotFetched
  <2>1. Resolve(u).scheme = u.scheme
    BY <1>4, ResolveIs, AddressParts
  <2>2. u.scheme \in {"http", "https"}
    BY <1>4, DefaultPortIs DEF Fetched
  <2>. QED  BY <1>2, <2>1, <2>2
<1>. QED  BY <1>1, <1>3, <1>4

(* What has become a URL stays the URL it is, unless dots are left behind   *)
(* its host.                                                                *)
LEMMA ResolveStays == ASSUME NEW u, Parts(u), u.dots <= 1 PROVE Resolve(Resolve(u)) = Resolve(u)
<1>1. CASE ~Fetched(u)
  BY <1>1, ResolveNotFetched
<1>2. CASE Fetched(u)
  <2>. DEFINE q == WithoutTracking(u.query)
              v == Address(u.scheme, u.host, 0, Port(u), Root(u), q)
  <2>0. DotStripped(u.dots) = 0 /\ DotStripped(0) = 0
    BY DEF Parts, DotStripped
  <2>1. Resolve(u) = v
    BY <1>2, <2>0, ResolveIs
  <2>2. q \in Seq(STRING) /\ WithoutTracking(q) = q
    BY NothingMoreGoes DEF Parts
  <2>3. u.scheme \in DOMAIN DefaultPort /\ Port(u) \in Nat /\ DefaultPort[u.scheme] # 0 /\ Root(u) # ""
        /\ Port(u) # DefaultPort[u.scheme]
    <3>1. u.scheme \in {"http", "https"} /\ DefaultPort[u.scheme] \in {80, 443}
      BY <1>2, DefaultPortIs DEF Fetched
    <3>2. u.port \in Nat
      BY DEF Parts
    <3>3. Root(u) # ""
      BY DEF Root
    <3>. DEFINE d == DefaultPort[u.scheme]
    <3>4. Port(u) = IF u.port = d THEN 0 ELSE u.port
      BY DEF Port
    <3>5. u.scheme \in DOMAIN DefaultPort
      BY <1>2 DEF Fetched
    <3>. HIDE DEF d
    <3>6. d \in {80, 443}
      BY <3>1 DEF d
    <3>7. Port(u) \in Nat /\ d # 0 /\ Port(u) # d
      BY <3>2, <3>4, <3>6
    <3>. QED  BY <3>3, <3>5, <3>7 DEF d
  <2>. HIDE DEF q
  <2>4. v.scheme = u.scheme /\ v.host = u.host /\ v.dots = 0 /\ v.port = Port(u) /\ v.path = Root(u) /\ v.query = q
    BY AddressParts
  <2>5. Parts(v) /\ Fetched(v)
    <3>1. v = Url(v.scheme, v.host, v.dots, v.port, v.path, v.query, v.asked, v.fragment, v.onlyFragment)
      BY DEF Address, Url
    <3>2. v.onlyFragment = FALSE
      BY DEF Address, Url
    <3>. HIDE DEF v
    <3>3. HostLeft(v)
      BY <2>4 DEF HostLeft
    <3>4. v.scheme \in DOMAIN DefaultPort
      BY <2>3, <2>4
    <3>5. v.port \in Nat /\ v.dots \in Nat
      <4>1. v.port = Port(u) /\ v.dots = 0
        BY <2>4
      <4>2. Port(u) \in Nat
        BY <2>3
      <4>. QED  BY <4>1, <4>2
    <3>6. v.query \in Seq(STRING)
      BY <2>2, <2>4
    <3>. QED  BY <3>1, <3>2, <3>3, <3>4, <3>5, <3>6 DEF Parts, Fetched
  <2>6. Port(v) = Port(u) /\ Root(v) = Root(u)
    <3>1. Port(v) = IF v.port = DefaultPort[v.scheme] THEN 0 ELSE v.port
      BY DEF Port
    <3>2. Root(v) = IF v.path = "" THEN "/" ELSE v.path
      BY DEF Root
    <3>. HIDE DEF v
    <3>. QED  BY <2>3, <2>4, <3>1, <3>2
  <2>7. Resolve(v) = Address(v.scheme, v.host, DotStripped(v.dots), Port(v), Root(v), WithoutTracking(v.query))
    BY <2>5, ResolveIs
  <2>8. Resolve(v) = v
    BY <2>0, <2>2, <2>4, <2>6, <2>7
  <2>. QED  BY <2>1, <2>8
<1>. QED  BY <1>1, <1>2

(* Two links become one URL exactly if they lead to the same page.          *)
LEMMA ResolveTellsApart ==
  ASSUME NEW u, NEW v, Parts(u), Parts(v), Fetched(u), Fetched(v)
  PROVE  Resolve(u) = Resolve(v) <=> SameResource(u, v)
<1>. DEFINE port(w) == IF w.port = 0 THEN DefaultPort[w.scheme] ELSE w.port
            q(w) == WithoutTracking(w.query)
            d(w) == DotStripped(w.dots)
<1>0. (u.dots = v.dots \/ {u.dots, v.dots} \subseteq {0, 1}) <=> d(u) = d(v)
  <2>1. u.dots \in Nat /\ v.dots \in Nat
    BY DEF Parts
  <2>. QED  BY <2>1 DEF DotStripped
<1>1. SameResource(u, v) <=> /\ u.scheme = v.scheme /\ u.host = v.host /\ d(u) = d(v) /\ port(u) = port(v)
                             /\ Root(u) = Root(v) /\ q(u) = q(v)
  <2>. HIDE DEF d
  <2>. QED  BY <1>0, PickedIsLeft DEF SameResource, Root, Parts
<1>2. u.scheme = v.scheme => (port(u) = port(v) <=> Port(u) = Port(v))
  BY DefaultPortIs DEF Port, Fetched, Parts
<1>. HIDE DEF port, q, d
<1>. DEFINE same == /\ u.scheme = v.scheme /\ u.host = v.host /\ d(u) = d(v)
                    /\ Port(u) = Port(v) /\ Root(u) = Root(v) /\ q(u) = q(v)
<1>3. /\ Resolve(u) = Address(u.scheme, u.host, d(u), Port(u), Root(u), q(u))
      /\ Resolve(v) = Address(v.scheme, v.host, d(v), Port(v), Root(v), q(v))
  BY ResolveIs DEF q, d
<1>4. Resolve(u) = Resolve(v) <=> same
  <2>1. ASSUME Resolve(u) = Resolve(v) PROVE same
    <3>1. /\ Resolve(u).scheme = u.scheme /\ Resolve(u).host = u.host /\ Resolve(u).dots = d(u)
          /\ Resolve(u).port = Port(u) /\ Resolve(u).path = Root(u) /\ Resolve(u).query = q(u)
      BY <1>3, AddressParts
    <3>2. /\ Resolve(v).scheme = v.scheme /\ Resolve(v).host = v.host /\ Resolve(v).dots = d(v)
          /\ Resolve(v).port = Port(v) /\ Resolve(v).path = Root(v) /\ Resolve(v).query = q(v)
      BY <1>3, AddressParts
    <3>. QED  BY <2>1, <3>1, <3>2
  <2>. QED  BY <1>3, <2>1
<1>. QED  BY <1>1, <1>2, <1>4

-----------------------------------------------------------------------------
(* A key's shard. *)

(* Every jump goes forward.                                                 *)
LEMMA JumpGoesOn ==
  ASSUME NEW b \in Nat, NEW draw \in 1..Draws PROVE Jump(b, draw) \in Nat /\ Jump(b, draw) >= b + 1
<1>. DEFINE x == (b + 1) * Draws
            y == Jump(b, draw)
<1>1. Draws \in Nat /\ draw \in Nat /\ draw >= 1 /\ draw <= Draws
  BY PlacementAssumption
<1>2. x \in Nat /\ x >= (b + 1) * draw
  BY <1>1
<1>3. y = x \div draw
  BY DEF Jump
<1>. HIDE DEF x, y
<1>4. y \in Int /\ x < (y + 1) * draw
  BY <1>1, <1>2, <1>3
<1>5. y >= b + 1
  <2>. SUFFICES ASSUME y < b + 1 PROVE FALSE
    BY <1>4
  <2>1. y + 1 <= b + 1 /\ y + 1 \in Int /\ b + 1 \in Int
    BY <1>4
  <2>2. (y + 1) * draw <= (b + 1) * draw
    BY <1>1, <2>1
  <2>. QED  BY <1>1, <1>2, <1>4, <2>1, <2>2
<1>. QED  BY <1>4, <1>5 DEF y

Jumps(draws, n, at) == at = [k \in 1..(n + 1) |-> IF k = 1 THEN 0 ELSE Jump(at[k - 1], draws[k - 1])]
Left(n, at, buckets) == {k \in 1..(n + 1) : at[k] >= buckets}

LEMMA JumpHashJumps ==
  ASSUME NEW draws, NEW buckets, buckets # 0, NEW at, at = CHOOSE a : Jumps(draws, Len(draws), a)
  PROVE  JumpHash(draws, buckets) = at[Min(Left(Len(draws), at, buckets)) - 1]
BY DEF JumpHash, Jumps, Left

LEMMA JumpsExist == ASSUME NEW draws PROVE \A n \in Nat : \E at : Jumps(draws, n, at)
<1>. DEFINE T == {n \in Nat : \E at : Jumps(draws, n, at)}
<1>1. 0 \in T
  <2>1. Jumps(draws, 0, [k \in 1..1 |-> 0])
    BY DEF Jumps
  <2>. QED  BY <2>1
<1>2. ASSUME NEW n \in Nat, n \in T PROVE n + 1 \in T
  <2>1. PICK at : Jumps(draws, n, at)
    BY <1>2
  <2>. DEFINE m == n + 1
              next == Jump(at[m], draws[m])
              to == [k \in 1..(m + 1) |-> IF k = m + 1 THEN next ELSE at[k]]
  <2>. SUFFICES Jumps(draws, m, to)
    OBVIOUS
  <2>2. SUFFICES ASSUME NEW k \in 1..(m + 1) PROVE to[k] = IF k = 1 THEN 0 ELSE Jump(to[k - 1], draws[k - 1])
    BY DEF Jumps
  <2>3. to[m + 1] = next /\ \A i \in 1..m : to[i] = at[i]
    OBVIOUS
  <2>4. \A i \in 1..m : at[i] = IF i = 1 THEN 0 ELSE Jump(at[i - 1], draws[i - 1])
    BY <2>1 DEF Jumps
  <2>5. m \in Nat /\ m \in 1..m /\ m + 1 # 1 /\ (m + 1) - 1 = m
    OBVIOUS
  <2>. HIDE DEF to, m
  <2>6. CASE k = m + 1
    BY <2>3, <2>5, <2>6
  <2>7. CASE k \in 1..m
    <3>1. CASE k = 1
      BY <2>3, <2>4, <2>7, <3>1
    <3>2. CASE k # 1
      <4>1. k - 1 \in 1..m
        BY <2>5, <2>7, <3>2
      <4>. QED  BY <2>3, <2>4, <2>7, <3>2, <4>1
    <3>. QED  BY <3>1, <3>2
  <2>. QED  BY <2>5, <2>6, <2>7
<1>. HIDE DEF T
<1>3. Nat \subseteq T
  BY <1>1, <1>2, NatIn
<1>. QED  BY <1>3 DEF T

(* Where a key is after so many jumps: further at each.                     *)
LEMMA JumpsRise ==
  ASSUME NEW draws \in Seq(1..Draws), NEW at, Jumps(draws, Len(draws), at)
  PROVE  /\ at[1] = 0
         /\ \A k \in 1..(Len(draws) + 1) : at[k] \in Nat /\ at[k] >= k - 1
         /\ \A k, l \in 1..(Len(draws) + 1) : k < l => at[k] < at[l]
<1>. DEFINE n == Len(draws)
<1>1. n \in Nat
  BY LenProperties
<1>2. \A k \in 1..n : draws[k] \in 1..Draws
  BY ElementOfSeq
<1>3. \A k \in 1..(n + 1) : at[k] = IF k = 1 THEN 0 ELSE Jump(at[k - 1], draws[k - 1])
  BY DEF Jumps
<1>. HIDE DEF n
<1>. DEFINE Rises(m) == /\ \A k \in 1..(m + 1) : at[k] \in Nat /\ at[k] >= k - 1
                        /\ \A k, l \in 1..(m + 1) : k < l => at[k] < at[l]
            T == {m \in Nat : m <= n => Rises(m)}
<1>4. at[1] = 0
  BY <1>1, <1>3
<1>5. 0 \in T
  <2>1. \A k \in 1..1 : k = 1
    OBVIOUS
  <2>. QED  BY <1>4, <2>1
<1>6. ASSUME NEW m \in Nat, m \in T PROVE m + 1 \in T
  <2>. DEFINE i == m + 1
  <2>. SUFFICES ASSUME i <= n PROVE Rises(i)
    OBVIOUS
  <2>1. /\ i \in 1..i /\ i \in Nat /\ i \in 1..n /\ i + 1 \in 1..(n + 1) /\ i + 1 # 1 /\ (i + 1) - 1 = i
        /\ 1..(i + 1) = (1..i) \cup {i + 1} /\ \A k \in 1..i : k < i + 1 /\ ~(i + 1 < k) /\ (k = i \/ k < i)
    BY <1>1
  <2>2. /\ \A k \in 1..i : at[k] \in Nat /\ at[k] >= k - 1
        /\ \A k, l \in 1..i : k < l => at[k] < at[l]
    BY <1>1, <1>6
  <2>3. at[i] \in Nat /\ at[i] >= i - 1
    BY <2>1, <2>2
  <2>. HIDE DEF i
  <2>4. at[i + 1] = Jump(at[i], draws[i])
    BY <1>3, <2>1
  <2>5. at[i + 1] \in Nat /\ at[i + 1] >= at[i] + 1
    BY <1>2, <2>1, <2>3, <2>4, JumpGoesOn
  <2>6. at[i + 1] >= (i + 1) - 1
    BY <2>1, <2>3, <2>5
  <2>7. ASSUME NEW k \in 1..i PROVE at[k] < at[i + 1]
    <3>1. at[k] \in Nat /\ (k = i \/ at[k] < at[i])
      BY <2>1, <2>2
    <3>. QED  BY <2>3, <2>5, <3>1
  <2>8. \A k \in 1..(i + 1) : at[k] \in Nat /\ at[k] >= k - 1
    BY <2>1, <2>2, <2>5, <2>6
  <2>9. ASSUME NEW k \in 1..(i + 1), NEW l \in 1..(i + 1), k < l PROVE at[k] < at[l]
    <3>1. CASE k = i + 1
      BY <2>1, <2>9, <3>1
    <3>2. CASE k \in 1..i /\ l = i + 1
      BY <2>7, <3>2
    <3>3. CASE k \in 1..i /\ l \in 1..i
      BY <2>2, <2>9, <3>3
    <3>. QED  BY <2>1, <3>1, <3>2, <3>3
  <2>. QED  BY <2>8, <2>9
<1>7. Rises(n)
  <2>. HIDE DEF T, Rises
  <2>1. n \in T
    BY <1>1, <1>5, <1>6, NatIn
  <2>. QED  BY <1>1, <2>1 DEF T
<1>. QED  BY <1>4, <1>7 DEF n

(* It lands where the first jump that leaves the shards began.              *)
LEMMA JumpHashIs ==
  ASSUME NEW draws \in Seq(1..Draws), NEW at, at = CHOOSE a : Jumps(draws, Len(draws), a),
         NEW buckets \in Nat, buckets # 0, buckets <= Len(draws)
  PROVE  \E k \in 2..(Len(draws) + 1) :
           /\ JumpHash(draws, buckets) = at[k - 1]
           /\ at[k - 1] \in Nat /\ at[k - 1] < buckets /\ at[k] \in Nat /\ at[k] >= buckets
<1>. DEFINE n == Len(draws)
            S == Left(n, at, buckets)
            k == Min(S)
<1>1. n \in Nat
  BY LenProperties
<1>2. Jumps(draws, n, at)
  BY <1>1, JumpsExist
<1>3. /\ at[1] = 0
      /\ \A i \in 1..(n + 1) : at[i] \in Nat /\ at[i] >= i - 1
      /\ \A i, l \in 1..(n + 1) : i < l => at[i] < at[l]
  BY <1>2, JumpsRise
<1>4. JumpHash(draws, buckets) = at[k - 1]
  BY JumpHashJumps
<1>5. buckets <= n
  OBVIOUS
<1>. HIDE DEF n
<1>6. n + 1 \in S
  BY <1>1, <1>3, <1>5 DEF Left
<1>7. S \subseteq 1..(n + 1)
  BY DEF Left
<1>8. IsFiniteSet(1..(n + 1))
  BY <1>1, FS_Interval
<1>9. IsFiniteSet(S)
  BY <1>7, <1>8, FS_Subset
<1>10. \A i \in 1..(n + 1) : i \in S <=> at[i] >= buckets
  BY DEF Left
<1>. HIDE DEF S
<1>11. k \in S /\ \A i \in S : k <= i
  <2>1. \A i \in S : i \in Int
    BY <1>1, <1>7
  <2>2. S # {}
    BY <1>6
  <2>. QED  BY <1>9, <2>1, <2>2, MinIs
<1>. HIDE DEF k
<1>12. k \in 1..(n + 1) /\ at[k] >= buckets /\ at[k] \in Nat
  BY <1>3, <1>7, <1>10, <1>11
<1>13. k # 1
  BY <1>3, <1>12
<1>14. k \in 2..(n + 1) /\ k - 1 \in 1..(n + 1) /\ ~(k <= k - 1)
  BY <1>1, <1>12, <1>13
<1>15. k - 1 \notin S
  BY <1>11, <1>14
<1>16. at[k - 1] \in Nat /\ at[k - 1] < buckets
  BY <1>3, <1>10, <1>14, <1>15
<1>. QED  BY <1>4, <1>12, <1>14, <1>16 DEF n

(* A shard there is; and with one shard more it is the same or that one.    *)
LEMMA ShardsStay ==
  ASSUME NEW draws \in Seq(1..Draws)
  PROVE  /\ JumpHash(draws, 0) = 0
         /\ \A n \in Nat : n # 0 /\ n <= Len(draws) => JumpHash(draws, n) \in 0..(n - 1)
         /\ \A n \in Nat : n # 0 /\ n + 1 <= Len(draws) => JumpHash(draws, n + 1) \in {JumpHash(draws, n), n}
<1>1. JumpHash(draws, 0) = 0
  BY DEF JumpHash
<1>. DEFINE at == CHOOSE a : Jumps(draws, Len(draws), a)
            len == Len(draws)
<1>2. ASSUME NEW n \in Nat, n # 0, n <= len
      PROVE  \E k \in 2..(len + 1) :
               /\ JumpHash(draws, n) = at[k - 1]
               /\ at[k - 1] \in Nat /\ at[k - 1] < n /\ at[k] \in Nat /\ at[k] >= n
  BY <1>2, JumpHashIs
<1>3. len \in Nat
  BY LenProperties
<1>4. \A k, l \in 1..(len + 1) : k < l => at[k] < at[l]
  <2>1. Jumps(draws, len, at)
    BY <1>3, JumpsExist
  <2>. HIDE DEF at
  <2>. QED  BY <2>1, JumpsRise
<1>5. \A i \in 1..(len + 1) : at[i] \in Nat
  <2>1. Jumps(draws, len, at)
    BY <1>3, JumpsExist
  <2>. HIDE DEF at
  <2>. QED  BY <2>1, JumpsRise
<1>. HIDE DEF at, len
<1>6. ASSUME NEW n \in Nat, n # 0, n <= len PROVE JumpHash(draws, n) \in 0..(n - 1)
  BY <1>2, <1>6
<1>7. ASSUME NEW n \in Nat, n # 0, n + 1 <= len PROVE JumpHash(draws, n + 1) \in {JumpHash(draws, n), n}
  <2>. DEFINE m == n + 1
  <2>1. PICK k \in 2..(len + 1) : /\ JumpHash(draws, n) = at[k - 1]
                                  /\ at[k - 1] \in Nat /\ at[k - 1] < n /\ at[k] \in Nat /\ at[k] >= n
    BY <1>2, <1>3, <1>7
  <2>2. m \in Nat /\ m # 0 /\ m <= len
    BY <1>7
  <2>. HIDE DEF m
  <2>3. PICK l \in 2..(len + 1) : /\ JumpHash(draws, m) = at[l - 1]
                                  /\ at[l - 1] \in Nat /\ at[l - 1] < m /\ at[l] \in Nat /\ at[l] >= m
    BY <1>2, <2>2
  <2>. USE DEF m
  <2>4. k - 1 \in 1..(len + 1) /\ l - 1 \in 1..(len + 1) /\ k \in 1..(len + 1) /\ l \in 1..(len + 1)
    BY <1>3
  <2>5. k <= l
    <3>. SUFFICES ASSUME l < k PROVE FALSE
      BY <2>4
    <3>1. l <= k - 1
      BY <2>4
    <3>2. at[l] <= at[k - 1]
      BY <1>4, <1>5, <2>4, <3>1
    <3>. QED  BY <2>1, <2>3, <3>2
  <2>6. CASE l = k
    BY <2>1, <2>3, <2>6
  <2>7. CASE k < l
    <3>1. k <= l - 1
      BY <2>4, <2>7
    <3>2. at[k] <= at[l - 1]
      BY <1>4, <1>5, <2>4, <3>1
    <3>3. at[l - 1] = n
      BY <2>1, <2>3, <3>2
    <3>. QED  BY <2>3, <3>3
  <2>. QED  BY <2>4, <2>5, <2>6, <2>7
<1>. QED  BY <1>1, <1>6, <1>7 DEF len

-----------------------------------------------------------------------------
(* Reading lines, one after another. *)

Reads(agent, r, file, n, g) == g = [i \in 0..n |-> IF i = 0 THEN r ELSE Line(agent, g[i - 1], file[i])]

LEMMA ReadOnReads ==
  ASSUME NEW agent, NEW r, NEW file
  PROVE  ReadOn(agent, r, file) = (CHOOSE g : Reads(agent, r, file, Len(file), g))[Len(file)]
BY DEF ReadOn, Reads

LEMMA ReadsExist == ASSUME NEW agent, NEW r, NEW file PROVE \A n \in Nat : \E g : Reads(agent, r, file, n, g)
<1>. DEFINE T == {n \in Nat : \E g : Reads(agent, r, file, n, g)}
<1>1. 0 \in T
  <2>1. Reads(agent, r, file, 0, [i \in 0..0 |-> r])
    BY DEF Reads
  <2>. QED  BY <2>1
<1>2. ASSUME NEW n \in Nat, n \in T PROVE n + 1 \in T
  <2>1. PICK g : Reads(agent, r, file, n, g)
    BY <1>2
  <2>. DEFINE next == Line(agent, g[n], file[n + 1])
              h == [i \in 0..n + 1 |-> IF i = n + 1 THEN next ELSE g[i]]
  <2>. SUFFICES Reads(agent, r, file, n + 1, h)
    OBVIOUS
  <2>2. SUFFICES ASSUME NEW i \in 0..n + 1 PROVE h[i] = IF i = 0 THEN r ELSE Line(agent, h[i - 1], file[i])
    BY DEF Reads
  <2>3. h[n + 1] = next /\ \A k \in 0..n : h[k] = g[k]
    OBVIOUS
  <2>4. \A k \in 0..n : g[k] = IF k = 0 THEN r ELSE Line(agent, g[k - 1], file[k])
    BY <2>1 DEF Reads
  <2>. HIDE DEF h
  <2>5. CASE i = n + 1
    <3>1. i # 0 /\ i - 1 = n /\ n \in 0..n
      BY <2>5
    <3>. QED  BY <2>3, <2>5, <3>1
  <2>6. CASE i \in 0..n
    <3>1. i # 0 => i - 1 \in 0..n
      BY <2>6
    <3>. QED  BY <2>3, <2>4, <2>6, <3>1
  <2>. QED  BY <2>5, <2>6
<1>. HIDE DEF T
<1>3. Nat \subseteq T
  BY <1>1, <1>2, NatIn
<1>. QED  BY <1>3 DEF T

LEMMA ReadOnIs ==
  ASSUME NEW agent, NEW r, NEW file, Len(file) \in Nat, NEW g, g[0] = r,
         \A i \in 1..Len(file) : g[i] = Line(agent, g[i - 1], file[i])
  PROVE  ReadOn(agent, r, file) = g[Len(file)]
<1>. DEFINE n == Len(file)
            h == CHOOSE f : Reads(agent, r, file, n, f)
<1>1. Reads(agent, r, file, n, h)
  BY ReadsExist
<1>2. ReadOn(agent, r, file) = h[n]
  BY ReadOnReads
<1>. HIDE DEF h, n
<1>3. n \in Nat /\ g[0] = r /\ \A i \in 1..n : g[i] = Line(agent, g[i - 1], file[i])
  BY DEF n
<1>4. \A i \in 0..n : h[i] = IF i = 0 THEN r ELSE Line(agent, h[i - 1], file[i])
  BY <1>1 DEF Reads
<1>. DEFINE T == {i \in Nat : i <= n => g[i] = h[i]}
<1>5. 0 \in T
  BY <1>3, <1>4
<1>6. ASSUME NEW i \in Nat, i \in T PROVE i + 1 \in T
  <2>. DEFINE j == i + 1
  <2>. SUFFICES ASSUME j <= n PROVE g[j] = h[j]
    OBVIOUS
  <2>1. j \in 1..n /\ j \in 0..n /\ j # 0 /\ j - 1 = i /\ i <= n
    BY <1>3
  <2>. HIDE DEF j
  <2>2. g[i] = h[i]
    BY <1>6, <2>1
  <2>. QED  BY <1>3, <1>4, <2>1, <2>2
<1>7. n \in T
  <2>. HIDE DEF T
  <2>. QED  BY <1>3, <1>5, <1>6, NatIn
<1>. QED  BY <1>2, <1>3, <1>7 DEF n

LEMMA ReadNothing == ASSUME NEW agent, NEW r PROVE ReadOn(agent, r, << >>) = r
<1>. DEFINE g == [i \in 0..0 |-> r]
<1>1. g[0] = r /\ Len(<< >>) = 0 /\ \A i \in 1..0 : FALSE
  OBVIOUS
<1>. HIDE DEF g
<1>. QED  BY <1>1, ReadOnIs

(* So lines are read, and then others.                                      *)
LEMMA ReadBoth ==
  ASSUME NEW agent, NEW r, NEW S, NEW s \in Seq(S), NEW t \in Seq(S)
  PROVE  ReadOn(agent, r, s \o t) = ReadOn(agent, ReadOn(agent, r, s), t)
<1>. DEFINE a == Len(s)
            b == Len(t)
            g == CHOOSE f : Reads(agent, r, s, a, f)
            q == g[a]
            h == CHOOSE f : Reads(agent, q, t, b, f)
            file == s \o t
            w == [i \in 0..a + b |-> IF i <= a THEN g[i] ELSE h[i - a]]
<1>1. a \in Nat /\ b \in Nat
  BY LenProperties
<1>2. Len(file) = a + b /\ \A i \in 1..a + b : file[i] = IF i <= a THEN s[i] ELSE t[i - a]
  BY ConcatProperties
<1>3. Reads(agent, r, s, a, g) /\ ReadOn(agent, r, s) = q
  BY <1>1, ReadsExist, ReadOnReads
<1>. HIDE DEF g, q
<1>4. Reads(agent, q, t, b, h) /\ ReadOn(agent, q, t) = h[b]
  BY <1>1, ReadsExist, ReadOnReads
<1>. HIDE DEF h, file, a, b
<1>5. \A i \in 0..a : g[i] = IF i = 0 THEN r ELSE Line(agent, g[i - 1], s[i])
  BY <1>3 DEF Reads
<1>6. \A i \in 0..b : h[i] = IF i = 0 THEN q ELSE Line(agent, h[i - 1], t[i])
  BY <1>4 DEF Reads
<1>7. \A i \in 0..a + b : w[i] = IF i <= a THEN g[i] ELSE h[i - a]
  OBVIOUS
<1>. HIDE DEF w
<1>8. w[0] = r /\ w[a] = q
  BY <1>1, <1>5, <1>7 DEF q
<1>9. ASSUME NEW i \in 1..a + b PROVE w[i] = Line(agent, w[i - 1], file[i])
  <2>1. CASE i <= a
    <3>1. i \in 0..a /\ i - 1 \in 0..a /\ i # 0 /\ i \in 0..a + b /\ i - 1 \in 0..a + b /\ i - 1 <= a
      BY <1>1, <2>1
    <3>. QED  BY <1>2, <1>5, <1>7, <2>1, <3>1
  <2>2. CASE i = a + 1
    <3>1. i \in 0..a + b /\ ~(i <= a) /\ i - a = 1 /\ i - 1 = a /\ 1 \in 0..b /\ 0 \in 0..b /\ 1 # 0 /\ 1 - 1 = 0
      BY <1>1, <2>2
    <3>2. w[i] = h[1] /\ h[1] = Line(agent, h[0], t[1]) /\ h[0] = q
      BY <1>6, <1>7, <3>1
    <3>3. file[i] = t[1]
      BY <1>2, <3>1
    <3>. QED  BY <1>8, <3>1, <3>2, <3>3
  <2>3. CASE i > a + 1
    <3>. DEFINE k == i - a
    <3>1. /\ i \in 0..a + b /\ ~(i <= a) /\ i - 1 \in 0..a + b /\ ~(i - 1 <= a)
          /\ k \in 0..b /\ k # 0 /\ (i - 1) - a = k - 1
      BY <1>1, <2>3
    <3>2. w[i] = h[k] /\ w[i - 1] = h[k - 1] /\ file[i] = t[k]
      BY <1>2, <1>7, <3>1
    <3>. HIDE DEF k
    <3>. QED  BY <1>6, <3>1, <3>2
  <2>. QED  BY <1>1, <2>1, <2>2, <2>3
<1>10. w[a + b] = h[b]
  <2>1. CASE b = 0
    BY <1>1, <1>6, <1>8, <2>1
  <2>2. CASE b # 0
    <3>1. a + b \in 0..a + b /\ ~(a + b <= a) /\ (a + b) - a = b
      BY <1>1, <2>2
    <3>. QED  BY <1>7, <3>1
  <2>. QED  BY <2>1, <2>2
<1>11. Len(file) \in Nat
  BY <1>1, <1>2
<1>12. ReadOn(agent, r, file) = w[Len(file)]
  <2>1. \A i \in 1..Len(file) : w[i] = Line(agent, w[i - 1], file[i])
    BY <1>2, <1>9
  <2>. QED  BY <1>8, <1>11, <2>1, ReadOnIs
<1>. QED  BY <1>2, <1>3, <1>4, <1>10, <1>12 DEF file

-----------------------------------------------------------------------------
(* What a line changes. *)

State(sp, rules, delay, maps, names, group, pause, in) ==
  [specificity |-> sp, rules |-> rules, delay |-> delay, sitemaps |-> maps,
   names |-> names, group |-> group, pause |-> pause, inRules |-> in]
Ruled(line) == [path |-> line.value, allow |-> line.field = "allow"]
On == TRUE
Off == FALSE
Between(sp, rules, delay, maps) == State(sp, rules, delay, maps, << >>, << >>, 0, Off)

LEMMA StateParts ==
  ASSUME NEW sp, NEW rules, NEW delay, NEW maps, NEW names, NEW group, NEW pause, NEW in, NEW r,
         r = State(sp, rules, delay, maps, names, group, pause, in)
  PROVE  /\ r.specificity = sp /\ r.rules = rules /\ r.delay = delay /\ r.sitemaps = maps
         /\ r.names = names /\ r.group = group /\ r.pause = pause /\ r.inRules = in
BY DEF State

LEMMA GroupClosedIs ==
  ASSUME NEW agent, NEW sp, NEW rules, NEW delay, NEW maps, NEW names, NEW group, NEW pause, NEW in, NEW r,
         r = State(sp, rules, delay, maps, names, group, pause, in)
  PROVE  GroupClosed(agent, r) =
           IF Matching(names, agent) # {} /\ Max(Matching(names, agent)) >= sp
           THEN Between(Max(Matching(names, agent)), group, pause, maps) ELSE Between(sp, rules, delay, maps)
<1>. DEFINE begun == [r EXCEPT !.names = << >>, !.group = << >>, !.pause = 0, !.inRules = Off]
            best == Max(Matching(names, agent))
            taken == [begun EXCEPT !.specificity = best, !.rules = group, !.delay = pause]
            f == Off
            b1 == State(sp, rules, delay, maps, << >>, group, pause, in)
            b2 == State(sp, rules, delay, maps, << >>, << >>, pause, in)
            b3 == State(sp, rules, delay, maps, << >>, << >>, 0, in)
            b4 == State(sp, rules, delay, maps, << >>, << >>, 0, f)
            t1 == State(best, rules, delay, maps, << >>, << >>, 0, f)
            t2 == State(best, group, delay, maps, << >>, << >>, 0, f)
            t3 == State(best, group, pause, maps, << >>, << >>, 0, f)
<1>1. GroupClosed(agent, r) = IF Matching(names, agent) # {} /\ best >= sp THEN taken ELSE begun
  <2>1. r.names = names /\ r.specificity = sp /\ r.group = group /\ r.pause = pause
    BY StateParts
  <2>. QED  BY <2>1 DEF GroupClosed, Off
<1>. HIDE DEF best
<1>2. /\ [r EXCEPT !.names = << >>] = b1 /\ [b1 EXCEPT !.group = << >>] = b2
      /\ [b2 EXCEPT !.pause = 0] = b3 /\ [b3 EXCEPT !.inRules = f] = b4
  BY DEF State
<1>3. /\ [b4 EXCEPT !.specificity = best] = t1 /\ [t1 EXCEPT !.rules = group] = t2
      /\ [t2 EXCEPT !.delay = pause] = t3
  BY DEF State
<1>. HIDE DEF b1, b2, b3, b4, t1, t2, t3
<1>4. begun = [[[[r EXCEPT !.names = << >>] EXCEPT !.group = << >>] EXCEPT !.pause = 0] EXCEPT !.inRules = f]
  OBVIOUS
<1>5. begun = b4
  BY <1>2, <1>4
<1>. HIDE DEF begun
<1>6. taken = [[[begun EXCEPT !.specificity = best] EXCEPT !.rules = group] EXCEPT !.delay = pause]
  OBVIOUS
<1>7. taken = t3
  BY <1>3, <1>5, <1>6
<1>. QED  BY <1>1, <1>5, <1>7 DEF b4, t3, best, Between

NameLine(v) == [field |-> "user-agent", value |-> v]

(* A name belongs to the group that is being named, or begins another.      *)
LEMMA NameRead ==
  ASSUME NEW agent, NEW sp, NEW rules, NEW delay, NEW maps, NEW names, NEW group, NEW pause, NEW in, NEW v, NEW r,
         r = State(sp, rules, delay, maps, names, group, pause, in)
  PROVE  Line(agent, r, NameLine(v)) = LET now == IF in THEN GroupClosed(agent, r) ELSE r
                                    IN [now EXCEPT !.names = Append(@, v)]
<1>1. NameLine(v).field = "user-agent" /\ NameLine(v).value = v
  BY DEF NameLine
<1>2. r.inRules = in
  BY StateParts
<1>. QED  BY <1>1, <1>2 DEF Line

LEMMA NextNameRead ==
  ASSUME NEW agent, NEW sp, NEW rules, NEW delay, NEW maps, NEW names, NEW group, NEW pause, NEW v, NEW r,
         r = State(sp, rules, delay, maps, names, group, pause, Off)
  PROVE  Line(agent, r, NameLine(v)) = State(sp, rules, delay, maps, Append(names, v), group, pause, Off)
<1>. DEFINE more == Append(names, v)
<1>1. r.names = names /\ r.inRules = FALSE
  BY DEF State, Off
<1>2. NameLine(v).field = "user-agent" /\ NameLine(v).value = v
  BY DEF NameLine
<1>3. Line(agent, r, NameLine(v)) = [r EXCEPT !.names = more]
  BY <1>1, <1>2 DEF Line
<1>. HIDE DEF more
<1>4. [r EXCEPT !.names = more] = State(sp, rules, delay, maps, more, group, pause, Off)
  BY DEF State
<1>. QED  BY <1>3, <1>4 DEF more

LEMMA RuleRead ==
  ASSUME NEW agent, NEW sp, NEW rules, NEW delay, NEW maps, NEW names, NEW group, NEW pause, NEW in, NEW r,
         r = State(sp, rules, delay, maps, names, group, pause, in), NEW line \in RobotsLine
  PROVE  \E p : Line(agent, r, line) = State(sp, rules, delay, maps, names,
                                             IF IsRule(line) THEN Append(group, Ruled(line)) ELSE group, p, On)
<1>0. r.group = group /\ r.pause = pause
  BY DEF State
<1>. DEFINE t == On
            r1 == State(sp, rules, delay, maps, names, group, pause, t)
            g2 == IF IsRule(line) THEN Append(group, Ruled(line)) ELSE group
            p2 == IF line.value \in Nat THEN Min({line.value, 300}) ELSE pause
            r2 == State(sp, rules, delay, maps, names, g2, pause, t)
            r3 == State(sp, rules, delay, maps, names, group, p2, t)
<1>. HIDE DEF g2, p2
<1>1. [r EXCEPT !.inRules = t] = r1 /\ [r1 EXCEPT !.group = g2] = r2 /\ [r1 EXCEPT !.pause = p2] = r3
  BY DEF State
<1>. HIDE DEF r1, r2, r3
<1>4. CASE line.field \in {"allow", "disallow"}
  <2>1. Line(agent, r, line) = [r EXCEPT !.inRules = t,
          !.group = IF line.field = "disallow" /\ line.value = << >> THEN @ ELSE Append(@, Ruled(line))]
    BY <1>4 DEF Line, Ruled, On
  <2>2. Line(agent, r, line) = [r EXCEPT !.inRules = t, !.group = g2]
    <3>1. g2 = IF line.field = "disallow" /\ line.value = << >> THEN group ELSE Append(group, Ruled(line))
      BY <1>4 DEF IsRule, g2
    <3>. QED  BY <1>0, <2>1, <3>1
  <2>. HIDE DEF t
  <2>3. [r EXCEPT !.inRules = t, !.group = g2] = [[r EXCEPT !.inRules = t] EXCEPT !.group = g2]
    OBVIOUS
  <2>4. Line(agent, r, line) = r2
    BY <1>1, <2>2, <2>3
  <2>. QED  BY <2>4 DEF g2, r2, t
<1>5. CASE line.field = "crawl-delay"
  <2>1. Line(agent, r, line) = [r EXCEPT !.inRules = t,
          !.pause = IF line.value \in Nat THEN Min({line.value, 300}) ELSE @]
    BY <1>5 DEF Line, On
  <2>2. Line(agent, r, line) = [r EXCEPT !.inRules = t, !.pause = p2]
    BY <1>0, <2>1 DEF p2
  <2>. HIDE DEF t
  <2>3. [r EXCEPT !.inRules = t, !.pause = p2] = [[r EXCEPT !.inRules = t] EXCEPT !.pause = p2]
    OBVIOUS
  <2>4. Line(agent, r, line) = r3
    BY <1>1, <2>2, <2>3
  <2>5. ~IsRule(line)
    BY <1>5 DEF IsRule
  <2>. QED  BY <2>4, <2>5 DEF r3, t
<1>6. line.field \in {"allow", "disallow", "crawl-delay"}
  BY DEF RobotsLine
<1>. QED  BY <1>4, <1>5, <1>6

-----------------------------------------------------------------------------
(* The names of a group, and then its rules. *)

LEMMA AllKept == ASSUME NEW S, NEW s \in Seq(S) PROVE AtPlaces(s, 1..Len(s)) = s
<1>. DEFINE c == Len(s)
            id == [k \in 1..c |-> k]
<1>1. c \in Nat /\ s = [k \in 1..c |-> s[k]]
  BY LenProperties
<1>. HIDE DEF c
<1>2. id \in [1..c -> 1..c] /\ \A k \in 1..c : id[k] = k
  OBVIOUS
<1>. HIDE DEF id
<1>3. /\ \A x \in 1..c : x \in Nat /\ \E i \in 1..c : id[i] = x
      /\ \A i, j \in 1..c : i < j => id[i] < id[j]
  BY <1>1, <1>2
<1>4. Cardinality(1..c) = c /\ InOrder(1..c) = id
  BY <1>1, <1>2, <1>3, OneOrder
<1>5. AtPlaces(s, 1..c) = [k \in 1..c |-> s[k]]
  BY <1>2, <1>4 DEF AtPlaces
<1>. QED  BY <1>1, <1>5 DEF c

NameLines(names) == [n \in 1..Len(names) |-> NameLine(names[n])]

Settled(agent, r, in) == IF in THEN GroupClosed(agent, r) ELSE r

(* What is between groups, once a group that is being read is closed.       *)
Stands(agent, r, sp, rules, delay, maps) ==
  \E s, o, d, n, g, p, in : /\ r = State(s, o, d, maps, n, g, p, in)
                            /\ Settled(agent, r, in) = Between(sp, rules, delay, maps)

LEMMA FirstRead ==
  ASSUME NEW agent, NEW r, NEW sp, NEW rules, NEW delay, NEW maps, NEW v, Stands(agent, r, sp, rules, delay, maps)
  PROVE  Line(agent, r, NameLine(v)) = State(sp, rules, delay, maps, Append(<< >>, v), << >>, 0, Off)
<1>1. PICK s, o, d, n, g, p, in :
        /\ r = State(s, o, d, maps, n, g, p, in)
        /\ Settled(agent, r, in) = Between(sp, rules, delay, maps)
  BY DEF Stands
<1>2. r.inRules = in
  BY <1>1 DEF State
<1>. DEFINE now == Settled(agent, r, in)
            names == Append(<< >>, v)
<1>3. Line(agent, r, NameLine(v)) = [now EXCEPT !.names = Append(@, v)]
  BY <1>1, NameRead DEF Settled
<1>4. now = State(sp, rules, delay, maps, << >>, << >>, 0, Off)
  BY <1>1 DEF Between
<1>. HIDE DEF now
<1>5. now.names = << >>
  BY <1>4 DEF State
<1>6. Line(agent, r, NameLine(v)) = [now EXCEPT !.names = names]
  BY <1>3, <1>5
<1>. HIDE DEF names
<1>7. [now EXCEPT !.names = names] = State(sp, rules, delay, maps, names, << >>, 0, Off)
  BY <1>4 DEF State
<1>. QED  BY <1>6, <1>7 DEF names

LEMMA NamesRead ==
  ASSUME NEW agent, NEW r, NEW sp, NEW rules, NEW delay, NEW maps, Stands(agent, r, sp, rules, delay, maps),
         NEW S, NEW names \in Seq(S), names # << >>
  PROVE  ReadOn(agent, r, NameLines(names)) = State(sp, rules, delay, maps, names, << >>, 0, Off)
<1>. DEFINE c == Len(names)
            file == NameLines(names)
            h == CHOOSE f : Reads(agent, r, file, c, f)
            w == [i \in 0..c |-> IF i = 0 THEN << >> ELSE h[i].names]
            At(i) == h[i] = State(sp, rules, delay, maps, w[i], << >>, 0, Off)
<1>1. c \in Nat /\ c # 0
  BY LenProperties, EmptySeq
<1>2. Len(file) = c /\ \A i \in 1..c : file[i] = NameLine(names[i])
  BY <1>1 DEF NameLines
<1>3. Reads(agent, r, file, c, h) /\ ReadOn(agent, r, file) = h[c]
  BY <1>1, <1>2, ReadsExist, ReadOnReads
<1>4. w[0] = << >> /\ \A i \in 1..c : w[i] = h[i].names
  BY <1>1
<1>. HIDE DEF file, h, c, w
<1>5. h[0] = r /\ \A i \in 1..c : h[i] = Line(agent, h[i - 1], file[i])
  BY <1>1, <1>3 DEF Reads
<1>. DEFINE T == {i \in Nat : i + 1 <= c => At(i + 1) /\ w[i + 1] = Append(w[i], names[i + 1])}
<1>6. 0 \in T
  <2>1. 1 \in 1..c /\ 1 - 1 = 0
    BY <1>1
  <2>2. h[1] = Line(agent, r, NameLine(names[1]))
    BY <1>2, <1>5, <2>1
  <2>3. h[1] = State(sp, rules, delay, maps, Append(<< >>, names[1]), << >>, 0, Off)
    BY <2>2, FirstRead
  <2>4. h[1].names = Append(<< >>, names[1])
    BY <2>3, StateParts
  <2>5. w[1] = Append(w[0], names[1]) /\ At(1)
    BY <1>4, <2>1, <2>3, <2>4
  <2>6. 0 + 1 = 1
    OBVIOUS
  <2>. QED  BY <2>5, <2>6
<1>7. ASSUME NEW i \in Nat, i \in T PROVE i + 1 \in T
  <2>. DEFINE j == i + 1
              k == j + 1
  <2>. SUFFICES ASSUME k <= c PROVE At(k) /\ w[k] = Append(w[j], names[k])
    OBVIOUS
  <2>1. j \in 1..c /\ k \in 1..c /\ k - 1 = j /\ j <= c
    BY <1>1
  <2>2. At(j)
    BY <1>7, <2>1
  <2>. HIDE DEF k, j
  <2>3. h[k] = Line(agent, h[j], NameLine(names[k]))
    BY <1>2, <1>5, <2>1
  <2>4. h[k] = State(sp, rules, delay, maps, Append(w[j], names[k]), << >>, 0, Off)
    BY <2>2, <2>3, NextNameRead
  <2>5. h[k].names = Append(w[j], names[k])
    BY <2>4 DEF State
  <2>. QED  BY <1>4, <2>1, <2>4, <2>5
<1>8. \A i \in 1..c : At(i) /\ w[i] = Append(w[i - 1], names[i])
  <2>1. Nat \subseteq T
    <3>. HIDE DEF T
    <3>. QED  BY <1>6, <1>7, NatIn
  <2>. SUFFICES ASSUME NEW i \in 1..c PROVE At(i) /\ w[i] = Append(w[i - 1], names[i])
    OBVIOUS
  <2>. DEFINE j == i - 1
  <2>2. j \in Nat /\ j + 1 = i /\ j + 1 <= c
    BY <1>1
  <2>. HIDE DEF j
  <2>3. At(j + 1) /\ w[j + 1] = Append(w[j], names[j + 1])
    BY <2>1, <2>2
  <2>. QED  BY <2>2, <2>3 DEF j
<1>9. KeepsThose(c, names, 1..c, w)
  <2>1. \A i \in 0..c : i # 0 => i \in 1..c
    BY <1>1
  <2>2. \A i \in 1..c : w[i] = Append(w[i - 1], names[i])
    BY <1>8
  <2>. QED  BY <1>4, <2>1, <2>2 DEF KeepsThose
<1>10. w[c] = AtPlaces(names, 1..c)
  BY <1>1, <1>9, KeptInOrder
<1>11. w[c] = names
  BY <1>10, AllKept DEF c
<1>. QED  BY <1>1, <1>3, <1>8, <1>11 DEF file

(* A group's rules are its lines that are rules.                            *)
RulesOf(lines) == AtPlaces([j \in DOMAIN lines |-> Ruled(lines[j])], {j \in DOMAIN lines : IsRule(lines[j])})

WithRules(r, sp, rules, delay, maps, names, group) == \E p : r = State(sp, rules, delay, maps, names, group, p, On)

LEMMA RulesRead ==
  ASSUME NEW agent, NEW r, NEW sp, NEW rules, NEW delay, NEW maps, NEW names,
         r = State(sp, rules, delay, maps, names, << >>, 0, Off),
         NEW lines \in Seq(RobotsLine), lines # << >>
  PROVE  WithRules(ReadOn(agent, r, lines), sp, rules, delay, maps, names, RulesOf(lines))
<1>. DEFINE c == Len(lines)
            h == CHOOSE f : Reads(agent, r, lines, c, f)
            w == [i \in 0..c |-> h[i].group]
            K == {j \in DOMAIN lines : IsRule(lines[j])}
            s == [j \in DOMAIN lines |-> Ruled(lines[j])]
            At(i, p, in) == h[i] = State(sp, rules, delay, maps, names, w[i], p, in)
<1>1. c \in Nat /\ c # 0 /\ DOMAIN lines = 1..c /\ \A i \in 1..c : lines[i] \in RobotsLine
  BY LenProperties, EmptySeq
<1>2. Reads(agent, r, lines, c, h) /\ ReadOn(agent, r, lines) = h[c]
  BY <1>1, ReadsExist, ReadOnReads
<1>3. \A i \in 0..c : w[i] = h[i].group
  OBVIOUS
<1>4. K \in SUBSET (1..c) /\ (\A i \in 1..c : i \in K <=> IsRule(lines[i])) /\ \A i \in 1..c : s[i] = Ruled(lines[i])
  BY <1>1
<1>. HIDE DEF h, c, w, K, s
<1>5. h[0] = r /\ \A i \in 1..c : h[i] = Line(agent, h[i - 1], lines[i])
  BY <1>1, <1>2 DEF Reads
<1>. DEFINE T == {i \in Nat : i <= c => /\ \E p, in : At(i, p, in) /\ (i # 0 => in = On)
                                        /\ w[i] = IF i = 0 THEN << >> ELSE IF i \in K THEN Append(w[i - 1], s[i]) ELSE w[i - 1]}
<1>6. 0 \in T
  <2>1. h[0].group = << >>
    BY <1>5, StateParts
  <2>2. w[0] = << >>
    BY <1>1, <1>3, <2>1
  <2>3. At(0, 0, Off)
    BY <1>5, <2>2
  <2>. QED  BY <2>2, <2>3
<1>7. ASSUME NEW i \in Nat, i \in T PROVE i + 1 \in T
  <2>. DEFINE j == i + 1
  <2>. SUFFICES ASSUME j <= c
                PROVE  /\ \E p : At(j, p, On)
                       /\ w[j] = IF j \in K THEN Append(w[i], s[j]) ELSE w[i]
    OBVIOUS
  <2>1. j \in 1..c /\ j - 1 = i /\ i <= c /\ j \in 0..c
    BY <1>1
  <2>2. PICK p, in : At(i, p, in)
    BY <1>7, <2>1
  <2>. HIDE DEF j
  <2>3. h[j] = Line(agent, h[i], lines[j]) /\ lines[j] \in RobotsLine
    BY <1>1, <1>5, <2>1
  <2>. DEFINE more == IF j \in K THEN Append(w[i], s[j]) ELSE w[i]
  <2>4. PICK q : h[j] = State(sp, rules, delay, maps, names, more, q, On)
    <3>1. more = IF IsRule(lines[j]) THEN Append(w[i], Ruled(lines[j])) ELSE w[i]
      BY <1>4, <2>1
    <3>. HIDE DEF more
    <3>2. \E q : Line(agent, h[i], lines[j]) = State(sp, rules, delay, maps, names, more, q, On)
      BY <2>2, <2>3, <3>1, RuleRead
    <3>. QED  BY <2>3, <3>2
  <2>. HIDE DEF more
  <2>5. w[j] = more
    BY <1>3, <2>1, <2>4, StateParts
  <2>6. At(j, q, On)
    BY <2>4, <2>5
  <2>. QED  BY <2>5, <2>6 DEF more
<1>8. Nat \subseteq T
  <2>. HIDE DEF T
  <2>. QED  BY <1>6, <1>7, NatIn
<1>9. KeepsThose(c, s, K, w)
  <2>1. \A i \in 0..c : i \in Nat /\ i <= c
    BY <1>1
  <2>. QED  BY <1>8, <2>1 DEF KeepsThose
<1>10. w[c] = AtPlaces(s, K)
  BY <1>1, <1>4, <1>9, KeptInOrder
<1>11. \E p, in : At(c, p, in) /\ in = On
  <2>1. c <= c
    BY <1>1
  <2>. QED  BY <1>1, <1>8, <2>1
<1>12. w[c] = RulesOf(lines)
  BY <1>10 DEF RulesOf, s, K
<1>. QED  BY <1>2, <1>11, <1>12 DEF WithRules

-----------------------------------------------------------------------------
(* Which group is obeyed. *)

LEMMA MatchingIsFinite ==
  ASSUME NEW names \in Seq(Seq(STRING)), NEW agent
  PROVE  IsFiniteSet(Matching(names, agent)) /\ \A x \in Matching(names, agent) : x \in Nat
<1>. DEFINE c == Len(names)
            len == [n \in Seq(STRING) |-> IF n = <<Star>> THEN 0 ELSE Len(n)]
            called == {m \in ToSet(names) : m = <<Star>> \/ IsPrefix(m, agent)}
<1>1. c \in Nat /\ \A i \in 1..c : names[i] \in Seq(STRING)
  BY LenProperties
<1>2. ToSet(names) = {names[i] : i \in 1..c} /\ ToSet(names) \subseteq Seq(STRING)
  BY <1>1, LenProperties DEF ToSet
<1>3. IsFiniteSet(ToSet(names))
  <2>1. IsFiniteSet(1..c)
    BY <1>1, FS_Interval
  <2>2. IsFiniteSet({names[i] : i \in 1..c})
    BY <2>1, FiniteImage
  <2>. QED  BY <1>2, <2>2
<1>4. called \subseteq ToSet(names)
  OBVIOUS
<1>5. Matching(names, agent) = {IF n = <<Star>> THEN 0 ELSE Len(n) : n \in called}
  BY DEF Matching
<1>. HIDE DEF called
<1>6. IsFiniteSet(called)
  BY <1>3, <1>4, FS_Subset
<1>7. Matching(names, agent) = {len[n] : n \in called}
  BY <1>2, <1>4, <1>5
<1>8. \A n \in called : len[n] \in Nat
  BY <1>2, <1>4, LenProperties
<1>. HIDE DEF len
<1>. QED  BY <1>6, <1>7, <1>8, FiniteImage

(* How well a group matches is the greatest of what the code compares.      *)
LEMMA SpecificityIs ==
  ASSUME NEW names \in Seq(Seq(STRING)), NEW agent
  PROVE  /\ Matching(names, agent) = {} => Specificity(names, agent) = -1
         /\ Matching(names, agent) # {} =>
              Specificity(names, agent) = Max(Matching(names, agent)) /\ Specificity(names, agent) \in Nat
<1>. DEFINE M == Matching(names, agent)
            longs == {Len(n) : n \in {m \in ToSet(names) : m # <<Star>> /\ IsPrefix(m, agent)}}
            zeros == {0 : n \in {m \in ToSet(names) : m = <<Star>>}}
            S == {-1} \cup M
<1>1. longs \cup zeros = M
  BY DEF Matching
<1>2. Specificity(names, agent) = Max({-1} \cup longs \cup zeros)
  BY DEF Specificity
<1>3. {-1} \cup longs \cup zeros = S
  BY <1>1
<1>4. IsFiniteSet(M) /\ \A x \in M : x \in Nat
  BY MatchingIsFinite
<1>. HIDE DEF longs, zeros, M
<1>5. IsFiniteSet(S) /\ S # {} /\ \A x \in S : x \in Int
  <2>1. IsFiniteSet({-1})
    BY FS_Singleton
  <2>2. IsFiniteSet({-1} \cup M)
    BY <1>4, <2>1, FS_Union
  <2>. QED  BY <1>4, <2>2
<1>6. Max(S) \in S /\ \A x \in S : x <= Max(S)
  BY <1>5, MaxIs
<1>7. M # {} => Max(M) \in M /\ \A x \in M : x <= Max(M)
  <2>1. \A x \in M : x \in Int
    BY <1>4
  <2>. QED  BY <1>4, <2>1, MaxIs
<1>8. M = {} => Max(S) = -1
  BY <1>6
<1>9. M # {} => Max(S) = Max(M) /\ Max(M) \in Nat
  <2>. SUFFICES ASSUME M # {} PROVE Max(S) = Max(M) /\ Max(M) \in Nat
    OBVIOUS
  <2>. DEFINE a == Max(S)
              b == Max(M)
  <2>1. a \in {-1} \cup M /\ (\A x \in M : x <= a) /\ b \in M /\ \A x \in M : x <= b
    BY <1>6, <1>7
  <2>. HIDE DEF S, a, b
  <2>2. b \in Nat /\ b <= a /\ a # -1
    BY <1>4, <2>1
  <2>3. a \in M /\ a <= b /\ a \in Nat
    BY <1>4, <2>1, <2>2
  <2>4. a = b
    BY <2>2, <2>3
  <2>. QED  BY <2>2, <2>4 DEF a, b
<1>. QED  BY <1>2, <1>3, <1>8, <1>9 DEF M

LEMMA SpecificityIsInt ==
  ASSUME NEW names \in Seq(Seq(STRING)), NEW agent
  PROVE  Specificity(names, agent) \in Nat \cup {-1}
BY SpecificityIs

(* A group that was read takes the place of the best if it is as good.      *)
LEMMA GroupStands ==
  ASSUME NEW agent, NEW sp \in Nat \cup {-1}, NEW rules, NEW delay, NEW maps, NEW names \in Seq(Seq(STRING)),
         NEW group, NEW p, NEW r, r = State(sp, rules, delay, maps, names, group, p, On)
  PROVE  \E d : IF Specificity(names, agent) >= 0 /\ Specificity(names, agent) >= sp
                THEN Stands(agent, r, Specificity(names, agent), group, d, maps)
                ELSE Stands(agent, r, sp, rules, d, maps)
<1>. DEFINE M == Matching(names, agent)
            f == Specificity(names, agent)
<1>1. GroupClosed(agent, r) = IF M # {} /\ Max(M) >= sp THEN Between(Max(M), group, p, maps)
                                                      ELSE Between(sp, rules, delay, maps)
  BY GroupClosedIs
<1>2. (M = {} => f = -1) /\ (M # {} => f = Max(M) /\ f \in Nat)
  BY SpecificityIs
<1>3. Settled(agent, r, On) = GroupClosed(agent, r)
  BY DEF Settled, On
<1>. HIDE DEF M, f
<1>4. CASE f >= 0 /\ f >= sp
  <2>1. Settled(agent, r, On) = Between(f, group, p, maps)
    BY <1>1, <1>2, <1>3, <1>4
  <2>2. Stands(agent, r, f, group, p, maps)
    BY <2>1 DEF Stands
  <2>. QED  BY <1>4, <2>2 DEF f
<1>5. CASE ~(f >= 0 /\ f >= sp)
  <2>1. ~(M # {} /\ Max(M) >= sp)
    BY <1>2, <1>5
  <2>2. Settled(agent, r, On) = Between(sp, rules, delay, maps)
    BY <1>1, <1>3, <2>1
  <2>3. Stands(agent, r, sp, rules, delay, maps)
    BY <2>2 DEF Stands
  <2>. QED  BY <1>5, <2>3 DEF f
<1>. QED  BY <1>4, <1>5

(* At the end of the file the last group is closed, if there is one.        *)
LEMMA ClosedAtEnd ==
  ASSUME NEW agent, NEW sp, NEW rules, NEW delay, NEW maps, NEW r, Stands(agent, r, sp, rules, delay, maps)
  PROVE  GroupClosed(agent, r) = Between(sp, rules, delay, maps)
<1>1. PICK s, o, d, n, g, p, in :
        /\ r = State(s, o, d, maps, n, g, p, in)
        /\ Settled(agent, r, in) = Between(sp, rules, delay, maps)
  BY DEF Stands
<1>2. CASE in
  BY <1>1, <1>2 DEF Settled
<1>3. CASE ~in
  <2>1. r = State(sp, rules, delay, maps, << >>, << >>, 0, Off)
    BY <1>1, <1>3 DEF Settled, Between
  <2>2. Matching(<< >>, agent) = {}
    BY DEF Matching, ToSet
  <2>. QED  BY <2>1, <2>2, GroupClosedIs
<1>. QED  BY <1>2, <1>3

-----------------------------------------------------------------------------
(* Group after group. *)

FileLine == RobotsLine \cup {NameLine(v) : v \in Seq(STRING)}
Grows(groups, n, up) ==
  up = [g \in 0..n |->
          IF g = 0 THEN << >>
          ELSE up[g - 1] \o [k \in 1..Len(groups[g].names) |-> [field |-> "user-agent", value |-> groups[g].names[k]]]
                 \o groups[g].rules]

LEMMA LinesGrow ==
  ASSUME NEW groups PROVE Lines(groups) = (CHOOSE up : Grows(groups, Len(groups), up))[Len(groups)]
BY DEF Lines, Grows

LEMMA GrowingExists == ASSUME NEW groups PROVE \A n \in Nat : \E up : Grows(groups, n, up)
<1>. DEFINE T == {n \in Nat : \E up : Grows(groups, n, up)}
            More(w, g) == w \o [k \in 1..Len(groups[g].names) |-> [field |-> "user-agent", value |-> groups[g].names[k]]]
                            \o groups[g].rules
<1>0. \A n, up : Grows(groups, n, up) <=> up = [g \in 0..n |-> IF g = 0 THEN << >> ELSE More(up[g - 1], g)]
  BY DEF Grows
<1>. HIDE DEF More
<1>1. 0 \in T
  <2>. DEFINE none == [g \in 0..0 |-> << >>]
  <2>2. none = [g \in 0..0 |-> IF g = 0 THEN << >> ELSE More(none[g - 1], g)]
    OBVIOUS
  <2>. HIDE DEF none
  <2>1. Grows(groups, 0, none)
    BY <1>0, <2>2
  <2>. QED  BY <2>1
<1>2. ASSUME NEW n \in Nat, n \in T PROVE n + 1 \in T
  <2>1. PICK w : Grows(groups, n, w)
    BY <1>2
  <2>. DEFINE next == More(w[n], n + 1)
              v == [g \in 0..n + 1 |-> IF g = n + 1 THEN next ELSE w[g]]
  <2>. SUFFICES Grows(groups, n + 1, v)
    OBVIOUS
  <2>2. SUFFICES ASSUME NEW g \in 0..n + 1 PROVE v[g] = IF g = 0 THEN << >> ELSE More(v[g - 1], g)
    BY <1>0
  <2>3. v[n + 1] = next /\ \A k \in 0..n : v[k] = w[k]
    OBVIOUS
  <2>4. \A k \in 0..n : w[k] = IF k = 0 THEN << >> ELSE More(w[k - 1], k)
    BY <1>0, <2>1
  <2>. HIDE DEF v
  <2>5. CASE g = n + 1
    <3>1. g # 0 /\ g - 1 = n /\ n \in 0..n
      BY <2>5
    <3>. QED  BY <2>3, <2>5, <3>1
  <2>6. CASE g \in 0..n
    <3>1. g # 0 => g - 1 \in 0..n
      BY <2>6
    <3>. QED  BY <2>3, <2>4, <2>6, <3>1
  <2>. QED  BY <2>5, <2>6
<1>. HIDE DEF T
<1>3. Nat \subseteq T
  BY <1>1, <1>2, NatIn
<1>. QED  BY <1>3 DEF T

(* The rules kept after g groups are those of the last of the best.         *)
Best(groups, agent, g, sp, rules) ==
  LET of(h) == Specificity(groups[h].names, agent)
  IN \/ sp = -1 /\ rules = << >> /\ \A h \in 1..g : of(h) = -1
     \/ \E b \in 1..g : /\ sp = of(b) /\ of(b) >= 0 /\ rules = RulesOf(groups[b].rules)
                        /\ \A h \in 1..g : of(h) <= of(b) /\ (b < h => of(h) < of(b))

LEMMA BestOfMore ==
  ASSUME NEW groups, NEW agent, NEW g \in Nat, NEW sp \in Nat \cup {-1}, NEW rules, Best(groups, agent, g, sp, rules),
         \A h \in 1..g + 1 : Specificity(groups[h].names, agent) \in Nat \cup {-1},
         NEW f, f = Specificity(groups[g + 1].names, agent)
  PROVE  /\ f >= 0 /\ f >= sp => Best(groups, agent, g + 1, f, RulesOf(groups[g + 1].rules))
         /\ ~(f >= 0 /\ f >= sp) => Best(groups, agent, g + 1, sp, rules)
<1>. DEFINE of(h) == Specificity(groups[h].names, agent)
            k == g + 1
<1>1. k \in 1..k /\ (\A h \in 1..k : h \in 1..g \/ h = k) /\ (\A h \in 1..g : h \in 1..k /\ h < k /\ h \in Int)
      /\ k \in Int
  OBVIOUS
<1>2. \A h \in 1..k : of(h) \in Nat \cup {-1}
  OBVIOUS
<1>3. f = of(k)
  OBVIOUS
<1>4. \/ sp = -1 /\ rules = << >> /\ \A h \in 1..g : of(h) = -1
      \/ \E b \in 1..g : /\ sp = of(b) /\ of(b) >= 0 /\ rules = RulesOf(groups[b].rules)
                         /\ \A h \in 1..g : of(h) <= of(b) /\ (b < h => of(h) < of(b))
  BY DEF Best
<1>5. \A s, u : Best(groups, agent, k, s, u) <=>
        \/ s = -1 /\ u = << >> /\ \A h \in 1..k : of(h) = -1
        \/ \E b \in 1..k : /\ s = of(b) /\ of(b) >= 0 /\ u = RulesOf(groups[b].rules)
                           /\ \A h \in 1..k : of(h) <= of(b) /\ (b < h => of(h) < of(b))
  BY DEF Best
<1>. HIDE DEF of, k
<1>6. ASSUME f >= 0, f >= sp PROVE Best(groups, agent, k, f, RulesOf(groups[k].rules))
  <2>1. \A h \in 1..k : of(h) <= of(k) /\ ~(k < h)
    BY <1>1, <1>2, <1>3, <1>4, <1>6
  <2>. QED  BY <1>1, <1>3, <1>5, <1>6, <2>1
<1>7. ASSUME ~(f >= 0 /\ f >= sp) PROVE Best(groups, agent, k, sp, rules)
  <2>1. CASE sp = -1 /\ rules = << >> /\ \A h \in 1..g : of(h) = -1
    <3>1. \A h \in 1..k : of(h) = -1
      BY <1>1, <1>2, <1>3, <1>7, <2>1
    <3>. QED  BY <1>5, <2>1, <3>1
  <2>2. CASE \E b \in 1..g : /\ sp = of(b) /\ of(b) >= 0 /\ rules = RulesOf(groups[b].rules)
                             /\ \A h \in 1..g : of(h) <= of(b) /\ (b < h => of(h) < of(b))
    <3>1. PICK b \in 1..g : /\ sp = of(b) /\ of(b) >= 0 /\ rules = RulesOf(groups[b].rules)
                            /\ \A h \in 1..g : of(h) <= of(b) /\ (b < h => of(h) < of(b))
      BY <2>2
    <3>2. b \in 1..k /\ of(k) < of(b)
      BY <1>1, <1>2, <1>3, <1>7, <3>1
    <3>3. \A h \in 1..k : of(h) <= of(b) /\ (b < h => of(h) < of(b))
      BY <1>1, <1>2, <3>1, <3>2
    <3>. QED  BY <1>5, <3>1, <3>2, <3>3
  <2>. QED  BY <1>4, <2>1, <2>2
<1>. QED  BY <1>6, <1>7 DEF k

LEMMA GroupParts ==
  ASSUME NEW group \in RobotsGroup
  PROVE  /\ group.names \in Seq(Seq(STRING)) /\ group.names # << >>
         /\ group.rules \in Seq(RobotsLine) /\ group.rules # << >>
         /\ group.rules \in Seq(FileLine) /\ NameLines(group.names) \in Seq(FileLine)
<1>1. /\ group.names \in Seq(Seq(STRING)) /\ group.names # << >>
      /\ group.rules \in Seq(RobotsLine) /\ group.rules # << >>
  BY DEF RobotsGroup
<1>2. group.rules \in Seq(FileLine)
  <2>1. RobotsLine \subseteq FileLine
    BY DEF FileLine
  <2>. HIDE DEF RobotsLine, FileLine
  <2>. QED  BY <1>1, <2>1, SeqMonotonic
<1>3. NameLines(group.names) \in Seq(FileLine)
  <2>. DEFINE names == group.names
              c == Len(names)
              t == NameLines(names)
  <2>1. c \in Nat /\ \A i \in 1..c : names[i] \in Seq(STRING)
    BY <1>1, LenProperties
  <2>2. t = [n \in 1..c |-> NameLine(names[n])]
    BY DEF NameLines
  <2>. HIDE DEF names, c, t
  <2>3. \A n \in 1..c : NameLine(names[n]) \in FileLine
    BY <2>1 DEF FileLine
  <2>4. t \in [1..c -> FileLine]
    BY <2>2, <2>3
  <2>5. t \in Seq(FileLine)
    BY <2>1, <2>4, SeqDef, Zenon
  <2>. QED  BY <2>5 DEF names, t
<1>. QED  BY <1>1, <1>2, <1>3

(* A group more.                                                            *)
LEMMA GroupRead ==
  ASSUME NEW agent, NEW r, NEW sp \in Nat \cup {-1}, NEW rules, NEW delay, NEW maps,
         Stands(agent, r, sp, rules, delay, maps), NEW group \in RobotsGroup
  PROVE  \E d : LET after == ReadOn(agent, ReadOn(agent, r, NameLines(group.names)), group.rules)
                    f == Specificity(group.names, agent)
                IN IF f >= 0 /\ f >= sp THEN Stands(agent, after, f, RulesOf(group.rules), d, maps)
                   ELSE Stands(agent, after, sp, rules, d, maps)
<1>1. /\ group.names \in Seq(Seq(STRING)) /\ group.names # << >>
      /\ group.rules \in Seq(RobotsLine) /\ group.rules # << >>
  BY GroupParts
<1>. DEFINE named == ReadOn(agent, r, NameLines(group.names))
            after == ReadOn(agent, named, group.rules)
<1>2. named = State(sp, rules, delay, maps, group.names, << >>, 0, Off)
  BY <1>1, NamesRead
<1>. HIDE DEF named
<1>3. PICK p : after = State(sp, rules, delay, maps, group.names, RulesOf(group.rules), p, On)
  <2>1. WithRules(after, sp, rules, delay, maps, group.names, RulesOf(group.rules))
    BY <1>1, <1>2, RulesRead
  <2>. QED  BY <2>1 DEF WithRules
<1>. HIDE DEF after
<1>4. \E d : IF Specificity(group.names, agent) >= 0 /\ Specificity(group.names, agent) >= sp
             THEN Stands(agent, after, Specificity(group.names, agent), RulesOf(group.rules), d, maps)
             ELSE Stands(agent, after, sp, rules, d, maps)
  BY <1>1, <1>3, GroupStands
<1>. QED  BY <1>4 DEF after, named

(* What is left when g groups have been read.                               *)
ReadUpTo(groups, agent, g, r) ==
  \E sp \in Nat \cup {-1} : \E rules, d : Stands(agent, r, sp, rules, d, << >>) /\ Best(groups, agent, g, sp, rules)

LEMMA GroupsRead ==
  ASSUME NEW groups \in Seq(RobotsGroup), NEW agent
  PROVE  ReadUpTo(groups, agent, Len(groups), ReadOn(agent, Reading, Lines(groups)))
<1>. DEFINE n == Len(groups)
            up == CHOOSE w : Grows(groups, n, w)
            read(g) == ReadOn(agent, Reading, up[g])
<1>1. n \in Nat /\ \A g \in 1..n : groups[g] \in RobotsGroup
  BY LenProperties
<1>2. Lines(groups) = up[n]
  BY LinesGrow
<1>3. Grows(groups, n, up)
  BY <1>1, GrowingExists
<1>. HIDE DEF n, up
<1>4. up[0] = << >>
  BY <1>1, <1>3 DEF Grows
<1>5. ASSUME NEW g \in 1..n PROVE up[g] = up[g - 1] \o NameLines(groups[g].names) \o groups[g].rules
  <2>1. g \in 0..n /\ g # 0
    BY <1>1
  <2>2. up[g] = up[g - 1] \o [k \in 1..Len(groups[g].names) |-> [field |-> "user-agent", value |-> groups[g].names[k]]]
                  \o groups[g].rules
    BY <1>3, <2>1 DEF Grows
  <2>3. NameLines(groups[g].names) = [k \in 1..Len(groups[g].names) |-> [field |-> "user-agent", value |-> groups[g].names[k]]]
    BY DEF NameLines, NameLine
  <2>. QED  BY <2>2, <2>3
<1>6. \A g \in 1..n : Specificity(groups[g].names, agent) \in Nat \cup {-1}
  BY <1>1, GroupParts, SpecificityIsInt
<1>. DEFINE T == {g \in Nat : g <= n => up[g] \in Seq(FileLine) /\ ReadUpTo(groups, agent, g, read(g))}
<1>7. 0 \in T
  <2>1. read(0) = Reading
    BY <1>4, ReadNothing
  <2>2. Reading = Between(-1, << >>, 0, << >>)
    BY DEF Reading, Between, State, Off
  <2>3. Settled(agent, Reading, Off) = Reading
    BY DEF Settled, Off
  <2>4. Stands(agent, Reading, -1, << >>, 0, << >>)
    BY <2>2, <2>3 DEF Stands, Between
  <2>5. Best(groups, agent, 0, -1, << >>)
    BY DEF Best
  <2>6. ReadUpTo(groups, agent, 0, read(0))
    BY <2>1, <2>4, <2>5 DEF ReadUpTo
  <2>. HIDE DEF read
  <2>7. up[0] \in Seq(FileLine)
    BY <1>4, EmptySeq
  <2>. QED  BY <2>6, <2>7
<1>8. ASSUME NEW i \in Nat, i \in T PROVE i + 1 \in T
  <2>. DEFINE g == i + 1
  <2>. SUFFICES ASSUME g <= n PROVE up[g] \in Seq(FileLine) /\ ReadUpTo(groups, agent, g, read(g))
    OBVIOUS
  <2>1. g \in 1..n /\ g - 1 = i /\ i <= n /\ g = i + 1
    BY <1>1
  <2>2. up[i] \in Seq(FileLine) /\ ReadUpTo(groups, agent, i, read(i))
    BY <1>8, <2>1
  <2>. HIDE DEF g
  <2>. DEFINE names == NameLines(groups[g].names)
              rules == groups[g].rules
  <2>3. names \in Seq(FileLine) /\ rules \in Seq(FileLine)
    BY <1>1, <2>1, GroupParts
  <2>4. up[g] = (up[i] \o names) \o rules
    BY <1>5, <2>1
  <2>. DEFINE both == up[i] \o names
  <2>5. both \in Seq(FileLine) /\ ReadOn(agent, Reading, both) = ReadOn(agent, read(i), names)
    BY <2>2, <2>3, ConcatProperties, ReadBoth
  <2>14. up[g] = both \o rules
    BY <2>4
  <2>. HIDE DEF both, rules
  <2>6. up[g] \in Seq(FileLine) /\ read(g) = ReadOn(agent, ReadOn(agent, Reading, both), rules)
    BY <2>3, <2>5, <2>14, ConcatProperties, ReadBoth
  <2>7. read(g) = ReadOn(agent, ReadOn(agent, read(i), names), rules)
    BY <2>5, <2>6
  <2>8. PICK sp \in Nat \cup {-1} : \E kept, d : Stands(agent, read(i), sp, kept, d, << >>) /\ Best(groups, agent, i, sp, kept)
    BY <2>2 DEF ReadUpTo
  <2>9. PICK kept, d : Stands(agent, read(i), sp, kept, d, << >>) /\ Best(groups, agent, i, sp, kept)
    BY <2>8
  <2>. DEFINE f == Specificity(groups[g].names, agent)
              r == read(g)
              q == read(i)
  <2>. HIDE DEF read
  <2>10. groups[g] \in RobotsGroup
    BY <1>1, <2>1
  <2>11. PICK e : IF f >= 0 /\ f >= sp THEN Stands(agent, r, f, RulesOf(rules), e, << >>)
                  ELSE Stands(agent, r, sp, kept, e, << >>)
    <3>. HIDE DEF r, q
    <3>1. \E e : LET after == ReadOn(agent, ReadOn(agent, q, NameLines(groups[g].names)), groups[g].rules)
                     x == Specificity(groups[g].names, agent)
                 IN IF x >= 0 /\ x >= sp THEN Stands(agent, after, x, RulesOf(groups[g].rules), e, << >>)
                    ELSE Stands(agent, after, sp, kept, e, << >>)
      BY <2>9, <2>10, GroupRead DEF q
    <3>. QED  BY <2>7, <3>1 DEF r, q, rules
  <2>12. /\ f >= 0 /\ f >= sp => Best(groups, agent, g, f, RulesOf(rules))
         /\ ~(f >= 0 /\ f >= sp) => Best(groups, agent, g, sp, kept)
    <3>1. \A h \in 1..i + 1 : Specificity(groups[h].names, agent) \in Nat \cup {-1}
      BY <1>1, <1>6, <2>1
    <3>. QED  BY <2>1, <2>9, <3>1, BestOfMore DEF rules
  <2>13. f \in Nat \cup {-1}
    BY <1>6, <2>1
  <2>. HIDE DEF f
  <2>15. ReadUpTo(groups, agent, g, r)
    <3>1. CASE f >= 0 /\ f >= sp
      BY <2>11, <2>12, <2>13, <3>1 DEF ReadUpTo
    <3>2. CASE ~(f >= 0 /\ f >= sp)
      BY <2>11, <2>12, <3>2 DEF ReadUpTo
    <3>. QED  BY <3>1, <3>2
  <2>. QED  BY <2>6, <2>15
<1>9. n \in T
  <2>. HIDE DEF T
  <2>. QED  BY <1>1, <1>7, <1>8, NatIn
<1>10. n <= n
  BY <1>1
<1>. QED  BY <1>2, <1>9, <1>10 DEF n

(* The rules a crawler obeys are those of one group.                        *)
LEMMA RulesParsed ==
  ASSUME NEW groups \in Seq(RobotsGroup), NEW agent
  PROVE  \E sp : Best(groups, agent, Len(groups), sp, ParseRobots(Lines(groups), agent).rules)
<1>. DEFINE read == ReadOn(agent, Reading, Lines(groups))
<1>1. PICK sp, rules, d : Stands(agent, read, sp, rules, d, << >>) /\ Best(groups, agent, Len(groups), sp, rules)
  BY GroupsRead DEF ReadUpTo
<1>2. GroupClosed(agent, read) = Between(sp, rules, d, << >>)
  BY <1>1, ClosedAtEnd
<1>3. GroupClosed(agent, read).rules = rules
  BY <1>2, StateParts DEF Between
<1>4. ParseRobots(Lines(groups), agent).rules = GroupClosed(agent, read).rules
  BY DEF ParseRobots
<1>. QED  BY <1>1, <1>3, <1>4

(* The lines of that group, those that are rules, and the group's choice.   *)
Obeyed(groups, agent) ==
  LET best == {g \in DOMAIN groups :
                 /\ Specificity(groups[g].names, agent) >= 0
                 /\ \A h \in DOMAIN groups : Specificity(groups[h].names, agent) <= Specificity(groups[g].names, agent)}
  IN IF best = {} THEN << >> ELSE groups[Max(best)].rules

LEMMA OneGroupIsObeyed ==
  ASSUME NEW groups \in Seq(RobotsGroup), NEW agent
  PROVE  /\ Obeyed(groups, agent) \in Seq(RobotsLine)
         /\ ParseRobots(Lines(groups), agent).rules = RulesOf(Obeyed(groups, agent))
<1>. DEFINE n == Len(groups)
            of(h) == Specificity(groups[h].names, agent)
            best == {g \in DOMAIN groups : of(g) >= 0 /\ \A h \in DOMAIN groups : of(h) <= of(g)}
            rules == ParseRobots(Lines(groups), agent).rules
<1>1. n \in Nat /\ DOMAIN groups = 1..n /\ \A g \in 1..n : groups[g] \in RobotsGroup
  BY LenProperties
<1>2. \A h \in 1..n : of(h) \in Nat \cup {-1}
  BY <1>1, GroupParts, SpecificityIsInt
<1>3. \/ rules = << >> /\ \A h \in 1..n : of(h) = -1
      \/ \E b \in 1..n : /\ of(b) >= 0 /\ rules = RulesOf(groups[b].rules)
                         /\ \A h \in 1..n : of(h) <= of(b) /\ (b < h => of(h) < of(b))
  BY RulesParsed DEF Best
<1>4. Obeyed(groups, agent) = IF best = {} THEN << >> ELSE groups[Max(best)].rules
  BY DEF Obeyed
<1>5. \A g : g \in best <=> g \in 1..n /\ of(g) >= 0 /\ \A h \in 1..n : of(h) <= of(g)
  BY <1>1
<1>. HIDE DEF best, of, rules, n
<1>6. CASE rules = << >> /\ \A h \in 1..n : of(h) = -1
  <2>1. best = {}
    BY <1>5, <1>6
  <2>2. RulesOf(<< >>) = << >>
    <3>. DEFINE s == [j \in DOMAIN << >> |-> Ruled(<< >>[j])]
                K == {j \in DOMAIN << >> : IsRule(<< >>[j])}
    <3>1. K = {}
      OBVIOUS
    <3>2. RulesOf(<< >>) = AtPlaces(s, K)
      BY DEF RulesOf
    <3>. HIDE DEF s, K
    <3>3. Cardinality(K) = 0
      BY <3>1, FS_EmptySet
    <3>. QED  BY <3>2, <3>3 DEF AtPlaces
  <2>. QED  BY <1>4, <1>6, <2>1, <2>2 DEF rules
<1>7. CASE \E b \in 1..n : /\ of(b) >= 0 /\ rules = RulesOf(groups[b].rules)
                           /\ \A h \in 1..n : of(h) <= of(b) /\ (b < h => of(h) < of(b))
  <2>1. PICK b \in 1..n : /\ of(b) >= 0 /\ rules = RulesOf(groups[b].rules)
                          /\ \A h \in 1..n : of(h) <= of(b) /\ (b < h => of(h) < of(b))
    BY <1>7
  <2>2. b \in best /\ \A g \in best : g <= b
    <3>1. ASSUME NEW g \in best PROVE g <= b
      <4>1. g \in 1..n /\ of(b) <= of(g)
        BY <1>5
      <4>2. ~(of(g) < of(b))
        BY <1>2, <4>1
      <4>. QED  BY <1>1, <2>1, <4>1, <4>2
    <3>. QED  BY <1>5, <2>1, <3>1
  <2>3. IsFiniteSet(best) /\ \A g \in best : g \in Int
    <3>1. best \subseteq 1..n /\ IsFiniteSet(1..n)
      BY <1>1, <1>5, FS_Interval
    <3>. QED  BY <1>1, <1>5, <3>1, FS_Subset
  <2>4. Max(best) = b
    <3>1. Max(best) \in best /\ \A g \in best : g <= Max(best)
      BY <2>2, <2>3, MaxIs
    <3>. DEFINE x == Max(best)
    <3>2. x \in best /\ b <= x /\ x <= b /\ x \in Int /\ b \in Int
      BY <2>2, <2>3, <3>1
    <3>. HIDE DEF x
    <3>3. x = b
      BY <3>2
    <3>. QED  BY <3>3 DEF x
  <2>5. Obeyed(groups, agent) = groups[b].rules
    BY <1>4, <2>2, <2>4
  <2>. QED  BY <1>1, <2>1, <2>5, GroupParts DEF rules
<1>. QED  BY <1>3, <1>6, <1>7

-----------------------------------------------------------------------------
(* Where a pattern leads.  after[end] is where the path is when the pattern *)
(* has been found up to end, each piece as early as it can be.              *)

Openings(pattern, path, end, before) ==
  {c \in 0..Len(path) :
     /\ IF StarBefore(pattern, end) = 0 THEN c = 0 ELSE before # -1 /\ before <= c
     /\ Occurs(pattern, StarBefore(pattern, end), end, path, c)}
After(pattern, path, end, before) ==
  IF Openings(pattern, path, end, before) = {} THEN -1
  ELSE Min(Openings(pattern, path, end, before)) + (end - 1 - StarBefore(pattern, end))
Leads(pattern, path, n, after) ==
  after = [end \in 1..n |-> After(pattern, path, end, after[StarBefore(pattern, end)])]

LEMMA CursorLeads ==
  ASSUME NEW pattern, NEW path
  PROVE  Cursor(pattern, path) = (CHOOSE after : Leads(pattern, path, Length(pattern) + 1, after))[Length(pattern) + 1]
BY DEF Cursor, Leads, After, Openings

LEMMA StarBeforeIs ==
  ASSUME NEW pattern, NEW end \in Nat \ {0}
  PROVE  /\ StarBefore(pattern, end) \in 0..end - 1
         /\ StarBefore(pattern, end) # 0 => pattern[StarBefore(pattern, end)] = Star
         /\ \A i \in StarBefore(pattern, end) + 1..end - 1 : pattern[i] # Star
<1>. DEFINE stars == {i \in 1..(end - 1) : pattern[i] = Star}
            S == {0} \cup stars
            m == StarBefore(pattern, end)
<1>1. m = Max(S)
  BY DEF StarBefore
<1>2. IsFiniteSet(S) /\ S # {} /\ \A x \in S : x \in Int
  <2>1. IsFiniteSet(1..(end - 1)) /\ IsFiniteSet({0})
    <3>1. 1 \in Int /\ end - 1 \in Int
      OBVIOUS
    <3>2. IsFiniteSet(1..(end - 1))
      BY <3>1, FS_Interval
    <3>. QED  BY <3>2, FS_Singleton
  <2>2. stars \subseteq 1..(end - 1)
    OBVIOUS
  <2>. HIDE DEF stars
  <2>3. IsFiniteSet(stars)
    BY <2>1, <2>2, FS_Subset
  <2>4. IsFiniteSet(S)
    BY <2>1, <2>3, FS_Union
  <2>. QED  BY <2>2, <2>4
<1>3. m \in S /\ \A x \in S : x <= m
  BY <1>1, <1>2, MaxIs
<1>. HIDE DEF m
<1>4. m \in 0..end - 1 /\ (m # 0 => pattern[m] = Star)
  BY <1>3
<1>5. \A i \in m + 1..end - 1 : pattern[i] # Star
  <2>. SUFFICES ASSUME NEW i \in m + 1..end - 1, pattern[i] = Star PROVE FALSE
    OBVIOUS
  <2>1. i \in 1..(end - 1) /\ ~(i <= m)
    BY <1>4
  <2>. QED  BY <1>3, <2>1
<1>. QED  BY <1>4, <1>5 DEF m

LEMMA LeadingExists == ASSUME NEW pattern, NEW path PROVE \A n \in Nat : \E after : Leads(pattern, path, n, after)
<1>. DEFINE T == {n \in Nat : \E after : Leads(pattern, path, n, after)}
            star(end) == StarBefore(pattern, end)
<1>3. \A n, w : Leads(pattern, path, n, w) <=> w = [end \in 1..n |-> After(pattern, path, end, w[star(end)])]
  BY DEF Leads
<1>4. \A end \in Nat \ {0} : star(end) \in 0..end - 1
  BY StarBeforeIs
<1>5. \A end, x, y : star(end) = 0 => After(pattern, path, end, x) = After(pattern, path, end, y)
  BY DEF After, Openings
<1>. HIDE DEF star
<1>1. 0 \in T
  <2>. DEFINE w == [end \in 1..0 |-> 0]
  <2>1. w = [end \in 1..0 |-> After(pattern, path, end, w[star(end)])]
    OBVIOUS
  <2>. HIDE DEF w
  <2>2. Leads(pattern, path, 0, w)
    BY <1>3, <2>1
  <2>. QED  BY <2>2
<1>2. ASSUME NEW n \in Nat, n \in T PROVE n + 1 \in T
  <2>1. PICK w : Leads(pattern, path, n, w)
    BY <1>2
  <2>. DEFINE m == n + 1
              next == After(pattern, path, m, w[star(m)])
              v == [end \in 1..m |-> IF end = m THEN next ELSE w[end]]
  <2>. SUFFICES Leads(pattern, path, m, v)
    OBVIOUS
  <2>2. SUFFICES ASSUME NEW end \in 1..m PROVE v[end] = After(pattern, path, end, v[star(end)])
    BY <1>3
  <2>3. v[m] = next /\ \A k \in 1..n : v[k] = w[k]
    OBVIOUS
  <2>4. \A k \in 1..n : w[k] = After(pattern, path, k, w[star(k)])
    BY <1>3, <2>1
  <2>5. v[end] = After(pattern, path, end, w[star(end)])
    <3>. HIDE DEF v
    <3>1. CASE end = m
      BY <2>3, <3>1
    <3>2. CASE end # m
      <4>1. end \in 1..n
        BY <3>2
      <4>. HIDE DEF next, m
      <4>. QED  BY <2>3, <2>4, <4>1
    <3>. QED  BY <3>1, <3>2
  <2>6. CASE star(end) = 0
    BY <1>5, <2>5, <2>6
  <2>7. CASE star(end) # 0
    <3>1. star(end) \in 1..n
      BY <1>4, <2>7
    <3>2. v[star(end)] = w[star(end)]
      BY <2>3, <3>1
    <3>. QED  BY <2>5, <3>2
  <2>. QED  BY <2>6, <2>7
<1>. HIDE DEF T
<1>6. Nat \subseteq T
  BY <1>1, <1>2, NatIn
<1>. QED  BY <1>6 DEF T

(* Places of the path that the pattern's may stand at.                      *)
Fits(pattern, path, i, p, q) ==
  IF pattern[i] = Star THEN p <= q ELSE p <= Len(path) /\ q = p + 1 /\ path[p] = pattern[i]
Aligned(pattern, path, end, at) ==
  /\ at \in [1..end -> 1..Len(path) + 1] /\ at[1] = 1
  /\ \A i \in 1..end - 1 : Fits(pattern, path, i, at[i], at[i + 1])

(* Without a star the places follow each other.                             *)
LEMMA NoStarBetween ==
  ASSUME NEW pattern, NEW path, Len(path) \in Nat, NEW end \in Nat \ {0}, NEW at, Aligned(pattern, path, end, at),
         NEW star \in 0..end - 1, \A i \in star + 1..end - 1 : pattern[i] # Star
  PROVE  \A i \in star + 1..end : at[i] = at[star + 1] + (i - star - 1)
<1>. DEFINE T == {k \in Nat : star + 1 + k <= end => at[star + 1 + k] = at[star + 1] + k}
<1>1. \A i \in 1..end : at[i] \in Nat
  BY DEF Aligned
<1>2. \A i \in 1..end - 1 : Fits(pattern, path, i, at[i], at[i + 1])
  BY DEF Aligned
<1>3. 0 \in T
  <2>1. star + 1 + 0 = star + 1 /\ star + 1 \in 1..end
    OBVIOUS
  <2>2. at[star + 1] \in Nat
    BY <1>1, <2>1
  <2>. QED  BY <2>1, <2>2
<1>4. ASSUME NEW k \in Nat, k \in T PROVE k + 1 \in T
  <2>. DEFINE i == star + 1 + k
              j == star + 1 + (k + 1)
              first == at[star + 1]
  <2>. SUFFICES ASSUME j <= end PROVE at[j] = first + (k + 1)
    OBVIOUS
  <2>1. i \in star + 1..end - 1 /\ i \in 1..end - 1 /\ j = i + 1 /\ i <= end /\ i \in 1..end /\ star + 1 \in 1..end
    OBVIOUS
  <2>2. at[i] = first + k /\ first \in Nat
    BY <1>1, <1>4, <2>1
  <2>3. Fits(pattern, path, i, at[i], at[j]) /\ pattern[i] # Star
    BY <1>2, <2>1
  <2>. HIDE DEF i, j, first
  <2>4. at[j] = at[i] + 1
    BY <2>3 DEF Fits
  <2>. QED  BY <2>2, <2>4
<1>5. Nat \subseteq T
  <2>. HIDE DEF T
  <2>. QED  BY <1>3, <1>4, NatIn
<1>. SUFFICES ASSUME NEW i \in star + 1..end PROVE at[i] = at[star + 1] + (i - star - 1)
  OBVIOUS
<1>. DEFINE k == i - star - 1
<1>6. k \in Nat /\ star + 1 + k = i /\ i <= end
  OBVIOUS
<1>. HIDE DEF k
<1>7. at[i] = at[star + 1] + k
  BY <1>5, <1>6
<1>. QED  BY <1>7 DEF k

Allowed(star, c, before) == IF star = 0 THEN c = 0 ELSE before # -1 /\ before <= c

(* One step: after is where the last piece's first occurrence ends.         *)
LEMMA StepIs ==
  ASSUME NEW pattern, NEW path, Len(path) \in Nat, NEW n \in Nat, NEW after, Leads(pattern, path, n, after),
         NEW end \in 1..n, NEW star, star = StarBefore(pattern, end)
  PROVE  /\ after[end] # -1 =>
              \E c \in 0..Len(path) : /\ after[end] = c + (end - 1 - star) /\ Occurs(pattern, star, end, path, c)
                                      /\ Allowed(star, c, after[star])
         /\ \A c \in 0..Len(path) :
              /\ Occurs(pattern, star, end, path, c)
              /\ Allowed(star, c, after[star])
              => after[end] # -1 /\ after[end] <= c + (end - 1 - star)
<1>. DEFINE S == Openings(pattern, path, end, after[star])
            far == end - 1 - star
<1>1. star \in 0..end - 1 /\ far \in Nat /\ end \in Nat
  BY StarBeforeIs
<1>2. after[end] = IF S = {} THEN -1 ELSE Min(S) + far
  BY DEF Leads, After
<1>3. \A c : c \in S <=> /\ c \in 0..Len(path) /\ Occurs(pattern, star, end, path, c)
                         /\ Allowed(star, c, after[star])
  BY DEF Openings, Allowed
<1>4. S # {} => Min(S) \in S /\ \A c \in S : Min(S) <= c
  <2>1. S \subseteq 0..Len(path)
    BY <1>3
  <2>2. IsFiniteSet(0..Len(path))
    <3>1. 0 \in Int /\ Len(path) \in Int
      OBVIOUS
    <3>. QED  BY <3>1, FS_Interval
  <2>3. IsFiniteSet(S) /\ \A c \in S : c \in Int
    BY <2>1, <2>2, FS_Subset
  <2>. QED  BY <2>3, MinIs
<1>5. \A c \in S : c \in Nat
  BY <1>3
<1>. DEFINE m == Min(S)
<1>. HIDE DEF S, far
<1>6. ASSUME after[end] # -1
      PROVE  \E c \in 0..Len(path) : /\ after[end] = c + far /\ Occurs(pattern, star, end, path, c)
                                     /\ Allowed(star, c, after[star])
  <2>1. m \in S /\ after[end] = m + far
    BY <1>2, <1>4, <1>6
  <2>. HIDE DEF m
  <2>. QED  BY <1>3, <2>1
<1>7. ASSUME NEW c \in 0..Len(path), Occurs(pattern, star, end, path, c),
             Allowed(star, c, after[star])
      PROVE  after[end] # -1 /\ after[end] <= c + far
  <2>1. c \in S
    BY <1>3, <1>7
  <2>2. m \in S /\ m <= c /\ after[end] = m + far
    BY <1>2, <1>4, <2>1
  <2>. HIDE DEF m
  <2>3. m \in Nat /\ c \in Nat
    BY <1>5, <2>1, <2>2
  <2>. QED  BY <1>1, <2>2, <2>3
<1>. QED  BY <1>6, <1>7 DEF far

LEMMA AfterIsInt ==
  ASSUME NEW pattern, NEW path, Len(path) \in Nat, NEW n \in Nat, NEW after, Leads(pattern, path, n, after),
         NEW end \in 1..n
  PROVE  after[end] \in Nat \cup {-1}
<1>. DEFINE star == StarBefore(pattern, end)
<1>1. star \in 0..end - 1 /\ star = StarBefore(pattern, end)
  BY StarBeforeIs
<1>. HIDE DEF star
<1>. SUFFICES ASSUME after[end] # -1 PROVE after[end] \in Nat
  OBVIOUS
<1>2. PICK c \in 0..Len(path) : /\ after[end] = c + (end - 1 - star) /\ Occurs(pattern, star, end, path, c)
                                /\ Allowed(star, c, after[star])
  BY <1>1, StepIs
<1>. QED  BY <1>1, <1>2

(* Where the cursor gets, the pattern's places can stand.                   *)
LEMMA LeadsSoundly ==
  ASSUME NEW pattern, NEW path, Len(path) \in Nat, NEW n \in Nat, NEW after, Leads(pattern, path, n, after)
  PROVE  \A end \in 1..n : after[end] # -1 => \E at : Aligned(pattern, path, end, at) /\ at[end] = after[end] + 1
<1>. DEFINE len == Len(path)
            Good(end) == after[end] # -1 => \E at : Aligned(pattern, path, end, at) /\ at[end] = after[end] + 1
            T == {k \in Nat : \A end \in 1..n : end <= k => Good(end)}
<1>1. 0 \in T
  OBVIOUS
<1>2. ASSUME NEW k \in Nat, k \in T PROVE k + 1 \in T
  <2>. DEFINE end == k + 1
  <2>. SUFFICES ASSUME end \in 1..n PROVE Good(end)
    BY <1>2
  <2>. DEFINE star == StarBefore(pattern, end)
  <2>1. star \in 0..end - 1 /\ (star # 0 => pattern[star] = Star) /\ \A i \in star + 1..end - 1 : pattern[i] # Star
    BY StarBeforeIs
  <2>2. star # 0 => star \in 1..n /\ star <= k
    BY <2>1
  <2>3. star # 0 => Good(star)
    BY <1>2, <2>2
  <2>4. end \in Nat \ {0}
    OBVIOUS
  <2>. HIDE DEF star, end, T
  <2>. SUFFICES ASSUME after[end] # -1 PROVE \E at : Aligned(pattern, path, end, at) /\ at[end] = after[end] + 1
    OBVIOUS
  <2>5. PICK c \in 0..len : /\ after[end] = c + (end - 1 - star) /\ Occurs(pattern, star, end, path, c)
                            /\ Allowed(star, c, after[star])
    BY StepIs DEF star
  <2>6. c + (end - 1 - star) <= len /\ \A j \in 1..(end - 1 - star) : path[c + j] = pattern[star + j]
    BY <2>5 DEF Occurs
  <2>7. PICK at : star # 0 => Aligned(pattern, path, star, at) /\ at[star] = after[star] + 1
    BY <2>3, <2>5 DEF Allowed
  <2>. DEFINE to == [i \in 1..end |-> IF i <= star THEN at[i] ELSE c + i - star]
  <2>8. \A i \in 1..end : to[i] = IF i <= star THEN at[i] ELSE c + i - star
    OBVIOUS
  <2>9. \A i \in 1..star : at[i] \in 1..len + 1
    BY <2>1, <2>7 DEF Aligned
  <2>10. \A i \in 1..end : to[i] \in 1..len + 1
    <3>. SUFFICES ASSUME NEW i \in 1..end PROVE to[i] \in 1..len + 1
      OBVIOUS
    <3>. HIDE DEF to
    <3>1. CASE i <= star
      BY <2>1, <2>8, <2>9, <3>1
    <3>2. CASE ~(i <= star)
      BY <2>1, <2>4, <2>6, <2>8, <3>2
    <3>. QED  BY <3>1, <3>2
  <2>11. to \in [1..end -> 1..len + 1]
    BY <2>10
  <2>. HIDE DEF to
  <2>12. to[1] = 1
    <3>1. CASE star = 0
      BY <2>4, <2>5, <2>8, <3>1 DEF Allowed
    <3>2. CASE star # 0
      <4>1. 1 <= star /\ 1 \in 1..end
        BY <2>1, <2>4, <3>2
      <4>2. at[1] = 1
        BY <2>7, <3>2 DEF Aligned
      <4>. QED  BY <2>8, <4>1, <4>2
    <3>. QED  BY <3>1, <3>2
  <2>13. ASSUME NEW i \in 1..end - 1 PROVE Fits(pattern, path, i, to[i], to[i + 1])
    <3>0. i \in 1..end /\ i + 1 \in 1..end /\ i \in Nat
      BY <2>4
    <3>1. CASE i < star
      <4>1. to[i] = at[i] /\ to[i + 1] = at[i + 1] /\ star # 0 /\ i \in 1..star - 1
        BY <2>1, <2>8, <3>0, <3>1
      <4>2. Fits(pattern, path, i, at[i], at[i + 1])
        BY <2>7, <4>1 DEF Aligned
      <4>. QED  BY <4>1, <4>2
    <3>2. CASE i = star
      <4>1. to[i] = at[star] /\ to[i + 1] = c + i + 1 - star /\ star # 0
        BY <2>1, <2>8, <3>0, <3>2
      <4>2. pattern[i] = Star /\ at[star] = after[star] + 1 /\ after[star] <= c /\ at[star] \in Nat
        BY <2>1, <2>5, <2>7, <2>9, <3>2, <4>1 DEF Allowed
      <4>3. to[i] <= to[i + 1]
        <5>. DEFINE a == after[star]
        <5>1. at[star] = a + 1 /\ a <= c /\ to[i + 1] = c + 1
          BY <2>1, <3>2, <4>1, <4>2
        <5>2. a \in Int
          <6>1. star \in 1..n
            BY <2>2, <4>1
          <6>2. after[star] \in Nat \cup {-1}
            BY <6>1, AfterIsInt
          <6>. QED  BY <6>2
        <5>. HIDE DEF a
        <5>. QED  BY <4>1, <5>1, <5>2
      <4>. QED  BY <4>2, <4>3 DEF Fits
    <3>3. CASE i > star
      <4>. DEFINE j == i - star
      <4>1. to[i] = c + j /\ to[i + 1] = c + j + 1 /\ j \in 1..(end - 1 - star) /\ star + j = i /\ c + j <= len
            /\ i \in star + 1..end - 1
        BY <2>1, <2>4, <2>6, <2>8, <3>0, <3>3
      <4>. HIDE DEF j
      <4>2. path[c + j] = pattern[i] /\ pattern[i] # Star
        BY <2>1, <2>6, <4>1
      <4>. QED  BY <4>1, <4>2 DEF Fits
    <3>. QED  BY <2>1, <3>0, <3>1, <3>2, <3>3
  <2>14. to[end] = after[end] + 1
    <3>1. end \in 1..end /\ ~(end <= star)
      BY <2>1, <2>4
    <3>2. to[end] = c + end - star
      BY <2>8, <3>1
    <3>. QED  BY <2>1, <2>4, <2>5, <3>2
  <2>15. Aligned(pattern, path, end, to)
    BY <2>11, <2>12, <2>13 DEF Aligned
  <2>. QED  BY <2>14, <2>15
<1>3. Nat \subseteq T
  <2>. HIDE DEF T
  <2>. QED  BY <1>1, <1>2, NatIn
<1>4. n \in T
  BY <1>3
<1>. QED  BY <1>4

(* And it gets there before any other way to place them.                    *)
LEMMA LeadsFirst ==
  ASSUME NEW pattern, NEW path, Len(path) \in Nat, NEW n \in Nat, NEW after, Leads(pattern, path, n, after),
         NEW at, Aligned(pattern, path, n, at)
  PROVE  \A end \in 1..n : after[end] # -1 /\ after[end] + 1 <= at[end]
<1>. DEFINE len == Len(path)
            Good(end) == after[end] # -1 /\ after[end] + 1 <= at[end]
            T == {k \in Nat : \A end \in 1..n : end <= k => Good(end)}
<1>1. 0 \in T
  OBVIOUS
<1>2. (\A i \in 1..n : at[i] \in 1..len + 1) /\ at[1] = 1 /\ \A i \in 1..n - 1 : Fits(pattern, path, i, at[i], at[i + 1])
  BY DEF Aligned
<1>3. ASSUME NEW k \in Nat, k \in T PROVE k + 1 \in T
  <2>. DEFINE end == k + 1
  <2>. SUFFICES ASSUME end \in 1..n PROVE Good(end)
    BY <1>3
  <2>. DEFINE star == StarBefore(pattern, end)
  <2>1. star \in 0..end - 1 /\ (star # 0 => pattern[star] = Star) /\ (\A i \in star + 1..end - 1 : pattern[i] # Star)
        /\ star = StarBefore(pattern, end)
    BY StarBeforeIs
  <2>2. star # 0 => star \in 1..n /\ star <= k
    BY <2>1
  <2>3. star # 0 => after[star] # -1 /\ after[star] + 1 <= at[star]
    BY <1>3, <2>2
  <2>4. end \in Nat \ {0} /\ end \in 1..n
    OBVIOUS
  <2>. HIDE DEF star, end, T
  <2>. DEFINE c == at[star + 1] - 1
              first == at[star + 1]
              to == [i \in 1..end |-> at[i]]
  <2>5. star + 1 \in 1..n /\ star + 1 \in 1..end /\ first \in 1..len + 1 /\ c \in 0..len /\ c + 1 = first
    <3>1. star + 1 \in 1..n /\ star + 1 \in 1..end
      BY <2>1, <2>4
    <3>2. first \in 1..len + 1
      BY <1>2, <3>1
    <3>. HIDE DEF first
    <3>3. first - 1 \in 0..len /\ (first - 1) + 1 = first
      BY <3>2
    <3>. QED  BY <3>1, <3>2, <3>3 DEF first
  <2>6. Aligned(pattern, path, end, to)
    <3>1. \A i \in 1..end : i \in 1..n /\ to[i] = at[i]
      BY <2>4
    <3>2. to \in [1..end -> 1..len + 1]
      BY <1>2, <3>1
    <3>. HIDE DEF to
    <3>3. 1 \in 1..end /\ \A i \in 1..end - 1 : i \in 1..n - 1 /\ i \in 1..end /\ i + 1 \in 1..end
      BY <2>4
    <3>. QED  BY <1>2, <3>1, <3>2, <3>3 DEF Aligned
  <2>7. \A i \in star + 1..end : at[i] = first + (i - star - 1)
    <3>3. \A i \in 1..end : to[i] = at[i]
      OBVIOUS
    <3>. HIDE DEF to
    <3>1. \A i \in star + 1..end : to[i] = to[star + 1] + (i - star - 1)
      BY <2>1, <2>4, <2>6, NoStarBetween
    <3>2. \A i \in star + 1..end : i \in 1..end
      BY <2>1
    <3>. QED  BY <2>5, <3>1, <3>2, <3>3
  <2>. HIDE DEF c, first
  <2>8. at[end] = c + (end - 1 - star) + 1 /\ at[end] \in 1..len + 1
    <3>1. end \in star + 1..end
      BY <2>1, <2>4
    <3>2. at[end] = first + (end - star - 1)
      BY <2>7, <3>1
    <3>3. at[end] \in 1..len + 1
      BY <1>2, <2>4
    <3>. DEFINE x == at[end]
    <3>4. x = first + (end - star - 1)
      BY <3>2
    <3>. HIDE DEF x
    <3>6. star \in Int /\ end \in Int /\ first \in Int /\ c \in Int /\ first = c + 1
      BY <2>1, <2>4, <2>5
    <3>5. x = c + (end - 1 - star) + 1
      BY <3>4, <3>6
    <3>. QED  BY <3>3, <3>5 DEF x
  <2>9. Occurs(pattern, star, end, path, c)
    <3>1. c + (end - 1 - star) <= len
      BY <2>1, <2>4, <2>5, <2>8
    <3>2. ASSUME NEW j \in 1..(end - 1 - star) PROVE path[c + j] = pattern[star + j]
      <4>. DEFINE i == star + j
      <4>1. i \in star + 1..end - 1 /\ i \in star + 1..end /\ i \in 1..n - 1 /\ i - star - 1 = j - 1 /\ j \in Nat
        BY <2>1, <2>4
      <4>. HIDE DEF i
      <4>2. at[i] = c + j
        BY <2>5, <2>7, <4>1
      <4>3. Fits(pattern, path, i, at[i], at[i + 1]) /\ pattern[i] # Star
        BY <1>2, <2>1, <4>1
      <4>4. path[at[i]] = pattern[i]
        BY <4>3 DEF Fits
      <4>. QED  BY <4>2, <4>4 DEF i
    <3>. QED  BY <3>1, <3>2 DEF Occurs
  <2>10. Allowed(star, c, after[star])
    <3>1. CASE star = 0
      <4>1. first = 1
        BY <1>2, <3>1 DEF first
      <4>2. c = 0
        BY <2>5, <4>1
      <4>. QED  BY <3>1, <4>2 DEF Allowed
    <3>2. CASE star # 0
      <4>1. star \in 1..n - 1 /\ star \in 1..n /\ pattern[star] = Star
        BY <2>1, <2>2, <2>4, <3>2
      <4>2. at[star] <= first
        BY <1>2, <4>1 DEF Fits, first
      <4>3. after[star] # -1 /\ after[star] + 1 <= at[star] /\ after[star] \in Nat \cup {-1} /\ at[star] \in 1..len + 1
        BY <1>2, <2>3, <3>2, <4>1, AfterIsInt
      <4>. DEFINE a == after[star]
                  b == at[star]
      <4>4. a <= c
        <5>. HIDE DEF a, b
        <5>. QED  BY <2>5, <4>2, <4>3 DEF a, b
      <4>. QED  BY <3>2, <4>3, <4>4 DEF Allowed
    <3>. QED  BY <3>1, <3>2
  <2>11. after[end] # -1 /\ after[end] <= c + (end - 1 - star)
    BY <2>1, <2>4, <2>5, <2>9, <2>10, StepIs
  <2>12. after[end] \in Nat \cup {-1}
    BY <2>4, AfterIsInt
  <2>. DEFINE a == after[end]
              b == at[end]
  <2>. HIDE DEF a, b
  <2>13. a + 1 <= b
    <3>. DEFINE e == c + (end - 1 - star)
    <3>1. e \in Int /\ a \in Int /\ b = e + 1 /\ a <= e
      <4>1. star \in Int /\ end \in Int /\ c \in Int
        BY <2>1, <2>4, <2>5
      <4>. QED  BY <2>8, <2>11, <2>12, <4>1 DEF a, b
    <3>. HIDE DEF e
    <3>. QED  BY <3>1
  <2>. QED  BY <2>11, <2>13 DEF a, b
<1>4. Nat \subseteq T
  <2>. HIDE DEF T
  <2>. QED  BY <1>1, <1>3, NatIn
<1>5. n \in T /\ \A end \in 1..n : end <= n
  BY <1>4
<1>. QED  BY <1>5

LEMMA CursorIs ==
  ASSUME NEW pattern, NEW path, Length(pattern) \in Nat
  PROVE  \E after : Leads(pattern, path, Length(pattern) + 1, after) /\ Cursor(pattern, path) = after[Length(pattern) + 1]
<1>. DEFINE n == Length(pattern) + 1
<1>1. n \in Nat
  OBVIOUS
<1>2. Cursor(pattern, path) = (CHOOSE after : Leads(pattern, path, n, after))[n]
  BY CursorLeads
<1>. HIDE DEF n
<1>3. \E after : Leads(pattern, path, n, after)
  BY <1>1, LeadingExists
<1>. QED  BY <1>2, <1>3 DEF n

LEMMA LengthIs ==
  ASSUME NEW pattern \in Seq(STRING)
  PROVE  /\ Length(pattern) \in Nat /\ Length(pattern) <= Len(pattern) /\ DOMAIN pattern = 1..Len(pattern) /\ Len(pattern) \in Nat
         /\ Anchored(pattern) => Dollar \in ToSet(pattern)
<1>1. Len(pattern) \in Nat /\ DOMAIN pattern = 1..Len(pattern) /\ (pattern # << >> => Len(pattern) # 0)
  BY LenProperties, EmptySeq
<1>2. ASSUME Anchored(pattern) PROVE Dollar \in ToSet(pattern)
  <2>1. Len(pattern) \in DOMAIN pattern /\ pattern[Len(pattern)] = Dollar
    BY <1>1, <1>2 DEF Anchored
  <2>. QED  BY <2>1 DEF ToSet
<1>. QED  BY <1>1, <1>2 DEF Length, Anchored

LEMMA CoversIs ==
  ASSUME NEW pattern \in Seq(STRING), NEW path
  PROVE  Covers(pattern, path) <=>
           /\ pattern # << >>
           /\ \E at : /\ Aligned(pattern, path, Length(pattern) + 1, at)
                      /\ Anchored(pattern) => at[Length(pattern) + 1] = Len(path) + 1
<1>1. Length(pattern) + 1 - 1 = Length(pattern)
  BY LengthIs
<1>2. \A at : (\A i \in 1..Length(pattern) : Fits(pattern, path, i, at[i], at[i + 1]))
             <=> \A i \in 1..Length(pattern) : IF pattern[i] = Star THEN at[i] <= at[i + 1]
                                              ELSE at[i] <= Len(path) /\ at[i + 1] = at[i] + 1 /\ path[at[i]] = pattern[i]
  BY DEF Fits
<1>3. \A at : Aligned(pattern, path, Length(pattern) + 1, at) <=>
               /\ at \in [1..(Length(pattern) + 1) -> 1..(Len(path) + 1)] /\ at[1] = 1
               /\ \A i \in 1..Length(pattern) : Fits(pattern, path, i, at[i], at[i + 1])
  <2>. DEFINE n == Length(pattern)
              m == n + 1
  <2>1. m - 1 = n
    <3>1. n \in Nat
      BY LengthIs
    <3>. HIDE DEF n
    <3>. QED  BY <3>1
  <2>2. \A at : Aligned(pattern, path, m, at) <=>
               /\ at \in [1..m -> 1..Len(path) + 1] /\ at[1] = 1
               /\ \A i \in 1..m - 1 : Fits(pattern, path, i, at[i], at[i + 1])
    BY DEF Aligned
  <2>. HIDE DEF m, n
  <2>3. \A at : Aligned(pattern, path, m, at) <=>
               /\ at \in [1..m -> 1..(Len(path) + 1)] /\ at[1] = 1
               /\ \A i \in 1..n : Fits(pattern, path, i, at[i], at[i + 1])
    BY <2>1, <2>2
  <2>. QED  BY <2>3 DEF m, n
<1>. QED  BY <1>2, <1>3, Zenon DEF Covers

(* A pattern never covers more than it says.                                *)
LEMMA MatchIsCovered ==
  ASSUME NEW pattern \in Seq(STRING), NEW path \in Seq(STRING), PathMatches(pattern, path)
  PROVE  Covers(pattern, path)
<1>. DEFINE n == Length(pattern) + 1
            len == Len(path)
            open == Length(pattern) # 0 /\ pattern[Length(pattern)] = Star
            cursor == Cursor(pattern, path)
<1>1. pattern # << >> /\ cursor # -1 /\ (Anchored(pattern) /\ ~open => cursor = len)
  BY DEF PathMatches
<1>2. n \in Nat /\ n # 0 /\ len \in Nat /\ n \in 1..n
  BY LengthIs, LenProperties
<1>3. PICK after : Leads(pattern, path, n, after) /\ cursor = after[n]
  BY LengthIs, CursorIs
<1>. HIDE DEF cursor
<1>4. PICK at : Aligned(pattern, path, n, at) /\ at[n] = cursor + 1
  <2>. HIDE DEF n
  <2>1. \A end \in 1..n : after[end] # -1 => \E at : Aligned(pattern, path, end, at) /\ at[end] = after[end] + 1
    BY <1>2, <1>3, LeadsSoundly
  <2>. QED  BY <1>1, <1>2, <1>3, <2>1
<1>5. CASE ~(Anchored(pattern) /\ open)
  <2>1. Anchored(pattern) => at[n] = len + 1
    BY <1>1, <1>4, <1>5
  <2>. QED  BY <1>1, <1>4, <2>1, CoversIs
<1>6. CASE Anchored(pattern) /\ open
  <2>. DEFINE to == [at EXCEPT ![n] = len + 1]
  <2>1. at \in [1..n -> 1..len + 1] /\ at[1] = 1 /\ \A i \in 1..n - 1 : Fits(pattern, path, i, at[i], at[i + 1])
    BY <1>4 DEF Aligned
  <2>2. n # 1 /\ n - 1 \in 1..n /\ pattern[n - 1] = Star
    BY <1>2, <1>6, LengthIs
  <2>3. len + 1 \in 1..len + 1
    BY <1>2
  <2>4. to \in [1..n -> 1..len + 1] /\ to[n] = len + 1 /\ \A i \in 1..n : i # n => to[i] = at[i]
    BY <1>2, <2>1, <2>3
  <2>. HIDE DEF to, n
  <2>5. ASSUME NEW i \in 1..n - 1 PROVE Fits(pattern, path, i, to[i], to[i + 1])
    <3>1. i \in 1..n /\ i # n /\ i + 1 \in 1..n /\ (i # n - 1 => i + 1 # n)
      BY <1>2
    <3>2. CASE i = n - 1
      <4>1. to[i] = at[i] /\ to[i + 1] = len + 1 /\ at[i] \in 1..len + 1 /\ pattern[i] = Star
        BY <1>2, <2>1, <2>2, <2>4, <3>1, <3>2
      <4>. QED  BY <1>2, <4>1 DEF Fits
    <3>3. CASE i # n - 1
      BY <2>1, <2>4, <3>1, <3>3
    <3>. QED  BY <3>2, <3>3
  <2>6. to[1] = 1
    <3>1. 1 \in 1..n /\ 1 # n
      BY <1>2, <2>2
    <3>. QED  BY <2>1, <2>4, <3>1
  <2>7. Aligned(pattern, path, n, to)
    BY <2>4, <2>5, <2>6 DEF Aligned
  <2>. QED  BY <1>1, <2>4, <2>7, CoversIs DEF n
<1>. QED  BY <1>5, <1>6

(* And if it does not have both a star and an end, no less.                 *)
LEMMA PlainIsCovered ==
  ASSUME NEW pattern \in Seq(STRING), NEW path \in Seq(STRING), Plain(pattern), Covers(pattern, path)
  PROVE  PathMatches(pattern, path)
<1>. DEFINE n == Length(pattern) + 1
            len == Len(path)
            cursor == Cursor(pattern, path)
<1>1. pattern # << >> /\ \E at : Aligned(pattern, path, n, at) /\ (Anchored(pattern) => at[n] = len + 1)
  BY CoversIs
<1>2. n \in Nat /\ n # 0 /\ len \in Nat /\ n \in 1..n /\ Length(pattern) = n - 1
  BY LengthIs, LenProperties
<1>3. PICK after : Leads(pattern, path, n, after) /\ cursor = after[n]
  BY LengthIs, CursorIs
<1>. HIDE DEF cursor
<1>4. PICK at : Aligned(pattern, path, n, at) /\ (Anchored(pattern) => at[n] = len + 1)
  BY <1>1
<1>5. cursor # -1
  BY <1>2, <1>3, <1>4, LeadsFirst
<1>6. ASSUME Anchored(pattern) PROVE cursor = len
  <2>1. \A i \in 1..n - 1 : pattern[i] # Star
    <3>. SUFFICES ASSUME NEW i \in 1..n - 1, pattern[i] = Star PROVE FALSE
      OBVIOUS
    <3>1. i \in DOMAIN pattern
      BY <1>2, LengthIs
    <3>2. Star \in ToSet(pattern)
      BY <3>1 DEF ToSet
    <3>. QED  BY <1>6, <3>2, LengthIs DEF Plain
  <2>2. at[n] = at[1] + (n - 0 - 1)
    <3>. DEFINE star == 0
    <3>1. star \in 0..n - 1 /\ n \in Nat \ {0} /\ (\A i \in star + 1..n - 1 : pattern[i] # Star) /\ star + 1 = 1 /\ star = 0
      BY <1>2, <2>1
    <3>. HIDE DEF n, star
    <3>2. \A i \in star + 1..n : at[i] = at[star + 1] + (i - star - 1)
      <4>1. Len(path) \in Nat /\ n \in Nat \ {0} /\ Aligned(pattern, path, n, at) /\ star \in 0..n - 1
            /\ \A i \in star + 1..n - 1 : pattern[i] # Star
        BY <1>2, <1>4, <3>1
      <4>. QED  BY <4>1, NoStarBetween
    <3>. QED  BY <1>2, <3>1, <3>2
  <2>3. at[1] = 1 /\ at[n] = len + 1
    BY <1>4, <1>6 DEF Aligned
  <2>4. n = len + 1
    BY <1>2, <2>2, <2>3
  <2>5. cursor = n - 1
    <3>. DEFINE star == StarBefore(pattern, n)
    <3>2. star = StarBefore(pattern, n)
      OBVIOUS
    <3>1. star = 0
      <4>1. star \in 0..n - 1 /\ (star # 0 => pattern[star] = Star)
        BY <1>2, StarBeforeIs
      <4>. HIDE DEF star, n
      <4>2. star # 0 => star \in 1..n - 1
        BY <1>2, <4>1
      <4>. QED  BY <2>1, <4>1, <4>2
    <3>. HIDE DEF star, n
    <3>3. PICK c \in 0..len : /\ after[n] = c + (n - 1 - star) /\ Occurs(pattern, star, n, path, c)
                             /\ Allowed(star, c, after[star])
      <4>1. Len(path) \in Nat /\ n \in Nat /\ n \in 1..n /\ Leads(pattern, path, n, after) /\ after[n] # -1
        BY <1>2, <1>3, <1>5
      <4>. QED  BY <4>1, <3>2, StepIs
    <3>4. c = 0
      BY <3>1, <3>3 DEF Allowed
    <3>. QED  BY <1>2, <1>3, <3>1, <3>3, <3>4
  <2>. QED  BY <1>2, <2>4, <2>5
<1>. QED  BY <1>1, <1>5, <1>6 DEF PathMatches, cursor

-----------------------------------------------------------------------------
(* What the rules say of a path. *)

IsRules(rules) ==
  rules \in Seq([path : Seq(STRING), allow : BOOLEAN])
Judges(path, rules, n, so) ==
  so = [i \in 0..n |-> IF i = 0 THEN [length |-> 0, allow |-> TRUE] ELSE Judged(path, so[i - 1], rules[i])]

LEMMA PathJudged ==
  ASSUME NEW robots, NEW path
  PROVE  PathAllowed(robots, path)
           = (CHOOSE so : Judges(path, robots.rules, Len(robots.rules), so))[Len(robots.rules)].allow
BY DEF PathAllowed, Judges

LEMMA JudgingExists == ASSUME NEW path, NEW rules PROVE \A n \in Nat : \E so : Judges(path, rules, n, so)
<1>. DEFINE T == {n \in Nat : \E so : Judges(path, rules, n, so)}
            first == [length |-> 0, allow |-> TRUE]
<1>3. \A n, w : Judges(path, rules, n, w) <=> w = [i \in 0..n |-> IF i = 0 THEN first ELSE Judged(path, w[i - 1], rules[i])]
  BY DEF Judges
<1>. HIDE DEF first
<1>1. 0 \in T
  <2>. DEFINE w == [i \in 0..0 |-> first]
  <2>1. w = [i \in 0..0 |-> IF i = 0 THEN first ELSE Judged(path, w[i - 1], rules[i])]
    OBVIOUS
  <2>. HIDE DEF w
  <2>2. Judges(path, rules, 0, w)
    BY <1>3, <2>1
  <2>. QED  BY <2>2
<1>2. ASSUME NEW n \in Nat, n \in T PROVE n + 1 \in T
  <2>1. PICK w : Judges(path, rules, n, w)
    BY <1>2
  <2>. DEFINE next == Judged(path, w[n], rules[n + 1])
              v == [i \in 0..n + 1 |-> IF i = n + 1 THEN next ELSE w[i]]
  <2>. SUFFICES Judges(path, rules, n + 1, v)
    OBVIOUS
  <2>2. SUFFICES ASSUME NEW i \in 0..n + 1 PROVE v[i] = IF i = 0 THEN first ELSE Judged(path, v[i - 1], rules[i])
    BY <1>3
  <2>3. v[n + 1] = next /\ \A k \in 0..n : v[k] = w[k]
    OBVIOUS
  <2>4. \A k \in 0..n : w[k] = IF k = 0 THEN first ELSE Judged(path, w[k - 1], rules[k])
    BY <1>3, <2>1
  <2>. HIDE DEF v
  <2>5. CASE i = n + 1
    <3>1. i # 0 /\ i - 1 = n /\ n \in 0..n
      BY <2>5
    <3>. QED  BY <2>3, <2>5, <3>1
  <2>6. CASE i \in 0..n
    <3>1. i # 0 => i - 1 \in 0..n
      BY <2>6
    <3>. QED  BY <2>3, <2>4, <2>6, <3>1
  <2>. QED  BY <2>5, <2>6
<1>. HIDE DEF T
<1>4. Nat \subseteq T
  BY <1>1, <1>2, NatIn
<1>. QED  BY <1>4 DEF T

(* What has been decided when i rules were read: allows[k] and lengths[k]   *)
(* are those of the rules, and M the rules that match.                      *)
Decided(lengths, allows, M, i, length, allow) ==
  /\ length \in Nat /\ allow \in BOOLEAN
  /\ \A k \in M : k <= i => lengths[k] <= length
  /\ IF allow THEN \/ length = 0 /\ \A k \in M : ~(k <= i)
                   \/ \E k \in M : k <= i /\ allows[k] /\ lengths[k] = length
     ELSE /\ \E k \in M : k <= i /\ ~allows[k] /\ lengths[k] = length
          /\ \A k \in M : k <= i /\ allows[k] => lengths[k] < length

LEMMA DecidedOn ==
  ASSUME NEW lengths, NEW allows, NEW n \in Nat, NEW M \in SUBSET (1..n), NEW i \in Nat, i + 1 \in 1..n,
         \A k \in 1..n : lengths[k] \in Nat /\ allows[k] \in BOOLEAN,
         \A k \in M : lengths[k] # 0,
         NEW length, NEW allow, Decided(lengths, allows, M, i, length, allow)
  PROVE  IF i + 1 \in M /\ (lengths[i + 1] > length \/ (lengths[i + 1] = length /\ allows[i + 1]))
         THEN Decided(lengths, allows, M, i + 1, lengths[i + 1], allows[i + 1])
         ELSE Decided(lengths, allows, M, i + 1, length, allow)
<1>. DEFINE j == i + 1
            taken == j \in M /\ (lengths[j] > length \/ (lengths[j] = length /\ allows[j]))
<1>1. j \in 1..n /\ j <= j /\ ~(j <= i) /\ (\A k \in M : k <= j <=> k <= i \/ k = j) /\ (\A k \in M : k \in 1..n)
  OBVIOUS
<1>. DEFINE ll == lengths[j]
            aa == allows[j]
<1>2. ll \in Nat /\ aa \in BOOLEAN /\ (j \in M => ll # 0)
  BY <1>1
<1>3. /\ length \in Nat /\ allow \in BOOLEAN
      /\ \A k \in M : k <= i => lengths[k] <= length
      /\ allow => \/ length = 0 /\ \A k \in M : ~(k <= i)
                  \/ \E k \in M : k <= i /\ allows[k] /\ lengths[k] = length
      /\ ~allow => /\ \E k \in M : k <= i /\ ~allows[k] /\ lengths[k] = length
                   /\ \A k \in M : k <= i /\ allows[k] => lengths[k] < length
  BY DEF Decided
<1>. HIDE DEF j
<1>4. CASE taken
  <2>1. \A k \in M : k <= j => lengths[k] <= ll
    BY <1>1, <1>2, <1>3, <1>4
  <2>2. CASE aa
    <3>1. \E k \in M : k <= j /\ allows[k] /\ lengths[k] = ll
      BY <1>1, <1>4, <2>2
    <3>2. Decided(lengths, allows, M, j, ll, aa)
      BY <1>2, <2>1, <2>2, <3>1 DEF Decided
    <3>. QED  BY <1>4, <3>2 DEF j
  <2>3. CASE ~aa
    <3>1. \E k \in M : k <= j /\ ~allows[k] /\ lengths[k] = ll
      BY <1>1, <1>4, <2>3
    <3>2. \A k \in M : k <= j /\ allows[k] => lengths[k] < ll
      BY <1>1, <1>2, <1>3, <1>4, <2>3
    <3>3. Decided(lengths, allows, M, j, ll, aa)
      BY <1>2, <2>1, <2>3, <3>1, <3>2 DEF Decided
    <3>. QED  BY <1>4, <3>3 DEF j
  <2>. QED  BY <2>2, <2>3
<1>5. CASE ~taken
  <2>1. \A k \in M : k <= j => lengths[k] <= length
    BY <1>1, <1>2, <1>3, <1>5
  <2>2. CASE allow
    <3>1. \/ length = 0 /\ \A k \in M : ~(k <= j)
          \/ \E k \in M : k <= j /\ allows[k] /\ lengths[k] = length
      <4>1. CASE length = 0 /\ \A k \in M : ~(k <= i)
        <5>1. j \notin M
          BY <1>2, <1>5, <4>1
        <5>. QED  BY <1>1, <4>1, <5>1
      <4>2. CASE \E k \in M : k <= i /\ allows[k] /\ lengths[k] = length
        BY <1>1, <4>2
      <4>. QED  BY <1>3, <2>2, <4>1, <4>2
    <3>2. Decided(lengths, allows, M, j, length, allow)
      BY <1>3, <2>1, <2>2, <3>1 DEF Decided
    <3>. QED  BY <1>5, <3>2 DEF j
  <2>3. CASE ~allow
    <3>1. \E k \in M : k <= j /\ ~allows[k] /\ lengths[k] = length
      BY <1>1, <1>3, <2>3
    <3>2. \A k \in M : k <= j /\ allows[k] => lengths[k] < length
      BY <1>1, <1>2, <1>3, <1>5, <2>3
    <3>3. Decided(lengths, allows, M, j, length, allow)
      BY <1>3, <2>1, <2>3, <3>1, <3>2 DEF Decided
    <3>. QED  BY <1>5, <3>3 DEF j
  <2>. QED  BY <2>2, <2>3
<1>. QED  BY <1>4, <1>5

(* A path is closed exactly if some rule that matches and does not allow it *)
(* is longer than all that match and do.                                    *)
LEMMA LongestRuleWins ==
  ASSUME NEW path, NEW rules, IsRules(rules), NEW robots, robots.rules = rules
  PROVE  LET M == {i \in DOMAIN rules : PathMatches(rules[i].path, path)}
         IN PathAllowed(robots, path) =
              ~\E d \in M : ~rules[d].allow /\ \A a \in M : rules[a].allow => Len(rules[a].path) < Len(rules[d].path)
<1>. DEFINE n == Len(rules)
            M == {i \in DOMAIN rules : PathMatches(rules[i].path, path)}
            lengths == [i \in 1..n |-> Len(rules[i].path)]
            allows == [i \in 1..n |-> rules[i].allow]
            so == CHOOSE w : Judges(path, rules, n, w)
            Now(i) == Decided(lengths, allows, M, i, so[i].length, so[i].allow)
<1>1. n \in Nat /\ DOMAIN rules = 1..n /\ \A i \in 1..n : rules[i] \in [path : Seq(STRING), allow : BOOLEAN]
  BY LenProperties DEF IsRules
<1>2. Judges(path, rules, n, so) /\ PathAllowed(robots, path) = so[n].allow
  BY <1>1, JudgingExists, PathJudged
<1>3. \A i \in 1..n : lengths[i] = Len(rules[i].path) /\ allows[i] = rules[i].allow
  OBVIOUS
<1>4. \A i \in 1..n : lengths[i] \in Nat /\ allows[i] \in BOOLEAN
  BY <1>1, <1>3, LenProperties
<1>5. M \in SUBSET (1..n) /\ \A i \in 1..n : i \in M <=> PathMatches(rules[i].path, path)
  BY <1>1
<1>6. \A i \in M : lengths[i] # 0
  <2>. SUFFICES ASSUME NEW i \in M PROVE Len(rules[i].path) # 0
    BY <1>3, <1>5
  <2>1. rules[i].path # << >> /\ rules[i].path \in Seq(STRING)
    BY <1>1, <1>5 DEF PathMatches
  <2>. QED  BY <2>1, EmptySeq
<1>. HIDE DEF so, n, M, lengths, allows
<1>7. so[0] = [length |-> 0, allow |-> TRUE] /\ \A i \in 1..n : so[i] = Judged(path, so[i - 1], rules[i])
  <2>1. so = [i \in 0..n |-> IF i = 0 THEN [length |-> 0, allow |-> TRUE] ELSE Judged(path, so[i - 1], rules[i])]
    BY <1>2 DEF Judges
  <2>2. 0 \in 0..n /\ \A i \in 1..n : i \in 0..n /\ i # 0
    BY <1>1
  <2>3. so[0] = [length |-> 0, allow |-> TRUE]
    BY <2>1, <2>2
  <2>. QED  BY <2>1, <2>2, <2>3
<1>. DEFINE T == {i \in Nat : i <= n => Now(i)}
<1>8. 0 \in T
  <2>1. so[0].length = 0 /\ so[0].allow = TRUE
    BY <1>7
  <2>2. \A k \in M : ~(k <= 0)
    BY <1>5
  <2>3. Decided(lengths, allows, M, 0, 0, TRUE)
    BY <2>2 DEF Decided
  <2>4. Now(0)
    BY <2>1, <2>3
  <2>. HIDE DEF Now
  <2>. QED  BY <2>4
<1>9. ASSUME NEW i \in Nat, i \in T PROVE i + 1 \in T
  <2>. SUFFICES ASSUME i + 1 <= n PROVE Now(i + 1)
    OBVIOUS
  <2>1. i + 1 \in 1..n /\ i + 1 - 1 = i /\ i <= n
    BY <1>1
  <2>2. Now(i)
    BY <1>9, <2>1
  <2>. DEFINE before == so[i]
              rule == rules[i + 1]
              taken == i + 1 \in M /\ (lengths[i + 1] > before.length \/ (lengths[i + 1] = before.length /\ allows[i + 1]))
  <2>3. so[i + 1] = IF PathMatches(rule.path, path) /\ (Len(rule.path) > before.length \/ (Len(rule.path) = before.length /\ rule.allow))
                    THEN [length |-> Len(rule.path), allow |-> rule.allow] ELSE before
    BY <1>7, <2>1 DEF Judged
  <2>4. so[i + 1] = IF taken THEN [length |-> lengths[i + 1], allow |-> allows[i + 1]] ELSE before
    BY <1>3, <1>5, <2>1, <2>3
  <2>5. /\ taken => so[i + 1].length = lengths[i + 1] /\ so[i + 1].allow = allows[i + 1]
        /\ ~taken => so[i + 1] = before
    BY <2>4
  <2>6. IF taken THEN Decided(lengths, allows, M, i + 1, lengths[i + 1], allows[i + 1])
        ELSE Decided(lengths, allows, M, i + 1, before.length, before.allow)
    BY <1>1, <1>4, <1>5, <1>6, <2>1, <2>2, DecidedOn
  <2>. QED  BY <2>5, <2>6
<1>10. Now(n)
  <2>1. n \in T
    <3>. HIDE DEF T
    <3>. QED  BY <1>1, <1>8, <1>9, NatIn
  <2>. QED  BY <1>1, <2>1
<1>. DEFINE closed == \E d \in M : ~allows[d] /\ \A a \in M : allows[a] => lengths[a] < lengths[d]
<1>11. \A k \in M : k <= n /\ k \in 1..n
  BY <1>5
<1>12. so[n].allow = ~closed
  <2>. DEFINE b == so[n].allow
              l == so[n].length
  <2>1. /\ l \in Nat /\ b \in BOOLEAN
        /\ \A k \in M : lengths[k] <= l
        /\ b => M = {} \/ \E k \in M : allows[k] /\ lengths[k] = l
        /\ ~b => /\ \E k \in M : ~allows[k] /\ lengths[k] = l
                 /\ \A k \in M : allows[k] => lengths[k] < l
    BY <1>10, <1>11 DEF Decided
  <2>. HIDE DEF b, l
  <2>2. b => ~closed
    BY <1>4, <1>11, <2>1
  <2>3. ~b => closed
    BY <2>1
  <2>4. b = TRUE \/ b = FALSE
    BY <2>1
  <2>. QED  BY <2>2, <2>3, <2>4 DEF b
<1>13. closed <=> \E d \in M : ~rules[d].allow /\ \A a \in M : rules[a].allow => Len(rules[a].path) < Len(rules[d].path)
  BY <1>3, <1>11
<1>. QED  BY <1>2, <1>12, <1>13 DEF M

(* The rules that were wanted are the rules there are.                      *)
Wanted(lines) == Picked(lines, {i \in DOMAIN lines : IsRule(lines[i])})

LEMMA WantedIs ==
  ASSUME NEW lines \in Seq(RobotsLine), NEW wanted, wanted = Wanted(lines), NEW rules, rules = RulesOf(lines)
  PROVE  /\ rules = [i \in DOMAIN wanted |-> Ruled(wanted[i])]
         /\ IsRules(rules)
         /\ \A i \in DOMAIN wanted : wanted[i].value \in Seq(STRING) /\ wanted[i].field \in {"allow", "disallow"}
<1>. DEFINE K == {i \in DOMAIN lines : IsRule(lines[i])}
            s == [j \in DOMAIN lines |-> Ruled(lines[j])]
            ranked(n) == CHOOSE x \in K : Cardinality({y \in K : y < x}) = n - 1
            c == Cardinality(K)
            e == InOrder(K)
<1>1. DOMAIN lines = 1..Len(lines) /\ Len(lines) \in Nat /\ \A i \in DOMAIN lines : lines[i] \in RobotsLine
  BY LenProperties
<1>2. IsFiniteSet(K) /\ \A x \in K : x \in Nat
  <2>1. K \subseteq 1..Len(lines) /\ IsFiniteSet(1..Len(lines))
    <3>1. 1 \in Int /\ Len(lines) \in Int
      BY <1>1
    <3>2. IsFiniteSet(1..Len(lines))
      BY <3>1, FS_Interval
    <3>. QED  BY <1>1, <3>2
  <2>. HIDE DEF K
  <2>2. IsFiniteSet(K)
    BY <2>1, FS_Subset
  <2>3. \A x \in K : x \in 1..Len(lines)
    BY <2>1
  <2>. QED  BY <2>2, <2>3
<1>3. wanted = [n \in 1..c |-> lines[ranked(n)]]
  BY DEF Wanted, Picked
<1>4. e = [n \in 1..c |-> ranked(n)]
  BY DEF InOrder
<1>5. rules = [k \in 1..c |-> s[e[k]]]
  BY DEF RulesOf, AtPlaces
<1>6. \A x \in K : x \in DOMAIN lines /\ IsRule(lines[x]) /\ lines[x] \in RobotsLine /\ s[x] = Ruled(lines[x])
  BY <1>1
<1>. HIDE DEF K, s, c, ranked
<1>7. c \in Nat /\ \A k \in 1..c : e[k] \in K
  BY <1>2, InOrderIs DEF c
<1>. HIDE DEF e
<1>8. \A x \in K : lines[x].value \in Seq(STRING) /\ lines[x].field \in {"allow", "disallow"}
  BY <1>6 DEF IsRule, RobotsLine
<1>9. DOMAIN wanted = 1..c /\ \A k \in 1..c : wanted[k] = lines[e[k]]
  BY <1>3, <1>4
<1>10. rules = [i \in DOMAIN wanted |-> Ruled(wanted[i])]
  <2>1. \A k \in 1..c : s[e[k]] = Ruled(wanted[k])
    BY <1>6, <1>7, <1>9
  <2>. QED  BY <1>5, <1>9, <2>1
<1>11. IsRules(rules)
  <2>. DEFINE R == [path : Seq(STRING), allow : BOOLEAN]
  <2>1. \A k \in 1..c : Ruled(wanted[k]) \in R
    BY <1>7, <1>8, <1>9 DEF Ruled
  <2>. HIDE DEF R
  <2>2. rules \in [1..c -> R]
    BY <1>9, <1>10, <2>1
  <2>3. rules \in Seq(R)
    BY <1>7, <2>2, SeqDef, Zenon
  <2>. QED  BY <2>3 DEF IsRules, R
<1>. QED  BY <1>7, <1>8, <1>9, <1>10, <1>11

(* What must be said of a file, a crawler's name and a path.                *)
SaidOf(groups, agent, path, rules, allowed) ==
  LET best == {g \in DOMAIN groups :
                 /\ Specificity(groups[g].names, agent) >= 0
                 /\ \A h \in DOMAIN groups :
                      Specificity(groups[h].names, agent) <= Specificity(groups[g].names, agent)}
      lines == IF best = {} THEN << >> ELSE groups[Max(best)].rules
      wanted == Picked(lines, {i \in DOMAIN lines : IsRule(lines[i])})
      covering(field) == {Len(wanted[i].value) : i \in {k \in DOMAIN wanted :
                            wanted[k].field = field /\ Covers(wanted[k].value, path)}}
      closed == \E d \in covering("disallow") : \A a \in covering("allow") : a < d
  IN /\ rules = [i \in DOMAIN wanted |-> [path |-> wanted[i].value, allow |-> wanted[i].field = "allow"]]
     /\ \A i \in DOMAIN wanted : PathMatches(wanted[i].value, path) => Covers(wanted[i].value, path)
     /\ (\A i \in DOMAIN wanted : Plain(wanted[i].value)) => allowed = ~closed

LEMMA FileRead ==
  ASSUME NEW groups \in Seq(RobotsGroup), NEW agent, NEW path \in Seq(STRING),
         NEW robots, robots = ParseRobots(Lines(groups), agent)
  PROVE  SaidOf(groups, agent, path, robots.rules, PathAllowed(robots, path))
<1>. DEFINE lines == Obeyed(groups, agent)
            wanted == Wanted(lines)
            rules == robots.rules
            covering(field) == {Len(wanted[i].value) : i \in {k \in DOMAIN wanted :
                                  wanted[k].field = field /\ Covers(wanted[k].value, path)}}
            closed == \E d \in covering("disallow") : \A a \in covering("allow") : a < d
            allowed == PathAllowed(robots, path)
<1>1. SaidOf(groups, agent, path, rules, allowed) <=>
        /\ rules = [i \in DOMAIN wanted |-> [path |-> wanted[i].value, allow |-> wanted[i].field = "allow"]]
        /\ \A i \in DOMAIN wanted : PathMatches(wanted[i].value, path) => Covers(wanted[i].value, path)
        /\ (\A i \in DOMAIN wanted : Plain(wanted[i].value)) => allowed = ~closed
  BY DEF SaidOf, Wanted, Obeyed
<1>2. lines \in Seq(RobotsLine) /\ rules = RulesOf(lines)
  BY OneGroupIsObeyed
<1>. HIDE DEF lines
<1>3. /\ rules = [i \in DOMAIN wanted |-> Ruled(wanted[i])] /\ IsRules(rules)
      /\ \A i \in DOMAIN wanted : wanted[i].value \in Seq(STRING) /\ wanted[i].field \in {"allow", "disallow"}
  BY <1>2, WantedIs
<1>. DEFINE M == {i \in DOMAIN rules : PathMatches(rules[i].path, path)}
            shut == \E d \in M : ~rules[d].allow /\ \A a \in M : rules[a].allow => Len(rules[a].path) < Len(rules[d].path)
<1>4. allowed = ~shut
  BY <1>3, LongestRuleWins
<1>. HIDE DEF wanted, rules, allowed
<1>5. DOMAIN rules = DOMAIN wanted
      /\ \A i \in DOMAIN wanted : rules[i].path = wanted[i].value /\ (rules[i].allow <=> wanted[i].field = "allow")
  BY <1>3 DEF Ruled
<1>6. rules = [i \in DOMAIN wanted |-> [path |-> wanted[i].value, allow |-> wanted[i].field = "allow"]]
  BY <1>3 DEF Ruled
<1>7. \A i \in DOMAIN wanted : PathMatches(wanted[i].value, path) => Covers(wanted[i].value, path)
  BY <1>3, MatchIsCovered
<1>8. ASSUME \A i \in DOMAIN wanted : Plain(wanted[i].value) PROVE allowed = ~closed
  <2>1. \A i \in DOMAIN wanted : i \in M <=> Covers(wanted[i].value, path)
    BY <1>3, <1>5, <1>7, <1>8, PlainIsCovered
  <2>2. \A i \in M : i \in DOMAIN wanted
    BY <1>5
  <2>. HIDE DEF M
  <2>. DEFINE len(i) == Len(wanted[i].value)
  <2>3. \A x : x \in covering("allow") <=> \E i \in M : rules[i].allow /\ x = len(i)
    BY <1>5, <2>1, <2>2
  <2>4. \A x : x \in covering("disallow") <=> \E i \in M : ~rules[i].allow /\ x = len(i)
    BY <1>3, <1>5, <2>1, <2>2
  <2>5. shut <=> \E d \in M : ~rules[d].allow /\ \A a \in M : rules[a].allow => len(a) < len(d)
    BY <1>5, <2>2
  <2>. DEFINE A == covering("allow")
              D == covering("disallow")
  <2>6. /\ \A x : x \in A <=> \E i \in M : rules[i].allow /\ x = len(i)
        /\ \A x : x \in D <=> \E i \in M : ~rules[i].allow /\ x = len(i)
        /\ closed <=> \E d \in D : \A a \in A : a < d
    BY <2>3, <2>4
  <2>. HIDE DEF A, D, closed, shut, len
  <2>7. shut => closed
    <3>. SUFFICES ASSUME shut PROVE closed
      OBVIOUS
    <3>1. PICK d \in M : ~rules[d].allow /\ \A a \in M : rules[a].allow => len(a) < len(d)
      BY <2>5
    <3>2. len(d) \in D /\ \A a \in A : a < len(d)
      BY <2>6, <3>1
    <3>. QED  BY <2>6, <3>2
  <2>8. closed => shut
    <3>. SUFFICES ASSUME closed PROVE shut
      OBVIOUS
    <3>1. PICK x \in D : \A a \in A : a < x
      BY <2>6
    <3>2. PICK d \in M : ~rules[d].allow /\ x = len(d)
      BY <2>6
    <3>3. \A a \in M : rules[a].allow => len(a) \in A
      BY <2>6
    <3>4. \A a \in M : rules[a].allow => len(a) < len(d)
      BY <3>1, <3>2, <3>3
    <3>. QED  BY <2>5, <3>2, <3>4
  <2>9. CASE closed
    BY <1>4, <2>8, <2>9
  <2>10. CASE ~closed
    BY <1>4, <2>7, <2>10
  <2>. QED  BY <2>9, <2>10
<1>. HIDE DEF closed
<1>9. SaidOf(groups, agent, path, rules, allowed)
  BY <1>1, <1>6, <1>7, <1>8
<1>. QED  BY <1>9 DEF rules, allowed

LEMMA ObeyedIs ==
  /\ RobotsObeyed <=> (asked.kind = "robots" => SaidOf(asked.groups, asked.agent, asked.path, made.rules, made.allowed))
  /\ RobotsObeyed' <=> (asked'.kind = "robots" =>
                          SaidOf(asked'.groups, asked'.agent, asked'.path, made'.rules, made'.allowed))
BY DEF RobotsObeyed, SaidOf

-----------------------------------------------------------------------------
(* A question and its answer come in one step, and stay.                    *)
LEMMA LinksFollowed == ASSUME FollowLink PROVE AddressesAreStable'
<1>1. PICK url \in Urls, other \in Urls, draws \in DrawSequences :
        /\ asked' = [kind |-> "link", url |-> url, other |-> other, draws |-> draws]
        /\ made' = [url |-> Resolve(url), other |-> Resolve(other), again |-> Resolve(Resolve(url)),
                    shard |-> [n \in 0..Shards |-> JumpHash(draws, n)]]
  BY DEF FollowLink
<1>2. asked'.url = url /\ asked'.other = other
  BY <1>1
<1>3. /\ made'.url = Resolve(url) /\ made'.other = Resolve(other) /\ made'.again = Resolve(Resolve(url))
      /\ made'.shard = [n \in 0..Shards |-> JumpHash(draws, n)]
  BY <1>1
<1>4. Parts(url) /\ Parts(other)
  BY AddressesAssumption DEF Parts, Url
<1>5. draws \in Seq(1..Draws) /\ Len(draws) \in Nat /\ Shards \in Nat /\ Shards <= Len(draws)
  BY AddressesAssumption, LenProperties
<1>6. \A n \in 0..Shards : made'.shard[n] = JumpHash(draws, n)
  BY <1>3
<1>7. asked'.url.dots <= 1 => made'.again = made'.url
  BY <1>2, <1>3, <1>4, ResolveStays
<1>8. NotFetched \notin {made'.url, made'.other} => (made'.url = made'.other <=> SameResource(asked'.url, asked'.other))
  <2>. SUFFICES ASSUME Resolve(url) # NotFetched, Resolve(other) # NotFetched
                PROVE  Resolve(url) = Resolve(other) <=> SameResource(url, other)
    BY <1>2, <1>3
  <2>1. Fetched(url) /\ Fetched(other)
    BY ResolveNotFetched
  <2>. QED  BY <1>4, <2>1, ResolveTellsApart
<1>9. made'.shard[0] = 0
  BY <1>5, <1>6, ShardsStay
<1>10. ASSUME NEW n \in 1..Shards PROVE made'.shard[n] \in 0..(n - 1)
  <2>1. n \in Nat /\ n # 0 /\ n <= Len(draws) /\ n \in 0..Shards
    BY <1>5
  <2>. QED  BY <1>5, <1>6, <2>1, ShardsStay
<1>11. ASSUME NEW n \in 1..(Shards - 1) PROVE made'.shard[n + 1] \in {made'.shard[n], n}
  <2>1. n \in Nat /\ n # 0 /\ n + 1 <= Len(draws) /\ n \in 0..Shards /\ n + 1 \in 0..Shards
    BY <1>5
  <2>. QED  BY <1>5, <1>6, <2>1, ShardsStay
<1>. QED  BY <1>7, <1>8, <1>9, <1>10, <1>11 DEF AddressesAreStable

(* For every set of URLs, every number of shards and every sequence of draws:  *)
(* normalising twice is normalising once unless more than one dot stands     *)
(* behind the host, two links become one URL exactly if they lead to the     *)
(* same page, and a shard that is added takes keys from                      *)
(* the others and moves none between them (normalize.rs, resolve;           *)
(* routing.rs, jump_hash).                                                  *)
THEOREM AddressesHold == Spec => []AddressesAreStable
<1>1. Init => AddressesAreStable
  BY DEF Init, None, AddressesAreStable
<1>2. ASSUME AddressesAreStable, [Next]_vars PROVE AddressesAreStable'
  <2>1. CASE FollowLink
    BY <2>1, LinksFollowed
  <2>2. CASE \/ ReadRobots \/ ReadPage \/ AskQuery \/ SendRequest \/ SendResponse \/ WriteSegment
    <3>1. asked'.kind # "link"
      <4>1. CASE ReadRobots
        BY <4>1 DEF ReadRobots
      <4>2. CASE ReadPage
        BY <4>2 DEF ReadPage
      <4>3. CASE AskQuery
        BY <4>3 DEF AskQuery
      <4>4. CASE SendRequest
        BY <4>4 DEF SendRequest
      <4>5. CASE SendResponse
        BY <4>5 DEF SendResponse
      <4>6. CASE WriteSegment
        BY <4>6 DEF WriteSegment
      <4>. QED  BY <2>2, <4>1, <4>2, <4>3, <4>4, <4>5, <4>6
    <3>. QED  BY <3>1 DEF AddressesAreStable
  <2>3. CASE UNCHANGED vars
    BY <1>2, <2>3 DEF vars, AddressesAreStable
  <2>. QED  BY <1>2, <2>1, <2>2, <2>3 DEF Next, Asking
<1>. QED  BY <1>1, <1>2, PTL DEF Spec

LEMMA RobotsRead == ASSUME ReadRobots PROVE RobotsObeyed'
<1>1. PICK groups \in RobotsGroups, agent \in Agents, path \in Paths :
        LET robots == ParseRobots(Lines(groups), agent)
        IN /\ asked' = [kind |-> "robots", groups |-> groups, agent |-> agent, path |-> path]
           /\ made' = [rules |-> robots.rules, delay |-> robots.delay, allowed |-> PathAllowed(robots, path)]
  BY DEF ReadRobots
<1>. DEFINE robots == ParseRobots(Lines(groups), agent)
<1>2. /\ asked' = [kind |-> "robots", groups |-> groups, agent |-> agent, path |-> path]
      /\ made' = [rules |-> robots.rules, delay |-> robots.delay, allowed |-> PathAllowed(robots, path)]
      /\ robots = ParseRobots(Lines(groups), agent)
  BY <1>1
<1>. HIDE DEF robots
<1>3. asked'.groups = groups /\ asked'.agent = agent /\ asked'.path = path
  BY <1>2
<1>4. made'.rules = robots.rules /\ made'.allowed = PathAllowed(robots, path)
  BY <1>2
<1>5. groups \in Seq(RobotsGroup) /\ path \in Seq(STRING)
  BY RobotsAssumption
<1>6. SaidOf(groups, agent, path, robots.rules, PathAllowed(robots, path))
  BY <1>2, <1>5, FileRead
<1>. QED  BY <1>3, <1>4, <1>6, ObeyedIs

(* For every robots.txt, every name of a crawler and every path: the rules   *)
(* are those of the last of the groups that match the name best, no pattern  *)
(* matches more than it says, and where no pattern has both a star and an    *)
(* end, a path is closed exactly if some disallow that covers it is longer   *)
(* than every allow that does (robots.rs, parse, path_matches, allows).      *)
THEOREM RobotsHold == Spec => []RobotsObeyed
<1>1. Init => RobotsObeyed
  <2>1. Init => asked.kind # "robots"
    BY DEF Init, None
  <2>. QED  BY <2>1, ObeyedIs
<1>2. ASSUME RobotsObeyed, [Next]_vars PROVE RobotsObeyed'
  <2>1. CASE ReadRobots
    BY <2>1, RobotsRead
  <2>2. CASE \/ FollowLink \/ ReadPage \/ AskQuery \/ SendRequest \/ SendResponse \/ WriteSegment
    <3>1. asked'.kind # "robots"
      <4>1. CASE FollowLink
        BY <4>1 DEF FollowLink
      <4>2. CASE ReadPage
        BY <4>2 DEF ReadPage
      <4>3. CASE AskQuery
        BY <4>3 DEF AskQuery
      <4>4. CASE SendRequest
        BY <4>4 DEF SendRequest
      <4>5. CASE SendResponse
        BY <4>5 DEF SendResponse
      <4>6. CASE WriteSegment
        BY <4>6 DEF WriteSegment
      <4>. QED  BY <2>2, <4>1, <4>2, <4>3, <4>4, <4>5, <4>6
    <3>. QED  BY <3>1, ObeyedIs
  <2>3. CASE UNCHANGED vars
    BY <1>2, <2>3, ObeyedIs DEF vars
  <2>. QED  BY <1>2, <2>1, <2>2, <2>3 DEF Next, Asking
<1>. QED  BY <1>1, <1>2, PTL DEF Spec
=============================================================================
