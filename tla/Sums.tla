-------------------------------- MODULE Sums --------------------------------
(***************************************************************************)
(* What sums over finite sets are: SumFunctionOnSet of the community       *)
(* modules takes the members one at a time in an order nobody knows, and   *)
(* gives what every other order gives.  And with them: induction over sets *)
(* of numbers, ranks in an order, the greatest, the least and the sorted   *)
(* members of a set, and what is kept of a sequence.                       *)
(***************************************************************************)
EXTENDS Integers, Sequences, SequencesExt, FiniteSetsExt,
        FiniteSetTheorems, SequenceTheorems, WellFoundedInduction, TLAPS

-----------------------------------------------------------------------------
(* Induction, over a set in the place of a predicate.                       *)

LEMMA NatIn ==
  ASSUME NEW T, 0 \in T, \A n \in Nat : n \in T => n + 1 \in T
  PROVE  Nat \subseteq T
<1>. DEFINE Counter == Nat \ T
<1>. SUFFICES ASSUME Counter # {} PROVE FALSE
  OBVIOUS
<1>1. PICK n \in Counter : \A m \in Counter : ~(<<m, n>> \in OpToRel(<, Nat))
  <2>. HIDE DEF Counter
  <2>1. Counter \subseteq Nat
    BY DEF Counter
  <2>. QED  BY <2>1, WFMin, NatLessThanWellFounded
<1>2. n # 0 /\ n - 1 \in Nat /\ n - 1 < n
  OBVIOUS
<1>3. n - 1 \in Counter
  BY <1>2
<1>4. <<n - 1, n>> \in OpToRel(<, Nat)
  BY <1>2 DEF OpToRel
<1>. QED  BY <1>1, <1>3, <1>4

(* Among subsets of a finite set one is smallest.                            *)
LEMMA SmallestSet ==
  ASSUME NEW S, IsFiniteSet(S), NEW C \in SUBSET SUBSET S, C # {}
  PROVE  \E A \in C : \A x \in A : A \ {x} \notin C
<1>. DEFINE T == {n \in Nat : \A A \in C : Cardinality(A) = n => \E B \in C : \A x \in B : B \ {x} \notin C}
<1>0. \A A \in C : A \in SUBSET S
  OBVIOUS
<1>1. 0 \in T
  <2>. SUFFICES ASSUME NEW A \in C, Cardinality(A) = 0 PROVE \A x \in A : A \ {x} \notin C
    OBVIOUS
  <2>1. A = {}
    BY <1>0, FS_Subset, FS_EmptySet
  <2>. QED  BY <2>1
<1>2. ASSUME NEW n \in Nat, n \in T PROVE n + 1 \in T
  <2>. SUFFICES ASSUME NEW A \in C, Cardinality(A) = n + 1
                PROVE  \E B \in C : \A z \in B : B \ {z} \notin C
    OBVIOUS
  <2>1. ASSUME NEW x \in A, A \ {x} \in C PROVE \E B \in C : \A z \in B : B \ {z} \notin C
    <3>1. IsFiniteSet(A)
      BY <1>0, FS_Subset
    <3>2. Cardinality(A \ {x}) = Cardinality(A) - 1
      BY <3>1, FS_RemoveElement
    <3>3. Cardinality(A \ {x}) = n
      BY <3>2
    <3>. QED  BY <3>3, <1>2, <2>1
  <2>. QED  BY <2>1
<1>3. Nat \subseteq T
  <2>. HIDE DEF T
  <2>. QED  BY <1>1, <1>2, NatIn
<1>4. PICK A \in C : TRUE
  OBVIOUS
<1>5. Cardinality(A) \in Nat
  BY <1>0, FS_Subset, FS_CardinalityType
<1>. QED  BY <1>3, <1>4, <1>5

-----------------------------------------------------------------------------
(* The function by which the library sums.                                  *)

Rule(f, S, g) ==
  g = [s \in SUBSET S |->
         IF s = {} THEN 0 ELSE f[CHOOSE x \in s : TRUE] + g[s \ {CHOOSE x \in s : TRUE}]]

LEMMA SumIsRule ==
  ASSUME NEW f, NEW S PROVE SumFunctionOnSet(f, S) = (CHOOSE g : Rule(f, S, g))[S]
BY DEF SumFunctionOnSet, FoldFunctionOnSet, MapThenFoldSet, Rule

(* Two such functions agree where both are defined.                         *)
LEMMA RuleIsUnique ==
  ASSUME NEW f, NEW S, NEW A, A \subseteq S, IsFiniteSet(A),
         NEW g, Rule(f, S, g), NEW h, Rule(f, A, h)
  PROVE  \A s \in SUBSET A : g[s] = h[s]
<1>. DEFINE C == {s \in SUBSET A : g[s] # h[s]}
<1>. SUFFICES ASSUME C # {} PROVE FALSE
  OBVIOUS
<1>1. PICK s \in C : \A x \in s : s \ {x} \notin C
  <2>. HIDE DEF C
  <2>1. C \in SUBSET SUBSET A
    BY DEF C
  <2>. QED  BY <2>1, SmallestSet
<1>2. CASE s = {}
  BY <1>1, <1>2 DEF Rule
<1>3. CASE s # {}
  <2>. DEFINE y == CHOOSE z \in s : TRUE
  <2>1. y \in s
    BY <1>3
  <2>2. g[s] = f[y] + g[s \ {y}]
    BY <1>1, <1>3 DEF Rule
  <2>3. h[s] = f[y] + h[s \ {y}]
    BY <1>1, <1>3 DEF Rule
  <2>4. g[s \ {y}] = h[s \ {y}]
    BY <1>1, <2>1
  <2>. QED  BY <1>1, <2>2, <2>3, <2>4
<1>. QED  BY <1>2, <1>3

LEMMA SumOfNothing == \A f : SumFunctionOnSet(f, {}) = 0
<1>. SUFFICES ASSUME NEW f PROVE SumFunctionOnSet(f, {}) = 0
  OBVIOUS
<1>1. Rule(f, {}, [s \in SUBSET {} |-> 0])
  BY DEF Rule
<1>2. Rule(f, {}, CHOOSE g : Rule(f, {}, g))
  BY <1>1
<1>. DEFINE h == CHOOSE g : Rule(f, {}, g)
<1>. HIDE DEF h
<1>3. h[{}] = 0
  BY <1>2 DEF Rule, h
<1>. QED  BY <1>3, SumIsRule DEF h

FirstTaken(s) == CHOOSE x \in s : TRUE

LEMMA SumTakesOne ==
  ASSUME NEW f, NEW s, s # {}, IsFiniteSet(s),
         \E g : Rule(f, s, g), \E g : Rule(f, s \ {FirstTaken(s)}, g)
  PROVE  SumFunctionOnSet(f, s) = f[FirstTaken(s)] + SumFunctionOnSet(f, s \ {FirstTaken(s)})
<1>. DEFINE g == CHOOSE k : Rule(f, s, k)
            t == s \ {FirstTaken(s)}
            h == CHOOSE k : Rule(f, t, k)
<1>1. Rule(f, s, g) /\ Rule(f, t, h)
  OBVIOUS
<1>2. SumFunctionOnSet(f, s) = g[s] /\ SumFunctionOnSet(f, t) = h[t]
  BY SumIsRule
<1>3. IsFiniteSet(t)
  BY FS_RemoveElement
<1>4. t \subseteq s /\ t \in SUBSET t
  OBVIOUS
<1>. HIDE DEF g, h
<1>5. g[s] = f[FirstTaken(s)] + g[t]
  BY <1>1 DEF Rule, FirstTaken
<1>. HIDE DEF t
<1>6. g[t] = h[t]
  BY <1>1, <1>3, <1>4, RuleIsUnique
<1>. QED  BY <1>2, <1>5, <1>6 DEF t

LEMMA RuleRestricts ==
  ASSUME NEW f, NEW S, NEW g, Rule(f, S, g), NEW A, A \subseteq S
  PROVE  Rule(f, A, [s \in SUBSET A |-> g[s]])
<1>. DEFINE h == [s \in SUBSET A |-> g[s]]
            choose(s) == CHOOSE x \in s : TRUE
<1>. SUFFICES ASSUME NEW s \in SUBSET A
              PROVE  h[s] = IF s = {} THEN 0 ELSE f[choose(s)] + h[s \ {choose(s)}]
  BY DEF Rule
<1>1. g[s] = IF s = {} THEN 0 ELSE f[choose(s)] + g[s \ {choose(s)}]
  BY DEF Rule
<1>. QED  BY <1>1

LEMMA RuleExists == ASSUME NEW f, NEW S, IsFiniteSet(S) PROVE \E g : Rule(f, S, g)
<1>. DEFINE C == {s \in SUBSET S : ~\E g : Rule(f, s, g)}
<1>. SUFFICES ASSUME C # {} PROVE FALSE
  OBVIOUS
<1>1. PICK A \in C : \A x \in A : A \ {x} \notin C
  <2>. HIDE DEF C
  <2>1. C \in SUBSET SUBSET S
    BY DEF C
  <2>. QED  BY <2>1, SmallestSet
<1>2. IsFiniteSet(A) /\ A \in SUBSET S
  BY <1>1, FS_Subset
<1>3. A # {}
  <2>1. Rule(f, {}, [s \in SUBSET {} |-> 0])
    BY DEF Rule
  <2>. QED  BY <1>1, <2>1
<1>4. ASSUME NEW s \in SUBSET A, s # A PROVE \E k : Rule(f, s, k)
  <2>1. PICK x \in A : x \notin s
    BY <1>4
  <2>2. A \ {x} \in SUBSET S /\ s \subseteq A \ {x}
    BY <1>2, <2>1
  <2>3. PICK k : Rule(f, A \ {x}, k)
    BY <1>1, <2>2
  <2>. QED  BY <2>2, <2>3, RuleRestricts
<1>5. ASSUME NEW s \in SUBSET A, s # {}, s # A
      PROVE  SumFunctionOnSet(f, s) = f[FirstTaken(s)] + SumFunctionOnSet(f, s \ {FirstTaken(s)})
  <2>1. IsFiniteSet(s)
    BY <1>2, FS_Subset
  <2>2. s \ {FirstTaken(s)} \in SUBSET A /\ s \ {FirstTaken(s)} # A
    BY <1>5
  <2>. QED  BY <2>1, <2>2, <1>4, <1>5, SumTakesOne
<1>. DEFINE g == [s \in SUBSET A |-> IF s = A THEN f[FirstTaken(A)] + SumFunctionOnSet(f, A \ {FirstTaken(A)})
                                            ELSE SumFunctionOnSet(f, s)]
<1>6. Rule(f, A, g)
  <2>. SUFFICES ASSUME NEW s \in SUBSET A
                PROVE  g[s] = IF s = {} THEN 0 ELSE f[FirstTaken(s)] + g[s \ {FirstTaken(s)}]
    BY DEF Rule, FirstTaken
  <2>1. CASE s = {}
    BY <2>1, <1>3, SumOfNothing
  <2>2. CASE s # {}
    <3>1. FirstTaken(s) \in s
      BY <2>2 DEF FirstTaken
    <3>2. s \ {FirstTaken(s)} \in SUBSET A /\ s \ {FirstTaken(s)} # A
      BY <3>1
    <3>3. g[s \ {FirstTaken(s)}] = SumFunctionOnSet(f, s \ {FirstTaken(s)})
      BY <3>2
    <3>. QED  BY <2>2, <3>3, <1>5
  <2>. QED  BY <2>1, <2>2
<1>. QED  BY <1>1, <1>6

-----------------------------------------------------------------------------
(* What a sum is.                                                           *)

LEMMA SumRecurs ==
  ASSUME NEW f, NEW S, IsFiniteSet(S), S # {}
  PROVE  /\ FirstTaken(S) \in S
         /\ SumFunctionOnSet(f, S) = f[FirstTaken(S)] + SumFunctionOnSet(f, S \ {FirstTaken(S)})
<1>1. FirstTaken(S) \in S
  BY DEF FirstTaken
<1>2. IsFiniteSet(S \ {FirstTaken(S)})
  BY FS_RemoveElement
<1>. QED  BY <1>1, <1>2, RuleExists, SumTakesOne

LEMMA SumIsInteger ==
  ASSUME NEW f, NEW S, IsFiniteSet(S), \A x \in S : f[x] \in Int
  PROVE  SumFunctionOnSet(f, S) \in Int
<1>. DEFINE C == {s \in SUBSET S : SumFunctionOnSet(f, s) \notin Int}
<1>. SUFFICES ASSUME C # {} PROVE FALSE
  OBVIOUS
<1>1. PICK A \in C : \A x \in A : A \ {x} \notin C
  <2>. HIDE DEF C
  <2>1. C \in SUBSET SUBSET S
    BY DEF C
  <2>. QED  BY <2>1, SmallestSet
<1>2. IsFiniteSet(A) /\ A \in SUBSET S
  BY <1>1, FS_Subset
<1>3. A # {}
  BY <1>1, SumOfNothing
<1>4. /\ FirstTaken(A) \in A
      /\ SumFunctionOnSet(f, A) = f[FirstTaken(A)] + SumFunctionOnSet(f, A \ {FirstTaken(A)})
  BY <1>2, <1>3, SumRecurs
<1>. QED  BY <1>1, <1>2, <1>4

LEMMA SumIsNatural ==
  ASSUME NEW f, NEW S, IsFiniteSet(S), \A x \in S : f[x] \in Nat
  PROVE  SumFunctionOnSet(f, S) \in Nat
<1>. DEFINE C == {s \in SUBSET S : SumFunctionOnSet(f, s) \notin Nat}
<1>. SUFFICES ASSUME C # {} PROVE FALSE
  OBVIOUS
<1>1. PICK A \in C : \A x \in A : A \ {x} \notin C
  <2>. HIDE DEF C
  <2>1. C \in SUBSET SUBSET S
    BY DEF C
  <2>. QED  BY <2>1, SmallestSet
<1>2. IsFiniteSet(A) /\ A \in SUBSET S
  BY <1>1, FS_Subset
<1>3. A # {}
  BY <1>1, SumOfNothing
<1>4. /\ FirstTaken(A) \in A
      /\ SumFunctionOnSet(f, A) = f[FirstTaken(A)] + SumFunctionOnSet(f, A \ {FirstTaken(A)})
  BY <1>2, <1>3, SumRecurs
<1>. QED  BY <1>1, <1>2, <1>4

(* Any member may be taken first.                                           *)
LEMMA SumTakesAny ==
  ASSUME NEW f, NEW S, IsFiniteSet(S), \A x \in S : f[x] \in Int, NEW x \in S
  PROVE  SumFunctionOnSet(f, S) = f[x] + SumFunctionOnSet(f, S \ {x})
<1>. DEFINE sum(s) == SumFunctionOnSet(f, s)
            C == {s \in SUBSET S : \E z \in s : sum(s) # f[z] + sum(s \ {z})}
<1>. SUFFICES ASSUME C # {} PROVE FALSE
  OBVIOUS
<1>1. PICK A \in C : \A z \in A : A \ {z} \notin C
  <2>. HIDE DEF C
  <2>1. C \in SUBSET SUBSET S
    BY DEF C
  <2>. QED  BY <2>1, SmallestSet
<1>2. PICK z \in A : sum(A) # f[z] + sum(A \ {z})
  BY <1>1
<1>. DEFINE y == FirstTaken(A)
            rest == (A \ {y}) \ {z}
<1>3. IsFiniteSet(A) /\ A \in SUBSET S
  BY <1>1, FS_Subset
<1>4. y \in A /\ sum(A) = f[y] + sum(A \ {y})
  BY <1>2, <1>3, SumRecurs
<1>5. y # z
  BY <1>2, <1>4
<1>6. /\ A \ {y} \notin C /\ A \ {z} \notin C /\ z \in A \ {y} /\ y \in A \ {z}
      /\ A \ {y} \in SUBSET S /\ A \ {z} \in SUBSET S
  BY <1>1, <1>3, <1>4, <1>5
<1>7. sum(A \ {y}) = f[z] + sum(rest)
  BY <1>6
<1>8. (A \ {z}) \ {y} = rest
  OBVIOUS
<1>9. sum(A \ {z}) = f[y] + sum(rest)
  BY <1>6, <1>8
<1>10. IsFiniteSet(rest) /\ \A a \in rest : f[a] \in Int
  BY <1>3, FS_Subset
<1>11. sum(rest) \in Int
  <2>. HIDE DEF rest
  <2>. QED  BY <1>10, SumIsInteger
<1>12. f[z] \in Int /\ f[y] \in Int
  BY <1>3, <1>4
<1>. HIDE DEF rest, sum, y
<1>. QED  BY <1>2, <1>4, <1>7, <1>9, <1>11, <1>12

LEMMA SumWithOneMore ==
  ASSUME NEW f, NEW S, IsFiniteSet(S), \A x \in S : f[x] \in Int, NEW x, x \notin S, f[x] \in Int
  PROVE  SumFunctionOnSet(f, S \cup {x}) = f[x] + SumFunctionOnSet(f, S)
<1>1. IsFiniteSet(S \cup {x}) /\ (S \cup {x}) \ {x} = S
  BY FS_AddElement
<1>2. \A y \in S \cup {x} : f[y] \in Int
  OBVIOUS
<1>. DEFINE T == S \cup {x}
<1>3. x \in T
  OBVIOUS
<1>. HIDE DEF T
<1>4. SumFunctionOnSet(f, T) = f[x] + SumFunctionOnSet(f, T \ {x})
  BY <1>1, <1>2, <1>3, SumTakesAny DEF T
<1>. QED  BY <1>1, <1>4 DEF T

LEMMA SumOfSame ==
  ASSUME NEW f, NEW g, NEW S, IsFiniteSet(S), \A x \in S : f[x] = g[x]
  PROVE  SumFunctionOnSet(f, S) = SumFunctionOnSet(g, S)
<1>. DEFINE C == {s \in SUBSET S : SumFunctionOnSet(f, s) # SumFunctionOnSet(g, s)}
<1>. SUFFICES ASSUME C # {} PROVE FALSE
  OBVIOUS
<1>1. PICK A \in C : \A x \in A : A \ {x} \notin C
  <2>. HIDE DEF C
  <2>1. C \in SUBSET SUBSET S
    BY DEF C
  <2>. QED  BY <2>1, SmallestSet
<1>2. IsFiniteSet(A) /\ A \in SUBSET S
  BY <1>1, FS_Subset
<1>3. A # {}
  BY <1>1, SumOfNothing
<1>4. /\ FirstTaken(A) \in A
      /\ SumFunctionOnSet(f, A) = f[FirstTaken(A)] + SumFunctionOnSet(f, A \ {FirstTaken(A)})
      /\ SumFunctionOnSet(g, A) = g[FirstTaken(A)] + SumFunctionOnSet(g, A \ {FirstTaken(A)})
  BY <1>2, <1>3, SumRecurs
<1>. QED  BY <1>1, <1>2, <1>4

LEMMA SumOfOne ==
  ASSUME NEW f, NEW x, f[x] \in Int PROVE SumFunctionOnSet(f, {x}) = f[x]
<1>. DEFINE S == {x}
<1>1. IsFiniteSet(S) /\ x \in S /\ S \ {x} = {} /\ \A y \in S : f[y] \in Int
  BY FS_Singleton
<1>. HIDE DEF S
<1>2. SumFunctionOnSet(f, S) = f[x] + SumFunctionOnSet(f, S \ {x})
  BY <1>1, SumTakesAny
<1>3. SumFunctionOnSet(f, S) = f[x]
  BY <1>1, <1>2, SumOfNothing
<1>. QED  BY <1>3 DEF S

(* Two sets that share nothing.                                             *)
LEMMA SumOfBoth ==
  ASSUME NEW f, NEW S, IsFiniteSet(S), NEW T, IsFiniteSet(T), S \cap T = {},
         \A x \in S \cup T : f[x] \in Int
  PROVE  SumFunctionOnSet(f, S \cup T) = SumFunctionOnSet(f, S) + SumFunctionOnSet(f, T)
<1>. DEFINE sum(s) == SumFunctionOnSet(f, s)
            C == {s \in SUBSET T : sum(S \cup s) # sum(S) + sum(s)}
<1>. SUFFICES ASSUME C # {} PROVE FALSE
  OBVIOUS
<1>1. PICK A \in C : \A z \in A : A \ {z} \notin C
  <2>. HIDE DEF C
  <2>1. C \in SUBSET SUBSET T
    BY DEF C
  <2>. QED  BY <2>1, SmallestSet
<1>2. IsFiniteSet(A) /\ A \in SUBSET T
  BY <1>1, FS_Subset
<1>3. sum(S) \in Int
  BY SumIsInteger
<1>4. A # {}
  <2>1. S \cup {} = S
    OBVIOUS
  <2>. QED  BY <1>1, <1>3, <2>1, SumOfNothing
<1>. DEFINE y == FirstTaken(A)
            rest == A \ {y}
<1>5. y \in A /\ sum(A) = f[y] + sum(rest)
  BY <1>2, <1>4, SumRecurs
<1>6. rest \notin C /\ rest \in SUBSET T /\ IsFiniteSet(rest)
  BY <1>1, <1>2, <1>5, FS_Subset
<1>7. sum(S \cup rest) = sum(S) + sum(rest)
  BY <1>6
<1>8. y \notin S \cup rest /\ S \cup A = (S \cup rest) \cup {y}
  BY <1>2, <1>5
<1>9. IsFiniteSet(S \cup rest) /\ f[y] \in Int /\ \A x \in S \cup rest : f[x] \in Int
  BY <1>2, <1>5, <1>6, FS_Union
<1>10. sum(rest) \in Int
  BY <1>6, <1>9, SumIsInteger
<1>11. sum((S \cup rest) \cup {y}) = f[y] + sum(S \cup rest)
  <2>. HIDE DEF y, rest
  <2>. QED  BY <1>8, <1>9, SumWithOneMore
<1>12. sum(S \cup A) # sum(S) + sum(A)
  BY <1>1
<1>13. sum(S \cup A) = f[y] + sum(S \cup rest)
  BY <1>8, <1>11
<1>. HIDE DEF sum, y, rest
<1>. QED  BY <1>3, <1>5, <1>7, <1>9, <1>10, <1>12, <1>13

(* The same numbers under other names.                                      *)
LEMMA FiniteImage ==
  ASSUME NEW S, IsFiniteSet(S), NEW h PROVE IsFiniteSet({h[x] : x \in S})
<1>. DEFINE T == {h[x] : x \in S}
            k == [x \in S |-> h[x]]
<1>1. k \in Surjection(S, T)
  BY DEF Surjection
<1>. HIDE DEF T, k
<1>. QED  BY <1>1, FS_Surjection DEF T

LEMMA SumRenamed ==
  ASSUME NEW f, NEW g, NEW h, NEW S, IsFiniteSet(S),
         \A x \in S : f[h[x]] \in Int /\ g[x] = f[h[x]],
         \A x, y \in S : h[x] = h[y] => x = y
  PROVE  SumFunctionOnSet(g, S) = SumFunctionOnSet(f, {h[x] : x \in S})
<1>. DEFINE image(s) == {h[x] : x \in s}
            C == {s \in SUBSET S : SumFunctionOnSet(g, s) # SumFunctionOnSet(f, image(s))}
<1>. SUFFICES ASSUME C # {} PROVE FALSE
  OBVIOUS
<1>1. PICK A \in C : \A x \in A : A \ {x} \notin C
  <2>. HIDE DEF C
  <2>1. C \in SUBSET SUBSET S
    BY DEF C
  <2>. QED  BY <2>1, SmallestSet
<1>2. IsFiniteSet(A) /\ A \in SUBSET S
  BY <1>1, FS_Subset
<1>3. A # {}
  <2>1. image({}) = {}
    OBVIOUS
  <2>. QED  BY <1>1, <2>1, SumOfNothing
<1>. DEFINE y == FirstTaken(A)
            rest == A \ {y}
<1>4. y \in A /\ SumFunctionOnSet(g, A) = g[y] + SumFunctionOnSet(g, rest)
  BY <1>2, <1>3, SumRecurs
<1>5. rest \notin C /\ rest \in SUBSET S /\ IsFiniteSet(rest)
  BY <1>1, <1>2, <1>4, FS_Subset
<1>6. SumFunctionOnSet(g, rest) = SumFunctionOnSet(f, image(rest))
  BY <1>5
<1>. HIDE DEF y
<1>7. image(A) = image(rest) \cup {h[y]} /\ h[y] \notin image(rest)
  BY <1>2, <1>4
<1>8. /\ IsFiniteSet(image(rest)) /\ f[h[y]] \in Int /\ g[y] = f[h[y]]
      /\ \A z \in image(rest) : f[z] \in Int
  BY <1>2, <1>4, <1>5, FiniteImage
<1>9. SumFunctionOnSet(f, image(rest) \cup {h[y]}) = f[h[y]] + SumFunctionOnSet(f, image(rest))
  <2>. HIDE DEF rest, image
  <2>. QED  BY <1>7, <1>8, SumWithOneMore
<1>. QED  BY <1>1, <1>4, <1>6, <1>7, <1>8, <1>9

(* Group by group.                                                          *)
LEMMA SumByGroups ==
  ASSUME NEW f, NEW g, NEW of, NEW S, NEW T, IsFiniteSet(S), IsFiniteSet(T),
         \A x \in S : f[x] \in Int /\ of[x] \in T,
         \A t \in T, G \in SUBSET S :
           (\A x \in S : x \in G <=> of[x] = t) => g[t] = SumFunctionOnSet(f, G)
  PROVE  SumFunctionOnSet(g, T) = SumFunctionOnSet(f, S)
<1>. DEFINE in(s) == {x \in S : of[x] \in s}
            C == {s \in SUBSET T : SumFunctionOnSet(g, s) # SumFunctionOnSet(f, in(s))}
<1>0. C = {}
  <2>. SUFFICES ASSUME C # {} PROVE FALSE
    OBVIOUS
  <2>1. PICK A \in C : \A x \in A : A \ {x} \notin C
    <3>. HIDE DEF C
    <3>1. C \in SUBSET SUBSET T
      BY DEF C
    <3>. QED  BY <3>1, SmallestSet
  <2>2. IsFiniteSet(A) /\ A \in SUBSET T
    BY <2>1, FS_Subset
  <2>3. A # {}
    <3>1. in({}) = {}
      OBVIOUS
    <3>. QED  BY <2>1, <3>1, SumOfNothing
  <2>. DEFINE y == FirstTaken(A)
              rest == A \ {y}
              own == {x \in S : of[x] = y}
  <2>4. y \in A /\ SumFunctionOnSet(g, A) = g[y] + SumFunctionOnSet(g, rest)
    BY <2>2, <2>3, SumRecurs
  <2>5. rest \notin C /\ rest \in SUBSET T
    BY <2>1, <2>2, <2>4
  <2>6. SumFunctionOnSet(g, rest) = SumFunctionOnSet(f, in(rest))
    BY <2>5
  <2>. HIDE DEF y
  <2>7. in(A) = own \cup in(rest) /\ own \cap in(rest) = {}
    BY <2>4
  <2>8. IsFiniteSet(own) /\ IsFiniteSet(in(rest)) /\ \A x \in own \cup in(rest) : f[x] \in Int
    BY FS_Subset
  <2>9. SumFunctionOnSet(f, own \cup in(rest)) =
          SumFunctionOnSet(f, own) + SumFunctionOnSet(f, in(rest))
    <3>. HIDE DEF own, in, rest
    <3>. QED  BY <2>7, <2>8, SumOfBoth
  <2>10. g[y] = SumFunctionOnSet(f, own)
    <3>1. y \in T /\ own \in SUBSET S /\ \A x \in S : x \in own <=> of[x] = y
      BY <2>2, <2>4
    <3>. QED  BY <3>1
  <2>. QED  BY <2>1, <2>4, <2>6, <2>7, <2>9, <2>10
<1>1. SumFunctionOnSet(g, T) = SumFunctionOnSet(f, in(T))
  BY <1>0
<1>2. in(T) = S
  OBVIOUS
<1>. QED  BY <1>1, <1>2

(* Rounding, and sums of what was rounded.                                  *)
LEMMA DivisionRoundsDown ==
  ASSUME NEW a \in Nat, NEW b \in Nat, b # 0
  PROVE  b * (a \div b) <= a /\ (a % b = 0 => b * (a \div b) = a)
OBVIOUS

LEMMA Distributes ==
  ASSUME NEW c \in Int, NEW a \in Int, NEW b \in Int
  PROVE  c * a \in Int /\ c * (a + b) = c * a + c * b
OBVIOUS

LEMMA SumsCompare ==
  ASSUME NEW f, NEW g, NEW S, IsFiniteSet(S), NEW c \in Int, NEW k \in Int,
         \A x \in S : f[x] \in Int /\ g[x] \in Int
  PROVE  /\ (\A x \in S : c * f[x] <= k * g[x]) => c * SumFunctionOnSet(f, S) <= k * SumFunctionOnSet(g, S)
         /\ (\A x \in S : c * f[x] = k * g[x]) => c * SumFunctionOnSet(f, S) = k * SumFunctionOnSet(g, S)
<1>. DEFINE F(s) == SumFunctionOnSet(f, s)
            G(s) == SumFunctionOnSet(g, s)
            C == {s \in SUBSET S : ~/\ (\A x \in S : c * f[x] <= k * g[x]) => c * F(s) <= k * G(s)
                                    /\ (\A x \in S : c * f[x] = k * g[x]) => c * F(s) = k * G(s)}
<1>. SUFFICES ASSUME C # {} PROVE FALSE
  BY DEF C
<1>1. PICK A \in C : \A x \in A : A \ {x} \notin C
  <2>. HIDE DEF C
  <2>1. C \in SUBSET SUBSET S
    BY DEF C
  <2>. QED  BY <2>1, SmallestSet
<1>2. IsFiniteSet(A) /\ A \in SUBSET S
  BY <1>1, FS_Subset
<1>3. A # {}
  <2>. SUFFICES ASSUME A = {} PROVE A \notin C
    BY <1>1
  <2>1. F(A) = 0 /\ G(A) = 0
    BY SumOfNothing
  <2>2. c * 0 = 0 /\ k * 0 = 0 /\ 0 <= 0
    OBVIOUS
  <2>. HIDE DEF F, G
  <2>. QED  BY <2>1, <2>2
<1>4. PICK x : x = FirstTaken(A)
  OBVIOUS
<1>. DEFINE B == A \ {x}
<1>5. x \in A /\ F(A) = f[x] + F(B) /\ G(A) = g[x] + G(B)
  BY <1>2, <1>3, <1>4, SumRecurs
<1>6. B \in SUBSET S /\ IsFiniteSet(B) /\ B \notin C
  BY <1>1, <1>2, <1>5, FS_Subset
<1>7. F(B) \in Int /\ G(B) \in Int /\ f[x] \in Int /\ g[x] \in Int /\ x \in S
  BY <1>2, <1>5, <1>6, SumIsInteger
<1>8. /\ (\A y \in S : c * f[y] <= k * g[y]) => c * F(B) <= k * G(B)
      /\ (\A y \in S : c * f[y] = k * g[y]) => c * F(B) = k * G(B)
  <2>. HIDE DEF B, F, G
  <2>. QED  BY <1>6
<1>. HIDE DEF F, G, B
<1>9. c * F(A) = c * f[x] + c * F(B) /\ k * G(A) = k * g[x] + k * G(B)
  BY <1>5, <1>7, Distributes
<1>10. c * f[x] \in Int /\ c * F(B) \in Int /\ k * g[x] \in Int /\ k * G(B) \in Int
  BY <1>7, Distributes
<1>11. (\A y \in S : c * f[y] <= k * g[y]) => c * F(A) <= k * G(A)
  BY <1>7, <1>8, <1>9, <1>10
<1>12. (\A y \in S : c * f[y] = k * g[y]) => c * F(A) = k * G(A)
  BY <1>7, <1>8, <1>9, <1>10
<1>. QED  BY <1>1, <1>11, <1>12

(* Member by member.                                                        *)
LEMMA SumOfSums ==
  ASSUME NEW f, NEW g, NEW h, NEW S, IsFiniteSet(S),
         \A x \in S : f[x] \in Int /\ g[x] \in Int /\ h[x] = f[x] + g[x]
  PROVE  SumFunctionOnSet(h, S) = SumFunctionOnSet(f, S) + SumFunctionOnSet(g, S)
<1>. DEFINE F(s) == SumFunctionOnSet(f, s)
            G(s) == SumFunctionOnSet(g, s)
            H(s) == SumFunctionOnSet(h, s)
            C == {s \in SUBSET S : H(s) # F(s) + G(s)}
<1>. SUFFICES ASSUME C # {} PROVE FALSE
  BY DEF C
<1>1. PICK A \in C : \A x \in A : A \ {x} \notin C
  <2>. HIDE DEF C
  <2>1. C \in SUBSET SUBSET S
    BY DEF C
  <2>. QED  BY <2>1, SmallestSet
<1>2. IsFiniteSet(A) /\ A \in SUBSET S
  BY <1>1, FS_Subset
<1>3. A # {}
  <2>. SUFFICES ASSUME A = {} PROVE A \notin C
    BY <1>1
  <2>1. F(A) = 0 /\ G(A) = 0 /\ H(A) = 0
    BY SumOfNothing
  <2>2. H(A) = F(A) + G(A)
    BY <2>1
  <2>. HIDE DEF F, G, H
  <2>. QED  BY <2>2
<1>4. PICK x : x = FirstTaken(A)
  OBVIOUS
<1>. DEFINE B == A \ {x}
<1>5. x \in A /\ F(A) = f[x] + F(B) /\ G(A) = g[x] + G(B) /\ H(A) = h[x] + H(B)
  BY <1>2, <1>3, <1>4, SumRecurs
<1>6. B \in SUBSET S /\ IsFiniteSet(B) /\ B \notin C
  BY <1>1, <1>2, <1>5, FS_Subset
<1>7. F(B) \in Int /\ G(B) \in Int /\ x \in S
  BY <1>2, <1>5, <1>6, SumIsInteger
<1>8. H(B) = F(B) + G(B)
  BY <1>6
<1>. HIDE DEF F, G, H, B
<1>. QED  BY <1>1, <1>5, <1>7, <1>8

LEMMA SumOfAlike ==
  ASSUME NEW f, NEW S, IsFiniteSet(S), NEW c \in Int, \A x \in S : f[x] = c
  PROVE  SumFunctionOnSet(f, S) = c * Cardinality(S)
<1>. DEFINE F(s) == SumFunctionOnSet(f, s)
            C == {s \in SUBSET S : F(s) # c * Cardinality(s)}
<1>. SUFFICES ASSUME C # {} PROVE FALSE
  BY DEF C
<1>1. PICK A \in C : \A x \in A : A \ {x} \notin C
  <2>. HIDE DEF C
  <2>1. C \in SUBSET SUBSET S
    BY DEF C
  <2>. QED  BY <2>1, SmallestSet
<1>2. IsFiniteSet(A) /\ A \in SUBSET S
  BY <1>1, FS_Subset
<1>3. A # {}
  <2>1. F({}) = 0 /\ Cardinality({}) = 0 /\ c * 0 = 0
    BY SumOfNothing, FS_EmptySet
  <2>. HIDE DEF F
  <2>. QED  BY <1>1, <2>1
<1>4. PICK x : x = FirstTaken(A)
  OBVIOUS
<1>. DEFINE B == A \ {x}
<1>5. x \in A /\ F(A) = f[x] + F(B) /\ f[x] = c
  BY <1>2, <1>3, <1>4, SumRecurs
<1>6. B \in SUBSET S /\ B \notin C
  BY <1>1, <1>2, <1>5
<1>7. IsFiniteSet(B) /\ Cardinality(B) \in Nat /\ Cardinality(A) = Cardinality(B) + 1
  <2>1. IsFiniteSet(B) /\ Cardinality(B) = Cardinality(A) - 1 /\ Cardinality(A) \in Nat
    BY <1>2, <1>5, FS_RemoveElement, FS_CardinalityType
  <2>2. Cardinality(B) \in Nat
    BY <2>1, FS_CardinalityType
  <2>. QED  BY <2>1, <2>2
<1>8. F(B) = c * Cardinality(B)
  BY <1>6
<1>. HIDE DEF F, B
<1>9. c * (1 + Cardinality(B)) = c * 1 + c * Cardinality(B) /\ c * 1 = c
  BY <1>7, Distributes
<1>10. 1 + Cardinality(B) = Cardinality(A)
  BY <1>7
<1>. QED  BY <1>1, <1>5, <1>8, <1>9, <1>10

-----------------------------------------------------------------------------
(* Ranks.  Of a finite set in a strict order, ahead[x] is what comes before *)
(* x; how many those are is the rank of x.                                  *)

IsAhead(S, ahead) ==
  /\ \A x \in S : ahead[x] \subseteq S /\ x \notin ahead[x]
  /\ \A x, y \in S : x \in ahead[y] => ahead[x] \subseteq ahead[y]
  /\ \A x, y \in S : x = y \/ x \in ahead[y] \/ y \in ahead[x]

LEMMA AheadRanksLower ==
  ASSUME NEW S, IsFiniteSet(S), NEW ahead, IsAhead(S, ahead), NEW x \in S, NEW y \in S, x \in ahead[y]
  PROVE  Cardinality(ahead[x]) < Cardinality(ahead[y])
<1>1. IsFiniteSet(ahead[y]) /\ IsFiniteSet(ahead[x])
  BY FS_Subset DEF IsAhead
<1>2. Cardinality(ahead[x] \cup {x}) = Cardinality(ahead[x]) + 1
  BY <1>1, FS_AddElement DEF IsAhead
<1>3. ahead[x] \cup {x} \in SUBSET ahead[y]
  BY DEF IsAhead
<1>4. Cardinality(ahead[x] \cup {x}) <= Cardinality(ahead[y])
  BY <1>1, <1>3, FS_Subset
<1>5. Cardinality(ahead[x]) \in Nat /\ Cardinality(ahead[y]) \in Nat
  BY <1>1, FS_CardinalityType
<1>. QED  BY <1>2, <1>4, <1>5

LEMMA RanksDiffer ==
  ASSUME NEW S, IsFiniteSet(S), NEW ahead, IsAhead(S, ahead), NEW x \in S, NEW y \in S,
         Cardinality(ahead[x]) = Cardinality(ahead[y])
  PROVE  x = y
<1>. SUFFICES ASSUME x # y PROVE FALSE
  OBVIOUS
<1>1. IsFiniteSet(ahead[y]) /\ IsFiniteSet(ahead[x])
  BY FS_Subset DEF IsAhead
<1>2. Cardinality(ahead[x]) \in Nat /\ Cardinality(ahead[y]) \in Nat
  BY <1>1, FS_CardinalityType
<1>3. CASE x \in ahead[y]
  BY <1>2, <1>3, AheadRanksLower
<1>4. CASE y \in ahead[x]
  BY <1>2, <1>4, AheadRanksLower
<1>. QED  BY <1>3, <1>4 DEF IsAhead

(* A rank is less than the number of them all, and each such number is one. *)
LEMMA RanksFill ==
  ASSUME NEW S, IsFiniteSet(S), NEW ahead, IsAhead(S, ahead)
  PROVE  /\ \A x \in S : Cardinality(ahead[x]) \in 0..Cardinality(S) - 1
         /\ \A i \in 0..Cardinality(S) - 1 : \E x \in S : Cardinality(ahead[x]) = i
<1>. DEFINE n == Cardinality(S)
            rank == [x \in S |-> Cardinality(ahead[x])]
<1>1. n \in Nat
  BY FS_CardinalityType
<1>2. ASSUME NEW x \in S PROVE rank[x] \in 0..n - 1
  <2>1. IsFiniteSet(S \ {x}) /\ Cardinality(S \ {x}) = n - 1
    BY FS_RemoveElement
  <2>2. ahead[x] \in SUBSET (S \ {x})
    BY DEF IsAhead
  <2>3. IsFiniteSet(ahead[x]) /\ Cardinality(ahead[x]) <= n - 1
    BY <2>1, <2>2, FS_Subset
  <2>4. Cardinality(ahead[x]) \in Nat
    BY <2>3, FS_CardinalityType
  <2>. HIDE DEF n
  <2>. QED  BY <2>3, <2>4, <1>1
<1>3. rank \in [S -> 0..n - 1]
  BY <1>2
<1>4. \A x, y \in S : rank[x] = rank[y] => x = y
  BY RanksDiffer
<1>5. rank \in Injection(S, 0..n - 1)
  <2>. HIDE DEF rank, n
  <2>1. DOMAIN rank = S
    BY <1>3
  <2>. QED  BY <1>3, <1>4, <2>1 DEF Injection, IsInjective
<1>6. IsFiniteSet(0..n - 1) /\ Cardinality(0..n - 1) = n
  <2>1. 0 \in Int /\ n - 1 \in Int
    BY <1>1
  <2>2. Cardinality(0..n - 1) = IF 0 > n - 1 THEN 0 ELSE (n - 1) - 0 + 1
    BY <2>1, FS_Interval
  <2>. HIDE DEF n
  <2>. QED  BY <1>1, <2>1, <2>2, FS_Interval
<1>7. rank \in Surjection(S, 0..n - 1)
  <2>. HIDE DEF rank
  <2>. QED  BY <1>5, <1>6, FS_Injection
<1>. QED  BY <1>2, <1>7 DEF Surjection

(* Those of the lowest ranks: none is left out unless there are k of them,  *)
(* and then they all come before what is left out.                          *)
LEMMA LowestRanks ==
  ASSUME NEW S, IsFiniteSet(S), NEW ahead, IsAhead(S, ahead), NEW k \in Nat,
         NEW B \in SUBSET S, \A x \in S : x \in B <=> Cardinality(ahead[x]) < k
  PROVE  /\ IsFiniteSet(B)
         /\ Cardinality(B) = IF Cardinality(S) < k THEN Cardinality(S) ELSE k
         /\ \A x \in S \ B : B \subseteq ahead[x]
<1>. DEFINE n == Cardinality(S)
            m == IF n < k THEN n ELSE k
            rank == [x \in B |-> Cardinality(ahead[x])]
<1>1. n \in Nat /\ m \in Nat
  BY FS_CardinalityType
<1>2. IsFiniteSet(B)
  BY FS_Subset
<1>3. \A x \in S : Cardinality(ahead[x]) \in 0..n - 1
  BY RanksFill
<1>4. rank \in [B -> 0..m - 1]
  <2>. HIDE DEF n
  <2>. QED  BY <1>1, <1>3
<1>5. \A x, y \in B : rank[x] = rank[y] => x = y
  BY RanksDiffer
<1>6. \A i \in 0..m - 1 : \E x \in B : rank[x] = i
  <2>. SUFFICES ASSUME NEW i \in 0..m - 1 PROVE \E x \in B : rank[x] = i
    OBVIOUS
  <2>1. i \in 0..n - 1 /\ i < k
    <3>. HIDE DEF n
    <3>. QED  BY <1>1
  <2>2. PICK x \in S : Cardinality(ahead[x]) = i
    BY <2>1, RanksFill
  <2>. QED  BY <2>1, <2>2
<1>7. rank \in Bijection(B, 0..m - 1)
  <2>. HIDE DEF rank, m
  <2>1. DOMAIN rank = B
    BY <1>4
  <2>. QED  BY <1>4, <1>5, <1>6, <2>1 DEF Bijection, Injection, Surjection, IsInjective
<1>8. Cardinality(0..m - 1) = m
  <2>1. 0 \in Int /\ m - 1 \in Int
    BY <1>1
  <2>2. Cardinality(0..m - 1) = IF 0 > m - 1 THEN 0 ELSE (m - 1) - 0 + 1
    BY <2>1, FS_Interval
  <2>. HIDE DEF m
  <2>. QED  BY <1>1, <2>2
<1>9. Cardinality(B) = m
  <2>1. ExistsBijection(B, 0..m - 1)
    BY <1>7 DEF ExistsBijection
  <2>. QED  BY <1>2, <1>8, <2>1, FS_Bijection
<1>10. ASSUME NEW x \in S \ B, NEW y \in B PROVE y \in ahead[x]
  <2>1. Cardinality(ahead[x]) \in Nat /\ Cardinality(ahead[y]) \in Nat
    BY <1>1, <1>3
  <2>2. ~(Cardinality(ahead[x]) < Cardinality(ahead[y]))
    BY <2>1
  <2>3. x \notin ahead[y]
    BY <2>2, AheadRanksLower
  <2>. QED  BY <2>3 DEF IsAhead
<1>. QED  BY <1>2, <1>9, <1>10

-----------------------------------------------------------------------------
(* The greatest and the least of a set, and its members from the least on.  *)

LEMMA MaxIs ==
  ASSUME NEW S, IsFiniteSet(S), \A x \in S : x \in Int, S # {}
  PROVE  Max(S) \in S /\ \A x \in S : x <= Max(S)
<1>. DEFINE C == {s \in SUBSET S : s # {} /\ ~\E x \in s : \A y \in s : x >= y}
<1>1. C = {}
  <2>. SUFFICES ASSUME C # {} PROVE FALSE
    OBVIOUS
  <2>1. PICK A \in C : \A x \in A : A \ {x} \notin C
    <3>. HIDE DEF C
    <3>1. C \in SUBSET SUBSET S
      BY DEF C
    <3>. QED  BY <3>1, SmallestSet
  <2>2. PICK z \in A : TRUE
    BY <2>1
  <2>3. A \in SUBSET S /\ A \ {z} \notin C
    BY <2>1, <2>2
  <2>4. CASE A \ {z} = {}
    <3>1. \A y \in A : z >= y
      BY <2>2, <2>3, <2>4
    <3>. QED  BY <2>1, <2>2, <3>1
  <2>5. CASE A \ {z} # {}
    <3>1. PICK m \in A \ {z} : \A y \in A \ {z} : m >= y
      BY <2>3, <2>5
    <3>2. CASE m >= z
      <4>1. \A y \in A : m >= y
        BY <2>3, <3>1, <3>2
      <4>. QED  BY <2>1, <3>1, <4>1
    <3>3. CASE ~(m >= z)
      <4>1. \A y \in A : z >= y
        BY <2>2, <2>3, <3>1, <3>3
      <4>. QED  BY <2>1, <2>2, <4>1
    <3>. QED  BY <3>2, <3>3
  <2>. QED  BY <2>4, <2>5
<1>2. \E x \in S : \A y \in S : x >= y
  BY <1>1
<1>3. Max(S) \in S /\ \A y \in S : Max(S) >= y
  BY <1>2 DEF Max
<1>. HIDE DEF C
<1>. QED  BY <1>3

LEMMA MinIs ==
  ASSUME NEW S, IsFiniteSet(S), \A x \in S : x \in Int, S # {}
  PROVE  Min(S) \in S /\ \A x \in S : Min(S) <= x
<1>. DEFINE minus == [x \in S |-> -x]
            T == {minus[x] : x \in S}
<1>1. IsFiniteSet(T)
  BY FiniteImage
<1>2. \A x \in T : x \in Int
  OBVIOUS
<1>3. T # {}
  OBVIOUS
<1>4. Max(T) \in T /\ \A x \in T : x <= Max(T)
  <2>. HIDE DEF T
  <2>. QED  BY <1>1, <1>2, <1>3, MaxIs
<1>5. PICK m \in S : minus[m] = Max(T)
  BY <1>4
<1>6. \A x \in S : m <= x
  <2>. SUFFICES ASSUME NEW x \in S PROVE m <= x
    OBVIOUS
  <2>1. minus[x] \in T
    OBVIOUS
  <2>2. minus[x] <= minus[m]
    BY <1>4, <1>5, <2>1
  <2>3. x \in Int /\ m \in Int /\ minus[x] = -x /\ minus[m] = -m
    OBVIOUS
  <2>. QED  BY <2>2, <2>3
<1>7. \E x \in S : \A y \in S : x <= y
  BY <1>6
<1>. QED  BY <1>7 DEF Min

InOrder(S) == [n \in 1..Cardinality(S) |-> CHOOSE x \in S : Cardinality({y \in S : y < x}) = n - 1]

LEMMA InOrderIs ==
  ASSUME NEW S, IsFiniteSet(S), \A x \in S : x \in Nat
  PROVE  /\ Cardinality(S) \in Nat
         /\ InOrder(S) \in [1..Cardinality(S) -> S]
         /\ \A i, j \in 1..Cardinality(S) : i < j => InOrder(S)[i] < InOrder(S)[j]
         /\ \A x \in S : \E i \in 1..Cardinality(S) : InOrder(S)[i] = x
<1>. DEFINE ahead == [x \in S |-> {y \in S : y < x}]
            n == Cardinality(S)
            s == InOrder(S)
<1>1. n \in Nat
  BY FS_CardinalityType
<1>2. IsAhead(S, ahead)
  <2>1. \A x \in S : x \in Int /\ ahead[x] = {y \in S : y < x}
    OBVIOUS
  <2>2. \A x, y \in S : x \in ahead[y] <=> x < y
    BY <2>1
  <2>. HIDE DEF ahead
  <2>3. \A x \in S : ahead[x] \subseteq S /\ x \notin ahead[x]
    BY <2>1
  <2>4. \A x, y \in S : x \in ahead[y] => ahead[x] \subseteq ahead[y]
    BY <2>1, <2>2
  <2>5. \A x, y \in S : x = y \/ x \in ahead[y] \/ y \in ahead[x]
    BY <2>1, <2>2
  <2>. QED  BY <2>3, <2>4, <2>5 DEF IsAhead
<1>3. ASSUME NEW i \in 1..n PROVE s[i] \in S /\ Cardinality(ahead[s[i]]) = i - 1
  <2>1. i - 1 \in 0..n - 1
    BY <1>1
  <2>2. \E x \in S : Cardinality(ahead[x]) = i - 1
    <3>. HIDE DEF ahead
    <3>. QED  BY <1>2, <2>1, RanksFill
  <2>3. \E x \in S : Cardinality({y \in S : y < x}) = i - 1
    BY <2>2
  <2>4. s[i] \in S /\ Cardinality({y \in S : y < s[i]}) = i - 1
    BY <2>3 DEF InOrder
  <2>. QED  BY <2>4
<1>4. s \in [1..n -> S]
  <2>. SUFFICES ASSUME NEW i \in 1..n PROVE s[i] \in S
    BY DEF InOrder
  <2>. QED  BY <1>3
<1>5. ASSUME NEW i \in 1..n, NEW j \in 1..n, i < j PROVE s[i] < s[j]
  <2>1. s[i] \in S /\ s[j] \in S /\ Cardinality(ahead[s[i]]) = i - 1 /\ Cardinality(ahead[s[j]]) = j - 1
    BY <1>3
  <2>2. s[i] # s[j]
    <3>1. i - 1 # j - 1
      BY <1>1, <1>5
    <3>. HIDE DEF s, ahead
    <3>. QED  BY <2>1, <3>1
  <2>3. ASSUME s[j] < s[i] PROVE FALSE
    <3>1. s[j] \in ahead[s[i]]
      BY <2>1, <2>3
    <3>. HIDE DEF ahead, s
    <3>2. Cardinality(ahead[s[j]]) < Cardinality(ahead[s[i]])
      BY <1>2, <2>1, <3>1, AheadRanksLower
    <3>. QED  BY <1>1, <1>5, <2>1, <3>2
  <2>. HIDE DEF s
  <2>4. s[i] \in Int /\ s[j] \in Int
    BY <2>1
  <2>. QED  BY <2>2, <2>3, <2>4
<1>6. ASSUME NEW x \in S PROVE \E i \in 1..n : s[i] = x
  <2>. DEFINE i == Cardinality(ahead[x]) + 1
  <2>1. i \in 1..n
    <3>. HIDE DEF ahead, n
    <3>1. Cardinality(ahead[x]) \in 0..n - 1
      BY <1>2, RanksFill DEF n
    <3>. QED  BY <1>1, <3>1
  <2>2. s[i] \in S /\ Cardinality(ahead[s[i]]) = i - 1
    BY <1>3, <2>1
  <2>3. Cardinality(ahead[x]) = i - 1
    <3>. HIDE DEF ahead, n
    <3>1. Cardinality(ahead[x]) \in 0..n - 1
      BY <1>2, RanksFill DEF n
    <3>. QED  BY <1>1, <3>1
  <2>. HIDE DEF s, ahead, i
  <2>4. s[i] = x
    BY <1>2, <2>2, <2>3, RanksDiffer
  <2>. QED  BY <2>1, <2>4
<1>. HIDE DEF s
<1>. QED  BY <1>1, <1>3, <1>4, <1>5, <1>6 DEF s

(* There is only one way to put the members of a set in order.              *)
LEMMA OneOrder ==
  ASSUME NEW S, NEW m \in Nat, NEW e \in [1..m -> S],
         \A x \in S : x \in Nat, \A x \in S : \E i \in 1..m : e[i] = x,
         \A i, j \in 1..m : i < j => e[i] < e[j]
  PROVE  IsFiniteSet(S) /\ Cardinality(S) = m /\ InOrder(S) = e
<1>1. \A i, j \in 1..m : e[i] \in Nat /\ (e[i] = e[j] => i = j)
  <2>1. \A i, j \in 1..m : i < j \/ i = j \/ j < i
    OBVIOUS
  <2>2. \A i \in 1..m : e[i] \in Nat
    OBVIOUS
  <2>. QED  BY <2>1, <2>2
<1>2. ASSUME NEW T, NEW k \in Nat, k <= m, T = {e[i] : i \in 1..k}
      PROVE  IsFiniteSet(T) /\ Cardinality(T) = k
  <2>. DEFINE b == [i \in 1..k |-> e[i]]
  <2>1. b \in Bijection(1..k, T)
    <3>1. b \in [1..k -> T] /\ DOMAIN b = 1..k
      BY <1>2
    <3>2. \A i, j \in 1..k : b[i] = b[j] => i = j
      BY <1>1, <1>2
    <3>3. \A x \in T : \E i \in 1..k : b[i] = x
      BY <1>2
    <3>. HIDE DEF b
    <3>. QED  BY <3>1, <3>2, <3>3 DEF Bijection, Injection, Surjection, IsInjective
  <2>2. IsFiniteSet(1..k) /\ Cardinality(1..k) = k
    BY FS_Interval
  <2>. HIDE DEF b
  <2>3. ExistsBijection(1..k, T)
    BY <2>1 DEF ExistsBijection
  <2>4. IsFiniteSet(T)
    BY <2>1, <2>2, FS_Surjection DEF Bijection
  <2>. QED  BY <2>2, <2>3, <2>4, FS_Bijection
<1>3. S = {e[i] : i \in 1..m}
  OBVIOUS
<1>4. IsFiniteSet(S) /\ Cardinality(S) = m
  BY <1>2, <1>3
<1>5. ASSUME NEW i \in 1..m PROVE Cardinality({y \in S : y < e[i]}) = i - 1
  <2>. DEFINE k == i - 1
  <2>1. k \in Nat /\ k <= m
    OBVIOUS
  <2>2. ASSUME NEW y \in S, y < e[i] PROVE \E j \in 1..k : e[j] = y
    <3>1. PICK j \in 1..m : e[j] = y
      OBVIOUS
    <3>2. ~(i < j) /\ i # j
      <4>1. i < j => e[i] < e[j]
        OBVIOUS
      <4>2. e[i] \in Nat /\ e[j] \in Nat
        BY <1>1
      <4>. QED  BY <2>2, <3>1, <4>1, <4>2
    <3>3. j \in 1..k
      BY <3>2
    <3>. QED  BY <3>1, <3>3
  <2>3. \A j \in 1..k : e[j] \in S /\ e[j] < e[i]
    OBVIOUS
  <2>4. {y \in S : y < e[i]} = {e[j] : j \in 1..k}
    <3>. HIDE DEF k
    <3>. QED  BY <2>2, <2>3
  <2>. HIDE DEF k
  <2>5. Cardinality({y \in S : y < e[i]}) = k
    BY <1>2, <2>1, <2>4
  <2>. QED  BY <2>5 DEF k
<1>6. ASSUME NEW i \in 1..m PROVE InOrder(S)[i] = e[i]
  <2>1. e[i] \in S /\ Cardinality({y \in S : y < e[i]}) = i - 1
    BY <1>5
  <2>2. ASSUME NEW x \in S, Cardinality({y \in S : y < x}) = i - 1 PROVE x = e[i]
    <3>1. PICK j \in 1..m : e[j] = x
      OBVIOUS
    <3>2. j - 1 = i - 1
      BY <1>5, <2>2, <3>1
    <3>. QED  BY <3>1, <3>2
  <2>3. InOrder(S)[i] = CHOOSE x \in S : Cardinality({y \in S : y < x}) = i - 1
    BY <1>4 DEF InOrder
  <2>. QED  BY <2>1, <2>2, <2>3
<1>. DEFINE ranked(i) == CHOOSE x \in S : Cardinality({y \in S : y < x}) = i - 1
<1>7. InOrder(S) = [i \in 1..m |-> ranked(i)]
  BY <1>4 DEF InOrder
<1>. HIDE DEF ranked
<1>8. \A i \in 1..m : ranked(i) = e[i]
  BY <1>6, <1>7
<1>9. InOrder(S) = e
  BY <1>7, <1>8
<1>. QED  BY <1>4, <1>9

(* The members of a sequence at these places, in order.                     *)
AtPlaces(s, K) == [k \in 1..Cardinality(K) |-> s[InOrder(K)[k]]]

(* The members at the places of K, kept so far.                             *)
KeptUpTo(K, s, w, i, m, e) ==
  /\ m \in Nat /\ e \in [1..m -> K \cap (1..i)]
  /\ \A k, l \in 1..m : k < l => e[k] < e[l]
  /\ \A x \in K \cap (1..i) : \E k \in 1..m : e[k] = x
  /\ w[i] = [k \in 1..m |-> s[e[k]]]

(* What is appended, place after place, is those that were kept.            *)
KeepsThose(n, s, K, w) ==
  \A i \in 0..n : w[i] = IF i = 0 THEN << >> ELSE IF i \in K THEN Append(w[i - 1], s[i]) ELSE w[i - 1]

LEMMA KeptInOrder ==
  ASSUME NEW n \in Nat, NEW s, NEW K \in SUBSET (1..n), NEW w, KeepsThose(n, s, K, w)
  PROVE  IsFiniteSet(K) /\ Cardinality(K) \in Nat /\ w[n] = AtPlaces(s, K)
<1>. USE DEF KeepsThose
<1>. DEFINE T == {i \in Nat : i <= n => \E m, e : KeptUpTo(K, s, w, i, m, e)}
<1>1. 0 \in T
  <2>. DEFINE e == [k \in 1..0 |-> 0]
  <2>1. 0 \in Nat /\ e \in [1..0 -> K \cap (1..0)] /\ \A k : k \notin 1..0
    OBVIOUS
  <2>2. w[0] = << >>
    OBVIOUS
  <2>3. w[0] = [k \in 1..0 |-> s[e[k]]]
    BY <2>2
  <2>. HIDE DEF e
  <2>4. KeptUpTo(K, s, w, 0, 0, e)
    BY <2>1, <2>3 DEF KeptUpTo
  <2>. QED  BY <2>4
<1>2. ASSUME NEW i \in Nat, i \in T PROVE i + 1 \in T
  <2>. DEFINE j == i + 1
  <2>. SUFFICES ASSUME j <= n PROVE \E m, e : KeptUpTo(K, s, w, j, m, e)
    OBVIOUS
  <2>1. PICK m, e : KeptUpTo(K, s, w, i, m, e)
    BY <1>2
  <2>2. j \in 0..n /\ j # 0 /\ j - 1 = i /\ j \notin 1..i /\ 1..j = (1..i) \cup {j} /\ \A x \in 1..i : x < j
    OBVIOUS
  <2>3. w[j] = IF j \in K THEN Append(w[i], s[j]) ELSE w[i]
    BY <2>2
  <2>4. /\ m \in Nat /\ e \in [1..m -> K \cap (1..i)]
        /\ \A k, l \in 1..m : k < l => e[k] < e[l]
        /\ \A x \in K \cap (1..i) : \E k \in 1..m : e[k] = x
        /\ w[i] = [k \in 1..m |-> s[e[k]]] /\ DOMAIN e = 1..m
    BY <2>1 DEF KeptUpTo
  <2>. HIDE DEF j
  <2>5. CASE j \notin K
    <3>1. K \cap (1..j) = K \cap (1..i)
      BY <2>2, <2>5
    <3>2. KeptUpTo(K, s, w, j, m, e)
      BY <2>3, <2>4, <2>5, <3>1 DEF KeptUpTo
    <3>. QED  BY <3>2
  <2>6. CASE j \in K
    <3>. DEFINE f == [k \in 1..m + 1 |-> IF k = m + 1 THEN j ELSE e[k]]
    <3>0. m \in Nat /\ m + 1 \in Nat /\ 1..m + 1 = (1..m) \cup {m + 1} /\ \A k \in 1..m : k # m + 1 /\ k < m + 1
      BY <2>4
    <3>1. /\ DOMAIN f = 1..m + 1 /\ f[m + 1] = j /\ \A k \in 1..m : f[k] = e[k] /\ e[k] \in K \cap (1..i)
      BY <2>4, <3>0
    <3>2. f \in [1..m + 1 -> K \cap (1..j)]
      BY <2>2, <2>4, <2>6, <3>0
    <3>. HIDE DEF f
    <3>3. \A k, l \in 1..m + 1 : k < l => f[k] < f[l]
      <4>. SUFFICES ASSUME NEW k \in 1..m + 1, NEW l \in 1..m + 1, k < l PROVE f[k] < f[l]
        OBVIOUS
      <4>1. k \in 1..m
        BY <3>0
      <4>2. CASE l = m + 1
        BY <2>2, <3>1, <4>1, <4>2
      <4>3. CASE l # m + 1
        <5>1. l \in 1..m
          BY <3>0, <4>3
        <5>. QED  BY <2>4, <3>1, <4>1, <5>1
      <4>. QED  BY <4>2, <4>3
    <3>4. \A x \in K \cap (1..j) : \E k \in 1..m + 1 : f[k] = x
      <4>. SUFFICES ASSUME NEW x \in K \cap (1..j) PROVE \E k \in 1..m + 1 : f[k] = x
        OBVIOUS
      <4>1. CASE x = j
        BY <3>0, <3>1, <4>1
      <4>2. CASE x # j
        <5>1. x \in K \cap (1..i)
          BY <2>2, <4>2
        <5>. QED  BY <2>4, <3>0, <3>1, <5>1
      <4>. QED  BY <4>1, <4>2
    <3>5. w[j] = [k \in 1..m + 1 |-> s[f[k]]]
      <4>. DEFINE A == {s[k] : k \in 1..n}
      <4>1. w[i] \in [1..m -> A]
        <5>1. \A k \in 1..m : e[k] \in 1..n
          BY <2>4
        <5>. QED  BY <2>4, <5>1
      <4>2. w[i] \in Seq(A) /\ Len(w[i]) = m /\ s[j] \in A
        <5>1. j \in 1..n
          BY <2>2
        <5>2. s[j] \in A
          BY <5>1
        <5>. HIDE DEF A
        <5>3. w[i] \in Seq(A)
          <6>1. \E k \in Nat : w[i] \in [1..k -> A]
            BY <2>4, <4>1
          <6>2. w[i] \in UNION {[1..k -> A] : k \in Nat}
            BY <6>1, Zenon
          <6>3. Seq(A) = UNION {[1..k -> A] : k \in Nat}
            BY SeqDef
          <6>. QED  BY <6>2, <6>3, Zenon
        <5>. QED  BY <2>4, <4>1, <5>2, <5>3, LenProperties
      <4>. HIDE DEF A
      <4>3. Append(w[i], s[j]) = [k \in 1..m + 1 |-> IF k = m + 1 THEN s[j] ELSE w[i][k]]
        BY <4>2, AppendProperties
      <4>4. \A k \in 1..m : w[i][k] = s[f[k]]
        BY <2>4, <3>1
      <4>5. \A k \in 1..m + 1 : (IF k = m + 1 THEN s[j] ELSE w[i][k]) = s[f[k]]
        BY <3>0, <3>1, <4>4
      <4>. QED  BY <2>3, <2>6, <4>3, <4>5
    <3>6. KeptUpTo(K, s, w, j, m + 1, f)
      BY <3>0, <3>2, <3>3, <3>4, <3>5 DEF KeptUpTo
    <3>. QED  BY <3>6
  <2>. QED  BY <2>5, <2>6
<1>3. n \in T
  <2>. HIDE DEF T
  <2>. QED  BY <1>1, <1>2, NatIn
<1>4. K \cap (1..n) = K
  OBVIOUS
<1>5. PICK m, e : KeptUpTo(K, s, w, n, m, e)
  BY <1>3
<1>6. /\ m \in Nat /\ e \in [1..m -> K]
      /\ \A k, l \in 1..m : k < l => e[k] < e[l]
      /\ \A x \in K : \E k \in 1..m : e[k] = x
      /\ w[n] = [k \in 1..m |-> s[e[k]]]
  BY <1>4, <1>5 DEF KeptUpTo
<1>7. \A x \in K : x \in Nat
  OBVIOUS
<1>8. IsFiniteSet(K) /\ Cardinality(K) = m /\ InOrder(K) = e
  <2>. HIDE DEF T
  <2>. QED  BY <1>6, <1>7, OneOrder
<1>. QED  BY <1>6, <1>8 DEF AtPlaces
=============================================================================
