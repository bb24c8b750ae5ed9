----------------------------- MODULE SumTheorems -----------------------------
(***************************************************************************)
(* Facts about sums over finite sets and the ends of one, for the proofs   *)
(* about balances and runs. A statement about every finite set is proved   *)
(* by looking at a smallest set it would be false of, and about every      *)
(* number by looking at the least.                                         *)
(***************************************************************************)
EXTENDS Sums, FiniteSetTheorems, WellFoundedInduction, TLAPS

\* The element a sum takes first, and the function that defines the sum.
Pick(s) == CHOOSE x \in s : TRUE
SumsTo(g, f, S) ==
    g = [s \in SUBSET S |-> IF s = {} THEN 0 ELSE f[Pick(s)] + g[s \ {Pick(s)}]]

\* A sum is defined by a function over the subsets of what is summed.
LEMMA Unfold ==
    ASSUME NEW f, NEW S
    PROVE  SumOf(f, S) = (CHOOSE g : SumsTo(g, f, S))[S]
BY DEF SumOf, MapThenSumSet, MapThenFoldSet, SumsTo, Pick

\* Among sets of parts of a finite set there is one with no smaller one: this takes
\* the place of induction over finite sets.
LEMMA Smallest ==
    ASSUME NEW S, IsFiniteSet(S), NEW T, T \subseteq SUBSET S, T # {}
    PROVE  \E x \in T : \A y \in T : ~(y \subseteq x /\ y # x)
<1>1. FiniteSubsetsOf(S) = SUBSET S
  BY FS_FiniteSubsetsOfFinite
<1>2. \E x \in T : \A y \in T : <<y, x>> \notin StrictSubsetOrdering(S)
  BY <1>1, FS_StrictSubsetOrderingWellFounded, WFMin
<1> QED BY <1>2 DEF StrictSubsetOrdering

\* Among natural numbers there is a least one: this takes the place of induction.
LEMMA SmallestNat ==
    ASSUME NEW T, T \subseteq Nat, T # {}
    PROVE  \E x \in T : \A y \in T : ~(y < x)
<1>1. \E x \in T : \A y \in T : <<y, x>> \notin OpToRel(<, Nat)
  BY NatLessThanWellFounded, WFMin
<1> QED BY <1>1 DEF OpToRel

\* What a sum is, one element at a time.
Step(f, s) == SumOf(f, s) = IF s = {} THEN 0 ELSE f[Pick(s)] + SumOf(f, s \ {Pick(s)})

\* A sum is the value at the element it takes first, and the sum of the rest.
LEMMA SumStep ==
    ASSUME NEW f, NEW S, IsFiniteSet(S)
    PROVE  Step(f, S)
<1> SUFFICES ASSUME ~Step(f, S) PROVE FALSE
  OBVIOUS
<1> DEFINE T == {s \in SUBSET S : ~Step(f, s)}
<1>1. PICK s \in T : \A t \in T : ~(t \subseteq s /\ t # s)
  <2>1. S \in T
    OBVIOUS
  <2> HIDE DEF T
  <2>2. T \subseteq SUBSET S
    BY DEF T
  <2> QED BY <2>1, <2>2, Smallest
<1>2. \A t \in SUBSET s : t # s => Step(f, t)
  BY <1>1
<1>3. ~Step(f, s)
  BY <1>1
<1> HIDE DEF T
<1> DEFINE V(t) == SumOf(f, t)
           k == [t \in SUBSET s |-> IF t = s /\ s # {} THEN f[Pick(s)] + V(s \ {Pick(s)})
                                    ELSE IF t = {} THEN 0 ELSE V(t)]
           g == CHOOSE g : SumsTo(g, f, s)
<1>4. \A t : t # {} => Pick(t) \in t
  BY DEF Pick
<1>5. SumsTo(k, f, s)
  <2>1. ASSUME NEW t \in SUBSET s
        PROVE  k[t] = IF t = {} THEN 0 ELSE f[Pick(t)] + k[t \ {Pick(t)}]
    <3>1. CASE t = {}
      BY <3>1
    <3>2. CASE t # {} /\ t = s
      <4>1. t \ {Pick(t)} # s /\ t \ {Pick(t)} \in SUBSET s
        BY <3>2, <1>4
      <4>2. V({}) = 0
        BY <3>2, <1>2 DEF Step
      <4>3. k[t \ {Pick(t)}] = V(t \ {Pick(t)})
        BY <4>1, <4>2
      <4> QED BY <3>2, <4>3
    <3>3. CASE t # {} /\ t # s
      <4>1. t \ {Pick(t)} # s /\ t \ {Pick(t)} \in SUBSET s
        BY <3>3, <1>4
      <4>2. V(t) = f[Pick(t)] + V(t \ {Pick(t)})
        BY <3>3, <1>2 DEF Step
      <4>3. V({}) = 0
        BY <3>3, <1>2 DEF Step
      <4>4. k[t \ {Pick(t)}] = V(t \ {Pick(t)})
        BY <4>1, <4>3
      <4>5. k[t] = V(t)
        BY <3>3
      <4> HIDE DEF k, V
      <4> QED BY <3>3, <4>2, <4>4, <4>5
    <3> QED BY <3>1, <3>2, <3>3
  <2>2. k = [t \in SUBSET s |-> k[t]]
    OBVIOUS
  <2> HIDE DEF k
  <2> QED BY <2>1, <2>2 DEF SumsTo
<1>6. SumsTo(g, f, s)
  <2> HIDE DEF k
  <2> QED BY <1>5
<1> HIDE DEF k, g
<1>7. SumOf(f, s) = g[s]
  BY Unfold DEF g
<1>8. \A t \in SUBSET s : t # s => g[t] = V(t)
  <2> SUFFICES ASSUME NEW u \in SUBSET s, u # s, g[u] # V(u) PROVE FALSE
    OBVIOUS
  <2> DEFINE B == {t \in SUBSET s : t # s /\ g[t] # V(t)}
  <2>1. PICK t \in B : \A v \in B : ~(v \subseteq t /\ v # t)
    <3>1. u \in B
      OBVIOUS
    <3>2. B \subseteq SUBSET S
      BY <1>1 DEF T
    <3> HIDE DEF B
    <3> QED BY <3>1, <3>2, Smallest
  <2>2. t \in SUBSET s /\ t # s /\ g[t] # V(t)
    BY <2>1
  <2>3. Step(f, t)
    BY <2>2, <1>2
  <2>4. g[t] = IF t = {} THEN 0 ELSE f[Pick(t)] + g[t \ {Pick(t)}]
    BY <2>2, <1>6 DEF SumsTo
  <2>5. CASE t = {}
    BY <2>2, <2>3, <2>4, <2>5 DEF Step
  <2>6. CASE t # {}
    <3>1. t \ {Pick(t)} \subseteq t /\ t \ {Pick(t)} # t
      BY <2>6, <1>4
    <3>2. t \ {Pick(t)} \in SUBSET s /\ t \ {Pick(t)} # s
      BY <3>1, <2>2
    <3>3. g[t \ {Pick(t)}] = V(t \ {Pick(t)})
      BY <3>1, <3>2, <2>1
    <3> QED BY <2>2, <2>3, <2>4, <2>6, <3>3 DEF Step
  <2> QED BY <2>5, <2>6
<1>9. g[s] = IF s = {} THEN 0 ELSE f[Pick(s)] + g[s \ {Pick(s)}]
  BY <1>6 DEF SumsTo
<1>10. CASE s = {}
  BY <1>3, <1>7, <1>9, <1>10 DEF Step
<1>11. CASE s # {}
  <2>1. s \ {Pick(s)} \in SUBSET s /\ s \ {Pick(s)} # s
    BY <1>4, <1>11
  <2>2. g[s \ {Pick(s)}] = V(s \ {Pick(s)})
    BY <2>1, <1>8
  <2> QED BY <1>3, <1>7, <1>9, <1>11, <2>2 DEF Step
<1> QED BY <1>10, <1>11

\* Sums of integers are integers.
LEMMA SumType ==
    ASSUME NEW f, NEW S, IsFiniteSet(S), \A x \in S : f[x] \in Int
    PROVE  SumOf(f, S) \in Int
<1> SUFFICES ASSUME SumOf(f, S) \notin Int PROVE FALSE
  OBVIOUS
<1> DEFINE T == {s \in SUBSET S : SumOf(f, s) \notin Int}
<1>1. PICK s \in T : \A t \in T : ~(t \subseteq s /\ t # s)
  <2>1. S \in T /\ T \subseteq SUBSET S
    OBVIOUS
  <2> HIDE DEF T
  <2> QED BY <2>1, Smallest
<1>2. Step(f, s)
  BY <1>1, SumStep, FS_Subset
<1>3. CASE s = {}
  BY <1>1, <1>2, <1>3 DEF Step
<1>4. CASE s # {}
  <2>1. Pick(s) \in s
    BY <1>4 DEF Pick
  <2>2. s \ {Pick(s)} \notin T
    BY <1>1, <2>1
  <2>3. SumOf(f, s \ {Pick(s)}) \in Int
    BY <1>1, <2>2
  <2> QED BY <1>1, <1>2, <1>4, <2>1, <2>3 DEF Step
<1> QED BY <1>3, <1>4

\* Any element can be taken first: the order does not matter.
LEMMA SumRemove ==
    ASSUME NEW f, NEW S, IsFiniteSet(S), \A x \in S : f[x] \in Int, NEW y \in S
    PROVE  SumOf(f, S) = f[y] + SumOf(f, S \ {y})
<1> DEFINE Any(s) == \A z \in s : SumOf(f, s) = f[z] + SumOf(f, s \ {z})
<1> SUFFICES ASSUME ~Any(S) PROVE FALSE
  OBVIOUS
<1> DEFINE T == {s \in SUBSET S : ~Any(s)}
<1>1. PICK s \in T : \A t \in T : ~(t \subseteq s /\ t # s)
  <2>1. S \in T /\ T \subseteq SUBSET S
    OBVIOUS
  <2> HIDE DEF T
  <2> QED BY <2>1, Smallest
<1>2. PICK z \in s : SumOf(f, s) # f[z] + SumOf(f, s \ {z})
  BY <1>1
<1>3. /\ s \subseteq S /\ IsFiniteSet(s)
      /\ \A t \in SUBSET s : IsFiniteSet(t) /\ SumOf(f, t) \in Int
  <2>1. s \subseteq S
    BY <1>1
  <2>2. \A t \in SUBSET S : IsFiniteSet(t)
    BY FS_Subset
  <2>3. \A t \in SUBSET S : SumOf(f, t) \in Int
    <3> SUFFICES ASSUME NEW t \in SUBSET S PROVE SumOf(f, t) \in Int
      OBVIOUS
    <3>1. \A x \in t : f[x] \in Int
      OBVIOUS
    <3> QED BY <2>2, <3>1, SumType
  <2> QED BY <2>1, <2>2, <2>3
<1> DEFINE x == Pick(s)
<1>4. x \in s
  BY <1>2 DEF Pick
<1> HIDE DEF x
<1>5. SumOf(f, s) = f[x] + SumOf(f, s \ {x})
  BY <1>3, <1>4, SumStep DEF Step, x
<1>6. x # z
  BY <1>2, <1>5
<1>7. \A t \in SUBSET s : t # s => Any(t)
  BY <1>1, <1>3
<1>8. SumOf(f, s \ {x}) = f[z] + SumOf(f, (s \ {x}) \ {z})
  BY <1>4, <1>6, <1>7
<1>9. SumOf(f, s \ {z}) = f[x] + SumOf(f, (s \ {z}) \ {x})
  BY <1>2, <1>4, <1>6, <1>7
<1>10. (s \ {x}) \ {z} = (s \ {z}) \ {x}
  OBVIOUS
<1>11. f[x] \in Int /\ f[z] \in Int /\ SumOf(f, (s \ {x}) \ {z}) \in Int
  BY <1>2, <1>3, <1>4
<1> DEFINE r == SumOf(f, (s \ {x}) \ {z})
<1>12. f[x] + (f[z] + r) = f[z] + (f[x] + r)
  BY <1>11
<1>13. SumOf(f, s) = f[x] + (f[z] + r)
  BY <1>5, <1>8
<1>14. SumOf(f, s \ {z}) = f[x] + r
  BY <1>9, <1>10
<1> QED BY <1>2, <1>12, <1>13, <1>14

\* Nothing sums to nothing.
LEMMA SumEmpty ==
    ASSUME NEW f
    PROVE  SumOf(f, {}) = 0
BY SumStep, FS_EmptySet DEF Step

\* One more element adds its value.
LEMMA SumAdd ==
    ASSUME NEW f, NEW S, IsFiniteSet(S), \A x \in S : f[x] \in Int,
           NEW y, y \notin S, f[y] \in Int
    PROVE  SumOf(f, S \cup {y}) = SumOf(f, S) + f[y]
<1> DEFINE more == S \cup {y}
<1>1. IsFiniteSet(more) /\ \A x \in more : f[x] \in Int
  BY FS_AddElement
<1>2. y \in more /\ more \ {y} = S
  OBVIOUS
<1> HIDE DEF more
<1>3. SumOf(f, more) = f[y] + SumOf(f, more \ {y})
  BY <1>1, <1>2, SumRemove
<1>4. SumOf(f, S) \in Int
  BY SumType
<1>5. f[y] + SumOf(f, S) = SumOf(f, S) + f[y]
  BY <1>4
<1>6. SumOf(f, more) = f[y] + SumOf(f, S)
  BY <1>2, <1>3
<1> QED BY <1>5, <1>6 DEF more

\* Sums of the same values are the same.
LEMMA SumSame ==
    ASSUME NEW f, NEW g, NEW S, IsFiniteSet(S), \A x \in S : f[x] = g[x]
    PROVE  SumOf(f, S) = SumOf(g, S)
<1> SUFFICES ASSUME SumOf(f, S) # SumOf(g, S) PROVE FALSE
  OBVIOUS
<1> DEFINE T == {s \in SUBSET S : SumOf(f, s) # SumOf(g, s)}
<1>1. PICK s \in T : \A t \in T : ~(t \subseteq s /\ t # s)
  <2>1. S \in T /\ T \subseteq SUBSET S
    OBVIOUS
  <2> HIDE DEF T
  <2> QED BY <2>1, Smallest
<1>2. Step(f, s) /\ Step(g, s)
  BY <1>1, SumStep, FS_Subset
<1>3. CASE s = {}
  BY <1>1, <1>2, <1>3 DEF Step
<1>4. CASE s # {}
  <2>1. Pick(s) \in s
    BY <1>4 DEF Pick
  <2>2. SumOf(f, s \ {Pick(s)}) = SumOf(g, s \ {Pick(s)})
    BY <1>1, <2>1
  <2>3. f[Pick(s)] = g[Pick(s)]
    BY <1>1, <2>1
  <2>4. SumOf(f, s) # SumOf(g, s)
    BY <1>1
  <2> QED BY <1>2, <1>4, <2>2, <2>3, <2>4 DEF Step
<1> QED BY <1>3, <1>4

\* When one value changes the sum changes by the difference.
LEMMA SumUpdate ==
    ASSUME NEW f, NEW g, NEW S, IsFiniteSet(S), NEW y \in S,
           \A x \in S : f[x] \in Int /\ g[x] \in Int,
           \A x \in S \ {y} : f[x] = g[x]
    PROVE  SumOf(g, S) = SumOf(f, S) - f[y] + g[y]
<1>1. IsFiniteSet(S \ {y})
  BY FS_Subset
<1>2. SumOf(f, S \ {y}) = SumOf(g, S \ {y})
  BY <1>1, SumSame
<1>3. SumOf(f, S) = f[y] + SumOf(f, S \ {y}) /\ SumOf(g, S) = g[y] + SumOf(g, S \ {y})
  BY SumRemove
<1>4. SumOf(f, S \ {y}) \in Int
  BY <1>1, SumType
<1> QED BY <1>2, <1>3, <1>4

\* Sums of naturals are naturals.
LEMMA SumNat ==
    ASSUME NEW f, NEW S, IsFiniteSet(S), \A x \in S : f[x] \in Nat
    PROVE  SumOf(f, S) \in Nat
<1> SUFFICES ASSUME SumOf(f, S) \notin Nat PROVE FALSE
  OBVIOUS
<1> DEFINE T == {s \in SUBSET S : SumOf(f, s) \notin Nat}
<1>1. PICK s \in T : \A t \in T : ~(t \subseteq s /\ t # s)
  <2>1. S \in T /\ T \subseteq SUBSET S
    OBVIOUS
  <2> HIDE DEF T
  <2> QED BY <2>1, Smallest
<1>2. Step(f, s)
  BY <1>1, SumStep, FS_Subset
<1>3. CASE s = {}
  BY <1>1, <1>2, <1>3 DEF Step
<1>4. CASE s # {}
  <2>1. Pick(s) \in s
    BY <1>4 DEF Pick
  <2>2. SumOf(f, s \ {Pick(s)}) \in Nat
    BY <1>1, <2>1
  <2> QED BY <1>1, <1>2, <1>4, <2>1, <2>2 DEF Step
<1> QED BY <1>3, <1>4

\* One of several naturals is at most their sum.
LEMMA SumBounds ==
    ASSUME NEW f, NEW S, IsFiniteSet(S), \A x \in S : f[x] \in Nat, NEW y \in S
    PROVE  f[y] <= SumOf(f, S)
<1>1. SumOf(f, S) = f[y] + SumOf(f, S \ {y})
  BY SumRemove
<1>2. SumOf(f, S \ {y}) \in Nat
  BY SumNat, FS_Subset
<1> QED BY <1>1, <1>2

\* What is split in two is summed in two.
LEMMA SumUnion ==
    ASSUME NEW f, NEW S, IsFiniteSet(S), NEW U, IsFiniteSet(U), S \cap U = {},
           \A x \in S \cup U : f[x] \in Int
    PROVE  SumOf(f, S \cup U) = SumOf(f, S) + SumOf(f, U)
<1> DEFINE Splits(u) == SumOf(f, S \cup u) = SumOf(f, S) + SumOf(f, u)
<1> SUFFICES ASSUME ~Splits(U) PROVE FALSE
  OBVIOUS
<1> DEFINE T == {u \in SUBSET U : ~Splits(u)}
<1>1. PICK u \in T : \A t \in T : ~(t \subseteq u /\ t # u)
  <2>1. U \in T /\ T \subseteq SUBSET U
    OBVIOUS
  <2> HIDE DEF T
  <2> QED BY <2>1, Smallest
<1>2. u \in SUBSET U /\ ~Splits(u)
  BY <1>1
<1>3. \A t \in SUBSET u : t # u => Splits(t)
  BY <1>1, <1>2
<1>4. SumOf(f, S) \in Int
  BY SumType
<1>5. CASE u = {}
  <2>1. S \cup u = S /\ SumOf(f, u) = 0
    BY <1>5, SumEmpty
  <2>2. SumOf(f, S) + 0 = SumOf(f, S)
    BY <1>4
  <2>3. SumOf(f, S) + SumOf(f, u) = SumOf(f, S)
    BY <2>1, <2>2
  <2>4. SumOf(f, S \cup u) = SumOf(f, S)
    BY <2>1
  <2> QED BY <1>2, <2>3, <2>4
<1>6. CASE u # {}
  <2>1. PICK y \in u : TRUE
    BY <1>6
  <2>2. IsFiniteSet(u) /\ IsFiniteSet(u \ {y})
    BY <1>2, FS_Subset
  <2>3. IsFiniteSet(S \cup u)
    BY <2>2, FS_Union
  <2>4. (S \cup u) \ {y} = S \cup (u \ {y})
    BY <1>2, <2>1
  <2>5. SumOf(f, S \cup u) = f[y] + SumOf(f, S \cup (u \ {y}))
    <3>1. \A x \in S \cup u : f[x] \in Int
      BY <1>2
    <3> QED BY <2>1, <2>3, <2>4, <3>1, SumRemove
  <2>6. SumOf(f, u) = f[y] + SumOf(f, u \ {y})
    BY <1>2, <2>1, <2>2, SumRemove
  <2>7. Splits(u \ {y})
    BY <1>3, <2>1
  <2>8. SumOf(f, u \ {y}) \in Int /\ f[y] \in Int
    BY <1>2, <2>1, <2>2, SumType
  <2> QED BY <1>2, <1>4, <2>5, <2>6, <2>7, <2>8
<1> QED BY <1>5, <1>6

\* Naming the elements otherwise changes nothing, if no two get one name.
LEMMA SumRenamed ==
    ASSUME NEW f, NEW g, NEW h, NEW S, IsFiniteSet(S),
           \A x \in S : f[x] \in Int /\ g[h[x]] = f[x],
           \A x, y \in S : h[x] = h[y] => x = y
    PROVE  SumOf(g, {h[x] : x \in S}) = SumOf(f, S)
<1> DEFINE Image(s) == {h[x] : x \in s}
           Same(s) == SumOf(g, Image(s)) = SumOf(f, s)
<1> SUFFICES ASSUME ~Same(S) PROVE FALSE
  OBVIOUS
<1> DEFINE T == {s \in SUBSET S : ~Same(s)}
<1>1. PICK s \in T : \A t \in T : ~(t \subseteq s /\ t # s)
  <2>1. S \in T /\ T \subseteq SUBSET S
    OBVIOUS
  <2> HIDE DEF T
  <2> QED BY <2>1, Smallest
<1>2. s \in SUBSET S /\ ~Same(s)
  BY <1>1
<1>3. \A t \in SUBSET s : t # s => Same(t)
  BY <1>1, <1>2
<1>4. IsFiniteSet(s)
  BY <1>2, FS_Subset
<1>5. CASE s = {}
  BY <1>2, <1>5, SumEmpty
<1>6. CASE s # {}
  <2>1. PICK y \in s : TRUE
    BY <1>6
  <2>2. SumOf(f, s) = f[y] + SumOf(f, s \ {y})
    BY <1>2, <1>4, <2>1, SumRemove
  <2>3. IsFiniteSet(Image(s))
    <3>1. [z \in s |-> h[z]] \in Surjection(s, Image(s))
      BY DEF Surjection
    <3> HIDE DEF Image
    <3> QED BY <1>4, <3>1, FS_Surjection
  <2>4. Image(s) \ {h[y]} = Image(s \ {y})
    BY <1>2, <2>1
  <2>5. SumOf(g, Image(s)) = g[h[y]] + SumOf(g, Image(s) \ {h[y]})
    <3>1. \A z \in Image(s) : g[z] \in Int
      BY <1>2
    <3>2. h[y] \in Image(s)
      BY <2>1
    <3> HIDE DEF Image
    <3> QED BY <2>3, <3>1, <3>2, SumRemove
  <2>6. Same(s \ {y})
    BY <1>3, <2>1
  <2>7. g[h[y]] = f[y]
    BY <1>2, <2>1
  <2> HIDE DEF Image
  <2> QED BY <1>2, <2>2, <2>4, <2>5, <2>6, <2>7
<1> QED BY <1>5, <1>6

\* Two sets paired one to one with the same values have the same sum.
LEMMA SumOnto ==
    ASSUME NEW f, NEW g, NEW h, NEW S, NEW T, IsFiniteSet(S),
           \A x \in S : f[x] \in Int /\ g[h[x]] = f[x],
           \A x, y \in S : h[x] = h[y] => x = y,
           \A x \in S : h[x] \in T,
           \A y \in T : \E x \in S : y = h[x]
    PROVE  SumOf(g, T) = SumOf(f, S)
<1>1. T = {h[x] : x \in S}
  OBVIOUS
<1> DEFINE I == {h[x] : x \in S}
<1>2. SumOf(g, I) = SumOf(f, S)
  BY SumRenamed
<1> HIDE DEF I
<1>3. T = I
  BY <1>1 DEF I
<1> QED BY <1>2, <1>3

\* Zeros sum to zero.
LEMMA SumZero ==
    ASSUME NEW f, NEW S, IsFiniteSet(S), \A x \in S : f[x] = 0
    PROVE  SumOf(f, S) = 0
<1> SUFFICES ASSUME SumOf(f, S) # 0 PROVE FALSE
  OBVIOUS
<1> DEFINE T == {s \in SUBSET S : SumOf(f, s) # 0}
<1>1. PICK s \in T : \A t \in T : ~(t \subseteq s /\ t # s)
  <2>1. S \in T /\ T \subseteq SUBSET S
    OBVIOUS
  <2> HIDE DEF T
  <2> QED BY <2>1, Smallest
<1>2. Step(f, s)
  BY <1>1, SumStep, FS_Subset
<1>3. CASE s = {}
  BY <1>1, <1>2, <1>3 DEF Step
<1>4. CASE s # {}
  <2>1. Pick(s) \in s
    BY <1>4 DEF Pick
  <2>2. SumOf(f, s \ {Pick(s)}) = 0 /\ f[Pick(s)] = 0
    BY <1>1, <2>1
  <2> QED BY <1>1, <1>2, <1>4, <2>1, <2>2 DEF Step
<1> QED BY <1>3, <1>4

\* A list with one more at its end sums to that much more.
LEMMA SumNext ==
    ASSUME NEW f, NEW g, NEW n \in Nat, \A i \in 1..n : f[i] \in Int /\ g[i] = f[i],
           g[n + 1] \in Int
    PROVE  SumOf(g, 1..(n + 1)) = SumOf(f, 1..n) + g[n + 1]
<1>1. 1..(n + 1) = (1..n) \cup {n + 1} /\ n + 1 \notin 1..n
  OBVIOUS
<1> DEFINE S == 1..n
<1>2. IsFiniteSet(S)
  BY FS_Interval
<1>3. /\ \A i \in S : f[i] = g[i] /\ g[i] \in Int
      /\ n + 1 \notin S
  BY <1>1
<1> HIDE DEF S
<1>4. SumOf(f, S) = SumOf(g, S)
  BY <1>2, <1>3, SumSame
<1>5. SumOf(g, S \cup {n + 1}) = SumOf(g, S) + g[n + 1]
  BY <1>2, <1>3, SumAdd
<1> QED BY <1>1, <1>4, <1>5 DEF S

\* What is counted is never more than the whole.
LEMMA SumPart ==
    ASSUME NEW f, NEW T, IsFiniteSet(T), \A x \in T : f[x] \in Nat, NEW S \in SUBSET T
    PROVE  SumOf(f, S) <= SumOf(f, T)
<1> DEFINE R == T \ S
<1>1. IsFiniteSet(S) /\ IsFiniteSet(R) /\ S \cup R = T /\ S \cap R = {}
  BY FS_Subset
<1>2. SumOf(f, S) \in Nat /\ SumOf(f, R) \in Nat
  BY <1>1, SumNat
<1>3. SumOf(f, S \cup R) = SumOf(f, S) + SumOf(f, R)
  <2> HIDE DEF R
  <2>1. \A x \in S \cup R : f[x] \in Int
    BY <1>1
  <2> QED BY <1>1, <2>1, SumUnion
<1>4. SumOf(f, T) = SumOf(f, S) + SumOf(f, R)
  <2> HIDE DEF R
  <2>1. S \cup R = T
    BY <1>1
  <2> QED BY <1>3, <2>1, Zenon
<1> HIDE DEF R
<1> QED BY <1>2, <1>4

\* What is paid for by something else, each of it by one of its own, is not more.
LEMMA SumInto ==
    ASSUME NEW f, NEW g, NEW h, NEW S, IsFiniteSet(S), NEW T, IsFiniteSet(T),
           \A y \in T : g[y] \in Nat,
           \A x \in S : h[x] \in T /\ f[x] = g[h[x]],
           \A x, y \in S : h[x] = h[y] => x = y
    PROVE  SumOf(f, S) <= SumOf(g, T)
<1> DEFINE I == {h[x] : x \in S}
<1>1. I \in SUBSET T /\ \A x \in S : f[x] \in Int /\ g[h[x]] = f[x]
  OBVIOUS
<1>2. SumOf(g, I) = SumOf(f, S)
  BY <1>1, SumRenamed
<1> HIDE DEF I
<1> QED BY <1>1, <1>2, SumPart

\* Among finitely many places there is a first and a last.
LEMMA FirstAndLast ==
    ASSUME NEW n \in Nat, NEW S \in SUBSET (1 .. n), S # {}
    PROVE  Min(S) \in S /\ Max(S) \in S
<1>1. S \subseteq Nat /\ \A x \in S : x <= n
  OBVIOUS
<1>2. Min(S) \in S
  <2>1. PICK x \in S : \A y \in S : ~(y < x)
    BY <1>1, SmallestNat
  <2>2. \A y \in S : x <= y
    BY <1>1, <2>1
  <2> QED BY <2>2 DEF Min
<1>3. Max(S) \in S
  <2> DEFINE T == {m \in Nat : n - m \in S}
  <2>1. T # {}
    <3>1. PICK x \in S : TRUE
      OBVIOUS
    <3> QED BY <1>1, <3>1, n - (n - x) = x, n - x \in Nat
  <2>2. PICK t \in T : \A u \in T : ~(u < t)
    <3>1. T \subseteq Nat
      OBVIOUS
    <3> HIDE DEF T
    <3> QED BY <2>1, <3>1, SmallestNat
  <2>3. n - t \in S /\ \A y \in S : n - t >= y
    <3>1. \A y \in S : n - y \in Nat /\ n - (n - y) = y /\ y \in Nat
      BY <1>1
    <3>2. \A y \in S : n - y \in T
      BY <3>1
    <3> QED BY <2>2, <3>1, <3>2
  <2> QED BY <2>3 DEF Max
<1> QED BY <1>2, <1>3
=============================================================================
