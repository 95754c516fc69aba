---------------------------- MODULE Queries_proofs ----------------------------
(***************************************************************************)
(* What the queries compute, whatever the rows: SUM and COUNT over groups, *)
(* and RANK() over an ORDER BY.  A sum is defined by recursion over a      *)
(* finite set; what holds of every sum is shown by taking a smallest set   *)
(* of which it does not hold.                                              *)
(***************************************************************************)
EXTENDS Ranking, FiniteSetsExt, FiniteSetTheorems, WellFoundedInduction, TLAPS

-----------------------------------------------------------------------------
(* Induction on the subsets of a finite set. *)

\* Of some subsets of a finite set one has no other within it.
LEMMA SmallestSubset ==
  ASSUME NEW S, IsFiniteSet(S), NEW D, D \subseteq SUBSET S, D # {}
  PROVE  \E T \in D : \A U \in D : U \subseteq T => U = T
<1>1. IsWellFoundedOn(StrictSubsetOrdering(S), SUBSET S)
  BY FS_StrictSubsetOrderingWellFounded, FS_FiniteSubsetsOfFinite
<1>2. PICK T \in D : \A U \in D : <<U, T>> \notin StrictSubsetOrdering(S)
  BY <1>1, WFMin
<1>3. QED BY <1>2 DEF StrictSubsetOrdering

\* What holds of the empty set, and of any other if it holds of all sets that have
\* one element less, holds of every subset.
LEMMA SubsetInduction ==
  ASSUME NEW S, IsFiniteSet(S), NEW D, D \subseteq SUBSET S, {} \in D,
         \A T \in SUBSET S : T # {} /\ (\A x \in T : T \ {x} \in D) => T \in D
  PROVE  \A T \in SUBSET S : T \in D
<1> DEFINE E == (SUBSET S) \ D
<1>1. SUFFICES ASSUME E # {} PROVE FALSE  OBVIOUS
<1>2. PICK T \in E : \A U \in E : U \subseteq T => U = T
  <2>1. E \subseteq SUBSET S  OBVIOUS
  <2> HIDE DEF E
  <2>2. QED BY <1>1, <2>1, SmallestSubset
<1>3. T # {} /\ T \in SUBSET S /\ T \notin D  BY <1>2
<1>4. ASSUME NEW x \in T PROVE T \ {x} \in D
  <2>1. T \ {x} \in SUBSET S /\ T \ {x} \subseteq T /\ T \ {x} # T  BY <1>3
  <2>2. QED BY <1>2, <2>1
<1>5. QED BY <1>3, <1>4

-----------------------------------------------------------------------------
(* The recursion. *)

First(s) == CHOOSE x \in s : TRUE

\* g[s] is the sum of what the function w has at the elements of s.
IsSum(g, w, S) ==
  g = [s \in SUBSET S |-> IF s = {} THEN 0 ELSE w[First(s)] + g[s \ {First(s)}]]

SumOf(w, S) == (CHOOSE g : IsSum(g, w, S))[S]

LEMMA FirstIsIn == \A s : s # {} => First(s) \in s
BY DEF First

LEMMA SumAt ==
  ASSUME NEW S, NEW w, NEW g, IsSum(g, w, S), NEW s \in SUBSET S
  PROVE  g[s] = IF s = {} THEN 0 ELSE w[First(s)] + g[s \ {First(s)}]
BY DEF IsSum

\* Recursions over different sets agree where both are defined.
LEMMA SumsAgree ==
  ASSUME NEW S, IsFiniteSet(S), NEW T, NEW w, NEW g, NEW h, IsSum(g, w, S), IsSum(h, w, T),
         NEW s, s \subseteq S, s \subseteq T
  PROVE  g[s] = h[s]
<1> DEFINE D == {u \in SUBSET S : u \subseteq T /\ g[u] # h[u]}
<1>1. SUFFICES ASSUME D # {} PROVE FALSE  OBVIOUS
<1>2. PICK u \in D : \A v \in D : v \subseteq u => v = u
  <2>1. D \subseteq SUBSET S  OBVIOUS
  <2> HIDE DEF D
  <2>2. QED BY <1>1, <2>1, SmallestSubset
<1>3. g[u] = IF u = {} THEN 0 ELSE w[First(u)] + g[u \ {First(u)}]
  BY <1>2, SumAt
<1>4. h[u] = IF u = {} THEN 0 ELSE w[First(u)] + h[u \ {First(u)}]
  <2>1. u \in SUBSET T  BY <1>2
  <2>2. QED BY <2>1, SumAt
<1>5. u # {}  BY <1>2, <1>3, <1>4
<1>6. u \ {First(u)} \in SUBSET S /\ u \ {First(u)} \subseteq T /\ u \ {First(u)} \subseteq u
      /\ u \ {First(u)} # u
  BY <1>2, <1>5, FirstIsIn
<1>7. g[u \ {First(u)}] = h[u \ {First(u)}]  BY <1>2, <1>6
<1>8. QED BY <1>2, <1>3, <1>4, <1>7

\* The recursion defines a function.
LEMMA SumExists ==
  ASSUME NEW S, IsFiniteSet(S), NEW w
  PROVE  \E g : IsSum(g, w, S)
<1> DEFINE D == {T \in SUBSET S : ~ \E g : IsSum(g, w, T)}
<1>1. SUFFICES ASSUME D # {} PROVE FALSE  OBVIOUS
<1>2. PICK T \in D : \A U \in D : U \subseteq T => U = T
  <2>1. D \subseteq SUBSET S  OBVIOUS
  <2> HIDE DEF D
  <2>2. QED BY <1>1, <2>1, SmallestSubset
<1> DEFINE G(U)   == CHOOSE g : IsSum(g, w, U)
           val(s) == IF s = {} THEN 0 ELSE w[First(s)] + G(s \ {First(s)})[s \ {First(s)}]
           f      == [s \in SUBSET T |-> val(s)]
<1>3. ASSUME NEW U, U \subseteq T, U # T PROVE IsSum(G(U), w, U) /\ IsFiniteSet(U)
  <2>1. U \in SUBSET S /\ U \notin D  BY <1>2, <1>3
  <2>2. \E g : IsSum(g, w, U)  BY <2>1
  <2>3. IsSum(G(U), w, U)  BY <2>2
  <2>4. IsFiniteSet(U)  BY <2>1, FS_Subset
  <2>5. QED BY <2>3, <2>4
<1> HIDE DEF G
<1>4. ASSUME NEW r, r \subseteq T, r # T PROVE val(r) = G(r)[r]
  <2>1. IsSum(G(r), w, r)  BY <1>3, <1>4
  <2>2. G(r)[r] = IF r = {} THEN 0 ELSE w[First(r)] + G(r)[r \ {First(r)}]
    BY <2>1, SumAt
  <2>3. CASE r = {}  BY <2>2, <2>3
  <2>4. CASE r # {}
    <3> DEFINE q == r \ {First(r)}
    <3>1. q \subseteq T /\ q # T /\ q \subseteq r  BY <1>4, <2>4, FirstIsIn
    <3>2. IsSum(G(q), w, q) /\ IsFiniteSet(q)  BY <1>3, <3>1
    <3>3. G(q)[q] = G(r)[q]
      <4>1. q \subseteq q  OBVIOUS
      <4>2. QED BY <2>1, <3>1, <3>2, <4>1, SumsAgree
    <3>4. QED BY <2>2, <2>4, <3>3
  <2>5. QED BY <2>3, <2>4
<1>5. ASSUME NEW s \in SUBSET T
      PROVE  f[s] = IF s = {} THEN 0 ELSE w[First(s)] + f[s \ {First(s)}]
  <2>1. CASE s = {}  BY <2>1
  <2>2. CASE s # {}
    <3> DEFINE q == s \ {First(s)}
    <3>1. q \in SUBSET T /\ q # T  BY <2>2, FirstIsIn
    <3>2. f[q] = val(q) /\ val(q) = G(q)[q]  BY <1>4, <3>1
    <3>3. f[s] = w[First(s)] + G(q)[q]  BY <2>2
    <3>4. QED BY <2>2, <3>2, <3>3
  <2>3. QED BY <2>1, <2>2
<1>6. f = [s \in SUBSET T |-> IF s = {} THEN 0 ELSE w[First(s)] + f[s \ {First(s)}]]
  BY <1>5
<1>7. IsSum(f, w, T)  BY <1>6 DEF IsSum
<1>8. QED BY <1>2, <1>7

\* A sum is what is at some element and the sum over the others.
LEMMA SumUnfolds ==
  ASSUME NEW S, IsFiniteSet(S), NEW w
  PROVE  SumOf(w, S) = IF S = {} THEN 0 ELSE w[First(S)] + SumOf(w, S \ {First(S)})
<1> DEFINE G(U) == CHOOSE g : IsSum(g, w, U)
           R    == S \ {First(S)}
<1>1. IsFiniteSet(R)  BY FS_Subset
<1>2. IsSum(G(S), w, S) /\ IsSum(G(R), w, R)  BY <1>1, SumExists
<1>3. SumOf(w, S) = G(S)[S] /\ SumOf(w, R) = G(R)[R]  BY DEF SumOf
<1> HIDE DEF G
<1>4. G(S)[S] = IF S = {} THEN 0 ELSE w[First(S)] + G(S)[R]
  <2>1. S \in SUBSET S  OBVIOUS
  <2>2. QED BY <1>2, <2>1, SumAt
<1>5. G(S)[R] = G(R)[R]
  <2>1. R \subseteq S /\ R \subseteq R  OBVIOUS
  <2> HIDE DEF R
  <2>2. QED BY <1>2, <2>1, SumsAgree
<1>6. QED BY <1>3, <1>4, <1>5

LEMMA SumEmpty == ASSUME NEW w PROVE SumOf(w, {}) = 0
BY SumUnfolds, FS_EmptySet

\* What SumOf takes: an integer at each element of a finite set.
Summable(w, S) == IsFiniteSet(S) /\ \A x \in S : w[x] \in Int

LEMMA SummableSubset ==
  ASSUME NEW S, NEW w, Summable(w, S), NEW T, T \subseteq S
  PROVE  Summable(w, T)
BY FS_Subset DEF Summable

LEMMA SumType ==
  ASSUME NEW S, NEW w, Summable(w, S)
  PROVE  SumOf(w, S) \in Int
<1> DEFINE D == {T \in SUBSET S : SumOf(w, T) \in Int}
<1>1. {} \in D  BY SumEmpty
<1>2. ASSUME NEW T \in SUBSET S, \A x \in T : T \ {x} \in D, T # {} PROVE T \in D
  <2>1. First(T) \in T /\ IsFiniteSet(T)  BY <1>2, FirstIsIn, FS_Subset DEF Summable
  <2>2. SumOf(w, T) = w[First(T)] + SumOf(w, T \ {First(T)})  BY <1>2, <2>1, SumUnfolds
  <2>3. w[First(T)] \in Int /\ SumOf(w, T \ {First(T)}) \in Int
    BY <1>2, <2>1 DEF Summable
  <2>4. QED BY <2>2, <2>3
<1>3. IsFiniteSet(S) /\ D \subseteq SUBSET S  BY DEF Summable
<1> HIDE DEF D
<1>4. \A T \in SUBSET S : T \in D  BY <1>1, <1>2, <1>3, SubsetInduction
<1>5. QED BY <1>4 DEF D

\* Any element may be the first.
LEMMA SumRemove ==
  ASSUME NEW S, NEW w, Summable(w, S), NEW x \in S
  PROVE  SumOf(w, S) = w[x] + SumOf(w, S \ {x})
<1> DEFINE D == {T \in SUBSET S : \E y \in T : SumOf(w, T) # w[y] + SumOf(w, T \ {y})}
<1>1. SUFFICES ASSUME D # {} PROVE FALSE  OBVIOUS
<1>2. PICK T \in D : \A U \in D : U \subseteq T => U = T
  <2>1. D \subseteq SUBSET S /\ IsFiniteSet(S)  BY DEF Summable
  <2> HIDE DEF D
  <2>2. QED BY <1>1, <2>1, SmallestSubset
<1>3. PICK y \in T : SumOf(w, T) # w[y] + SumOf(w, T \ {y})  BY <1>2
<1> DEFINE c == First(T)
           A == T \ {c}
           B == T \ {y}
           C == T \ {c, y}
<1>4. /\ c \in T /\ T \subseteq S /\ IsFiniteSet(T)
  BY <1>2, <1>3, FirstIsIn, FS_Subset DEF Summable
<1>5. SumOf(w, T) = w[c] + SumOf(w, A)  BY <1>3, <1>4, SumUnfolds
<1>6. c # y  BY <1>3, <1>5
<1>7. /\ A \in SUBSET S /\ A \subseteq T /\ A # T /\ y \in A /\ A \ {y} = C
      /\ B \in SUBSET S /\ B \subseteq T /\ B # T /\ c \in B /\ B \ {c} = C
  BY <1>3, <1>4, <1>6
<1>8. A \notin D /\ B \notin D  BY <1>2, <1>7
<1>9. /\ SumOf(w, A) = w[y] + SumOf(w, C)
      /\ SumOf(w, B) = w[c] + SumOf(w, C)
  BY <1>7, <1>8
<1>10. w[c] \in Int /\ w[y] \in Int  BY <1>3, <1>4 DEF Summable
<1>11. SumOf(w, C) \in Int
  <2>1. Summable(w, C)  BY <1>4, SummableSubset
  <2>2. QED BY <2>1, SumType
<1> HIDE DEF c, A, B, C
<1>12. SumOf(w, T) = w[y] + SumOf(w, B)  BY <1>5, <1>9, <1>10, <1>11
<1>13. QED BY <1>3, <1>12 DEF B

-----------------------------------------------------------------------------
(* Sums of other functions, and over other sets. *)

LEMMA SumEqual ==
  ASSUME NEW S, NEW w, NEW v, IsFiniteSet(S), \A x \in S : w[x] = v[x]
  PROVE  SumOf(w, S) = SumOf(v, S)
<1> DEFINE D == {T \in SUBSET S : SumOf(w, T) = SumOf(v, T)}
<1>1. {} \in D  BY SumEmpty
<1>2. ASSUME NEW T \in SUBSET S, \A x \in T : T \ {x} \in D, T # {} PROVE T \in D
  <2>1. First(T) \in T /\ IsFiniteSet(T)  BY <1>2, FirstIsIn, FS_Subset
  <2>2. /\ SumOf(w, T) = w[First(T)] + SumOf(w, T \ {First(T)})
        /\ SumOf(v, T) = v[First(T)] + SumOf(v, T \ {First(T)})
    BY <1>2, <2>1, SumUnfolds
  <2>3. SumOf(w, T \ {First(T)}) = SumOf(v, T \ {First(T)})  BY <1>2, <2>1
  <2>4. QED BY <2>1, <2>2, <2>3
<1>3. D \subseteq SUBSET S  OBVIOUS
<1> HIDE DEF D
<1>4. \A T \in SUBSET S : T \in D  BY <1>1, <1>2, <1>3, SubsetInduction
<1>5. QED BY <1>4 DEF D

LEMMA SumPlus ==
  ASSUME NEW S, NEW w, NEW v, NEW u, Summable(w, S), Summable(v, S),
         \A x \in S : u[x] = w[x] + v[x]
  PROVE  SumOf(u, S) = SumOf(w, S) + SumOf(v, S)
<1> DEFINE D == {T \in SUBSET S : SumOf(u, T) = SumOf(w, T) + SumOf(v, T)}
<1>1. {} \in D
  <2>1. SumOf(u, {}) = 0 /\ SumOf(w, {}) = 0 /\ SumOf(v, {}) = 0  BY SumEmpty
  <2>2. QED BY <2>1
<1>2. ASSUME NEW T \in SUBSET S, \A x \in T : T \ {x} \in D, T # {} PROVE T \in D
  <2> DEFINE R == T \ {First(T)}
  <2>1. First(T) \in T /\ IsFiniteSet(T)  BY <1>2, FirstIsIn, FS_Subset DEF Summable
  <2>2. /\ SumOf(w, T) = w[First(T)] + SumOf(w, R)
        /\ SumOf(v, T) = v[First(T)] + SumOf(v, R)
        /\ SumOf(u, T) = u[First(T)] + SumOf(u, R)
    BY <1>2, <2>1, SumUnfolds
  <2>3. SumOf(u, R) = SumOf(w, R) + SumOf(v, R)  BY <1>2, <2>1
  <2>4. SumOf(w, R) \in Int /\ SumOf(v, R) \in Int
    <3>1. Summable(w, R) /\ Summable(v, R)  BY SummableSubset
    <3>2. QED BY <3>1, SumType
  <2>5. w[First(T)] \in Int /\ v[First(T)] \in Int  BY <2>1 DEF Summable
  <2>6. u[First(T)] = w[First(T)] + v[First(T)]  BY <2>1
  <2> HIDE DEF R
  <2>7. SumOf(u, T) = SumOf(w, T) + SumOf(v, T)  BY <2>2, <2>3, <2>4, <2>5, <2>6
  <2>8. QED BY <2>7
<1>3. D \subseteq SUBSET S /\ IsFiniteSet(S)  BY DEF Summable
<1> HIDE DEF D
<1>4. \A T \in SUBSET S : T \in D  BY <1>1, <1>2, <1>3, SubsetInduction
<1>5. QED BY <1>4 DEF D

LEMMA SumLessOrEqual ==
  ASSUME NEW S, NEW w, NEW v, Summable(w, S), Summable(v, S), \A x \in S : w[x] <= v[x]
  PROVE  SumOf(w, S) <= SumOf(v, S)
<1> DEFINE D == {T \in SUBSET S : SumOf(w, T) <= SumOf(v, T)}
<1>1. {} \in D
  <2>1. SumOf(w, {}) = 0 /\ SumOf(v, {}) = 0  BY SumEmpty
  <2>2. QED BY <2>1
<1>2. ASSUME NEW T \in SUBSET S, \A x \in T : T \ {x} \in D, T # {} PROVE T \in D
  <2> DEFINE R == T \ {First(T)}
  <2>1. First(T) \in T /\ IsFiniteSet(T)  BY <1>2, FirstIsIn, FS_Subset DEF Summable
  <2>2. /\ SumOf(w, T) = w[First(T)] + SumOf(w, R)
        /\ SumOf(v, T) = v[First(T)] + SumOf(v, R)
    BY <1>2, <2>1, SumUnfolds
  <2>3. SumOf(w, R) <= SumOf(v, R)  BY <1>2, <2>1
  <2>4. SumOf(w, R) \in Int /\ SumOf(v, R) \in Int
    <3>1. Summable(w, R) /\ Summable(v, R)  BY SummableSubset
    <3>2. QED BY <3>1, SumType
  <2>5. w[First(T)] \in Int /\ v[First(T)] \in Int  BY <2>1 DEF Summable
  <2>6. w[First(T)] <= v[First(T)]  BY <2>1
  <2> HIDE DEF R
  <2>7. SumOf(w, T) <= SumOf(v, T)  BY <2>2, <2>3, <2>4, <2>5, <2>6
  <2>8. QED BY <2>7
<1>3. D \subseteq SUBSET S /\ IsFiniteSet(S)  BY DEF Summable
<1> HIDE DEF D
<1>4. \A T \in SUBSET S : T \in D  BY <1>1, <1>2, <1>3, SubsetInduction
<1>5. QED BY <1>4 DEF D

\* A sum of zeros and ones counts the ones.
LEMMA SumCounts ==
  ASSUME NEW S, IsFiniteSet(S), NEW w, NEW C, \A x \in S : w[x] = IF x \in C THEN 1 ELSE 0
  PROVE  SumOf(w, S) = Cardinality(S \cap C)
<1> DEFINE D == {T \in SUBSET S : SumOf(w, T) = Cardinality(T \cap C)}
<1>1. {} \in D
  <2>1. SumOf(w, {}) = 0 /\ {} \cap C = {} /\ Cardinality({}) = 0  BY SumEmpty, FS_EmptySet
  <2>2. QED BY <2>1
<1>2. ASSUME NEW T \in SUBSET S, \A x \in T : T \ {x} \in D, T # {} PROVE T \in D
  <2> DEFINE x == First(T)
             R == T \ {x}
  <2>1. x \in T /\ x \in S /\ IsFiniteSet(T) /\ IsFiniteSet(T \cap C) /\ IsFiniteSet(R \cap C)
    BY <1>2, FirstIsIn, FS_Subset
  <2>2. SumOf(w, T) = w[x] + SumOf(w, R)  BY <1>2, <2>1, SumUnfolds
  <2>3. SumOf(w, R) = Cardinality(R \cap C)  BY <1>2, <2>1
  <2>4. Cardinality(R \cap C) \in Nat  BY <2>1, FS_CardinalityType
  <2> HIDE DEF x
  <2>5. CASE x \in C
    <3>1. T \cap C = (R \cap C) \cup {x} /\ x \notin R \cap C  BY <2>1, <2>5
    <3>2. Cardinality(T \cap C) = Cardinality(R \cap C) + 1  BY <2>1, <3>1, FS_AddElement
    <3>3. w[x] = 1  BY <2>1, <2>5
    <3>4. QED BY <2>2, <2>3, <2>4, <3>2, <3>3
  <2>6. CASE x \notin C
    <3>1. T \cap C = R \cap C  BY <2>6
    <3>2. w[x] = 0  BY <2>1, <2>6
    <3>3. SumOf(w, T) = SumOf(w, R)
      <4>1. SumOf(w, R) \in Int  BY <2>3, <2>4
      <4> HIDE DEF R
      <4>2. QED BY <2>2, <3>2, <4>1
    <3>4. SumOf(w, T) = Cardinality(T \cap C)  BY <2>3, <3>1, <3>3, Zenon
    <3>5. QED BY <3>4
  <2>7. QED BY <2>5, <2>6
<1>3. D \subseteq SUBSET S  OBVIOUS
<1> HIDE DEF D
<1>4. \A T \in SUBSET S : T \in D  BY <1>1, <1>2, <1>3, SubsetInduction
<1>5. QED BY <1>4 DEF D

\* COUNT(*) is a sum.
Ones(S) == [x \in S |-> 1]

LEMMA SumOfOnes ==
  ASSUME NEW S, IsFiniteSet(S)
  PROVE  Cardinality(S) = SumOf(Ones(S), S)
<1>1. \A x \in S : Ones(S)[x] = IF x \in S THEN 1 ELSE 0  BY DEF Ones
<1>2. SumOf(Ones(S), S) = Cardinality(S \cap S)  BY <1>1, SumCounts
<1>3. S \cap S = S  OBVIOUS
<1>4. QED BY <1>2, <1>3

LEMMA SumOfTwo ==
  ASSUME NEW a, NEW b, a # b, NEW w, w[a] \in Int, w[b] \in Int
  PROVE  SumOf(w, {a, b}) = w[a] + w[b]
<1>1. IsFiniteSet({a, b})
  <2>1. IsFiniteSet({b})  BY FS_Singleton
  <2>2. IsFiniteSet({b} \cup {a})  BY <2>1, FS_AddElement
  <2>3. {b} \cup {a} = {a, b}  OBVIOUS
  <2>4. QED BY <2>2, <2>3, Zenon
<1>2. Summable(w, {a, b})  BY <1>1 DEF Summable
<1>3. SumOf(w, {a, b}) = w[a] + SumOf(w, {b})
  <2>1. {a, b} \ {a} = {b} /\ a \in {a, b}  OBVIOUS
  <2>2. QED BY <1>2, <2>1, SumRemove
<1>4. SumOf(w, {b}) = w[b] + SumOf(w, {})
  <2>1. {b} \ {b} = {} /\ b \in {b}  OBVIOUS
  <2>2. Summable(w, {b})  BY <1>2, SummableSubset
  <2>3. QED BY <2>1, <2>2, SumRemove
<1>5. QED BY <1>3, <1>4, SumEmpty

\* GROUP BY: the sums of the groups add up to the sum.
LEMMA SumGroups ==
  ASSUME NEW S, NEW K, NEW w, NEW f, NEW group, NEW t, Summable(w, S), IsFiniteSet(K),
         \A x \in S : f[x] \in K,
         \A k \in K : group[k] \subseteq S,
         \A k \in K, x \in S : x \in group[k] <=> f[x] = k,
         \A k \in K : t[k] = SumOf(w, group[k])
  PROVE  SumOf(t, K) = SumOf(w, S)
<1> DEFINE Part(T, k) == {x \in T : f[x] = k}
           sums(T)    == [k \in K |-> SumOf(w, Part(T, k))]
           D          == {T \in SUBSET S : SumOf(sums(T), K) = SumOf(w, T)}
<1>1. {} \in D
  <2>1. \A k \in K : sums({})[k] = IF k \in {} THEN 1 ELSE 0  BY SumEmpty
  <2>2. SumOf(sums({}), K) = Cardinality(K \cap {})  BY <2>1, SumCounts
  <2>3. K \cap {} = {} /\ Cardinality({}) = 0  BY FS_EmptySet
  <2>4. QED BY <2>2, <2>3, SumEmpty
<1>2. ASSUME NEW T \in SUBSET S, \A x \in T : T \ {x} \in D, T # {} PROVE T \in D
  <2> DEFINE x == First(T)
             R == T \ {x}
             j == f[x]
  <2>1. x \in T /\ x \in S /\ j \in K  BY <1>2, FirstIsIn
  <2>2. Summable(w, T) /\ Summable(w, R)  BY SummableSubset
  <2>3. w[x] \in Int  BY <2>1 DEF Summable
  <2>4. SumOf(w, T) = w[x] + SumOf(w, R)  BY <2>1, <2>2, SumRemove
  <2>5. SumOf(sums(R), K) = SumOf(w, R)  BY <1>2, <2>1
  <2> HIDE DEF x
  <2>6. ASSUME NEW k \in K PROVE Summable(w, Part(T, k)) /\ Summable(w, Part(R, k))
    BY <2>2, SummableSubset
  <2>7. ASSUME NEW k \in K \ {j} PROVE sums(T)[k] = sums(R)[k]
    <3>1. Part(T, k) = Part(R, k)  OBVIOUS
    <3>2. QED BY <3>1
  <2>8. sums(T)[j] = w[x] + sums(R)[j]
    <3>1. x \in Part(T, j) /\ Part(T, j) \ {x} = Part(R, j)  BY <2>1
    <3>2. SumOf(w, Part(T, j)) = w[x] + SumOf(w, Part(R, j))
      BY <2>1, <2>6, <3>1, SumRemove
    <3>3. QED BY <2>1, <3>2
  <2>9. Summable(sums(T), K) /\ Summable(sums(R), K)
    <3>1. \A k \in K : sums(T)[k] \in Int /\ sums(R)[k] \in Int  BY <2>6, SumType
    <3>2. QED BY <3>1 DEF Summable
  <2>10. IsFiniteSet(K \ {j}) /\ Summable(sums(R), K \ {j})
    BY <2>9, SummableSubset DEF Summable
  <2>11. SumOf(sums(R), K \ {j}) \in Int /\ sums(R)[j] \in Int
    <3>1. SumOf(sums(R), K \ {j}) \in Int  BY <2>10, SumType
    <3>2. QED BY <2>1, <2>9, <3>1 DEF Summable
  <2> HIDE DEF sums
  <2>12. SumOf(sums(T), K \ {j}) = SumOf(sums(R), K \ {j})
    BY <2>7, <2>10, SumEqual
  <2>13. /\ SumOf(sums(T), K) = sums(T)[j] + SumOf(sums(T), K \ {j})
         /\ SumOf(sums(R), K) = sums(R)[j] + SumOf(sums(R), K \ {j})
    BY <2>1, <2>9, SumRemove
  <2> HIDE DEF R, j
  <2>14. SumOf(sums(T), K) = SumOf(w, T)
    BY <2>3, <2>4, <2>5, <2>8, <2>11, <2>12, <2>13
  <2>15. QED BY <2>14
<1>3. D \subseteq SUBSET S /\ IsFiniteSet(S)  BY DEF Summable
<1>4. SumOf(sums(S), K) = SumOf(t, K)
  <2>1. ASSUME NEW k \in K PROVE sums(S)[k] = t[k]
    <3>1. Part(S, k) = group[k]  OBVIOUS
    <3>2. QED BY <3>1
  <2> HIDE DEF sums
  <2>2. QED BY <2>1, SumEqual
<1> HIDE DEF D
<1>5. \A T \in SUBSET S : T \in D  BY <1>1, <1>2, <1>3, SubsetInduction
<1>6. S \in D  BY <1>5
<1>7. QED BY <1>4, <1>6 DEF D

LEMMA FiniteImage ==
  ASSUME NEW S, IsFiniteSet(S), NEW h
  PROVE  IsFiniteSet({h[x] : x \in S})
<1> DEFINE g == [x \in S |-> h[x]]
<1>1. g \in Surjection(S, {h[x] : x \in S})  BY DEF Surjection
<1>2. QED BY <1>1, FS_Surjection

\* A sum over the images of keys that no two of them share is one over the keys.
LEMMA SumOverKeys ==
  ASSUME NEW K, NEW h, NEW v, NEW w, Summable(w, K),
         \A j, k \in K : h[j] = h[k] => j = k,
         \A k \in K : v[h[k]] = w[k]
  PROVE  SumOf(v, {h[k] : k \in K}) = SumOf(w, K)
<1> DEFINE Image(T) == {h[k] : k \in T}
           D        == {T \in SUBSET K : SumOf(v, Image(T)) = SumOf(w, T)}
<1>1. {} \in D
  <2>1. Image({}) = {}  OBVIOUS
  <2>2. QED BY <2>1, SumEmpty
<1>2. ASSUME NEW T \in SUBSET K, \A x \in T : T \ {x} \in D, T # {} PROVE T \in D
  <2> DEFINE x == First(T)
             R == T \ {x}
  <2>1. x \in T /\ x \in K  BY <1>2, FirstIsIn
  <2>2. Summable(w, T)  BY SummableSubset
  <2>3. SumOf(w, T) = w[x] + SumOf(w, R)  BY <2>1, <2>2, SumRemove
  <2>4. SumOf(v, Image(R)) = SumOf(w, R)  BY <1>2, <2>1
  <2> HIDE DEF x
  <2>5. h[x] \in Image(T) /\ Image(T) \ {h[x]} = Image(R)  BY <2>1
  <2>6. Summable(v, Image(T))
    <3>1. IsFiniteSet(T)  BY <2>2 DEF Summable
    <3>2. IsFiniteSet(Image(T))  BY <3>1, FiniteImage
    <3>3. \A y \in Image(T) : v[y] \in Int  BY DEF Summable
    <3>4. QED BY <3>2, <3>3 DEF Summable
  <2>7. SumOf(v, Image(T)) = v[h[x]] + SumOf(v, Image(R))  BY <2>5, <2>6, SumRemove
  <2>8. SumOf(v, Image(T)) = SumOf(w, T)  BY <2>1, <2>3, <2>4, <2>7
  <2>9. QED BY <2>8
<1>3. D \subseteq SUBSET K /\ IsFiniteSet(K)  BY DEF Summable
<1> HIDE DEF D
<1>4. \A T \in SUBSET K : T \in D  BY <1>1, <1>2, <1>3, SubsetInduction
<1>5. K \in D  BY <1>4
<1>6. QED BY <1>5 DEF D

-----------------------------------------------------------------------------
(* RANK(). *)

LEMMA BeforeMember ==
  ASSUME NEW rows, NEW ahead, ahead \subseteq rows \X rows, NEW t, NEW u
  PROVE  u \in Before(ahead, t) <=> <<u, t>> \in ahead
  BY DEF Before

LEMMA BeforeFinite ==
  ASSUME NEW rows, IsFiniteSet(rows), NEW ahead, ahead \subseteq rows \X rows, NEW t
  PROVE  /\ Before(ahead, t) \subseteq rows
         /\ IsFiniteSet(Before(ahead, t))
         /\ Cardinality(Before(ahead, t)) \in Nat
<1>1. Before(ahead, t) \subseteq rows
  BY DEF Before
<1>2. IsFiniteSet(Before(ahead, t))
  BY <1>1, FS_Subset
<1> QED
  BY <1>1, <1>2, FS_CardinalityType

\* A row that sorts before another has fewer rows before it, and only then.
LEMMA RankFollowsOrder ==
  ASSUME NEW rows, IsFiniteSet(rows), NEW ahead, IsOrderBy(ahead, rows)
  PROVE  FollowsOrder(ahead, rows)
<1> SUFFICES ASSUME NEW t \in rows, NEW u \in rows
             PROVE  Rank(ahead, t) < Rank(ahead, u) <=> <<t, u>> \in ahead
  BY DEF FollowsOrder
<1>1. ahead \subseteq rows \X rows
  BY DEF IsOrderBy
<1>2. Cardinality(Before(ahead, t)) \in Nat /\ Cardinality(Before(ahead, u)) \in Nat
  BY <1>1, BeforeFinite
<1>3. IsFiniteSet(Before(ahead, t)) /\ IsFiniteSet(Before(ahead, u))
  BY <1>1, BeforeFinite
<1>4. CASE <<t, u>> \in ahead
  <2>1. Before(ahead, t) \subseteq Before(ahead, u)
    BY <1>1, <1>4, BeforeMember, BeforeFinite DEF IsOrderBy
  <2>2. t \in Before(ahead, u) /\ t \notin Before(ahead, t)
    BY <1>1, <1>4, BeforeMember DEF IsOrderBy
  <2>3. Cardinality(Before(ahead, t)) < Cardinality(Before(ahead, u))
    BY <1>2, <1>3, <2>1, <2>2, FS_Subset
  <2> QED
    BY <1>2, <1>4, <2>3 DEF Rank
<1>5. CASE <<t, u>> \notin ahead
  <2>1. Before(ahead, u) \subseteq Before(ahead, t)
    BY <1>1, <1>5, BeforeMember, BeforeFinite DEF IsOrderBy
  <2>2. Cardinality(Before(ahead, u)) <= Cardinality(Before(ahead, t))
    BY <1>3, <2>1, FS_Subset
  <2> QED
    BY <1>2, <1>5, <2>2 DEF Rank
<1> QED
  BY <1>4, <1>5

\* RANK() over any ORDER BY is a proper ranking.
THEOREM RankIsProper ==
  ASSUME NEW rows, IsFiniteSet(rows), NEW ahead, IsOrderBy(ahead, rows)
  PROVE  ProperRanking(ahead, rows)
<1>1. FollowsOrder(ahead, rows)
  BY RankFollowsOrder
<1>2. ahead \subseteq rows \X rows
  BY DEF IsOrderBy
<1>3. ASSUME NEW t \in rows
      PROVE  Before(ahead, t) = {u \in rows : Rank(ahead, u) < Rank(ahead, t)}
  BY <1>1, <1>2, BeforeMember, BeforeFinite DEF FollowsOrder
<1>4. CountsBetter(ahead, rows)
  BY <1>3 DEF CountsBetter, Rank
<1> QED
  BY <1>1, <1>4 DEF ProperRanking
=============================================================================
