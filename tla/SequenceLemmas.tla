--------------------------- MODULE SequenceLemmas ---------------------------
(***************************************************************************)
(* Facts that the proofs of the components share.  A set of numbers has a  *)
(* least one, which is how these proofs do induction; with it, recursive   *)
(* functions on numbers and on finite sets exist and FlattenSeq keeps what *)
(* it joins.  For sequences of unknown element type: what appending,       *)
(* replacing, removing and concatenating do to the length and to the other *)
(* entries, and where the parts of a joined sequence begin.                *)
(***************************************************************************)
EXTENDS Integers, SequencesExt, SequenceTheorems, FiniteSetTheorems, NaturalsInduction,
        WellFoundedInduction, TLAPS

\* A nonempty set of natural numbers has a least element: applied to the set of
\* the numbers for which something fails, it stands for induction.
LEMMA LeastNatural ==
    ASSUME NEW S, S \subseteq Nat, S # {}
    PROVE  \E x \in S : \A y \in S : x <= y
<1> DEFINE R == {p \in Nat \X Nat : p[1] < p[2]}
<1>1. OpToRel(<, Nat) = R
  BY Zenon DEF OpToRel
<1>2. IsWellFoundedOn(R, Nat)
  BY <1>1, NatLessThanWellFounded, Zenon
<1>3. PICK x \in S : \A y \in S : ~(<<y, x>> \in R)
  BY <1>2, WFMin, Zenon
<1>4. \A y \in S : ~(y < x)
  BY <1>3
<1> QED BY <1>3, <1>4

LEMMA MinFacts ==
    ASSUME NEW S, S \subseteq Nat, S # {}
    PROVE  Min(S) \in S /\ \A y \in S : Min(S) <= y
BY LeastNatural DEF Min

\* The functions on 1 .. N that begin with a and continue by G.
Recursion(V, a, G, N) ==
    {f \in [1 .. N -> V] : \A n \in 1 .. N : f[n] = IF n = 1 THEN a ELSE G[n][f[n - 1]]}

\* A recursive function on 1 .. N exists if each value comes from the last one.
LEMMA RecursionExists ==
    ASSUME NEW V, NEW a \in V, NEW G \in [Nat -> [V -> V]], NEW N \in Nat
    PROVE  Recursion(V, a, G, N) # {}
<1> SUFFICES \E f \in [1 .. N -> V] : \A n \in 1 .. N : f[n] = IF n = 1 THEN a ELSE G[n][f[n - 1]]
  BY DEF Recursion
<1> DEFINE Good(m, f) == \A n \in 1 .. m : f[n] = IF n = 1 THEN a ELSE G[n][f[n - 1]]
           Bad == {m \in Nat : ~ \E f \in [1 .. m -> V] : Good(m, f)}
<1>1. SUFFICES ASSUME Bad # {} PROVE FALSE
  <2>1. N \notin Bad
    BY <1>1
  <2> QED BY <2>1
<1>2. PICK m \in Bad : \A x \in Bad : m <= x
  <2>1. Bad \subseteq Nat
    OBVIOUS
  <2> HIDE DEF Bad
  <2> QED BY <1>1, <2>1, LeastNatural
<1>3. CASE m = 0
  <2> DEFINE f == [n \in 1 .. 0 |-> a]
  <2>1. f \in [1 .. 0 -> V] /\ Good(0, f)
    OBVIOUS
  <2> QED BY <1>2, <1>3, <2>1
<1>4. CASE m # 0
  <2>1. m \in Nat /\ m - 1 \in Nat /\ m - 1 \notin Bad
    <3> HIDE DEF Good
    <3> QED BY <1>2, <1>4
  <2>2. PICK f \in [1 .. m - 1 -> V] : Good(m - 1, f)
    BY <2>1
  <2> DEFINE g == [n \in 1 .. m |-> IF n < m THEN f[n] ELSE IF n = 1 THEN a ELSE G[m][f[m - 1]]]
  <2>3. g \in [1 .. m -> V]
    <3> SUFFICES ASSUME NEW n \in 1 .. m PROVE g[n] \in V
      BY Zenon
    <3>1. CASE n < m
      BY <3>1, <2>1, <2>2
    <3>2. CASE n = m /\ n = 1
      BY <3>2
    <3>3. CASE n = m /\ n # 1
      <4>1. f[m - 1] \in V /\ m \in Nat
        BY <2>1, <2>2, <3>3
      <4>2. G[m] \in [V -> V]
        BY <4>1
      <4>3. G[m][f[m - 1]] \in V
        BY <4>1, <4>2
      <4> QED BY <3>3, <4>3
    <3> QED BY <2>1, <3>1, <3>2, <3>3
  <2>4. ASSUME NEW n \in 1 .. m PROVE g[n] = IF n = 1 THEN a ELSE G[n][g[n - 1]]
    <3>1. CASE n < m
      <4>1. n \in 1 .. m - 1 /\ (n # 1 => n - 1 \in 1 .. m /\ n - 1 < m)
        BY <2>1, <3>1
      <4>2. f[n] = IF n = 1 THEN a ELSE G[n][f[n - 1]]
        BY <2>2, <4>1
      <4>3. g[n] = f[n] /\ (n # 1 => g[n - 1] = f[n - 1])
        BY <3>1, <4>1
      <4> QED BY <4>2, <4>3
    <3>2. CASE n = m
      <4>1. n # 1 => n - 1 \in 1 .. m /\ n - 1 < m
        BY <2>1, <3>2
      <4>2. n # 1 => g[n - 1] = f[m - 1]
        BY <3>2, <4>1
      <4>3. ~(n < m) /\ n \in 1 .. m
        BY <2>1, <3>2
      <4> QED BY <3>2, <4>2, <4>3
    <3> QED BY <2>1, <3>1, <3>2
  <2> HIDE DEF g
  <2> QED BY <1>2, <2>3, <2>4
<1> QED BY <1>3, <1>4

\* What the recursion in FlattenSeq computes.
LEMMA FlattenRecursion ==
    ASSUME NEW S, NEW seqs \in Seq(Seq(S)), Len(seqs) # 0
    PROVE  \E f \in [1 .. Len(seqs) -> Seq(S)] :
              /\ \A n \in 1 .. Len(seqs) : f[n] = IF n = 1 THEN seqs[n] ELSE f[n - 1] \o seqs[n]
              /\ FlattenSeq(seqs) = f[Len(seqs)]
<1> DEFINE N == Len(seqs)
           Step(f) == [n \in 1 .. N |-> IF n = 1 THEN seqs[n] ELSE f[n - 1] \o seqs[n]]
           G == [n \in Nat |-> [s \in Seq(S) |-> IF n \in 1 .. N THEN s \o seqs[n] ELSE s]]
<1>1. N \in Nat /\ seqs[1] \in Seq(S) /\ \A n \in 1 .. N : seqs[n] \in Seq(S)
  OBVIOUS
<1>2. G \in [Nat -> [Seq(S) -> Seq(S)]]
  BY <1>1
<1>3. PICK g \in [1 .. N -> Seq(S)] : \A n \in 1 .. N : g[n] = IF n = 1 THEN seqs[1] ELSE G[n][g[n - 1]]
  <2> DEFINE V == Seq(S)
             a == seqs[1]
  <2>1. N \in Nat /\ a \in V /\ G \in [Nat -> [V -> V]]
    BY <1>1, <1>2
  <2> HIDE DEF N, G, Step, V, a
  <2>2. Recursion(V, a, G, N) # {}
    BY <2>1, RecursionExists
  <2> QED BY <2>2 DEF V, a, Recursion
<1>4. g = Step(g)
  <2>1. ASSUME NEW n \in 1 .. N, n # 1 PROVE G[n][g[n - 1]] = g[n - 1] \o seqs[n]
    <3>1. n - 1 \in 1 .. N /\ n \in Nat
      BY <1>1, <2>1
    <3>2. g[n - 1] \in Seq(S)
      BY <3>1, <1>3
    <3> QED BY <3>1, <3>2
  <2> HIDE DEF G, N
  <2>2. \A n \in 1 .. N : g[n] = IF n = 1 THEN seqs[n] ELSE g[n - 1] \o seqs[n]
    BY <1>3, <2>1
  <2>3. g = [n \in 1 .. N |-> g[n]]
    OBVIOUS
  <2> QED BY <2>2, <2>3
<1> DEFINE f == CHOOSE h : h = Step(h)
<1>5. f = Step(f)
  <2>1. \E h : h = Step(h)
    BY <1>4
  <2> HIDE DEF Step
  <2> QED BY <2>1
<1>6. FlattenSeq(seqs) = f[N]
  BY DEF FlattenSeq
<1>7. \A n \in 1 .. N : f[n] = IF n = 1 THEN seqs[n] ELSE f[n - 1] \o seqs[n]
  <2> HIDE DEF f
  <2> QED BY <1>5
<1> HIDE DEF f, Step, G
<1> DEFINE Bad == {n \in 1 .. N : f[n] \notin Seq(S)}
<1>8. Bad = {}
  <2> SUFFICES ASSUME Bad # {} PROVE FALSE
    OBVIOUS
  <2>1. Bad \subseteq Nat
    BY <1>1
  <2>2. PICK n \in Bad : \A m \in Bad : n <= m
    <3> HIDE DEF Bad
    <3> QED BY <2>1, LeastNatural
  <2>3. n \in 1 .. N /\ n \in Nat /\ f[n] \notin Seq(S)
    BY <1>1
  <2>4. n # 1 /\ n - 1 \in 1 .. N
    BY <1>1, <1>7, <2>3
  <2>5. f[n - 1] \in Seq(S)
    BY <2>2, <2>3, <2>4
  <2>6. f[n] = f[n - 1] \o seqs[n]
    BY <1>7, <2>3, <2>4
  <2>7. f[n - 1] \o seqs[n] \in Seq(S)
    <3>1. seqs[n] \in Seq(S)
      BY <1>1, <2>3
    <3> HIDE DEF N
    <3> QED BY <2>5, <3>1
  <2> QED BY <2>3, <2>6, <2>7
<1>9. f = [n \in 1 .. N |-> f[n]]
  BY <1>5 DEF Step
<1>10. f \in [1 .. N -> Seq(S)]
  BY <1>8, <1>9
<1> QED BY <1>6, <1>7, <1>10

\* Induction on natural numbers: a set of them that has 0, and n + 1 with each
\* n, has all.
LEMMA InductionBySet ==
    ASSUME NEW T, 0 \in T, \A n \in Nat : n \in T => n + 1 \in T
    PROVE  Nat \subseteq T
<1> DEFINE Bad == Nat \ T
<1> SUFFICES ASSUME Bad # {} PROVE FALSE
  OBVIOUS
<1>1. PICK m \in Bad : \A n \in Bad : m <= n
  BY LeastNatural
<1>2. m \in Nat /\ m # 0 /\ m - 1 \in Nat /\ m - 1 \notin Bad
  BY <1>1
<1>3. m - 1 \in T /\ (m - 1) + 1 = m
  BY <1>2
<1> QED BY <1>2, <1>3

\* The functions on the subsets of S that begin with a at the empty set and
\* continue by G, an element at a time.
SetRecursion(S, V, a, G) ==
    {f \in [SUBSET S -> V] : \A s \in SUBSET S :
        f[s] = IF s = {} THEN a ELSE G[s][f[s \ {CHOOSE x \in s : TRUE}]]}

\* A recursive function on finite sets exists if each value comes from the one
\* of a set with one element less.
LEMMA SetRecursionExists ==
    ASSUME NEW S, IsFiniteSet(S), NEW V, NEW a \in V, NEW G \in [SUBSET S -> [V -> V]]
    PROVE  SetRecursion(S, V, a, G) # {}
<1> DEFINE rest(s) == s \ {CHOOSE x \in s : TRUE}
           Level(n) == {s \in SUBSET S : Cardinality(s) <= n}
           Good(n, f) == \A s \in Level(n) : f[s] = IF s = {} THEN a ELSE G[s][f[rest(s)]]
           T == {n \in Nat : \E f \in [Level(n) -> V] : Good(n, f)}
<1>1. \A s \in SUBSET S : IsFiniteSet(s) /\ Cardinality(s) \in Nat
  BY FS_Subset, FS_CardinalityType
<1>2. ASSUME NEW s \in SUBSET S, s # {}
      PROVE  /\ rest(s) \in SUBSET S
             /\ \A n \in Nat : s \in Level(n + 1) => rest(s) \in Level(n)
  <2> DEFINE x == CHOOSE y \in s : TRUE
  <2>1. x \in s
    BY <1>2
  <2> HIDE DEF x
  <2>2. Cardinality(s \ {x}) = Cardinality(s) - 1
    BY <1>1, <2>1, FS_RemoveElement
  <2>3. \A n \in Nat : s \in Level(n + 1) => s \ {x} \in Level(n)
    BY <1>1, <2>2
  <2> QED BY <2>3 DEF x
<1>3. 0 \in T
  <2>1. \A s \in Level(0) : s = {}
    BY <1>1, FS_EmptySet
  <2>2. [s \in Level(0) |-> a] \in [Level(0) -> V]
    OBVIOUS
  <2>3. Good(0, [s \in Level(0) |-> a])
    BY <2>1
  <2> HIDE DEF Good, Level
  <2> QED BY <2>2, <2>3
<1>4. ASSUME NEW n \in Nat, n \in T PROVE n + 1 \in T
  <2>1. PICK f \in [Level(n) -> V] : Good(n, f)
    BY <1>4
  <2> DEFINE g == [s \in Level(n + 1) |-> IF s = {} THEN a ELSE G[s][f[rest(s)]]]
  <2>2. \A s \in Level(n + 1) : s \in SUBSET S /\ (s # {} => rest(s) \in Level(n))
    <3> HIDE DEF rest
    <3> QED BY <1>2
  <2>3. \A u \in Level(n) : u \in Level(n + 1)
    BY <1>1
  <2>4. g \in [Level(n + 1) -> V]
    <3> HIDE DEF rest, Level
    <3>1. ASSUME NEW s \in Level(n + 1) PROVE (IF s = {} THEN a ELSE G[s][f[rest(s)]]) \in V
      <4>1. s # {} => f[rest(s)] \in V
        BY <2>2
      <4>2. G[s] \in [V -> V]
        BY <2>2
      <4> QED BY <4>1, <4>2
    <3> QED BY <3>1
  <2>5. \A u \in Level(n) : g[u] = f[u]
    <3> HIDE DEF rest, Level
    <3> QED BY <2>1, <2>3
  <2>6. Good(n + 1, g)
    <3> HIDE DEF rest, Level
    <3> QED BY <2>2, <2>5
  <2> HIDE DEF Good, g, Level
  <2> QED BY <2>4, <2>6
<1>5. Nat \subseteq T
  <2> HIDE DEF T
  <2> QED BY <1>3, <1>4, InductionBySet
<1>6. Cardinality(S) \in T
  BY <1>1, <1>5
<1>7. Level(Cardinality(S)) = SUBSET S
  BY FS_Subset
<1>8. PICK f \in [SUBSET S -> V] : Good(Cardinality(S), f)
  <2> HIDE DEF Good, Level
  <2> QED BY <1>6, <1>7
<1>9. f \in SetRecursion(S, V, a, G)
  <2> HIDE DEF Level
  <2> QED BY <1>7, <1>8 DEF SetRecursion
<1> QED BY <1>9

\* The same for the numbers of a sequence's entries.
LEMMA InductionOnEntries ==
    ASSUME NEW N \in Nat, NEW T, 1 \in T, \A n \in 1 .. N - 1 : n \in T => n + 1 \in T
    PROVE  1 .. N \subseteq T
<1> DEFINE U == {n \in Nat : n + 1 <= N => n + 1 \in T}
<1>1. 0 \in U
  OBVIOUS
<1>2. ASSUME NEW n \in Nat, n \in U PROVE n + 1 \in U
  <2>1. ASSUME (n + 1) + 1 <= N PROVE (n + 1) + 1 \in T
    <3>1. n + 1 \in 1 .. N - 1 /\ n + 1 \in T
      BY <1>2, <2>1
    <3> QED BY <3>1
  <2> QED BY <2>1
<1>3. Nat \subseteq U
  <2> HIDE DEF U
  <2> QED BY <1>1, <1>2, InductionBySet
<1> SUFFICES ASSUME NEW k \in 1 .. N PROVE k \in T
  OBVIOUS
<1>4. k - 1 \in U
  BY <1>3
<1> QED BY <1>4

LEMMA FlattenType ==
    ASSUME NEW S, NEW seqs \in Seq(Seq(S))
    PROVE  FlattenSeq(seqs) \in Seq(S)
<1>1. CASE Len(seqs) = 0
  <2>1. FlattenSeq(seqs) = <<>>
    BY <1>1 DEF FlattenSeq
  <2> QED BY <2>1
<1>2. CASE Len(seqs) # 0
  <2>1. PICK f \in [1 .. Len(seqs) -> Seq(S)] : FlattenSeq(seqs) = f[Len(seqs)]
    BY <1>2, FlattenRecursion
  <2>2. Len(seqs) \in 1 .. Len(seqs)
    BY <1>2
  <2> QED BY <2>1, <2>2
<1> QED BY <1>1, <1>2

\* Each sequence lies in the flattened one behind those that come before it:
\* at[n] entries behind its beginning, for the n-th sequence.
LEMMA FlattenFacts ==
    ASSUME NEW S, NEW seqs \in Seq(Seq(S)), NEW at \in [1 .. Len(seqs) -> Nat],
           \A n \in 1 .. Len(seqs) : at[n] = IF n = 1 THEN 0 ELSE at[n - 1] + Len(seqs[n - 1]),
           NEW n \in 1 .. Len(seqs)
    PROVE  /\ at[n] + Len(seqs[n]) <= Len(FlattenSeq(seqs))
           /\ \A j \in 1 .. Len(seqs[n]) : FlattenSeq(seqs)[at[n] + j] = seqs[n][j]
           /\ n = Len(seqs) => Len(FlattenSeq(seqs)) = at[n] + Len(seqs[n])
<1> DEFINE N == Len(seqs)
<1>1. N \in Nat /\ N # 0 /\ \A m \in 1 .. N : seqs[m] \in Seq(S) /\ Len(seqs[m]) \in Nat
  OBVIOUS
<1>2. PICK f \in [1 .. N -> Seq(S)] :
          /\ \A m \in 1 .. N : f[m] = IF m = 1 THEN seqs[m] ELSE f[m - 1] \o seqs[m]
          /\ FlattenSeq(seqs) = f[N]
  BY <1>1, FlattenRecursion
<1> HIDE DEF N
<1> DEFINE Holds(m, l) == /\ at[l] + Len(seqs[l]) <= Len(f[m])
                          /\ \A j \in 1 .. Len(seqs[l]) : f[m][at[l] + j] = seqs[l][j]
           T == {m \in 1 .. N : Len(f[m]) = at[m] + Len(seqs[m]) /\ \A l \in 1 .. m : Holds(m, l)}
<1>3. 1 \in T
  <2>1. 1 \in 1 .. N /\ f[1] = seqs[1] /\ at[1] = 0
    <3>1. 1 \in 1 .. N
      BY <1>1
    <3>2. f[1] = seqs[1]
      BY <1>2, <3>1
    <3>3. at[1] = 0
      BY <3>1 DEF N
    <3> QED BY <3>1, <3>2, <3>3
  <2>2. Holds(1, 1)
    BY <1>1, <2>1
  <2>3. \A l \in 1 .. 1 : l = 1
    OBVIOUS
  <2> QED BY <1>1, <2>1, <2>2, <2>3
<1>4. ASSUME NEW m \in 1 .. N - 1, m \in T PROVE m + 1 \in T
  <2>1. /\ m \in 1 .. N /\ m + 1 \in 1 .. N /\ m + 1 # 1 /\ (m + 1) - 1 = m
        /\ f[m] \in Seq(S) /\ seqs[m + 1] \in Seq(S)
    BY <1>1, <1>2
  <2>2. f[m + 1] = f[m] \o seqs[m + 1]
    BY <1>2, <2>1
  <2>3. at[m + 1] = at[m] + Len(seqs[m]) /\ Len(f[m]) = at[m + 1]
    BY <1>4, <2>1 DEF N
  <2> DEFINE s == f[m]
             t == seqs[m + 1]
             u == f[m + 1]
  <2>4. /\ Len(u) = Len(s) + Len(t) /\ Len(s) \in Nat /\ Len(t) \in Nat
        /\ \A i \in 1 .. Len(s) : u[i] = s[i]
        /\ \A i \in 1 .. Len(t) : u[Len(s) + i] = t[i]
    <3>1. s \in Seq(S) /\ t \in Seq(S) /\ u = s \o t
      BY <2>1, <2>2
    <3> HIDE DEF s, t, u
    <3> QED BY <3>1
  <2>5. Len(f[m + 1]) = at[m + 1] + Len(seqs[m + 1])
    BY <2>3, <2>4
  <2>6. Holds(m + 1, m + 1)
    <3> HIDE DEF s, t, u
    <3>1. at[m + 1] = Len(s)
      BY <2>3 DEF s
    <3>2. at[m + 1] + Len(t) <= Len(u)
      BY <2>4, <3>1
    <3>3. \A j \in 1 .. Len(t) : u[at[m + 1] + j] = t[j]
      BY <2>4, <3>1
    <3> QED BY <3>2, <3>3 DEF t, u
  <2>7. ASSUME NEW l \in 1 .. m PROVE Holds(m + 1, l)
    <3>1. Holds(m, l) /\ l \in 1 .. N
      <4>1. l \in 1 .. N
        BY <1>1
      <4> HIDE DEF Holds
      <4> QED BY <1>4, <4>1
    <3>2. Len(seqs[l]) \in Nat /\ at[l] \in Nat
      BY <1>1, <3>1 DEF N
    <3> DEFINE first == at[l]
               length == Len(seqs[l])
    <3>3. first \in Nat /\ length \in Nat /\ first + length <= Len(s)
      BY <3>1, <3>2
    <3> HIDE DEF first, length, s, t, u
    <3>4. first + length <= Len(u)
      BY <2>4, <3>3
    <3>5. \A j \in 1 .. length : first + j \in 1 .. Len(s)
      BY <2>4, <3>3
    <3>6. \A j \in 1 .. length : u[first + j] = s[first + j]
      BY <2>4, <3>5
    <3> QED BY <3>1, <3>4, <3>6 DEF first, length, s, u
  <2>8. \A l \in 1 .. m + 1 : Holds(m + 1, l)
    <3> SUFFICES ASSUME NEW l \in 1 .. m + 1 PROVE Holds(m + 1, l)
      OBVIOUS
    <3>1. l \in 1 .. m \/ l = m + 1
      OBVIOUS
    <3> HIDE DEF Holds
    <3> QED BY <2>6, <2>7, <3>1
  <2> HIDE DEF Holds
  <2> QED BY <2>1, <2>5, <2>8
<1>5. 1 .. N \subseteq T
  <2> HIDE DEF T
  <2> QED BY <1>1, <1>3, <1>4, InductionOnEntries
<1>6. N \in T /\ n \in 1 .. N
  <2>1. N \in 1 .. N
    BY <1>1
  <2>2. n \in 1 .. N
    BY DEF N
  <2> HIDE DEF T
  <2> QED BY <1>5, <2>1, <2>2
<1>7. Holds(N, n) /\ Len(f[N]) = at[N] + Len(seqs[N])
  BY <1>6
<1> QED BY <1>2, <1>7 DEF N

\* A part of a sequence that has the entries of another one is that.
LEMMA SubSeqIs ==
    ASSUME NEW S, NEW s \in Seq(S), NEW t \in Seq(S), NEW i \in Nat, i + Len(t) <= Len(s),
           \A j \in 1 .. Len(t) : s[i + j] = t[j]
    PROVE  SubSeq(s, i + 1, i + Len(t)) = t
<1> DEFINE p == SubSeq(s, i + 1, i + Len(t))
<1>1. Len(t) \in Nat /\ Len(s) \in Nat
  OBVIOUS
<1>2. \A j \in i + 1 .. i + Len(t) : s[j] \in S
  BY <1>1
<1>3. /\ p \in Seq(S)
      /\ Len(p) = IF i + 1 <= i + Len(t) THEN (i + Len(t)) - (i + 1) + 1 ELSE 0
      /\ \A j \in 1 .. (i + Len(t)) - (i + 1) + 1 : p[j] = s[(i + 1) + j - 1]
  <2> DEFINE m == i + 1
             n == i + Len(t)
  <2>1. m \in Int /\ n \in Int /\ \A j \in m .. n : s[j] \in S
    BY <1>1, <1>2
  <2> HIDE DEF m, n
  <2>2. /\ SubSeq(s, m, n) \in Seq(S)
        /\ Len(SubSeq(s, m, n)) = IF m <= n THEN n - m + 1 ELSE 0
        /\ \A j \in 1 .. n - m + 1 : SubSeq(s, m, n)[j] = s[m + j - 1]
    BY <2>1, SubSeqProperties
  <2> QED BY <2>2 DEF m, n
<1> HIDE DEF p
<1>4. Len(p) = Len(t)
  BY <1>1, <1>3
<1>5. ASSUME NEW j \in 1 .. Len(p) PROVE p[j] = t[j]
  <2>1. j \in 1 .. Len(t) /\ j \in 1 .. (i + Len(t)) - (i + 1) + 1 /\ (i + 1) + j - 1 = i + j
    BY <1>1, <1>4
  <2> QED BY <1>3, <2>1
<1>6. p = t
  BY <1>3, <1>4, <1>5, SeqEqual
<1> QED BY <1>6 DEF p

\* What is appended does not change the parts of what was there.
LEMMA SubSeqOfLonger ==
    ASSUME NEW S, NEW s \in Seq(S), NEW t \in Seq(S), NEW i \in Nat, NEW n \in Nat, n <= Len(s)
    PROVE  SubSeq(s \o t, i + 1, n) = SubSeq(s, i + 1, n)
<1>1. CASE n < i + 1
  <2>1. SubSeq(s \o t, i + 1, n) = <<>> /\ SubSeq(s, i + 1, n) = <<>>
    <3> DEFINE m == i + 1
    <3>1. m \in Int /\ n \in Int /\ n < m
      BY <1>1
    <3> HIDE DEF m
    <3>2. SubSeq(s \o t, m, n) = <<>> /\ SubSeq(s, m, n) = <<>>
      BY <3>1, SubSeqEmpty
    <3> QED BY <3>2 DEF m
  <2> QED BY <2>1
<1>2. CASE n >= i + 1
  <2>1. i + 1 \in 1 .. Len(s) /\ n \in 1 .. Len(s)
    BY <1>2
  <2> QED BY <2>1, SubSeqOfConcat1
<1> QED BY <1>1, <1>2
-----------------------------------------------------------------------------
\* A sequence of anything: nothing is assumed of what its entries are.
IsSequence(s) == \E S : s \in Seq(S)

LEMMA SequenceFacts ==
    ASSUME NEW s, IsSequence(s)
    PROVE  Len(s) \in Nat /\ DOMAIN s = 1 .. Len(s)
BY DEF IsSequence

LEMMA EmptyFacts ==
    IsSequence(<<>>) /\ Len(<<>>) = 0 /\ DOMAIN <<>> = {}
<1>1. <<>> \in Seq({})
  OBVIOUS
<1> QED BY <1>1 DEF IsSequence

LEMMA AppendFacts ==
    ASSUME NEW s, IsSequence(s), NEW e
    PROVE  /\ IsSequence(Append(s, e))
           /\ Len(Append(s, e)) = Len(s) + 1
           /\ DOMAIN Append(s, e) = 1 .. Len(s) + 1
           /\ \A k \in 1 .. Len(s) : Append(s, e)[k] = s[k]
           /\ Append(s, e)[Len(s) + 1] = e
<1>1. PICK S : s \in Seq(S)
  BY DEF IsSequence
<1>2. s \in Seq(S \cup {e}) /\ e \in S \cup {e}
  BY <1>1
<1>3. Append(s, e) \in Seq(S \cup {e})
  BY <1>2
<1>4. IsSequence(Append(s, e))
  BY <1>3 DEF IsSequence
<1>5. /\ Len(Append(s, e)) = Len(s) + 1
      /\ DOMAIN Append(s, e) = 1 .. Len(s) + 1
      /\ \A k \in 1 .. Len(s) : Append(s, e)[k] = s[k]
      /\ Append(s, e)[Len(s) + 1] = e
  BY <1>2
<1> QED BY <1>4, <1>5

LEMMA ExceptFacts ==
    ASSUME NEW s, IsSequence(s), NEW k \in DOMAIN s, NEW e
    PROVE  /\ IsSequence([s EXCEPT ![k] = e])
           /\ Len([s EXCEPT ![k] = e]) = Len(s)
<1>1. PICK S : s \in Seq(S)
  BY DEF IsSequence
<1>2. s \in Seq(S \cup {e}) /\ e \in S \cup {e}
  BY <1>1
<1>3. [s EXCEPT ![k] = e] \in Seq(S \cup {e})
  BY <1>2
<1> QED BY <1>2, <1>3 DEF IsSequence

LEMMA RemoveFirstFacts ==
    ASSUME NEW s, IsSequence(s), Len(s) >= 1
    PROVE  /\ IsSequence(RemoveAt(s, 1))
           /\ Len(RemoveAt(s, 1)) = Len(s) - 1
           /\ \A k \in 1 .. Len(s) - 1 : RemoveAt(s, 1)[k] = s[k + 1]
<1>1. PICK S : s \in Seq(S)
  BY DEF IsSequence
<1>2. SubSeq(s, 1, 0) = <<>>
  BY <1>1
<1>3. RemoveAt(s, 1) = <<>> \o SubSeq(s, 2, Len(s))
  BY <1>2 DEF RemoveAt
<1>4. Len(s) \in Nat /\ \A k \in 2 .. Len(s) : s[k] \in S
  BY <1>1
<1>5. /\ SubSeq(s, 2, Len(s)) \in Seq(S)
      /\ Len(SubSeq(s, 2, Len(s))) = IF 2 <= Len(s) THEN Len(s) - 2 + 1 ELSE 0
      /\ \A k \in 1 .. Len(s) - 2 + 1 : SubSeq(s, 2, Len(s))[k] = s[2 + k - 1]
  <2> DEFINE last == Len(s)
  <2>1. last \in Int /\ 2 \in Int /\ \A k \in 2 .. last : s[k] \in S
    BY <1>4
  <2> HIDE DEF last
  <2>2. /\ SubSeq(s, 2, last) \in Seq(S)
        /\ Len(SubSeq(s, 2, last)) = IF 2 <= last THEN last - 2 + 1 ELSE 0
        /\ \A k \in 1 .. last - 2 + 1 : SubSeq(s, 2, last)[k] = s[2 + k - 1]
    BY <2>1, SubSeqProperties
  <2> QED BY <2>2 DEF last
<1>6. RemoveAt(s, 1) = SubSeq(s, 2, Len(s))
  BY <1>3, <1>5
<1> DEFINE r == RemoveAt(s, 1)
<1>7. IsSequence(r)
  BY <1>5, <1>6 DEF IsSequence
<1>8. Len(r) = Len(s) - 1
  BY <1>4, <1>5, <1>6
<1>9. ASSUME NEW k \in 1 .. Len(s) - 1
      PROVE  r[k] = s[k + 1]
  <2>1. k \in 1 .. Len(s) - 2 + 1 /\ 2 + k - 1 = k + 1
    BY <1>4
  <2> QED BY <2>1, <1>5, <1>6
<1> QED BY <1>7, <1>8, <1>9

LEMMA ConcatFacts ==
    ASSUME NEW s, IsSequence(s), NEW t, IsSequence(t)
    PROVE  /\ IsSequence(s \o t)
           /\ Len(s \o t) = Len(s) + Len(t)
<1>1. PICK S : s \in Seq(S)
  BY DEF IsSequence
<1>2. PICK T : t \in Seq(T)
  BY DEF IsSequence
<1>3. s \in Seq(S \cup T) /\ t \in Seq(S \cup T)
  BY <1>1, <1>2
<1>4. s \o t \in Seq(S \cup T) /\ Len(s \o t) = Len(s) + Len(t)
  BY <1>3
<1> QED BY <1>4 DEF IsSequence

LEMMA TupleFacts ==
    ASSUME NEW a, NEW b, NEW c, NEW d
    PROVE  /\ IsSequence(<<a>>) /\ IsSequence(<<a, b>>) /\ IsSequence(<<a, b, c, d>>)
<1>1. <<a>> \in Seq({a, b, c, d}) /\ <<a, b>> \in Seq({a, b, c, d})
      /\ <<a, b, c, d>> \in Seq({a, b, c, d})
  OBVIOUS
<1> QED BY <1>1 DEF IsSequence
-----------------------------------------------------------------------------
\* FlattenSeq joins a last sequence at the end.
LEMMA FlattenAppend ==
    ASSUME NEW S, NEW seqs \in Seq(Seq(S)), NEW t \in Seq(S)
    PROVE  FlattenSeq(Append(seqs, t)) = FlattenSeq(seqs) \o t
<1> DEFINE more == Append(seqs, t)
           N == Len(seqs)
<1>1. /\ N \in Nat /\ more \in Seq(Seq(S)) /\ Len(more) = N + 1 /\ more[N + 1] = t
      /\ \A n \in 1 .. N : more[n] = seqs[n]
  OBVIOUS
<1>0. Len(more) # 0
  BY <1>1
<1>2. CASE N = 0
  <2>1. PICK f \in [1 .. Len(more) -> Seq(S)] :
           /\ \A n \in 1 .. Len(more) : f[n] = IF n = 1 THEN more[n] ELSE f[n - 1] \o more[n]
           /\ FlattenSeq(more) = f[Len(more)]
    <3> HIDE DEF more
    <3> QED BY <1>0, <1>1, FlattenRecursion
  <2> HIDE DEF more
  <2>2. FlattenSeq(more) = t
    BY <1>1, <1>2, <2>1
  <2>3. FlattenSeq(seqs) = <<>>
    BY <1>2 DEF FlattenSeq
  <2> QED BY <2>2, <2>3 DEF more
<1>3. CASE N # 0
  <2>1. PICK f \in [1 .. Len(more) -> Seq(S)] :
           /\ \A n \in 1 .. Len(more) : f[n] = IF n = 1 THEN more[n] ELSE f[n - 1] \o more[n]
           /\ FlattenSeq(more) = f[Len(more)]
    <3> HIDE DEF more
    <3> QED BY <1>0, <1>1, FlattenRecursion
  <2>2. PICK g \in [1 .. N -> Seq(S)] :
           /\ \A n \in 1 .. N : g[n] = IF n = 1 THEN seqs[n] ELSE g[n - 1] \o seqs[n]
           /\ FlattenSeq(seqs) = g[N]
    BY <1>3, FlattenRecursion
  <2> HIDE DEF more, N
  <2> DEFINE T == {n \in 1 .. N : f[n] = g[n]}
  <2>3. 1 \in T
    <3>1. 1 \in 1 .. N /\ 1 \in 1 .. Len(more)
      BY <1>1, <1>3
    <3>2. f[1] = more[1] /\ g[1] = seqs[1]
      BY <2>1, <2>2, <3>1
    <3> QED BY <1>1, <3>1, <3>2
  <2>4. ASSUME NEW n \in 1 .. N - 1, n \in T PROVE n + 1 \in T
    <3>1. n + 1 \in 1 .. N /\ n + 1 \in 1 .. Len(more) /\ n + 1 # 1 /\ (n + 1) - 1 = n
      BY <1>1
    <3>2. f[n + 1] = f[n] \o more[n + 1] /\ g[n + 1] = g[n] \o seqs[n + 1]
      BY <2>1, <2>2, <3>1
    <3> QED BY <1>1, <2>4, <3>1, <3>2
  <2>5. N \in T
    <3>1. 1 .. N \subseteq T
      <4> HIDE DEF T
      <4> QED BY <1>1, <2>3, <2>4, InductionOnEntries
    <3> QED BY <1>1, <1>3, <3>1
  <2>6. f[N + 1] = f[N] \o more[N + 1]
    <3>1. N + 1 \in 1 .. Len(more) /\ N + 1 # 1 /\ (N + 1) - 1 = N
      BY <1>1, <1>3
    <3> QED BY <2>1, <3>1
  <2> QED BY <1>1, <2>1, <2>2, <2>5, <2>6 DEF more
<1> QED BY <1>2, <1>3

\* A function on the first n numbers is a sequence.
LEMMA FunctionIsSequence ==
    ASSUME NEW S, NEW n \in Nat, NEW f \in [1 .. n -> S]
    PROVE  f \in Seq(S) /\ Len(f) = n
OBVIOUS

LEMMA FlattenEmpty == FlattenSeq(<<>>) = <<>>
BY DEF FlattenSeq

LEMMA ConcatIsAssociative ==
    ASSUME NEW S, NEW x \in Seq(S), NEW y \in Seq(S), NEW z \in Seq(S)
    PROVE  (x \o y) \o z = x \o (y \o z)
OBVIOUS

LEMMA FlattenConcat ==
    ASSUME NEW S, NEW s \in Seq(Seq(S)), NEW t \in Seq(Seq(S))
    PROVE  FlattenSeq(s \o t) = FlattenSeq(s) \o FlattenSeq(t)
<1> DEFINE T == {n \in Nat : \A u \in Seq(Seq(S)) :
                    Len(u) = n => FlattenSeq(s \o u) = FlattenSeq(s) \o FlattenSeq(u)}
<1>0. FlattenSeq(s) \in Seq(S)
  BY FlattenType
<1>4. \A x \in Seq(S), y \in Seq(S), z \in Seq(S) : (x \o y) \o z = x \o (y \o z)
  BY ConcatIsAssociative, SMTT(60)
<1>1. 0 \in T
  <2> SUFFICES ASSUME NEW u \in Seq(Seq(S)), Len(u) = 0
               PROVE  FlattenSeq(s \o u) = FlattenSeq(s) \o FlattenSeq(u)
    OBVIOUS
  <2>1. u = <<>> /\ s \o u = s
    OBVIOUS
  <2>2. FlattenSeq(u) = <<>>
    BY <2>1, FlattenEmpty
  <2>3. FlattenSeq(s) \o <<>> = FlattenSeq(s)
    BY <1>0
  <2> QED BY <2>1, <2>2, <2>3
<1>2. ASSUME NEW n \in Nat, n \in T PROVE n + 1 \in T
  <2> SUFFICES ASSUME NEW u \in Seq(Seq(S)), Len(u) = n + 1
               PROVE  FlattenSeq(s \o u) = FlattenSeq(s) \o FlattenSeq(u)
    OBVIOUS
  <2>1. PICK v \in Seq(Seq(S)), e \in Seq(S) : u = Append(v, e)
    <3>1. u # <<>>
      OBVIOUS
    <3> QED BY <3>1, SequenceEmptyOrAppend
  <2>2. Len(v) = n
    BY <2>1
  <2>3. FlattenSeq(s \o v) = FlattenSeq(s) \o FlattenSeq(v)
    BY <1>2, <2>2
  <2>4. s \o u = Append(s \o v, e) /\ s \o v \in Seq(Seq(S))
    <3> DEFINE V == Seq(S)
    <3> HIDE DEF V
    <3>1. s \in Seq(V) /\ v \in Seq(V) /\ e \in V
      BY DEF V
    <3>2. s \o Append(v, e) = Append(s \o v, e) /\ s \o v \in Seq(V)
      BY <3>1
    <3> QED BY <2>1, <3>2 DEF V
  <2>5. FlattenSeq(u) = FlattenSeq(v) \o e /\ FlattenSeq(s \o u) = FlattenSeq(s \o v) \o e
    BY <2>1, <2>4, FlattenAppend
  <2>6. FlattenSeq(v) \in Seq(S)
    BY FlattenType
  <2> HIDE DEF T
  <2> DEFINE a == FlattenSeq(s)
             b == FlattenSeq(v)
             p == FlattenSeq(s \o v)
             q == FlattenSeq(u)
  <2>7. a \in Seq(S) /\ b \in Seq(S) /\ e \in Seq(S)
    BY <1>0, <2>1, <2>6
  <2>8. p = a \o b /\ q = b \o e
    BY <2>3, <2>5
  <2>9. p \o e = a \o q
    <3> HIDE DEF a, b, p, q
    <3>2. (a \o b) \o e = a \o (b \o e)
      BY <1>4, <2>7
    <3> QED BY <2>8, <3>2, Zenon
  <2> QED BY <2>5, <2>9
<1>3. Nat \subseteq T
  <2> HIDE DEF T
  <2> QED BY <1>1, <1>2, InductionBySet
<1> QED BY <1>3

\* Sequences that replace one another in the place l.
Splits(V, seqs, l, s, t) ==
    \A e \in Seq(V) : FlattenSeq([seqs EXCEPT ![l] = e]) = (s \o e) \o t

LEMMA FlattenSplit ==
    ASSUME NEW S, NEW V, S \subseteq V, NEW seqs \in Seq(Seq(S)), NEW l \in 1 .. Len(seqs)
    PROVE  \E s \in Seq(S), t \in Seq(S) : Splits(V, seqs, l, s, t)
<1> DEFINE U == Seq(S)
           W == Seq(V)
           N == Len(seqs)
           pre == SubSeq(seqs, 1, l - 1)
           post == SubSeq(seqs, l + 1, N)
<1>1. N \in Nat /\ l \in Nat /\ \A n \in 1 .. N : seqs[n] \in U
  OBVIOUS
<1>2. /\ pre \in Seq(U) /\ Len(pre) = l - 1 /\ \A n \in 1 .. l - 1 : pre[n] = seqs[n]
  <2>1. \A n \in 1 .. l - 1 : seqs[n] \in U
    BY <1>1
  <2>2. 1 \in Int /\ l - 1 \in Int
    OBVIOUS
  <2> HIDE DEF U
  <2>3. /\ SubSeq(seqs, 1, l - 1) \in Seq(U)
        /\ Len(SubSeq(seqs, 1, l - 1)) = IF 1 <= l - 1 THEN (l - 1) - 1 + 1 ELSE 0
        /\ \A n \in 1 .. (l - 1) - 1 + 1 : SubSeq(seqs, 1, l - 1)[n] = seqs[1 + n - 1]
    BY <2>1, <2>2, SubSeqProperties
  <2>4. \A n \in 1 .. l - 1 : n \in 1 .. (l - 1) - 1 + 1 /\ 1 + n - 1 = n
    OBVIOUS
  <2>5. \A n \in 1 .. l - 1 : pre[n] = seqs[n]
    BY <2>3, <2>4
  <2>6. Len(pre) = l - 1
    BY <2>3
  <2> QED BY <2>3, <2>5, <2>6
<1>3. /\ post \in Seq(U) /\ Len(post) = N - l /\ \A n \in 1 .. N - l : post[n] = seqs[l + n]
  <2>1. \A n \in l + 1 .. N : seqs[n] \in U
    BY <1>1
  <2>2. l + 1 \in Int /\ N \in Int
    BY <1>1
  <2> HIDE DEF U, N
  <2>3. /\ SubSeq(seqs, l + 1, N) \in Seq(U)
        /\ Len(SubSeq(seqs, l + 1, N)) = IF l + 1 <= N THEN N - (l + 1) + 1 ELSE 0
        /\ \A n \in 1 .. N - (l + 1) + 1 : SubSeq(seqs, l + 1, N)[n] = seqs[(l + 1) + n - 1]
    BY <2>1, <2>2, SubSeqProperties
  <2>4. l <= N /\ \A n \in 1 .. N - l : n \in 1 .. N - (l + 1) + 1 /\ (l + 1) + n - 1 = l + n
    BY <1>1 DEF N
  <2>5. \A n \in 1 .. N - l : post[n] = seqs[l + n]
    BY <2>3, <2>4
  <2>6. Len(post) = N - l
    BY <1>1, <2>3, <2>4
  <2> QED BY <2>3, <2>5, <2>6
<1>4. l <= N
  OBVIOUS
<1>5. FlattenSeq(pre) \in Seq(S) /\ FlattenSeq(post) \in Seq(S)
  <2> HIDE DEF pre, post, N
  <2> QED BY <1>2, <1>3, FlattenType
<1>7. \A n \in 1 .. N : seqs[n] \in W
  <2>1. U \subseteq W
    OBVIOUS
  <2> QED BY <1>1, <2>1
<1>8. pre \in Seq(W) /\ post \in Seq(W)
  <2>1. U \subseteq W
    OBVIOUS
  <2> HIDE DEF pre, post, U, W, N
  <2> QED BY <1>2, <1>3, <2>1
<1>9. seqs \in Seq(W)
  <2>1. seqs \in Seq(U) /\ U \subseteq W
    OBVIOUS
  <2> HIDE DEF U, W
  <2> QED BY <2>1
<1> HIDE DEF pre, post, N, U
<1>6. ASSUME NEW e \in Seq(V)
      PROVE  FlattenSeq([seqs EXCEPT ![l] = e]) = (FlattenSeq(pre) \o e) \o FlattenSeq(post)
  <2> DEFINE new == [seqs EXCEPT ![l] = e]
             cat == Append(pre, e) \o post
  <2>1. cat \in Seq(W) /\ Len(cat) = N /\ Append(pre, e) \in Seq(W)
    <3>0. e \in W
      OBVIOUS
    <3> HIDE DEF W
    <3>1. Append(pre, e) \in Seq(W) /\ Len(Append(pre, e)) = (l - 1) + 1
      BY <1>2, <1>8, <3>0
    <3>2. cat \in Seq(W) /\ Len(cat) = Len(Append(pre, e)) + Len(post)
      BY <1>3, <1>8, <3>1, ConcatProperties
    <3>3. (l - 1) + 1 + (N - l) = N
      BY <1>1
    <3> QED BY <1>3, <3>1, <3>2, <3>3
  <2>2. new \in Seq(W) /\ Len(new) = N /\ \A n \in 1 .. N : new[n] = IF n = l THEN e ELSE seqs[n]
    <3>0. e \in W
      OBVIOUS
    <3> HIDE DEF W
    <3> QED BY <1>9, <3>0 DEF N
  <2>3. ASSUME NEW n \in 1 .. N PROVE new[n] = cat[n]
    <3>0. e \in W
      OBVIOUS
    <3> DEFINE p == Append(pre, e)
    <3>1. p \in Seq(W) /\ Len(p) = l /\ p[l] = e /\ \A m \in 1 .. l - 1 : p[m] = seqs[m]
      <4> HIDE DEF W
      <4> QED BY <1>1, <1>2, <1>8, <3>0
    <3> HIDE DEF p, W, new
    <3>2. CASE n < l
      <4>1. cat[n] = p[n]
        BY <1>1, <1>3, <1>4, <1>8, <3>1, <3>2 DEF p
      <4>2. n \in 1 .. l - 1 /\ n # l
        BY <1>1, <3>2
      <4> QED BY <2>2, <3>1, <4>1, <4>2
    <3>3. CASE n = l
      <4>1. cat[n] = p[n]
        BY <1>1, <1>3, <1>4, <1>8, <3>1, <3>3 DEF p
      <4> QED BY <2>2, <3>1, <3>3, <4>1
    <3>4. CASE n > l
      <4>1. n - l \in 1 .. N - l /\ n # l /\ l + (n - l) = n
        BY <1>1, <3>4
      <4>2. cat[n] = post[n - l]
        BY <1>1, <1>3, <1>4, <1>8, <3>1, <3>4 DEF p
      <4> QED BY <1>3, <2>2, <4>1, <4>2
    <3>5. n < l \/ n = l \/ n > l
      BY <1>1
    <3> QED BY <3>2, <3>3, <3>4, <3>5
  <2>4. new = cat
    <3> HIDE DEF new, cat, W
    <3> QED BY <2>1, <2>2, <2>3, SeqEqual
  <2>5. FlattenSeq(cat) = FlattenSeq(Append(pre, e)) \o FlattenSeq(post)
    BY <1>3, <1>8, <2>1, FlattenConcat
  <2>6. FlattenSeq(Append(pre, e)) = FlattenSeq(pre) \o e
    BY <1>2, <1>8, FlattenAppend
  <2> HIDE DEF new, cat
  <2> QED BY <2>4, <2>5, <2>6 DEF new
<1>10. Splits(V, seqs, l, FlattenSeq(pre), FlattenSeq(post))
  BY <1>6 DEF Splits
<1> QED BY <1>5, <1>10

\* Every entry replaced by a sequence, and what comes of it joined.
Mapped(K, s) == FlattenSeq([n \in DOMAIN s |-> K[s[n]]])

LEMMA MappedIsSequence ==
    ASSUME NEW S, NEW T, NEW K \in [T -> Seq(S)], NEW s \in Seq(T)
    PROVE  /\ [n \in DOMAIN s |-> K[s[n]]] \in Seq(Seq(S))
           /\ Len([n \in DOMAIN s |-> K[s[n]]]) = Len(s)
           /\ Mapped(K, s) \in Seq(S)
<1> DEFINE m == [n \in DOMAIN s |-> K[s[n]]]
<1>1. DOMAIN s = 1 .. Len(s) /\ Len(s) \in Nat /\ \A n \in 1 .. Len(s) : s[n] \in T
  OBVIOUS
<1>2. \A n \in 1 .. Len(s) : K[s[n]] \in Seq(S)
  BY <1>1
<1>3. m \in Seq(Seq(S)) /\ Len(m) = Len(s)
  <2> DEFINE U == Seq(S)
  <2>1. m \in [1 .. Len(s) -> U]
    BY <1>1, <1>2
  <2> DEFINE N == Len(s)
  <2>3. m \in [1 .. N -> U] /\ N \in Nat
    BY <1>1, <2>1
  <2> HIDE DEF m, U, N
  <2>4. m \in Seq(U) /\ Len(m) = N
    BY <2>3
  <2>2. m \in Seq(U) /\ Len(m) = Len(s)
    BY <2>4 DEF N
  <2> QED BY <2>2 DEF U
<1>4. FlattenSeq(m) \in Seq(S)
  <2> HIDE DEF m
  <2> QED BY <1>3, FlattenType
<1> QED BY <1>3, <1>4 DEF Mapped

LEMMA MappedConcat ==
    ASSUME NEW S, NEW T, NEW K \in [T -> Seq(S)], NEW s \in Seq(T), NEW t \in Seq(T)
    PROVE  Mapped(K, s \o t) = Mapped(K, s) \o Mapped(K, t)
<1>0. ASSUME NEW u \in Seq(T)
      PROVE  /\ [n \in DOMAIN u |-> K[u[n]]] \in Seq(Seq(S))
             /\ Len([n \in DOMAIN u |-> K[u[n]]]) = Len(u)
  <2>1. [n \in DOMAIN u |-> K[u[n]]] \in Seq(Seq(S))
    BY MappedIsSequence
  <2>2. Len([n \in DOMAIN u |-> K[u[n]]]) = Len(u)
    BY MappedIsSequence
  <2> QED BY <2>1, <2>2
<1> DEFINE ms == [n \in DOMAIN s |-> K[s[n]]]
           mt == [n \in DOMAIN t |-> K[t[n]]]
           m == [n \in DOMAIN (s \o t) |-> K[(s \o t)[n]]]
           U == Seq(S)
<1>1. s \o t \in Seq(T)
  OBVIOUS
<1>2. ms \in Seq(U) /\ Len(ms) = Len(s) /\ mt \in Seq(U) /\ Len(mt) = Len(t)
  BY <1>0, Zenon
<1>3. m \in Seq(U) /\ Len(m) = Len(s \o t)
  BY <1>0, <1>1, Zenon
<1>4. Len(s \o t) = Len(s) + Len(t) /\ Len(s) \in Nat /\ Len(t) \in Nat
      /\ DOMAIN (s \o t) = 1 .. Len(s) + Len(t) /\ DOMAIN s = 1 .. Len(s) /\ DOMAIN t = 1 .. Len(t)
  OBVIOUS
<1>5. ASSUME NEW n \in 1 .. Len(s) + Len(t) PROVE m[n] = (ms \o mt)[n]
  <2>1. CASE n <= Len(s)
    <3>1. n \in 1 .. Len(s) /\ (s \o t)[n] = s[n]
      BY <2>1
    <3>2. m[n] = K[s[n]] /\ ms[n] = K[s[n]]
      BY <1>4, <3>1
    <3> HIDE DEF ms, mt, m, U
    <3>3. (ms \o mt)[n] = ms[n]
      BY <1>2, <1>4, <3>1
    <3> QED BY <3>2, <3>3
  <2>2. CASE ~(n <= Len(s))
    <3>1. PICK i \in 1 .. Len(t) : n = Len(s) + i
      <4>1. n - Len(s) \in 1 .. Len(t) /\ n = Len(s) + (n - Len(s))
        BY <1>4, <2>2
      <4> QED BY <4>1
    <3>2. (s \o t)[n] = t[i]
      BY <3>1
    <3>3. m[n] = K[t[i]] /\ mt[i] = K[t[i]]
      BY <1>4, <3>2
    <3> HIDE DEF ms, mt, m, U
    <3>4. (ms \o mt)[n] = mt[i]
      BY <1>2, <1>4, <3>1
    <3> QED BY <3>3, <3>4
  <2> QED BY <2>1, <2>2
<1>6. m = ms \o mt
  <2> HIDE DEF m, ms, mt, U
  <2>1. ms \o mt \in Seq(U) /\ Len(ms \o mt) = Len(s) + Len(t)
    BY <1>2
  <2> QED BY <1>3, <1>4, <1>5, <2>1, SeqEqual
<1>7. FlattenSeq(ms \o mt) = FlattenSeq(ms) \o FlattenSeq(mt)
  <2> HIDE DEF ms, mt
  <2> QED BY <1>2, FlattenConcat
<1> QED BY <1>6, <1>7 DEF Mapped

LEMMA MappedFlatten ==
    ASSUME NEW S, NEW T, NEW K \in [T -> Seq(S)]
    PROVE  \A seqs \in Seq(Seq(T)) :
              Mapped(K, FlattenSeq(seqs)) = FlattenSeq([n \in DOMAIN seqs |-> Mapped(K, seqs[n])])
<1>4. ASSUME NEW x \in Seq(T), NEW y \in Seq(T)
      PROVE  Mapped(K, x \o y) = Mapped(K, x) \o Mapped(K, y)
  BY MappedConcat
<1> DEFINE Each(u) == [n \in DOMAIN u |-> Mapped(K, u[n])]
           W == Seq(T)
           U == Seq(S)
           Good == {n \in Nat : \A u \in Seq(W) :
                        Len(u) = n => Mapped(K, FlattenSeq(u)) = FlattenSeq(Each(u))}
<1>0. \A w \in W : Mapped(K, w) \in U
  BY MappedIsSequence
<1>1. 0 \in Good
  <2> SUFFICES ASSUME NEW u \in Seq(W), Len(u) = 0
               PROVE  Mapped(K, FlattenSeq(u)) = FlattenSeq(Each(u))
    OBVIOUS
  <2>1. u = <<>>
    OBVIOUS
  <2>2. FlattenSeq(u) = <<>>
    BY <2>1, FlattenEmpty
  <2>3. Each(u) = <<>>
    BY <2>1
  <2>4. [n \in DOMAIN <<>> |-> K[<<>>[n]]] = <<>>
    OBVIOUS
  <2>5. Mapped(K, <<>>) = FlattenSeq(<<>>)
    BY <2>4 DEF Mapped
  <2> QED BY <2>2, <2>3, <2>5
<1>2. ASSUME NEW m \in Nat, m \in Good PROVE m + 1 \in Good
  <2> SUFFICES ASSUME NEW u \in Seq(W), Len(u) = m + 1
               PROVE  Mapped(K, FlattenSeq(u)) = FlattenSeq(Each(u))
    OBVIOUS
  <2>1. PICK v \in Seq(W), e \in W : u = Append(v, e)
    <3>1. u # <<>>
      OBVIOUS
    <3> HIDE DEF W
    <3> QED BY <3>1, SequenceEmptyOrAppend
  <2>2. Len(v) = m /\ Len(v) \in Nat /\ DOMAIN v = 1 .. m /\ DOMAIN u = 1 .. m + 1
    <3> HIDE DEF W, Good, Each
    <3> QED BY <2>1
  <2>3. Mapped(K, FlattenSeq(v)) = FlattenSeq(Each(v))
    BY <1>2, <2>2
  <2>4. FlattenSeq(u) = FlattenSeq(v) \o e /\ FlattenSeq(v) \in Seq(T)
    BY <2>1, FlattenAppend, FlattenType
  <2>5. Mapped(K, FlattenSeq(v) \o e) = Mapped(K, FlattenSeq(v)) \o Mapped(K, e)
    <3>1. FlattenSeq(v) \in Seq(T) /\ e \in Seq(T)
      BY <2>1, <2>4
    <3> QED BY <3>1, <1>4, Zenon
  <2>6. Each(v) \in Seq(U) /\ Len(Each(v)) = m
    <3> HIDE DEF W, U
    <3>1. \A n \in 1 .. m : v[n] \in W
      BY <2>1, <2>2
    <3>2. Each(v) \in [1 .. m -> U]
      BY <1>0, <2>2, <3>1
    <3> HIDE DEF Each
    <3> QED BY <3>2
  <2>7. Each(u) = Append(Each(v), Mapped(K, e))
    <3> HIDE DEF W, U, Good
    <3>1. /\ \A n \in 1 .. m : u[n] = v[n]
          /\ u[m + 1] = e
      BY <2>1, <2>2
    <3>2. \A n \in 1 .. m : Each(u)[n] = Each(v)[n]
      BY <2>2, <3>1
    <3>3. Each(u)[m + 1] = Mapped(K, e)
      BY <2>2, <3>1
    <3>4. Each(u) \in [1 .. m + 1 -> U]
      <4>1. \A n \in 1 .. m + 1 : u[n] \in W
        BY <2>1, <2>2
      <4> QED BY <1>0, <2>2, <4>1
    <3> HIDE DEF Each
    <3>5. Each(u) \in Seq(U) /\ Len(Each(u)) = m + 1
      BY <3>4
    <3>6. Mapped(K, e) \in U
      BY <1>0, <2>1
    <3>7. /\ Append(Each(v), Mapped(K, e)) \in Seq(U)
          /\ Len(Append(Each(v), Mapped(K, e))) = m + 1
          /\ Append(Each(v), Mapped(K, e))[m + 1] = Mapped(K, e)
          /\ \A n \in 1 .. m : Append(Each(v), Mapped(K, e))[n] = Each(v)[n]
      BY <2>6, <3>6
    <3>8. \A n \in 1 .. m + 1 : Each(u)[n] = Append(Each(v), Mapped(K, e))[n]
      <4>1. \A n \in 1 .. m + 1 : n \in 1 .. m \/ n = m + 1
        OBVIOUS
      <4> QED BY <3>2, <3>3, <3>7, <4>1
    <3> QED BY <3>5, <3>7, <3>8, SeqEqual
  <2>8. FlattenSeq(Append(Each(v), Mapped(K, e))) = FlattenSeq(Each(v)) \o Mapped(K, e)
    <3>1. Each(v) \in Seq(Seq(S)) /\ Mapped(K, e) \in Seq(S)
      BY <1>0, <2>1, <2>6
    <3> HIDE DEF Each, W, U, Good
    <3> QED BY <3>1, FlattenAppend
  <2> HIDE DEF Each
  <2> QED BY <2>3, <2>4, <2>5, <2>7, <2>8
<1>3. Nat \subseteq Good
  <2> HIDE DEF Good
  <2> QED BY <1>1, <1>2, InductionBySet
<1> QED BY <1>3

LEMMA FlattenSingletons ==
    ASSUME NEW S, NEW s \in Seq(S)
    PROVE  FlattenSeq([n \in DOMAIN s |-> <<s[n]>>]) = s
<1> DEFINE Each(u) == [n \in DOMAIN u |-> <<u[n]>>]
           U == Seq(S)
           Good == {n \in Nat : \A u \in Seq(S) : Len(u) = n => FlattenSeq(Each(u)) = u}
<1>0. \A w \in S : <<w>> \in U
  OBVIOUS
<1>1. 0 \in Good
  <2> SUFFICES ASSUME NEW u \in Seq(S), Len(u) = 0
               PROVE  FlattenSeq(Each(u)) = u
    OBVIOUS
  <2>1. u = <<>>
    OBVIOUS
  <2>2. Each(u) = <<>>
    BY <2>1
  <2> QED BY <2>1, <2>2, FlattenEmpty
<1>2. ASSUME NEW m \in Nat, m \in Good PROVE m + 1 \in Good
  <2> SUFFICES ASSUME NEW u \in Seq(S), Len(u) = m + 1
               PROVE  FlattenSeq(Each(u)) = u
    OBVIOUS
  <2>1. PICK v \in Seq(S), e \in S : u = Append(v, e)
    <3>1. u # <<>>
      OBVIOUS
    <3> QED BY <3>1, SequenceEmptyOrAppend
  <2>2. Len(v) = m /\ Len(v) \in Nat /\ DOMAIN v = 1 .. m /\ DOMAIN u = 1 .. m + 1
    <3> HIDE DEF Good, Each
    <3> QED BY <2>1
  <2>3. FlattenSeq(Each(v)) = v
    BY <1>2, <2>2
  <2>6. Each(v) \in Seq(U) /\ Len(Each(v)) = m
    <3> HIDE DEF U
    <3>1. \A n \in 1 .. m : v[n] \in S
      BY <2>1, <2>2
    <3>2. Each(v) \in [1 .. m -> U]
      BY <1>0, <2>2, <3>1
    <3> HIDE DEF Each
    <3> QED BY <3>2
  <2>7. Each(u) = Append(Each(v), <<e>>)
    <3> HIDE DEF U, Good
    <3>1. /\ \A n \in 1 .. m : u[n] = v[n]
          /\ u[m + 1] = e
      BY <2>1, <2>2
    <3>2. \A n \in 1 .. m : Each(u)[n] = Each(v)[n]
      BY <2>2, <3>1
    <3>3. Each(u)[m + 1] = <<e>>
      BY <2>2, <3>1
    <3>4. Each(u) \in [1 .. m + 1 -> U]
      <4>1. \A n \in 1 .. m + 1 : u[n] \in S
        BY <2>1, <2>2
      <4> QED BY <1>0, <2>2, <4>1
    <3>6. <<e>> \in U
      BY <1>0, <2>1
    <3> DEFINE last == <<e>>
    <3> HIDE DEF Each, last
    <3>5. Each(u) \in Seq(U) /\ Len(Each(u)) = m + 1
      BY <3>4
    <3>7. /\ Append(Each(v), last) \in Seq(U)
          /\ Len(Append(Each(v), last)) = m + 1
          /\ Append(Each(v), last)[m + 1] = last
          /\ \A n \in 1 .. m : Append(Each(v), last)[n] = Each(v)[n]
      BY <2>6, <3>6 DEF last
    <3>8. \A n \in 1 .. m + 1 : Each(u)[n] = Append(Each(v), last)[n]
      <4>1. \A n \in 1 .. m + 1 : n \in 1 .. m \/ n = m + 1
        OBVIOUS
      <4> QED BY <3>2, <3>3, <3>7, <4>1 DEF last
    <3> QED BY <3>5, <3>7, <3>8, SeqEqual DEF last
  <2>8. FlattenSeq(Append(Each(v), <<e>>)) = FlattenSeq(Each(v)) \o <<e>>
    <3>1. Each(v) \in Seq(Seq(S)) /\ <<e>> \in Seq(S)
      BY <1>0, <2>1, <2>6
    <3> HIDE DEF Each, U, Good
    <3> QED BY <3>1, FlattenAppend
  <2>9. v \o <<e>> = Append(v, e)
    BY <2>1
  <2> HIDE DEF Each
  <2> QED BY <2>1, <2>3, <2>7, <2>8, <2>9
<1>3. Nat \subseteq Good
  <2> HIDE DEF Good
  <2> QED BY <1>1, <1>2, InductionBySet
<1> QED BY <1>3

IsAssociativeAt(x, y, z) == (x \o y) \o z = x \o (y \o z)

LEMMA ConcatAssociates ==
    ASSUME NEW S, NEW x \in Seq(S), NEW y \in Seq(S), NEW z \in Seq(S)
    PROVE  IsAssociativeAt(x, y, z)
BY ConcatIsAssociative DEF IsAssociativeAt

Regroups(s, a, o, t) == (s \o (a \o o)) \o t = (s \o a) \o (o \o t)

LEMMA ConcatShift ==
    ASSUME NEW S, NEW s \in Seq(S), NEW a \in Seq(S), NEW o \in Seq(S), NEW t \in Seq(S)
    PROVE  Regroups(s, a, o, t)
<1>1. s \o (a \o o) = (s \o a) \o o
  BY ConcatIsAssociative
<1>2. s \o a \in Seq(S)
  OBVIOUS
<1>3. ASSUME NEW x \in Seq(S) PROVE (x \o o) \o t = x \o (o \o t)
  BY ConcatIsAssociative, SMTT(60)
<1>4. ((s \o a) \o o) \o t = (s \o a) \o (o \o t)
  BY <1>2, <1>3
<1> QED BY <1>1, <1>4 DEF Regroups

LEMMA Behind ==
    ASSUME NEW a \in Nat, NEW c, c = a + 1, NEW n \in Nat, NEW m \in 1 .. n
    PROVE  1 + m \in 1 .. 1 + n /\ a + (1 + m) = c + m /\ c + (1 + m) - 1 = c + m
OBVIOUS

\* An entry with what stands in front of it and behind it.
IsJoint(S, ls, x, o, t, c) ==
    /\ ls \in Seq(S) /\ Len(ls) = c + Len(t) /\ DOMAIN ls = 1 .. Len(ls)
    /\ ls[c] = o /\ \A m \in 1 .. Len(x) : ls[m] = x[m]
    /\ \A m \in 1 .. Len(t) : ls[c + m] = t[m]

LEMMA JointFacts ==
    ASSUME NEW S, NEW x \in Seq(S), NEW o \in S, NEW t \in Seq(S), NEW ls, ls = x \o (<<o>> \o t),
           NEW c, c = Len(x) + 1
    PROVE  IsJoint(S, ls, x, o, t, c)
<1> DEFINE y == <<o>> \o t
<1>1. /\ y \in Seq(S) /\ Len(y) = 1 + Len(t) /\ y[1] = o /\ \A m \in 1 .. Len(t) : y[1 + m] = t[m]
      /\ Len(t) \in Nat /\ Len(x) \in Nat
  OBVIOUS
<1> HIDE DEF y
<1>2. /\ x \o y \in Seq(S) /\ Len(x \o y) = Len(x) + Len(y)
      /\ \A m \in 1 .. Len(x) : (x \o y)[m] = x[m]
      /\ \A m \in 1 .. Len(y) : (x \o y)[Len(x) + m] = y[m]
  <2>1. y \in Seq(S)
    BY <1>1
  <2>2. x \o y \in Seq(S) /\ Len(x \o y) = Len(x) + Len(y)
    BY <2>1
  <2>3. \A m \in 1 .. Len(x) : (x \o y)[m] = x[m]
    BY <2>1
  <2>4. ASSUME NEW m \in 1 .. Len(y) PROVE (x \o y)[Len(x) + m] = y[m]
    BY <2>1
  <2> QED BY <2>2, <2>3, <2>4
<1>3. ls = x \o y
  BY DEF y
<1>4. ls[c] = o
  BY <1>1, <1>2, <1>3
<1>5. ASSUME NEW m \in 1 .. Len(t) PROVE ls[c + m] = t[m]
  <2>1. 1 + m \in 1 .. Len(y) /\ Len(x) + (1 + m) = c + m
    BY <1>1, Behind
  <2>2. (x \o y)[Len(x) + (1 + m)] = y[1 + m]
    BY <1>2, <2>1
  <2> QED BY <1>1, <1>3, <2>1, <2>2
<1>6. Len(ls) = c + Len(t) /\ ls \in Seq(S)
  BY <1>1, <1>2, <1>3
<1>7. DOMAIN ls = 1 .. Len(ls)
  BY <1>6
<1> QED BY <1>2, <1>3, <1>4, <1>5, <1>6, <1>7 DEF IsJoint

IsReplacement(x, o, t, q) == [x \o (<<o>> \o t) EXCEPT ![Len(x) + 1] = q] = x \o (<<q>> \o t)

LEMMA JointReplaced ==
    ASSUME NEW S, NEW x \in Seq(S), NEW o \in S, NEW t \in Seq(S), NEW q \in S
    PROVE  IsReplacement(x, o, t, q)
<1> DEFINE ls == x \o (<<o>> \o t)
           new == x \o (<<q>> \o t)
           c == Len(x) + 1
           ex == [ls EXCEPT ![c] = q]
<1>1. /\ ls \in Seq(S) /\ Len(ls) = c + Len(t) /\ DOMAIN ls = 1 .. Len(ls)
      /\ ls[c] = o /\ \A m \in 1 .. Len(x) : ls[m] = x[m]
      /\ \A m \in 1 .. Len(t) : ls[c + m] = t[m]
  BY JointFacts DEF IsJoint
<1>2. /\ new \in Seq(S) /\ Len(new) = c + Len(t) /\ DOMAIN new = 1 .. Len(new)
      /\ new[c] = q /\ \A m \in 1 .. Len(x) : new[m] = x[m]
      /\ \A m \in 1 .. Len(t) : new[c + m] = t[m]
  BY JointFacts DEF IsJoint
<1>3. Len(x) \in Nat /\ Len(t) \in Nat
  OBVIOUS
<1> HIDE DEF ls, new
<1>4. /\ ex \in Seq(S) /\ Len(ex) = Len(ls)
      /\ \A m \in 1 .. Len(ls) : ex[m] = IF m = c THEN q ELSE ls[m]
  BY <1>1
<1> HIDE DEF ex
<1>5. ASSUME NEW m \in 1 .. c + Len(t) PROVE ex[m] = new[m]
  <2>1. CASE m < c
    <3>1. m \in 1 .. Len(x) /\ m # c
      BY <1>3, <2>1
    <3> QED BY <1>1, <1>2, <1>4, <3>1
  <2>2. CASE m = c
    BY <1>1, <1>2, <1>4, <2>2
  <2>3. CASE m > c
    <3>1. PICK j \in 1 .. Len(t) : m = c + j
      <4>1. m - c \in 1 .. Len(t) /\ m = c + (m - c)
        BY <1>3, <2>3
      <4> QED BY <4>1
    <3>2. m # c
      BY <2>3
    <3> QED BY <1>1, <1>2, <1>4, <3>1, <3>2
  <2> QED BY <1>3, <2>1, <2>2, <2>3
<1>6. ex = new
  BY <1>1, <1>2, <1>4, <1>5, SeqEqual
<1> QED BY <1>6 DEF ex, new, ls, IsReplacement

IsCut(ls, c, x, o, t) == SubSeq(ls, 1, c - 1) = x /\ SubSeq(ls, c, Len(ls)) = <<o>> \o t

LEMMA JointCut ==
    ASSUME NEW S, NEW x \in Seq(S), NEW o \in S, NEW t \in Seq(S), NEW ls, ls = x \o (<<o>> \o t),
           NEW c, c = Len(x) + 1
    PROVE  IsCut(ls, c, x, o, t)
<1> DEFINE y == <<o>> \o t
           u == SubSeq(ls, 1, c - 1)
           v == SubSeq(ls, c, Len(ls))
<1>1. /\ ls \in Seq(S) /\ Len(ls) = c + Len(t) /\ DOMAIN ls = 1 .. Len(ls)
      /\ ls[c] = o /\ \A m \in 1 .. Len(x) : ls[m] = x[m]
      /\ \A m \in 1 .. Len(t) : ls[c + m] = t[m]
  BY JointFacts DEF IsJoint
<1>2. Len(x) \in Nat /\ Len(t) \in Nat /\ c \in Nat /\ Len(ls) \in Nat /\ c - 1 = Len(x)
  BY <1>1
<1>3. /\ y \in Seq(S) /\ Len(y) = 1 + Len(t) /\ y[1] = o /\ \A m \in 1 .. Len(t) : y[1 + m] = t[m]
  OBVIOUS
<1> HIDE DEF y
<1>4. u \in Seq(S) /\ Len(u) = Len(x) /\ \A m \in 1 .. Len(x) : u[m] = ls[m]
  <2>1. \A m \in 1 .. Len(x) : ls[m] \in S
    BY <1>1
  <2>2. /\ SubSeq(ls, 1, Len(x)) \in Seq(S)
        /\ Len(SubSeq(ls, 1, Len(x))) = IF 1 <= Len(x) THEN Len(x) - 1 + 1 ELSE 0
        /\ \A m \in 1 .. Len(x) - 1 + 1 : SubSeq(ls, 1, Len(x))[m] = ls[1 + m - 1]
    BY <1>2, <2>1, SubSeqProperties
  <2>3. \A m \in 1 .. Len(x) : m \in 1 .. Len(x) - 1 + 1 /\ 1 + m - 1 = m
    BY <1>2
  <2>4. u = SubSeq(ls, 1, Len(x))
    BY <1>2
  <2> HIDE DEF u
  <2>5. \A m \in 1 .. Len(x) : u[m] = ls[m]
    BY <2>2, <2>3, <2>4
  <2>6. Len(u) = Len(x)
    BY <1>2, <2>2, <2>4
  <2> QED BY <2>2, <2>4, <2>5, <2>6
<1>5. v \in Seq(S) /\ Len(v) = 1 + Len(t) /\ \A m \in 1 .. 1 + Len(t) : v[m] = ls[c + m - 1]
  <2>1. \A m \in c .. Len(ls) : ls[m] \in S
    BY <1>1, <1>2
  <2>2. /\ SubSeq(ls, c, Len(ls)) \in Seq(S)
        /\ Len(SubSeq(ls, c, Len(ls))) = IF c <= Len(ls) THEN Len(ls) - c + 1 ELSE 0
        /\ \A m \in 1 .. Len(ls) - c + 1 : SubSeq(ls, c, Len(ls))[m] = ls[c + m - 1]
    BY <1>2, <2>1, SubSeqProperties
  <2>3. Len(ls) - c + 1 = 1 + Len(t) /\ c <= Len(ls)
    BY <1>1, <1>2
  <2> QED BY <2>2, <2>3
<1> HIDE DEF u, v
<1>6. u = x
  BY <1>1, <1>4, SeqEqual
<1>7. ASSUME NEW m \in 1 .. 1 + Len(t) PROVE v[m] = y[m]
  <2>1. CASE m = 1
    <3>0. c + m - 1 = c
      BY <1>2, <2>1
    <3>3. v[m] = ls[c + m - 1]
      BY <1>5
    <3>1. v[m] = ls[c]
      BY <3>0, <3>3
    <3>2. ls[c] = o /\ y[m] = o
      BY <1>1, <1>3, <2>1
    <3> QED BY <3>1, <3>2
  <2>2. CASE m # 1
    <3>1. PICK j \in 1 .. Len(t) : m = 1 + j
      <4>1. m - 1 \in 1 .. Len(t) /\ m = 1 + (m - 1)
        BY <1>2, <2>2
      <4> QED BY <4>1
    <3>2. c + (1 + j) - 1 = c + j
      BY <1>2, Behind
    <3>3. v[m] = ls[c + j]
      BY <1>5, <3>1, <3>2
    <3> QED BY <1>1, <1>3, <3>1, <3>3
  <2> QED BY <2>1, <2>2
<1>8. v = y
  BY <1>3, <1>5, <1>7, SeqEqual
<1> QED BY <1>6, <1>8 DEF u, v, y, IsCut
-----------------------------------------------------------------------------
\* Parts of a sequence, and of one that runs the other way.
IsPart(p, s, i, m) == Len(p) = m /\ \A j \in 1 .. m : p[j] = s[i + j]

LEMMA PartFacts ==
    ASSUME NEW S, NEW s \in Seq(S), NEW i \in Nat, NEW m \in Nat, i + m <= Len(s)
    PROVE  SubSeq(s, i + 1, i + m) \in Seq(S) /\ IsPart(SubSeq(s, i + 1, i + m), s, i, m)
<1> DEFINE p == [j \in 1 .. m |-> s[i + j]]
<1>1. \A j \in 1 .. m : s[i + j] \in S
  OBVIOUS
<1>2. p \in Seq(S) /\ Len(p) = m /\ \A j \in 1 .. m : p[j] = s[i + j]
  BY <1>1
<1> HIDE DEF p
<1>3. SubSeq(s, i + 1, i + Len(p)) = p
  BY <1>2, SubSeqIs
<1> QED BY <1>2, <1>3 DEF IsPart

Mirrored(u, v) == u = Reverse(v) /\ v = Reverse(u)

LEMMA MirroredParts ==
    ASSUME NEW S, NEW s \in Seq(S), NEW t \in Seq(S), NEW i \in Nat, NEW m \in Nat,
           i + m <= Len(s), i + m <= Len(t),
           \A j \in 1 .. m : s[i + j] = t[i + (m + 1 - j)]
    PROVE  Mirrored(SubSeq(s, i + 1, i + m), SubSeq(t, i + 1, i + m))
<1> DEFINE u == SubSeq(s, i + 1, i + m)
           v == SubSeq(t, i + 1, i + m)
<1>1. /\ u \in Seq(S) /\ IsPart(u, s, i, m)
      /\ v \in Seq(S) /\ IsPart(v, t, i, m)
  BY PartFacts
<1> HIDE DEF u, v
<1>2. /\ Len(u) = m /\ DOMAIN u = 1 .. m /\ \A j \in 1 .. m : u[j] = s[i + j]
      /\ Len(v) = m /\ DOMAIN v = 1 .. m /\ \A j \in 1 .. m : v[j] = t[i + j]
  BY <1>1 DEF IsPart
<1>3. \A j \in 1 .. m : u[j] = v[m - j + 1] /\ v[j] = u[m - j + 1]
  <2> SUFFICES ASSUME NEW j \in 1 .. m PROVE u[j] = v[m - j + 1] /\ v[j] = u[m - j + 1]
    OBVIOUS
  <2>1. m - j + 1 \in 1 .. m /\ m + 1 - j = m - j + 1 /\ m + 1 - (m - j + 1) = j
    OBVIOUS
  <2>2. u[j] = s[i + j] /\ s[i + j] = t[i + (m - j + 1)] /\ v[m - j + 1] = t[i + (m - j + 1)]
    BY <1>2, <2>1
  <2>3. u[m - j + 1] = s[i + (m - j + 1)] /\ s[i + (m - j + 1)] = t[i + j] /\ v[j] = t[i + j]
    BY <1>2, <2>1
  <2> QED BY <2>2, <2>3
<1>4. u = Reverse(v)
  <2>1. u = [j \in 1 .. m |-> u[j]]
    BY <1>1, <1>2
  <2> QED BY <1>2, <1>3, <2>1 DEF Reverse
<1>5. v = Reverse(u)
  <2>1. v = [j \in 1 .. m |-> v[j]]
    BY <1>1, <1>2
  <2> QED BY <1>2, <1>3, <2>1 DEF Reverse
<1> QED BY <1>4, <1>5 DEF Mirrored, u, v
-----------------------------------------------------------------------------
\* A recursive function on 1 .. N + 1 that only looks behind, by any number of
\* places, exists.
LooksBehind(V, G, N) ==
    \A i \in 1 .. N + 1 : \A f, g \in [1 .. N + 1 -> V] :
        (\A j \in i + 1 .. N + 1 : f[j] = g[j]) => G[i][f] = G[i][g]

IsBackwardStep(V, G, N) ==
    G \in [1 .. N + 1 -> [[1 .. N + 1 -> V] -> V]] /\ LooksBehind(V, G, N)
IsSolution(V, G, N, f) == f \in [1 .. N + 1 -> V] /\ \A i \in 1 .. N + 1 : f[i] = G[i][f]

LEMMA BackwardRecursion ==
    ASSUME NEW V, NEW a \in V, NEW N \in Nat, NEW G, IsBackwardStep(V, G, N)
    PROVE  \E f : IsSolution(V, G, N, f)
<1> DEFINE F == [1 .. N + 1 -> V]
           Good(f, m) == \A i \in 1 .. N + 1 : i > N + 1 - m => f[i] = G[i][f]
           T == {m \in Nat : m <= N + 1 => \E f \in F : Good(f, m)}
<1>0. G \in [1 .. N + 1 -> [[1 .. N + 1 -> V] -> V]] /\ LooksBehind(V, G, N)
  BY DEF IsBackwardStep
<1>1. 0 \in T
  <2> DEFINE f == [i \in 1 .. N + 1 |-> a]
  <2>1. f \in F
    OBVIOUS
  <2>2. Good(f, 0)
    OBVIOUS
  <2> QED BY <2>1, <2>2
<1>2. ASSUME NEW m \in Nat, m \in T
      PROVE  m + 1 \in T
  <2> SUFFICES ASSUME m + 1 <= N + 1
               PROVE  \E f \in F : Good(f, m + 1)
    OBVIOUS
  <2>1. PICK f \in F : Good(f, m)
    BY <1>2
  <2> DEFINE c == N + 1 - m
             x == G[c][f]
             g == [i \in 1 .. N + 1 |-> IF i = c THEN x ELSE f[i]]
  <2>2. c \in 1 .. N + 1
    OBVIOUS
  <2>3. x \in V
    BY <1>0, <2>1, <2>2
  <2>4. g \in F
    BY <2>1, <2>3
  <2>5. \A i \in 1 .. N + 1 : i >= c => G[i][f] = G[i][g]
    <3> SUFFICES ASSUME NEW i \in 1 .. N + 1, i >= c PROVE G[i][f] = G[i][g]
      OBVIOUS
    <3>1. \A j \in i + 1 .. N + 1 : f[j] = g[j]
      BY <2>2
    <3> HIDE DEF g
    <3> QED BY <1>0, <2>1, <2>4, <3>1 DEF LooksBehind
  <2>6. \A i \in 1 .. N + 1 : i > N + 1 - (m + 1) => g[i] = G[i][g]
    <3> SUFFICES ASSUME NEW i \in 1 .. N + 1, i > N + 1 - (m + 1) PROVE g[i] = G[i][g]
      OBVIOUS
    <3>0. i >= c
      BY <2>2
    <3>1. CASE i = c
      BY <2>2, <2>5, <3>0, <3>1
    <3>2. CASE i # c
      <4>1. i > N + 1 - m
        BY <3>0, <3>2
      <4>2. g[i] = f[i] /\ f[i] = G[i][f]
        BY <2>1, <3>2, <4>1
      <4> QED BY <2>5, <3>0, <4>2
    <3> QED BY <3>1, <3>2
  <2> HIDE DEF F, g
  <2> QED BY <2>4, <2>6
<1> HIDE DEF T
<1>3. N + 1 \in T
  BY <1>1, <1>2, InductionBySet
<1>4. PICK f \in F : Good(f, N + 1)
  BY <1>3 DEF T
<1>5. \A i \in 1 .. N + 1 : f[i] = G[i][f]
  BY <1>4
<1> HIDE DEF Good
<1> QED BY <1>4, <1>5 DEF IsSolution

\* What takes an operation from its front and goes on with the rest, until
\* nothing is left, takes all operations in order.
LEMMA TakenOneByOne ==
    ASSUME NEW S, NEW ops \in Seq(S), NEW tail, tail[Len(ops) + 1] = <<>>,
           \A n \in 1 .. Len(ops) : tail[n] = <<ops[n]>> \o tail[n + 1]
    PROVE  tail[1] = ops
<1> DEFINE N == Len(ops)
           Right(n) == /\ tail[n] \in Seq(S) /\ Len(tail[n]) = N + 1 - n
                       /\ \A j \in 1 .. N + 1 - n : tail[n][j] = ops[n - 1 + j]
           T == {m \in Nat : m <= N => Right(N + 1 - m)}
<1>0. /\ N \in Nat /\ DOMAIN ops = 1 .. N /\ ops = [j \in 1 .. N |-> ops[j]]
      /\ tail[N + 1] = <<>>
      /\ \A n \in 1 .. N : ops[n] \in S /\ tail[n] = <<ops[n]>> \o tail[n + 1]
  OBVIOUS
<1>8. N \in Nat
  BY <1>0
<1> HIDE DEF N
<1>1. 0 \in T
  <2>1. N + 1 - 0 = N + 1 /\ N + 1 - (N + 1) = 0 /\ Len(<<>>) = 0 /\ <<>> \in Seq(S)
    BY <1>0
  <2>2. Right(N + 1)
    BY <1>0, <2>1
  <2> QED BY <2>1, <2>2
<1> HIDE DEF Right
<1>2. ASSUME NEW m \in Nat, m \in T
      PROVE  m + 1 \in T
  <2> SUFFICES ASSUME m + 1 <= N PROVE Right(N + 1 - (m + 1))
    BY <1>2 DEF T
  <2>0. Right(N + 1 - m)
    BY <1>8, <1>2 DEF T
  <2> HIDE DEF T
  <2> DEFINE n == N - m
  <2>1. n \in 1 .. N /\ N + 1 - (m + 1) = n /\ N + 1 - m = n + 1 /\ n + 1 \in 1 .. N + 1
    BY <1>0
  <2>2. Right(n + 1)
    BY <2>0, <2>1
  <2> HIDE DEF n
  <2> DEFINE t == tail[n + 1]
             o == ops[n]
  <2>3. t \in Seq(S) /\ o \in S /\ tail[n] = <<o>> \o t
    BY <1>0, <2>1, <2>2 DEF Right
  <2>4. Len(t) = N - n /\ \A j \in 1 .. N - n : t[j] = ops[n + j]
    <3>1. N + 1 - (n + 1) = N - n /\ (n + 1) - 1 = n
      BY <1>0, <2>1
    <3> QED BY <2>2, <3>1 DEF Right
  <2> HIDE DEF t, o
  <2>5. /\ <<o>> \o t \in Seq(S) /\ Len(<<o>> \o t) = 1 + Len(t) /\ (<<o>> \o t)[1] = o
        /\ \A j \in 1 .. Len(t) : (<<o>> \o t)[1 + j] = t[j]
    BY <2>3
  <2>6. tail[n] \in Seq(S) /\ Len(tail[n]) = N + 1 - n
    <3>1. tail[n] \in Seq(S)
      BY <2>3, <2>5
    <3> QED BY <1>0, <2>1, <2>3, <2>4, <2>5, <3>1
  <2>7. \A j \in 1 .. N + 1 - n : tail[n][j] = ops[n - 1 + j]
    <3> SUFFICES ASSUME NEW j \in 1 .. N + 1 - n PROVE tail[n][j] = ops[n - 1 + j]
      OBVIOUS
    <3>1. CASE j = 1
      <4>1. n - 1 + j = n
        BY <2>1, <3>1
      <4> QED BY <2>3, <2>5, <3>1, <4>1 DEF o
    <3>2. CASE j # 1
      <4> DEFINE i == j - 1
      <4>1. i \in 1 .. N - n /\ 1 + i = j /\ n + i = n - 1 + j
        BY <1>8, <2>1, <3>2
      <4> HIDE DEF i
      <4>2. (<<o>> \o t)[1 + i] = t[i] /\ t[i] = ops[n + i]
        BY <2>4, <2>5, <4>1
      <4> QED BY <2>3, <4>1, <4>2
    <3> QED BY <3>1, <3>2
  <2> QED BY <2>1, <2>6, <2>7 DEF Right
<1> HIDE DEF T
<1>3. N \in T
  BY <1>0, <1>1, <1>2, InductionBySet
<1>4. N + 1 - N = 1
  BY <1>0
<1>5. Right(1)
  BY <1>8, <1>3, <1>4 DEF T
<1>6. tail[1] \in Seq(S) /\ Len(tail[1]) = N /\ \A j \in 1 .. N : tail[1][j] = ops[j]
  <2>1. N + 1 - 1 = N /\ \A j \in 1 .. N : 1 - 1 + j = j
    BY <1>0
  <2> QED BY <1>5, <2>1 DEF Right
<1> DEFINE t == tail[1]
<1>7. t \in Seq(S) /\ Len(t) = N
  BY <1>6
<1> HIDE DEF t
<1>9. t = [j \in 1 .. N |-> t[j]] /\ ops = [j \in 1 .. N |-> ops[j]]
  BY <1>0, <1>7
<1> QED BY <1>6, <1>9 DEF t

\* What a program reads that goes from place to place in N words: at a place in
\* stop it ends, at any other it takes an operation and goes on.
IsReading(N, stop, end, op, next, f) ==
    f = [i \in 1 .. N + 1 |-> IF i \in stop THEN end[i] ELSE <<op[i]>> \o f[next[i]]]

LEMMA ReadingExists ==
    ASSUME NEW V, NEW N \in Nat, NEW stop, NEW end \in [1 .. N + 1 -> Seq(V)],
           NEW op \in [1 .. N + 1 -> V], NEW next,
           \A i \in 1 .. N + 1 : i \notin stop => next[i] \in i + 1 .. N + 1
    PROVE  \E f : IsReading(N, stop, end, op, next, f)
<1> DEFINE U == Seq(V)
           F == [1 .. N + 1 -> U]
           Step(i, f) == IF i \in stop THEN end[i] ELSE <<op[i]>> \o f[next[i]]
           G == [i \in 1 .. N + 1 |-> [f \in F |-> Step(i, f)]]
<1>1. \A i \in 1 .. N + 1, f \in F : Step(i, f) \in U
  <2> SUFFICES ASSUME NEW i \in 1 .. N + 1, NEW f \in F PROVE Step(i, f) \in U
    OBVIOUS
  <2>1. CASE i \in stop
    BY <2>1
  <2>2. CASE i \notin stop
    <3> DEFINE t == f[next[i]]
    <3>1. next[i] \in 1 .. N + 1
      BY <2>2
    <3>2. t \in U /\ op[i] \in V
      BY <3>1
    <3> HIDE DEF t
    <3>3. <<op[i]>> \o t \in U
      BY <3>2
    <3> QED BY <2>2, <3>3 DEF t
  <2> QED BY <2>1, <2>2
<1>2. <<>> \in U
  OBVIOUS
<1>3. \A i \in 1 .. N + 1 : \A f, g \in F :
         (\A j \in i + 1 .. N + 1 : f[j] = g[j]) => Step(i, f) = Step(i, g)
  OBVIOUS
<1> HIDE DEF U, Step
<1>4. G \in [1 .. N + 1 -> [F -> U]]
  BY <1>1
<1>5. LooksBehind(U, G, N)
  BY <1>3 DEF LooksBehind
<1>6. \A i \in 1 .. N + 1, f \in F : G[i][f] = Step(i, f)
  OBVIOUS
<1> HIDE DEF G
<1>7. PICK f \in F : \A i \in 1 .. N + 1 : f[i] = G[i][f]
  <2>1. IsBackwardStep(U, G, N)
    BY <1>4, <1>5 DEF IsBackwardStep
  <2>2. \E f : IsSolution(U, G, N, f)
    BY <1>2, <2>1, BackwardRecursion
  <2> QED BY <2>2 DEF IsSolution
<1>8. f = [i \in 1 .. N + 1 |-> Step(i, f)]
  BY <1>6, <1>7
<1> QED BY <1>8 DEF IsReading, Step

\* If the operations are where it goes, one behind the other, they are what it
\* reads.
LEMMA ReadingIs ==
    ASSUME NEW N \in Nat, NEW stop, NEW end, NEW op, NEW next, NEW f,
           IsReading(N, stop, end, op, next, f),
           NEW V, NEW ops \in Seq(V), NEW at \in [1 .. Len(ops) + 1 -> 1 .. N + 1],
           at[1] = 1,
           at[Len(ops) + 1] \in stop, end[at[Len(ops) + 1]] = <<>>,
           \A n \in 1 .. Len(ops) :
              at[n] \notin stop /\ op[at[n]] = ops[n] /\ next[at[n]] = at[n + 1]
    PROVE  f[1] = ops
<1> DEFINE M == Len(ops)
           tail == [n \in 1 .. M + 1 |-> f[at[n]]]
<1>1. M \in Nat /\ M + 1 \in 1 .. M + 1 /\ 1 \in 1 .. M + 1
  OBVIOUS
<1>2. \A i \in 1 .. N + 1 : f[i] = IF i \in stop THEN end[i] ELSE <<op[i]>> \o f[next[i]]
  BY DEF IsReading
<1> HIDE DEF M
<1>3. \A n \in 1 .. M + 1 : tail[n] = f[at[n]] /\ at[n] \in 1 .. N + 1
  BY DEF M
<1>4. tail[M + 1] = <<>>
  BY <1>1, <1>2, <1>3 DEF M
<1>5. ASSUME NEW n \in 1 .. M
      PROVE  tail[n] = <<ops[n]>> \o tail[n + 1]
  <2>1. n \in 1 .. M + 1 /\ n + 1 \in 1 .. M + 1
    BY <1>1
  <2>2. at[n] \notin stop /\ op[at[n]] = ops[n] /\ next[at[n]] = at[n + 1]
    BY DEF M
  <2>3. tail[n] = <<op[at[n]]>> \o f[next[at[n]]]
    BY <1>2, <1>3, <2>1, <2>2
  <2>4. tail[n + 1] = f[next[at[n]]]
    BY <1>3, <2>1, <2>2
  <2> QED BY <2>2, <2>3, <2>4
<1>6. tail[1] = f[1]
  BY <1>1, <1>3
<1> HIDE DEF tail
<1>7. tail[1] = ops
  BY <1>4, <1>5, TakenOneByOne DEF M
<1> QED BY <1>6, <1>7
=============================================================================
