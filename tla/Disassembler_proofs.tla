------------------------ MODULE Disassembler_proofs ------------------------
(***************************************************************************)
(* resolve_labels of b43-dasm, for images of any length: the list that is  *)
(* walked grows under the loop, by labels before and behind it, and no     *)
(* reference that has been made is moved by that.                          *)
(***************************************************************************)
EXTENDS Disassembler, SequenceLemmas

\* Statements and the label numbers in them.
ListTypeOK ==
    /\ image \in Images /\ i \in Nat \ {0} /\ labels \in Nat
    /\ IsSequence(code) /\ \A k \in DOMAIN code : LabelAddr(code[k]) \in Nat
    /\ IsSequence(stmts)
    /\ \A k \in DOMAIN stmts :
          /\ DOMAIN stmts[k] = {"type", "insn", "addr", "label", "name"}
          /\ stmts[k].type \in {"insn", "label"} /\ stmts[k].addr \in Int

\* Before references are looked at there are none, and no labels.
NothingResolvedYet ==
    pc \in {"read", "disasm"} =>
        \A k \in DOMAIN stmts : stmts[k].type = "insn" /\ stmts[k].label = 0

\* Every label statement has a number of its own, which was given to it.
LabelsAreDistinct ==
    \A k \in DOMAIN stmts : stmts[k].type = "label" =>
        /\ stmts[k].label \in 1 .. labels
        /\ \A l \in LabelPositions(stmts[k].label) : l = k

ListInv == ListTypeOK /\ NothingResolvedYet /\ LabelsAreDistinct /\ ReferencesStayRight

\* The last two, of any list and number of labels.
LabelsAt(list, id) == {k \in DOMAIN list : list[k].type = "label" /\ list[k].label = id}
Distinct(list, n)  ==
    \A k \in DOMAIN list : list[k].type = "label" =>
        list[k].label \in 1 .. n /\ \A l \in LabelsAt(list, list[k].label) : l = k
Right(list) ==
    \A k \in DOMAIN list :
        (list[k].type = "insn" /\ list[k].label > 0) =>
            \E l \in DOMAIN list :
                LabelsAt(list, list[k].label) = {l} /\ InsnsUpTo(list, l) = list[k].addr

LEMMA AboutTheList ==
    /\ LabelsAreDistinct <=> Distinct(stmts, labels)
    /\ ReferencesStayRight <=> Right(stmts)
    /\ LabelsAreDistinct' <=> Distinct(stmts', labels')
    /\ ReferencesStayRight' <=> Right(stmts')
BY DEF LabelsAreDistinct, ReferencesStayRight, LabelPositions, Distinct, Right, LabelsAt, InsnsUpTo
-----------------------------------------------------------------------------
LEMMA InsertFacts ==
    ASSUME NEW s, IsSequence(s), NEW k \in 1 .. Len(s), NEW e
    PROVE  LET t == InsertAt(s, k, e)
           IN  /\ IsSequence(t) /\ Len(t) = Len(s) + 1
               /\ \A j \in 1 .. k - 1 : t[j] = s[j]
               /\ t[k] = e
               /\ \A j \in k .. Len(s) : t[j + 1] = s[j]
<1>1. PICK R : s \in Seq(R)
  BY DEF IsSequence
<1> DEFINE S == R \cup {e}
           N == Len(s)
<1>2. s \in Seq(S) /\ e \in S /\ N \in Nat /\ k \in 1 .. N /\ \A j \in 1 .. N : s[j] \in S
  BY <1>1
<1> HIDE DEF S, N
<1> DEFINE a == SubSeq(s, 1, k - 1)
           c == SubSeq(s, k, N)
<1>3. a \in Seq(S) /\ Len(a) = k - 1 /\ \A j \in 1 .. k - 1 : a[j] = s[j]
  <2> DEFINE m == k - 1
  <2>1. 1 \in Int /\ m \in Int /\ \A j \in 1 .. m : s[j] \in S
    BY <1>2
  <2>2. (IF 1 <= m THEN m - 1 + 1 ELSE 0) = m /\ m - 1 + 1 = m /\ \A j \in 1 .. m : 1 + j - 1 = j
    BY <1>2
  <2> HIDE DEF m
  <2>3. /\ SubSeq(s, 1, m) \in Seq(S)
        /\ Len(SubSeq(s, 1, m)) = IF 1 <= m THEN m - 1 + 1 ELSE 0
        /\ \A j \in 1 .. m - 1 + 1 : SubSeq(s, 1, m)[j] = s[1 + j - 1]
    BY <2>1, SubSeqProperties
  <2> QED BY <2>2, <2>3 DEF m
<1>4. c \in Seq(S) /\ Len(c) = N - k + 1 /\ \A j \in 1 .. N - k + 1 : c[j] = s[k + j - 1]
  <2>1. k \in Int /\ N \in Int /\ \A j \in k .. N : s[j] \in S
    BY <1>2
  <2>2. (IF k <= N THEN N - k + 1 ELSE 0) = N - k + 1
    BY <1>2
  <2> QED BY <2>1, <2>2, SubSeqProperties
<1>5. InsertAt(s, k, e) = a \o <<e>> \o c
  BY DEF InsertAt, N
<1> HIDE DEF a, c
<1> DEFINE b == a \o <<e>>
<1>6. b \in Seq(S) /\ Len(b) = k /\ b[k] = e /\ \A j \in 1 .. k - 1 : b[j] = s[j]
  <2>1. b = Append(a, e)
    BY <1>2, <1>3
  <2> HIDE DEF b
  <2> QED BY <1>2, <1>3, <2>1
<1>7. InsertAt(s, k, e) = b \o c
  BY <1>5
<1> HIDE DEF b
<1> DEFINE t == b \o c
<1>8. /\ t \in Seq(S) /\ Len(t) = k + (N - k + 1)
      /\ \A j \in 1 .. k : t[j] = b[j]
      /\ \A j \in 1 .. N - k + 1 : t[k + j] = c[j]
  <2> DEFINE m == N - k + 1
  <2>1. b \in Seq(S) /\ c \in Seq(S) /\ Len(b) = k /\ Len(c) = m
    BY <1>4, <1>6
  <2> HIDE DEF m
  <2>2. /\ t \in Seq(S) /\ Len(t) = Len(b) + Len(c)
        /\ \A j \in 1 .. Len(b) : t[j] = b[j]
        /\ \A j \in 1 .. Len(c) : t[Len(b) + j] = c[j]
    BY <2>1
  <2> QED BY <2>1, <2>2 DEF m
<1> HIDE DEF t
<1>9. k + (N - k + 1) = N + 1 /\ \A j \in 1 .. k - 1 : j \in 1 .. k
  BY <1>2
<1>10. ASSUME NEW j \in k .. N PROVE t[j + 1] = s[j]
  <2> DEFINE l == j - k + 1
  <2>1. l \in 1 .. N - k + 1 /\ k + l = j + 1 /\ k + l - 1 = j
    BY <1>2
  <2> HIDE DEF l
  <2> QED BY <1>4, <1>8, <2>1
<1>11. k \in 1 .. k
  BY <1>2
<1> QED BY <1>6, <1>7, <1>8, <1>9, <1>10, <1>11 DEF t, N, IsSequence
-----------------------------------------------------------------------------
\* The number of instructions up to a position.
LEMMA UpToType ==
    ASSUME NEW list, NEW k \in Nat
    PROVE  InsnsUpTo(list, k) \in Nat
<1>1. IsFiniteSet(1 .. k)
  BY FS_Interval
<1>2. IsFiniteSet({l \in 1 .. k : list[l].type = "insn"})
  BY <1>1, FS_Subset
<1> QED BY <1>2, FS_CardinalityType DEF InsnsUpTo

LEMMA UpToNext ==
    ASSUME NEW list, NEW k \in Nat
    PROVE  InsnsUpTo(list, k + 1)
              = InsnsUpTo(list, k) + IF list[k + 1].type = "insn" THEN 1 ELSE 0
<1> DEFINE S == {l \in 1 .. k : list[l].type = "insn"}
           T == {l \in 1 .. k + 1 : list[l].type = "insn"}
<1>1. IsFiniteSet(S) /\ Cardinality(S) \in Nat
  <2>1. IsFiniteSet(1 .. k)
    BY FS_Interval
  <2>2. IsFiniteSet(S)
    BY <2>1, FS_Subset
  <2> HIDE DEF S
  <2> QED BY <2>2, FS_CardinalityType
<1>2. \A l : l \in 1 .. k + 1 <=> l \in 1 .. k \/ l = k + 1
  OBVIOUS
<1>3. CASE list[k + 1].type = "insn"
  <2>1. T = S \cup {k + 1} /\ k + 1 \notin S
    BY <1>2, <1>3
  <2> HIDE DEF S, T
  <2>2. Cardinality(T) = Cardinality(S) + 1
    BY <1>1, <2>1, FS_AddElement
  <2>3. InsnsUpTo(list, k + 1) = Cardinality(T) /\ InsnsUpTo(list, k) = Cardinality(S)
    BY DEF S, T, InsnsUpTo
  <2> QED BY <1>3, <2>2, <2>3
<1>4. CASE list[k + 1].type # "insn"
  <2>1. T = S
    BY <1>2, <1>4
  <2> HIDE DEF S, T
  <2>2. InsnsUpTo(list, k + 1) = Cardinality(T) /\ InsnsUpTo(list, k) = Cardinality(S)
    BY DEF S, T, InsnsUpTo
  <2> QED BY <1>1, <1>4, <2>1, <2>2
<1> QED BY <1>3, <1>4

LEMMA UpToSame ==
    ASSUME NEW a, NEW b, NEW k \in Nat, \A l \in 1 .. k : a[l].type = b[l].type
    PROVE  InsnsUpTo(a, k) = InsnsUpTo(b, k)
<1>1. {l \in 1 .. k : a[l].type = "insn"} = {l \in 1 .. k : b[l].type = "insn"}
  OBVIOUS
<1> QED BY <1>1 DEF InsnsUpTo

\* Behind a new label as many instructions are counted as before it was there.
LEMMA UpToShift ==
    ASSUME NEW a, NEW b, NEW n \in Nat, NEW k \in 1 .. n,
           \A j \in 1 .. k - 1 : b[j].type = a[j].type,
           b[k].type = "label",
           \A j \in k .. n : b[j + 1].type = a[j].type,
           NEW p \in k .. n
    PROVE  /\ InsnsUpTo(b, p + 1) = InsnsUpTo(a, p)
           /\ InsnsUpTo(b, k) = InsnsUpTo(a, k - 1)
<1> DEFINE T == {d \in Nat : k + d <= n + 1 => InsnsUpTo(b, k + d) = InsnsUpTo(a, k + d - 1)}
<1>1. InsnsUpTo(b, k) = InsnsUpTo(a, k - 1)
  <2> DEFINE m == k - 1
  <2>1. m \in Nat /\ m + 1 = k
    OBVIOUS
  <2>2. \A l \in 1 .. m : b[l].type = a[l].type
    OBVIOUS
  <2> HIDE DEF m
  <2>3. InsnsUpTo(b, m) = InsnsUpTo(a, m)
    BY <2>1, <2>2, UpToSame
  <2>4. InsnsUpTo(b, m + 1) = InsnsUpTo(b, m) + 0
    BY <2>1, UpToNext
  <2>5. InsnsUpTo(b, m) \in Nat
    BY <2>1, UpToType
  <2> QED BY <2>1, <2>3, <2>4, <2>5 DEF m
<1>2. 0 \in T
  <2>1. k + 0 = k /\ k + 0 - 1 = k - 1
    OBVIOUS
  <2> QED BY <1>1, <2>1
<1>3. ASSUME NEW d \in Nat, d \in T PROVE d + 1 \in T
  <2> SUFFICES ASSUME k + (d + 1) <= n + 1
               PROVE  InsnsUpTo(b, k + (d + 1)) = InsnsUpTo(a, k + (d + 1) - 1)
    OBVIOUS
  <2> DEFINE q == k + d
             m == k + d - 1
  <2>1. /\ q \in k .. n /\ q \in Nat /\ m \in Nat /\ m + 1 = q
        /\ k + (d + 1) = q + 1 /\ k + (d + 1) - 1 = q /\ k + d <= n + 1
    OBVIOUS
  <2>2. InsnsUpTo(b, q) = InsnsUpTo(a, m)
    BY <1>3, <2>1
  <2>3. b[q + 1].type = a[q].type
    BY <2>1
  <2> HIDE DEF q, m
  <2>4. InsnsUpTo(b, q + 1) = InsnsUpTo(b, q) + IF b[q + 1].type = "insn" THEN 1 ELSE 0
    BY <2>1, UpToNext
  <2>5. InsnsUpTo(a, m + 1) = InsnsUpTo(a, m) + IF a[m + 1].type = "insn" THEN 1 ELSE 0
    BY <2>1, UpToNext
  <2>6. InsnsUpTo(b, q + 1) = InsnsUpTo(a, q)
    BY <2>1, <2>2, <2>3, <2>4, <2>5
  <2> QED BY <2>1, <2>6
<1>4. Nat \subseteq T
  <2> HIDE DEF T
  <2> QED BY <1>2, <1>3, InductionBySet
<1>5. InsnsUpTo(b, p + 1) = InsnsUpTo(a, p)
  <2> DEFINE d == p + 1 - k
  <2>1. d \in Nat /\ k + d = p + 1 /\ k + d - 1 = p /\ k + d <= n + 1
    OBVIOUS
  <2>2. InsnsUpTo(b, k + d) = InsnsUpTo(a, k + d - 1)
    BY <1>4, <2>1
  <2> QED BY <2>1, <2>2
<1> QED BY <1>1, <1>5
-----------------------------------------------------------------------------
LEMMA UnchangedList ==
    ASSUME ListInv, UNCHANGED <<image, code, stmts, labels>>, i' \in Nat \ {0},
           pc' \in {"read", "disasm"} => pc \in {"read", "disasm"}
    PROVE  ListInv'
<1>1. ListTypeOK' /\ NothingResolvedYet'
  BY DEF ListInv, ListTypeOK, NothingResolvedYet
<1>2. LabelsAreDistinct' /\ ReferencesStayRight'
  BY AboutTheList DEF ListInv
<1> QED BY <1>1, <1>2 DEF ListInv

\* A statement gets its reference or its name, and all positions stay.
LEMMA SamePlaces ==
    ASSUME NEW a, NEW b, IsSequence(a), NEW n, Distinct(a, n), Right(a), DOMAIN b = DOMAIN a,
           \A k \in DOMAIN a : b[k].type = a[k].type /\ b[k].addr = a[k].addr,
           \A k \in DOMAIN a : a[k].type = "label" => b[k].label = a[k].label,
           \A k \in DOMAIN a :
              (b[k].type = "insn" /\ b[k].label > 0 /\ b[k].label # a[k].label) =>
                 \E l \in DOMAIN a : /\ a[l].type = "label" /\ a[l].label = b[k].label
                                    /\ InsnsUpTo(a, l) = a[k].addr
    PROVE  Distinct(b, n) /\ Right(b)
<1>1. \A id : LabelsAt(b, id) = LabelsAt(a, id)
  BY DEF LabelsAt
<1>2. Distinct(b, n)
  BY <1>1 DEF Distinct
<1>3. ASSUME NEW l \in DOMAIN a PROVE InsnsUpTo(b, l) = InsnsUpTo(a, l)
  <2>1. l \in Nat /\ \A j \in 1 .. l : j \in DOMAIN a
    BY SequenceFacts
  <2> QED BY <2>1, UpToSame
<1>4. ASSUME NEW k \in DOMAIN a, b[k].type = "insn", b[k].label > 0
      PROVE  \E l \in DOMAIN a : LabelsAt(a, b[k].label) = {l} /\ InsnsUpTo(a, l) = a[k].addr
  <2>1. CASE b[k].label = a[k].label
    BY <1>4, <2>1 DEF Right
  <2>2. CASE b[k].label # a[k].label
    <3>1. PICK l \in DOMAIN a : /\ a[l].type = "label" /\ a[l].label = b[k].label
                               /\ InsnsUpTo(a, l) = a[k].addr
      BY <1>4, <2>2
    <3>2. LabelsAt(a, b[k].label) = {l}
      BY <3>1 DEF Distinct, LabelsAt
    <3> QED BY <3>1, <3>2
  <2> QED BY <2>1, <2>2
<1>5. Right(b)
  BY <1>1, <1>3, <1>4 DEF Right
<1> QED BY <1>2, <1>5

\* In front of the instruction that is referred to there are as many as the
\* address says.
LEMMA TargetFacts ==
    ASSUME ListInv, NEW k \in DOMAIN stmts, Refers(k)
    PROVE  /\ pc = "resolve" /\ i \in DOMAIN stmts /\ stmts[i].type = "insn" /\ stmts[i].addr \in Nat
           /\ k \in Nat /\ k >= 1 /\ stmts[k].type = "insn"
           /\ InsnsUpTo(stmts, k - 1) = stmts[i].addr
<1>1. /\ pc = "resolve" /\ i \in Nat \ {0} /\ i <= Len(stmts) /\ stmts[i].type = "insn"
      /\ stmts[k].type = "insn" /\ InsnsUpTo(stmts, k) = stmts[i].addr + 1
      /\ stmts[i].addr >= 0
  BY DEF Refers, AtAddress, ListInv, ListTypeOK
<1>2. DOMAIN stmts = 1 .. Len(stmts) /\ Len(stmts) \in Nat
  BY SequenceFacts DEF ListInv, ListTypeOK
<1>3. i \in DOMAIN stmts
  BY <1>1, <1>2
<1>4. stmts[i].addr \in Nat
  <2>1. stmts[i].addr \in Int
    BY <1>3 DEF ListInv, ListTypeOK
  <2> QED BY <1>1, <2>1
<1> DEFINE m == k - 1
<1>5. m \in Nat /\ m + 1 = k /\ k \in Nat /\ k >= 1
  BY <1>2
<1> HIDE DEF m
<1>6. InsnsUpTo(stmts, m + 1) = InsnsUpTo(stmts, m) + 1 /\ InsnsUpTo(stmts, m) \in Nat
  BY <1>1, <1>5, UpToNext, UpToType
<1>7. InsnsUpTo(stmts, m) = stmts[i].addr
  BY <1>1, <1>4, <1>5, <1>6
<1> QED BY <1>1, <1>3, <1>4, <1>5, <1>7 DEF m

\* A label that is inserted for the statement at i in front of the one at k.
LEMMA NewLabel ==
    ASSUME NEW a, NEW b, NEW N \in Nat, DOMAIN a = 1 .. N, DOMAIN b = 1 .. N + 1,
           NEW n \in Nat, Distinct(a, n), Right(a), NEW p \in 1 .. N, NEW k \in 1 .. N,
           a[p].type = "insn", InsnsUpTo(a, k - 1) = a[p].addr,
           b[k].type = "label", b[k].label = n + 1,
           \A j \in 1 .. k - 1 :
              /\ b[j].type = a[j].type /\ b[j].addr = a[j].addr
              /\ b[j].label = IF j = p THEN n + 1 ELSE a[j].label,
           \A j \in k .. N :
              /\ b[j + 1].type = a[j].type /\ b[j + 1].addr = a[j].addr
              /\ b[j + 1].label = IF j = p THEN n + 1 ELSE a[j].label
    PROVE  Distinct(b, n + 1) /\ Right(b)
<1> DEFINE Moved(j) == IF j < k THEN j ELSE j + 1
<1>1. \A j \in 1 .. N :
         /\ Moved(j) \in 1 .. N + 1 /\ Moved(j) # k
         /\ b[Moved(j)].type = a[j].type /\ b[Moved(j)].addr = a[j].addr
         /\ b[Moved(j)].label = IF j = p THEN n + 1 ELSE a[j].label
  OBVIOUS
<1>2. ASSUME NEW q \in 1 .. N + 1, q # k PROVE \E j \in 1 .. N : q = Moved(j)
  <2>1. CASE q < k
    <3>1. q \in 1 .. N /\ q = Moved(q)
      BY <2>1
    <3> QED BY <3>1
  <2>2. CASE q > k
    <3>1. q - 1 \in 1 .. N /\ q = Moved(q - 1)
      BY <2>2
    <3> HIDE DEF Moved
    <3> QED BY <3>1
  <2>3. q < k \/ q > k
    BY <1>2
  <2> HIDE DEF Moved
  <2> QED BY <2>1, <2>2, <2>3
<1>3. ASSUME NEW j \in 1 .. N PROVE InsnsUpTo(b, Moved(j)) = InsnsUpTo(a, j)
  <2>1. CASE j < k
    <3>1. j \in Nat /\ Moved(j) = j /\ \A l \in 1 .. j : b[l].type = a[l].type
      BY <2>1
    <3> HIDE DEF Moved
    <3> QED BY <3>1, UpToSame
  <2>2. CASE j >= k
    <3>1. /\ j \in k .. N /\ Moved(j) = j + 1
          /\ \A l \in 1 .. k - 1 : b[l].type = a[l].type
          /\ \A l \in k .. N : b[l + 1].type = a[l].type
      BY <2>2
    <3>2. InsnsUpTo(b, j + 1) = InsnsUpTo(a, j)
      BY <3>1, UpToShift, ZenonT(60)
    <3> QED BY <3>1, <3>2
  <2> QED BY <2>1, <2>2
<1>4. InsnsUpTo(b, k) = a[p].addr
  <2>1. /\ N \in k .. N
        /\ \A l \in 1 .. k - 1 : b[l].type = a[l].type
        /\ \A l \in k .. N : b[l + 1].type = a[l].type
    OBVIOUS
  <2>2. InsnsUpTo(b, k) = InsnsUpTo(a, k - 1)
    BY <2>1, UpToShift, ZenonT(60)
  <2> QED BY <2>2
<1>5. k \in 1 .. N + 1 /\ n + 1 \in 1 .. n + 1 /\ n + 1 \notin 1 .. n /\ 1 .. n \subseteq 1 .. n + 1
  OBVIOUS
<1> HIDE DEF Moved
<1>6. \A j \in 1 .. N : a[j].type = "label" => a[j].label \in 1 .. n /\ j # p
  BY DEF Distinct
<1>7. LabelsAt(b, n + 1) = {k}
  <2>1. ASSUME NEW q \in LabelsAt(b, n + 1), q # k PROVE FALSE
    <3>1. q \in 1 .. N + 1 /\ b[q].type = "label" /\ b[q].label = n + 1
      BY <2>1 DEF LabelsAt
    <3>2. PICK j \in 1 .. N : q = Moved(j)
      BY <1>2, <2>1, <3>1
    <3>3. a[j].type = "label" /\ a[j].label = n + 1
      BY <1>1, <1>6, <3>1, <3>2
    <3> QED BY <1>5, <1>6, <3>3
  <2>2. k \in LabelsAt(b, n + 1)
    BY <1>5 DEF LabelsAt
  <2> QED BY <2>1, <2>2
<1>8. ASSUME NEW l \in 1 .. N, a[l].type = "label"
      PROVE  LabelsAt(b, a[l].label) = {Moved(l)} /\ LabelsAt(a, a[l].label) = {l}
  <2> DEFINE id == a[l].label
  <2>1. id \in 1 .. n /\ id # n + 1 /\ \A j \in 1 .. N : a[j].type = "label" /\ a[j].label = id => j = l
    BY <1>5, <1>6, <1>8 DEF Distinct, LabelsAt
  <2>2. ASSUME NEW q \in LabelsAt(b, id) PROVE q = Moved(l)
    <3>1. q \in 1 .. N + 1 /\ b[q].type = "label" /\ b[q].label = id /\ q # k
      BY <2>1, <2>2 DEF LabelsAt
    <3>2. PICK j \in 1 .. N : q = Moved(j)
      BY <1>2, <3>1
    <3>3. a[j].type = "label" /\ a[j].label = id
      BY <1>1, <1>6, <3>1, <3>2
    <3> QED BY <2>1, <3>2, <3>3
  <2>3. Moved(l) \in LabelsAt(b, id)
    BY <1>1, <1>6, <1>8 DEF LabelsAt
  <2>4. LabelsAt(a, id) = {l}
    BY <1>8, <2>1 DEF LabelsAt
  <2> QED BY <2>2, <2>3, <2>4
<1>9. Distinct(b, n + 1)
  <2> SUFFICES ASSUME NEW q \in 1 .. N + 1, b[q].type = "label"
               PROVE  b[q].label \in 1 .. n + 1 /\ \A l \in LabelsAt(b, b[q].label) : l = q
    BY DEF Distinct
  <2>1. CASE q = k
    BY <1>5, <1>7, <2>1
  <2>2. CASE q # k
    <3>1. PICK j \in 1 .. N : q = Moved(j)
      BY <1>2, <2>2
    <3>2. a[j].type = "label" /\ b[q].label = a[j].label
      BY <1>1, <1>6, <3>1
    <3> QED BY <1>5, <1>6, <1>8, <3>1, <3>2
  <2> QED BY <2>1, <2>2
<1>10. Right(b)
  <2> SUFFICES ASSUME NEW q \in 1 .. N + 1, b[q].type = "insn", b[q].label > 0
               PROVE  \E l \in 1 .. N + 1 :
                         LabelsAt(b, b[q].label) = {l} /\ InsnsUpTo(b, l) = b[q].addr
    BY DEF Right
  <2>1. PICK j \in 1 .. N : q = Moved(j)
    BY <1>2
  <2>2. a[j].type = "insn" /\ b[q].addr = a[j].addr
    BY <1>1, <2>1
  <2>3. CASE j = p
    <3>1. b[q].label = n + 1
      BY <1>1, <2>1, <2>3
    <3> QED BY <1>4, <1>5, <1>7, <2>2, <2>3, <3>1
  <2>4. CASE j # p
    <3>1. b[q].label = a[j].label
      BY <1>1, <2>1, <2>4
    <3>2. PICK l \in 1 .. N : LabelsAt(a, a[j].label) = {l} /\ InsnsUpTo(a, l) = a[j].addr
      <4>1. a[j].type = "insn" /\ a[j].label > 0 /\ j \in DOMAIN a
        BY <2>2, <3>1
      <4>2. \E l \in DOMAIN a : LabelsAt(a, a[j].label) = {l} /\ InsnsUpTo(a, l) = a[j].addr
        BY <4>1 DEF Right
      <4> QED BY <4>2
    <3>3. a[l].type = "label" /\ a[l].label = a[j].label
      BY <3>2 DEF LabelsAt
    <3>4. LabelsAt(b, b[q].label) = {Moved(l)} /\ Moved(l) \in 1 .. N + 1
      BY <1>1, <1>8, <3>1, <3>3, ZenonT(60)
    <3>5. InsnsUpTo(b, Moved(l)) = b[q].addr
      BY <1>3, <2>2, <3>2
    <3> QED BY <3>4, <3>5
  <2> QED BY <2>3, <2>4
<1> QED BY <1>9, <1>10
-----------------------------------------------------------------------------
\* A machine number has a value.
LEMMA NumberType ==
    ASSUME NEW w, IsFiniteSet(w), w \subseteq Nat
    PROVE  NumberOf(w) \in Nat
<1> DEFINE G == [s \in SUBSET w |-> [x \in Nat |-> IF s = {} THEN 0 ELSE 2^(CHOOSE b \in s : TRUE) + x]]
           Step(f) == [s \in SUBSET w |-> IF s = {} THEN 0
                         ELSE BitValue(CHOOSE b \in s : TRUE) + f[s \ {CHOOSE b \in s : TRUE}]]
           iter == CHOOSE f : f = Step(f)
<1>1. \A b \in Nat : 2^b \in Nat
  <2> SUFFICES ASSUME NEW b \in Nat PROVE 2^b \in Nat
    OBVIOUS
  <2>1. IsFiniteSet(1 .. b) /\ Cardinality(1 .. b) = b
    BY FS_Interval
  <2>2. IsFiniteSet(SUBSET (1 .. b)) /\ Cardinality(SUBSET (1 .. b)) = 2^b
    BY <2>1, FS_SUBSET
  <2> QED BY <2>2, FS_CardinalityType
<1>2. \A s \in SUBSET w : s # {} => 2^(CHOOSE b \in s : TRUE) \in Nat
  BY <1>1
<1>3. G \in [SUBSET w -> [Nat -> Nat]]
  <2>1. \A s \in SUBSET w : \A x \in Nat : (IF s = {} THEN 0 ELSE 2^(CHOOSE b \in s : TRUE) + x) \in Nat
    BY <1>2
  <2> QED BY <2>1
<1>4. SetRecursion(w, Nat, 0, G) # {}
  <2> HIDE DEF G
  <2> QED BY <1>3, SetRecursionExists
<1>5. PICK f \in [SUBSET w -> Nat] : \A s \in SUBSET w :
          f[s] = IF s = {} THEN 0 ELSE G[s][f[s \ {CHOOSE b \in s : TRUE}]]
  <2> HIDE DEF G
  <2> QED BY <1>4 DEF SetRecursion
<1>6. ASSUME NEW s \in SUBSET w
      PROVE  f[s] = IF s = {} THEN 0
                    ELSE BitValue(CHOOSE b \in s : TRUE) + f[s \ {CHOOSE b \in s : TRUE}]
  <2> DEFINE r == s \ {CHOOSE b \in s : TRUE}
  <2>1. r \in SUBSET w /\ f[r] \in Nat
    OBVIOUS
  <2> HIDE DEF r
  <2>2. s # {} => G[s][f[r]] = 2^(CHOOSE b \in s : TRUE) + f[r]
    BY <2>1
  <2> HIDE DEF G
  <2> QED BY <1>5, <2>2 DEF BitValue, r
<1>7. f = Step(f)
  <2> HIDE DEF G
  <2>1. f = [s \in SUBSET w |-> f[s]]
    OBVIOUS
  <2> QED BY <1>6, <2>1
<1>8. iter = Step(iter)
  <2> HIDE DEF Step, G
  <2> QED BY <1>7
<1>9. NumberOf(w) = iter[w]
  BY DEF NumberOf, MapThenSumSet, MapThenFoldSet
<1> HIDE DEF iter
<1> DEFINE T == {n \in Nat : \A s \in SUBSET w : Cardinality(s) = n => iter[s] \in Nat}
<1>10. \A s \in SUBSET w : IsFiniteSet(s) /\ Cardinality(s) \in Nat
  BY FS_Subset, FS_CardinalityType
<1>11. \A s \in SUBSET w : iter[s] = IF s = {} THEN 0
           ELSE BitValue(CHOOSE b \in s : TRUE) + iter[s \ {CHOOSE b \in s : TRUE}]
  BY <1>8
<1> HIDE DEF Step
<1>12. 0 \in T
  <2>1. \A s \in SUBSET w : Cardinality(s) = 0 => s = {}
    BY <1>10, FS_EmptySet
  <2>2. \A s \in SUBSET w : s = {} => iter[s] = 0
    BY <1>11, Zenon
  <2> QED BY <2>1, <2>2
<1>13. ASSUME NEW n \in Nat, n \in T PROVE n + 1 \in T
  <2> SUFFICES ASSUME NEW s \in SUBSET w, Cardinality(s) = n + 1 PROVE iter[s] \in Nat
    OBVIOUS
  <2>1. s # {}
    BY FS_EmptySet, SMTT(60)
  <2> DEFINE b == CHOOSE x \in s : TRUE
  <2>2. b \in s
    BY <2>1
  <2>3. iter[s] = 2^b + iter[s \ {b}]
    BY <1>11, <2>1 DEF BitValue
  <2> HIDE DEF b
  <2>4. Cardinality(s \ {b}) = n
    <3>1. IsFiniteSet(s)
      BY <1>10
    <3>2. Cardinality(s \ {b}) = Cardinality(s) - 1
      BY <2>2, <3>1, FS_RemoveElement
    <3> QED BY <3>2
  <2>5. iter[s \ {b}] \in Nat
    BY <1>13, <2>4
  <2>6. 2^b \in Nat
    BY <1>1, <2>2
  <2> QED BY <2>3, <2>5, <2>6
<1>14. Nat \subseteq T
  <2> HIDE DEF T
  <2> QED BY <1>12, <1>13, InductionBySet
<1>15. iter[w] \in Nat
  BY <1>10, <1>14
<1> QED BY <1>9, <1>15

\* The address in an instruction is a number.
LEMMA AddressType ==
    ASSUME NEW arch \in Arches, NEW word
    PROVE  LabelAddr(BinInsn(arch, word)) \in Nat
<1> DEFINE w == OperandBits(arch)
           f == Field(word, 0, w)
<1>1. w \in Nat
  BY DEF OperandBits
<1>2. LabelAddr(BinInsn(arch, word)) = NumberOf(f)
  BY DEF LabelAddr, BinInsn, OperandsOf
<1> HIDE DEF w
<1>3. f \subseteq 0 .. w - 1
  BY DEF Field
<1>4. IsFiniteSet(0 .. w - 1) /\ 0 .. w - 1 \subseteq Nat
  BY <1>1, FS_Interval
<1>5. IsFiniteSet(f) /\ f \subseteq Nat
  BY <1>3, <1>4, FS_Subset
<1> HIDE DEF f
<1> QED BY <1>2, <1>5, NumberType
-----------------------------------------------------------------------------
LEMMA ListInit == Init => ListInv
BY EmptyFacts DEF Init, ListInv, ListTypeOK, NothingResolvedYet, LabelsAreDistinct,
                  ReferencesStayRight, LabelPositions

LEMMA ReadInsnKeeps ==
    ASSUME ListInv, ReadInsn
    PROVE  ListInv'
<1> DEFINE insn == BinInsn(image.arch, image.words[i])
<1>1. LabelAddr(insn) \in Nat
  <2>1. image.arch \in Arches
    BY DisassemblerAssumption DEF ListInv, ListTypeOK
  <2> QED BY <2>1, AddressType
<1>2. /\ code' = Append(code, insn) /\ i' = i + 1
      /\ UNCHANGED <<image, pc, stmts, labels>>
  BY DEF ReadInsn
<1> HIDE DEF insn
<1>3. IsSequence(code') /\ \A k \in DOMAIN code' : LabelAddr(code'[k]) \in Nat
  <2>1. IsSequence(code) /\ \A k \in DOMAIN code : LabelAddr(code[k]) \in Nat
    BY DEF ListInv, ListTypeOK
  <2> QED BY <1>1, <1>2, <2>1, AppendFacts, SequenceFacts
<1>4. ListTypeOK'
  BY <1>2, <1>3 DEF ListInv, ListTypeOK
<1>5. NothingResolvedYet' /\ LabelsAreDistinct' /\ ReferencesStayRight'
  BY <1>2, AboutTheList DEF ListInv, NothingResolvedYet
<1> QED BY <1>4, <1>5 DEF ListInv

\* As long as there are no labels and no references, there is nothing to keep.
LEMMA DisasmInsnKeeps ==
    ASSUME ListInv, DisasmInsn
    PROVE  ListInv'
<1>1. PICK insn, addr : addr \in Int /\ stmts' = Append(stmts, InsnStmt(insn, addr))
  <2>1. i \in DOMAIN code
    BY SequenceFacts DEF ListInv, ListTypeOK, DisasmInsn
  <2>2. LabelAddr(code[i]) \in Nat
    BY <2>1 DEF ListInv, ListTypeOK
  <2> DEFINE insn == Disasm(image.arch, unknown, code[i])
             addr == IF HasLabelRef(insn) THEN LabelAddr(code[i]) ELSE -1
  <2>3. stmts' = Append(stmts, InsnStmt(insn, addr))
    BY DEF DisasmInsn
  <2>4. addr \in Int
    BY <2>2
  <2> HIDE DEF insn, addr
  <2> QED BY <2>3, <2>4
<1>2. pc = "disasm" /\ i' = i + 1 /\ UNCHANGED <<image, pc, code, labels>>
  BY DEF DisasmInsn
<1> DEFINE e == InsnStmt(insn, addr)
<1>3. /\ DOMAIN e = {"type", "insn", "addr", "label", "name"}
      /\ e.type = "insn" /\ e.addr \in Int /\ e.label = 0
  BY <1>1 DEF InsnStmt
<1>4. stmts' = Append(stmts, e)
  BY <1>1
<1> HIDE DEF e
<1>5. /\ IsSequence(stmts')
      /\ \A k \in DOMAIN stmts' : stmts'[k] = e \/ (k \in DOMAIN stmts /\ stmts'[k] = stmts[k])
  BY <1>4, AppendFacts, SequenceFacts DEF ListInv, ListTypeOK
<1>6. /\ i' \in Nat \ {0} /\ labels' \in Nat /\ image' \in Images
      /\ IsSequence(code') /\ \A k \in DOMAIN code' : LabelAddr(code'[k]) \in Nat
  BY <1>2 DEF ListInv, ListTypeOK
<1>7. ASSUME NEW k \in DOMAIN stmts'
      PROVE  /\ DOMAIN stmts'[k] = {"type", "insn", "addr", "label", "name"}
             /\ stmts'[k].type \in {"insn", "label"} /\ stmts'[k].addr \in Int
             /\ stmts'[k].type = "insn" /\ stmts'[k].label = 0
  <2>1. CASE stmts'[k] = e
    BY <1>3, <2>1
  <2>2. CASE k \in DOMAIN stmts /\ stmts'[k] = stmts[k]
    BY <1>2, <2>2 DEF ListInv, ListTypeOK, NothingResolvedYet
  <2> QED BY <1>5, <2>1, <2>2
<1>8. ListTypeOK'
  BY <1>5, <1>6, <1>7 DEF ListTypeOK
<1>9. NothingResolvedYet'
  BY <1>7 DEF NothingResolvedYet
<1>10. LabelsAreDistinct' /\ ReferencesStayRight'
  <2>1. Distinct(stmts', labels') /\ Right(stmts')
    BY <1>7 DEF Distinct, Right
  <2> QED BY <2>1, AboutTheList
<1> QED BY <1>8, <1>9, <1>10 DEF ListInv

\* A statement in the list is given a reference.
LEMMA ReferenceFacts ==
    ASSUME ListInv, i \in DOMAIN stmts, NEW id
    PROVE  LET b == [stmts EXCEPT ![i].label = id]
           IN  /\ IsSequence(b) /\ Len(b) = Len(stmts) /\ DOMAIN b = DOMAIN stmts
               /\ \A k \in DOMAIN stmts :
                     /\ DOMAIN b[k] = DOMAIN stmts[k]
                     /\ b[k].type = stmts[k].type /\ b[k].addr = stmts[k].addr
                     /\ b[k].label = IF k = i THEN id ELSE stmts[k].label
<1> DEFINE e == [stmts[i] EXCEPT !.label = id]
           b == [stmts EXCEPT ![i] = e]
<1>1. [stmts EXCEPT ![i].label = id] = b
  OBVIOUS
<1>2. DOMAIN stmts[i] = {"type", "insn", "addr", "label", "name"}
  BY DEF ListInv, ListTypeOK
<1>3. e.type = stmts[i].type /\ e.addr = stmts[i].addr /\ e.label = id /\ DOMAIN e = DOMAIN stmts[i]
  BY <1>2
<1> HIDE DEF e
<1>4. IsSequence(b) /\ Len(b) = Len(stmts)
  BY ExceptFacts DEF ListInv, ListTypeOK
<1>5. DOMAIN b = DOMAIN stmts /\ \A k \in DOMAIN stmts : b[k] = IF k = i THEN e ELSE stmts[k]
  OBVIOUS
<1> HIDE DEF b
<1>6. \A k \in DOMAIN stmts :
         /\ DOMAIN b[k] = DOMAIN stmts[k]
         /\ b[k].type = stmts[k].type /\ b[k].addr = stmts[k].addr
         /\ b[k].label = IF k = i THEN id ELSE stmts[k].label
  BY <1>3, <1>5
<1> QED BY <1>1, <1>4, <1>5, <1>6

\* A statement is given a label in front of its target, or none at all.
LEMMA ReferenceKeeps ==
    ASSUME ListInv, NEW k \in DOMAIN stmts, Refers(k), NEW id \in Int,
           stmts' = [stmts EXCEPT ![i].label = id],
           id > 0 => /\ k - 1 \in DOMAIN stmts
                     /\ stmts[k - 1].type = "label" /\ stmts[k - 1].label = id,
           i' = i + 1, UNCHANGED <<image, pc, code, labels>>
    PROVE  ListInv'
<1>1. /\ pc = "resolve" /\ i \in DOMAIN stmts /\ stmts[i].type = "insn"
      /\ InsnsUpTo(stmts, k - 1) = stmts[i].addr
  BY TargetFacts
<1>2. /\ IsSequence(stmts') /\ DOMAIN stmts' = DOMAIN stmts
      /\ \A l \in DOMAIN stmts :
            /\ DOMAIN stmts'[l] = DOMAIN stmts[l]
            /\ stmts'[l].type = stmts[l].type /\ stmts'[l].addr = stmts[l].addr
            /\ stmts'[l].label = IF l = i THEN id ELSE stmts[l].label
  BY <1>1, ReferenceFacts
<1>3. ListTypeOK'
  <2>1. /\ i' \in Nat \ {0} /\ labels' \in Nat /\ image' \in Images
        /\ IsSequence(code') /\ \A l \in DOMAIN code' : LabelAddr(code'[l]) \in Nat
    BY DEF ListInv, ListTypeOK
  <2>2. \A l \in DOMAIN stmts' :
           /\ DOMAIN stmts'[l] = {"type", "insn", "addr", "label", "name"}
           /\ stmts'[l].type \in {"insn", "label"} /\ stmts'[l].addr \in Int
    BY <1>2 DEF ListInv, ListTypeOK
  <2> QED BY <1>2, <2>1, <2>2 DEF ListTypeOK
<1>4. NothingResolvedYet'
  BY <1>1 DEF NothingResolvedYet
<1>5. Distinct(stmts', labels) /\ Right(stmts')
  <2>1. Distinct(stmts, labels) /\ Right(stmts) /\ IsSequence(stmts)
    BY AboutTheList DEF ListInv, ListTypeOK
  <2>2. \A l \in DOMAIN stmts : stmts[l].type = "label" => stmts'[l].label = stmts[l].label
    BY <1>1, <1>2
  <2>3. ASSUME NEW l \in DOMAIN stmts,
               stmts'[l].type = "insn" /\ stmts'[l].label > 0 /\ stmts'[l].label # stmts[l].label
        PROVE  \E m \in DOMAIN stmts : /\ stmts[m].type = "label" /\ stmts[m].label = stmts'[l].label
                                       /\ InsnsUpTo(stmts, m) = stmts[l].addr
    <3>1. l = i /\ stmts'[l].label = id
      BY <1>2, <2>3
    <3>2. k - 1 \in DOMAIN stmts /\ stmts[k - 1].type = "label" /\ stmts[k - 1].label = id
      BY <2>3, <3>1
    <3> QED BY <1>1, <3>1, <3>2
  <2>4. /\ DOMAIN stmts' = DOMAIN stmts
        /\ \A l \in DOMAIN stmts : stmts'[l].type = stmts[l].type /\ stmts'[l].addr = stmts[l].addr
    BY <1>2
  <2>5. \A l \in DOMAIN stmts :
           (stmts'[l].type = "insn" /\ stmts'[l].label > 0 /\ stmts'[l].label # stmts[l].label) =>
              \E m \in DOMAIN stmts : /\ stmts[m].type = "label" /\ stmts[m].label = stmts'[l].label
                                      /\ InsnsUpTo(stmts, m) = stmts[l].addr
    BY <2>3
  <2> QED BY ONLY <2>1, <2>2, <2>4, <2>5, SamePlaces
<1>6. LabelsAreDistinct' /\ ReferencesStayRight'
  BY <1>5, AboutTheList
<1> QED BY <1>3, <1>4, <1>6 DEF ListInv

LEMMA UseLabelKeeps ==
    ASSUME ListInv, UseLabel
    PROVE  ListInv'
<1>1. PICK k \in DOMAIN stmts : /\ Refers(k) /\ k > 1 /\ stmts[k - 1].type = "label"
                               /\ stmts' = [stmts EXCEPT ![i].label = stmts[k - 1].label]
  BY DEF UseLabel
<1>2. k - 1 \in DOMAIN stmts
  <2>1. k \in 1 .. Len(stmts) /\ DOMAIN stmts = 1 .. Len(stmts) /\ Len(stmts) \in Nat
    BY SequenceFacts DEF ListInv, ListTypeOK
  <2> QED BY <1>1, <2>1
<1>3. stmts[k - 1].label \in Int
  <2>1. stmts[k - 1].label \in 1 .. labels
    BY <1>1, <1>2 DEF ListInv, LabelsAreDistinct
  <2> QED BY <2>1
<1>4. i' = i + 1 /\ UNCHANGED <<image, pc, code, labels>>
  BY DEF UseLabel
<1> QED BY <1>1, <1>2, <1>3, <1>4, ReferenceKeeps

LEMMA UseListHeadKeeps ==
    ASSUME ListInv, UseListHead
    PROVE  ListInv'
<1>1. /\ Refers(1) /\ stmts' = [stmts EXCEPT ![i].label = -1]
      /\ i' = i + 1 /\ UNCHANGED <<image, pc, code, labels>>
  BY DEF UseListHead, StrayLabel
<1>2. 1 \in DOMAIN stmts
  BY <1>1 DEF Refers, AtAddress
<1>3. -1 \in Int /\ ~(-1 > 0)
  OBVIOUS
<1> QED BY <1>1, <1>2, <1>3, ReferenceKeeps

LEMMA MakeLabelKeeps ==
    ASSUME ListInv, MakeLabel
    PROVE  ListInv'
<1> DEFINE linked == [stmts EXCEPT ![i].label = labels + 1]
           new    == LabelStmt(labels + 1)
           N      == Len(stmts)
<1>1. PICK k \in DOMAIN stmts :
         /\ Refers(k) /\ stmts' = InsertAt(linked, k, new)
         /\ i' = IF k <= i THEN i + 2 ELSE i + 1
  BY DEF MakeLabel
<1>2. labels' = labels + 1 /\ UNCHANGED <<image, pc, code>>
  BY DEF MakeLabel
<1>3. /\ pc = "resolve" /\ i \in DOMAIN stmts /\ stmts[i].type = "insn"
      /\ InsnsUpTo(stmts, k - 1) = stmts[i].addr
  BY <1>1, TargetFacts
<1>4. /\ IsSequence(stmts) /\ DOMAIN stmts = 1 .. N /\ N \in Nat /\ labels \in Nat /\ i \in Nat \ {0}
  BY SequenceFacts DEF ListInv, ListTypeOK
<1>5. /\ DOMAIN new = {"type", "insn", "addr", "label", "name"}
      /\ new.type = "label" /\ new.addr = -1 /\ new.label = labels + 1
  BY DEF LabelStmt
<1>6. /\ IsSequence(linked) /\ Len(linked) = N
      /\ \A j \in 1 .. N :
            /\ DOMAIN linked[j] = DOMAIN stmts[j]
            /\ linked[j].type = stmts[j].type /\ linked[j].addr = stmts[j].addr
            /\ linked[j].label = IF j = i THEN labels + 1 ELSE stmts[j].label
  BY <1>3, <1>4, ReferenceFacts
<1> HIDE DEF linked, new, N
<1>7. k \in 1 .. N
  BY <1>4
<1> DEFINE b == InsertAt(linked, k, new)
<1>8. /\ IsSequence(b) /\ Len(b) = N + 1
      /\ \A j \in 1 .. k - 1 : b[j] = linked[j]
      /\ b[k] = new
      /\ \A j \in k .. N : b[j + 1] = linked[j]
  BY <1>6, <1>7, InsertFacts
<1>9. stmts' = b
  BY <1>1
<1> HIDE DEF b
<1>10. DOMAIN b = 1 .. N + 1
  BY <1>8, SequenceFacts
<1>11. /\ \A j \in 1 .. k - 1 : j \in 1 .. N
       /\ \A j \in k .. N : j \in 1 .. N
       /\ \A q \in 1 .. N + 1 : q \in 1 .. k - 1 \/ q = k \/ (q - 1 \in k .. N /\ q = (q - 1) + 1)
  BY <1>4, <1>7
<1>12. ASSUME NEW q \in 1 .. N + 1
       PROVE  /\ DOMAIN b[q] = {"type", "insn", "addr", "label", "name"}
              /\ b[q].type \in {"insn", "label"} /\ b[q].addr \in Int
  <2>1. b[q] = new \/ \E j \in 1 .. N : b[q] = linked[j]
    BY <1>8, <1>11
  <2>2. CASE b[q] = new
    <3>1. -1 \in Int
      OBVIOUS
    <3> QED BY <1>5, <2>2, <3>1
  <2>3. ASSUME NEW j \in 1 .. N, b[q] = linked[j]
        PROVE  /\ DOMAIN b[q] = {"type", "insn", "addr", "label", "name"}
               /\ b[q].type \in {"insn", "label"} /\ b[q].addr \in Int
    <3>1. /\ DOMAIN stmts[j] = {"type", "insn", "addr", "label", "name"}
          /\ stmts[j].type \in {"insn", "label"} /\ stmts[j].addr \in Int
      BY <1>4 DEF ListInv, ListTypeOK
    <3> QED BY <1>6, <2>3, <3>1
  <2> QED BY <2>1, <2>2, <2>3
<1>13. ListTypeOK'
  <2>1. i' \in Nat \ {0} /\ labels' \in Nat
    BY <1>1, <1>2, <1>4, <1>7
  <2>2. image' \in Images /\ IsSequence(code') /\ \A l \in DOMAIN code' : LabelAddr(code'[l]) \in Nat
    BY <1>2 DEF ListInv, ListTypeOK
  <2> QED BY <1>8, <1>9, <1>10, <1>12, <2>1, <2>2 DEF ListTypeOK
<1>14. NothingResolvedYet'
  BY <1>2, <1>3 DEF NothingResolvedYet
<1>15. Distinct(b, labels + 1) /\ Right(b)
  <2>1. Distinct(stmts, labels) /\ Right(stmts)
    BY AboutTheList DEF ListInv
  <2>2. i \in 1 .. N /\ b[k].type = "label" /\ b[k].label = labels + 1
    BY <1>3, <1>4, <1>5, <1>8
  <2>3. /\ \A j \in 1 .. k - 1 :
              /\ b[j].type = stmts[j].type /\ b[j].addr = stmts[j].addr
              /\ b[j].label = IF j = i THEN labels + 1 ELSE stmts[j].label
        /\ \A j \in k .. N :
              /\ b[j + 1].type = stmts[j].type /\ b[j + 1].addr = stmts[j].addr
              /\ b[j + 1].label = IF j = i THEN labels + 1 ELSE stmts[j].label
    BY <1>6, <1>8, <1>11
  <2>4. /\ N \in Nat /\ labels \in Nat /\ k \in 1 .. N /\ DOMAIN stmts = 1 .. N /\ DOMAIN b = 1 .. N + 1
        /\ stmts[i].type = "insn" /\ InsnsUpTo(stmts, k - 1) = stmts[i].addr
    BY <1>3, <1>4, <1>7, <1>10
  <2> QED BY ONLY <2>1, <2>2, <2>3, <2>4, NewLabel, ZenonT(60)
<1>16. LabelsAreDistinct' /\ ReferencesStayRight'
  BY <1>2, <1>9, <1>15, AboutTheList
<1> QED BY <1>13, <1>14, <1>16 DEF ListInv

LEMMA NameLabelsKeeps ==
    ASSUME ListInv, NameLabels
    PROVE  ListInv'
<1> DEFINE Renamed(k) == [stmts[k] EXCEPT !.name = LabelName(k - 1 - InsnsUpTo(stmts, k))]
           e(k) == IF stmts[k].type = "label" THEN Renamed(k) ELSE stmts[k]
           b == [k \in DOMAIN stmts |-> e(k)]
<1>1. stmts' = b /\ pc' = "open" /\ UNCHANGED <<image, i, code, labels>>
  BY DEF NameLabels
<1>2. \A k \in DOMAIN stmts : /\ e(k).type = stmts[k].type /\ e(k).addr = stmts[k].addr
                              /\ e(k).label = stmts[k].label /\ DOMAIN e(k) = DOMAIN stmts[k]
  <2> SUFFICES ASSUME NEW k \in DOMAIN stmts
               PROVE  /\ e(k).type = stmts[k].type /\ e(k).addr = stmts[k].addr
                      /\ e(k).label = stmts[k].label /\ DOMAIN e(k) = DOMAIN stmts[k]
    OBVIOUS
  <2>1. DOMAIN stmts[k] = {"type", "insn", "addr", "label", "name"}
    BY DEF ListInv, ListTypeOK
  <2>2. /\ Renamed(k).type = stmts[k].type /\ Renamed(k).addr = stmts[k].addr
        /\ Renamed(k).label = stmts[k].label /\ DOMAIN Renamed(k) = DOMAIN stmts[k]
    BY <2>1
  <2> HIDE DEF Renamed
  <2> QED BY <2>2
<1> HIDE DEF e
<1>3. IsSequence(b) /\ DOMAIN b = DOMAIN stmts
  <2> DEFINE S == {e(k) : k \in DOMAIN stmts}
  <2>1. DOMAIN stmts = 1 .. Len(stmts) /\ Len(stmts) \in Nat
    BY SequenceFacts DEF ListInv, ListTypeOK
  <2>2. b \in [1 .. Len(stmts) -> S]
    BY <2>1
  <2>3. b \in Seq(S)
    <3> HIDE DEF b, S
    <3> QED BY <2>1, <2>2
  <2> QED BY <2>3 DEF IsSequence
<1>4. \A k \in DOMAIN stmts : b[k] = e(k)
  OBVIOUS
<1> HIDE DEF b
<1>5. ListTypeOK'
  <2>1. /\ i' \in Nat \ {0} /\ labels' \in Nat /\ image' \in Images
        /\ IsSequence(code') /\ \A l \in DOMAIN code' : LabelAddr(code'[l]) \in Nat
    BY <1>1 DEF ListInv, ListTypeOK
  <2>2. \A l \in DOMAIN b :
           /\ DOMAIN b[l] = {"type", "insn", "addr", "label", "name"}
           /\ b[l].type \in {"insn", "label"} /\ b[l].addr \in Int
    BY <1>2, <1>3, <1>4 DEF ListInv, ListTypeOK
  <2> QED BY <1>1, <1>3, <2>1, <2>2 DEF ListTypeOK
<1>6. NothingResolvedYet'
  BY <1>1 DEF NothingResolvedYet
<1>7. Distinct(b, labels) /\ Right(b)
  <2>1. Distinct(stmts, labels) /\ Right(stmts) /\ IsSequence(stmts)
    BY AboutTheList DEF ListInv, ListTypeOK
  <2> QED BY <1>2, <1>3, <1>4, <2>1, SamePlaces
<1>8. LabelsAreDistinct' /\ ReferencesStayRight'
  BY <1>1, <1>7, AboutTheList
<1> QED BY <1>5, <1>6, <1>8 DEF ListInv

LEMMA OthersKeep ==
    ASSUME ListInv,
           \/ ReadError \/ EndOfInput \/ DisasmFails \/ EndOfCode \/ SkipStatement
           \/ OutOfBounds \/ OpenOutput \/ OpenFails \/ EmitStatement \/ CloseOutput
           \/ UNCHANGED vars
    PROVE  ListInv'
<1>1. /\ UNCHANGED <<image, code, stmts, labels>>
      /\ i' \in {1, i, i + 1}
      /\ pc' \in {"read", "disasm"} => pc \in {"read", "disasm"}
  BY DEF ReadError, EndOfInput, DisasmFails, EndOfCode, SkipStatement, OutOfBounds, OpenOutput,
         OpenFails, EmitStatement, CloseOutput, DasmError, vars
<1>2. i \in Nat \ {0}
  BY DEF ListInv, ListTypeOK
<1>3. i' \in Nat \ {0}
  BY <1>1, <1>2
<1> QED BY <1>1, <1>3, UnchangedList

\* resolve_labels walks the statement list while it inserts into it, and hands
\* out pointers to what it inserted. A reference that was made keeps its label,
\* alone under its number, with as many instructions in front of it as the
\* jump's address says, for every image and whatever is inserted behind or
\* before it until the text is written.
THEOREM ReferencesStay == Spec => []ReferencesStayRight
<1>1. Init => ListInv
  BY ListInit
<1>2. ListInv /\ [Next]_vars => ListInv'
  <2> SUFFICES ASSUME ListInv, [Next]_vars PROVE ListInv'
    OBVIOUS
  <2>1. CASE ReadInsn BY <2>1, ReadInsnKeeps
  <2>2. CASE DisasmInsn BY <2>2, DisasmInsnKeeps
  <2>3. CASE UseLabel BY <2>3, UseLabelKeeps
  <2>4. CASE MakeLabel BY <2>4, MakeLabelKeeps
  <2>5. CASE UseListHead BY <2>5, UseListHeadKeeps
  <2>6. CASE NameLabels BY <2>6, NameLabelsKeeps
  <2>7. CASE \/ ReadError \/ EndOfInput \/ DisasmFails \/ EndOfCode \/ SkipStatement
             \/ OutOfBounds \/ OpenOutput \/ OpenFails \/ EmitStatement \/ CloseOutput
             \/ UNCHANGED vars
    BY <2>7, OthersKeep
  <2> QED BY <2>1, <2>2, <2>3, <2>4, <2>5, <2>6, <2>7 DEF Next
<1>3. ListInv => ReferencesStayRight
  BY DEF ListInv
<1> QED BY <1>1, <1>2, <1>3, PTL DEF Spec
=============================================================================
