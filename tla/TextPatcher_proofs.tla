------------------------- MODULE TextPatcher_proofs -------------------------
(***************************************************************************)
(* Proofs about TextPatcher, for every text, all scripts and any number of *)
(* runs.  TextPatcher.lines is the unmodified text cut into blocks, one    *)
(* for every line: what was added in front of the line, and the line.  An  *)
(* edit changes the block of its line and no other, so that line numbers   *)
(* keep their meaning.                                                     *)
(***************************************************************************)
EXTENDS TextPatcher, SequenceLemmas

N == Len(Expected)
Entry == [index : Int, line : Line \cup {None}, deleted : BOOLEAN]

\* What a script's first n edits, p being the script, add in front of a line.
Addition(p, line, j) == IF p[j].op = "add" /\ p[j].line = line THEN p[j].text ELSE <<>>
AddedBy(p, line, n) == FlattenSeq([j \in 1 .. n |-> Addition(p, line, j)])

New(t) == [i \in DOMAIN t |-> TextLine(-1, t[i])]

OldLine(p, line, n) ==
    [index   |-> line,
     line    |-> IF line = N THEN None ELSE Expected[line + 1],
     deleted |-> line = N \/ \E j \in 1 .. n : p[j] = Del(line)]

Block(p, line, n) == New(AddedBy(p, line, n)) \o <<OldLine(p, line, n)>>
Blocks(p, n) == [l \in 1 .. N + 1 |-> Block(p, l - 1, n)]

\* While the script edits, its lines are these blocks joined.
LinesAreBlocks ==
    /\ pc = "edit" =>
        /\ k \in 1 .. Len(edits) + 1
        /\ Natural(k - 1) =>
            /\ lines = FlattenSeq(Blocks(edits, k - 1))
            /\ \A j \in 1 .. k - 1 : edits[j].line <= N

\* What the first n edits make of the text.
KeptBy(p, line, n) ==
    IF line = N \/ \E j \in 1 .. n : p[j] = Del(line) THEN <<>> ELSE <<Expected[line + 1]>>
PatchedBy(p, n) == FlattenSeq([l \in 1 .. N + 1 |-> AddedBy(p, l - 1, n) \o KeptBy(p, l - 1, n)])

AllLinesExist(p) == \A j \in DOMAIN p : p[j].line <= N

\* What Assemble may leave, and a file as PatchedOnce wants it: x, that was
\* first x0.
IsRightBinary(x, p, failed) ==
    \/ AllLinesExist(p) /\ x = Image(PatchedBy(p, Len(p)))
    \/ ~x.whole /\ "asm" \in failed

IsRight(x, x0, p, failed) ==
    \/ x = x0
    \/ AllLinesExist(p) /\ x = Image(PatchedBy(p, Len(p)))
    \/ ~x.whole /\ failed \cap {"asm", "write"} # {}

FilesInv ==
    /\ edits \in Patches
    /\ files = [f \in Names |-> files[f]]
    /\ to \in Names \cup {None}
    /\ pc \in {"open", "write"} => to \in Names
    /\ Natural(Len(edits)) =>
        /\ \A f \in Names :
            (pc = "write" /\ f = to) \/ IsRight(files[f], first[f], edits, trouble)
        /\ pc \in {"open", "write"} => IsRightBinary(bin, edits, trouble)
-----------------------------------------------------------------------------
LEMMA ExpectedIsText == Expected \in Seq(Line) /\ N \in Nat /\ DOMAIN Expected = 1 .. N
BY TextPatcherAssumption DEF N

LEMMA ScriptFacts ==
    ASSUME NEW p, IsScript(p)
    PROVE  /\ Len(p) \in Nat /\ DOMAIN p = 1 .. Len(p)
           /\ \A j \in 1 .. Len(p) :
                /\ p[j].line \in Int /\ p[j].text \in Seq(Line)
                /\ \/ p[j].op = "del" /\ p[j] = Del(p[j].line)
                   \/ p[j].op = "add" /\ p[j] = Add(p[j].line, p[j].text)
<1>1. p \in Seq({p[j] : j \in DOMAIN p})
  BY DEF IsScript
<1> DEFINE P == {p[j] : j \in DOMAIN p}
<1>2. Len(p) \in Nat /\ DOMAIN p = 1 .. Len(p)
  <2>1. p \in Seq(P)
    BY <1>1
  <2> HIDE DEF P
  <2> QED BY <2>1
<1>3. ASSUME NEW j \in 1 .. Len(p)
      PROVE  /\ p[j].line \in Int /\ p[j].text \in Seq(Line)
             /\ \/ p[j].op = "del" /\ p[j] = Del(p[j].line)
                \/ p[j].op = "add" /\ p[j] = Add(p[j].line, p[j].text)
  <2>1. /\ p[j].line \in Int /\ p[j].text \in Seq(Line)
        /\ p[j] = Del(p[j].line) \/ p[j] = Add(p[j].line, p[j].text)
    BY <1>2 DEF IsScript
  <2>2. \A line, t : Del(line).op = "del" /\ Add(line, t).op = "add"
    BY DEF Del, Add
  <2> QED BY <2>1, <2>2
<1> QED BY <1>2, <1>3

LEMMA AdditionIsText ==
    ASSUME NEW p, IsScript(p), NEW line, NEW j \in 1 .. Len(p)
    PROVE  Addition(p, line, j) \in Seq(Line)
BY ScriptFacts DEF Addition

\* What is added in front of a line grows with the edits.
LEMMA AddedFacts ==
    ASSUME NEW p, IsScript(p), NEW line, NEW n \in 0 .. Len(p)
    PROVE  /\ AddedBy(p, line, n) \in Seq(Line)
           /\ n = 0 => AddedBy(p, line, n) = <<>>
           /\ n < Len(p) => AddedBy(p, line, n + 1) = AddedBy(p, line, n) \o Addition(p, line, n + 1)
<1> DEFINE Some(m) == [j \in 1 .. m |-> Addition(p, line, j)]
           U == Seq(Line)
<1>1. Len(p) \in Nat /\ n \in Nat /\ \A j \in 1 .. Len(p) : Addition(p, line, j) \in U
  BY ScriptFacts, AdditionIsText
<1>2. ASSUME NEW m \in 0 .. Len(p) PROVE Some(m) \in Seq(U) /\ Len(Some(m)) = m
  <2> HIDE DEF U
  <2>1. m \in Nat /\ Some(m) \in [1 .. m -> U]
    BY <1>1
  <2> HIDE DEF Some
  <2> QED BY <2>1
<1>3. AddedBy(p, line, n) \in Seq(Line)
  <2>1. Some(n) \in Seq(U)
    BY <1>2
  <2> HIDE DEF Some
  <2>2. FlattenSeq(Some(n)) \in Seq(Line)
    BY <2>1, FlattenType
  <2> QED BY <2>2 DEF AddedBy, Some
<1>4. ASSUME n = 0 PROVE AddedBy(p, line, n) = <<>>
  <2>1. Some(n) = <<>>
    BY <1>4
  <2> QED BY <2>1, FlattenEmpty DEF AddedBy
<1>5. ASSUME n < Len(p)
      PROVE  AddedBy(p, line, n + 1) = AddedBy(p, line, n) \o Addition(p, line, n + 1)
  <2> DEFINE e == Addition(p, line, n + 1)
  <2>0. n + 1 \in 0 .. Len(p) /\ n + 1 \in 1 .. Len(p)
    BY <1>1, <1>5
  <2>1. /\ Some(n) \in Seq(U) /\ Len(Some(n)) = n
        /\ Some(n + 1) \in Seq(U) /\ Len(Some(n + 1)) = n + 1 /\ e \in U
    BY <1>1, <1>2, <2>0
  <2>2. /\ \A j \in 1 .. n : Some(n + 1)[j] = Some(n)[j]
        /\ Some(n + 1)[n + 1] = e
    BY <1>1
  <2> HIDE DEF Some, U, e
  <2>3. Some(n + 1) = Append(Some(n), e)
    <3>1. /\ Append(Some(n), e) \in Seq(U) /\ Len(Append(Some(n), e)) = n + 1
          /\ Append(Some(n), e)[n + 1] = e
          /\ \A j \in 1 .. n : Append(Some(n), e)[j] = Some(n)[j]
      BY <1>1, <2>1
    <3>2. \A j \in 1 .. n + 1 : Some(n + 1)[j] = Append(Some(n), e)[j]
      <4>1. \A j \in 1 .. n + 1 : j \in 1 .. n \/ j = n + 1
        BY <1>1
      <4> QED BY <2>2, <3>1, <4>1
    <3> QED BY <2>1, <3>1, <3>2, SeqEqual
  <2>4. FlattenSeq(Append(Some(n), e)) = FlattenSeq(Some(n)) \o e
    BY <2>1, FlattenAppend DEF U
  <2> QED BY <2>3, <2>4 DEF AddedBy, Some, e
<1> QED BY <1>3, <1>4, <1>5

LEMMA NewFacts ==
    ASSUME NEW t \in Seq(Line)
    PROVE  /\ New(t) \in Seq(Entry) /\ Len(New(t)) = Len(t)
           /\ \A i \in 1 .. Len(t) : New(t)[i] = TextLine(-1, t[i])
<1>1. Len(t) \in Nat /\ DOMAIN t = 1 .. Len(t) /\ \A i \in 1 .. Len(t) : t[i] \in Line
  OBVIOUS
<1>2. \A i \in 1 .. Len(t) : TextLine(-1, t[i]) \in Entry
  BY <1>1 DEF TextLine, Entry
<1>3. New(t) \in [1 .. Len(t) -> Entry]
  BY <1>1, <1>2 DEF New
<1>4. New(t) \in Seq(Entry) /\ Len(New(t)) = Len(t)
  BY <1>1, <1>3
<1> QED BY <1>1, <1>4 DEF New

\* Lines that are added later come behind those that have been added there.
LEMMA NewConcat ==
    ASSUME NEW s \in Seq(Line), NEW t \in Seq(Line)
    PROVE  New(s \o t) = New(s) \o New(t)
<1>1. /\ s \o t \in Seq(Line) /\ Len(s \o t) = Len(s) + Len(t)
      /\ Len(s) \in Nat /\ Len(t) \in Nat
  OBVIOUS
<1>2. /\ New(s \o t) \in Seq(Entry) /\ Len(New(s \o t)) = Len(s) + Len(t)
      /\ \A i \in 1 .. Len(s) + Len(t) : New(s \o t)[i] = TextLine(-1, (s \o t)[i])
  BY <1>1, NewFacts
<1>3. /\ New(s) \in Seq(Entry) /\ Len(New(s)) = Len(s)
      /\ \A i \in 1 .. Len(s) : New(s)[i] = TextLine(-1, s[i])
  BY NewFacts
<1>4. /\ New(t) \in Seq(Entry) /\ Len(New(t)) = Len(t)
      /\ \A i \in 1 .. Len(t) : New(t)[i] = TextLine(-1, t[i])
  BY NewFacts
<1>5. New(s) \o New(t) \in Seq(Entry) /\ Len(New(s) \o New(t)) = Len(s) + Len(t)
  <2>1. New(s) \in Seq(Entry) /\ New(t) \in Seq(Entry)
    BY <1>3, <1>4
  <2>2. New(s) \o New(t) \in Seq(Entry) /\ Len(New(s) \o New(t)) = Len(New(s)) + Len(New(t))
    BY <2>1, ConcatProperties
  <2> QED BY <1>3, <1>4, <2>2
<1>6. ASSUME NEW i \in 1 .. Len(s) + Len(t) PROVE New(s \o t)[i] = (New(s) \o New(t))[i]
  <2>1. CASE i <= Len(s)
    <3>1. i \in 1 .. Len(s) /\ (s \o t)[i] = s[i]
      BY <1>1, <2>1
    <3>2. (New(s) \o New(t))[i] = New(s)[i]
      BY <1>3, <1>4, <3>1
    <3> QED BY <1>2, <1>3, <3>1, <3>2
  <2>2. CASE ~(i <= Len(s))
    <3>1. PICK m \in 1 .. Len(t) : i = Len(s) + m
      <4>1. i - Len(s) \in 1 .. Len(t) /\ i = Len(s) + (i - Len(s))
        BY <1>1, <2>2
      <4> QED BY <4>1
    <3>2. (s \o t)[i] = t[m]
      BY <3>1
    <3>3. (New(s) \o New(t))[i] = New(t)[m]
      BY <1>3, <1>4, <3>1
    <3> QED BY <1>2, <1>4, <3>2, <3>3
  <2> QED BY <2>1, <2>2
<1> QED BY <1>2, <1>5, <1>6, SeqEqual
-----------------------------------------------------------------------------
\* Lines that an edit of the line number L does not find.
Others(L) == {r \in Entry : r.index # L}

LEMMA OldLineIsEntry ==
    ASSUME NEW p, NEW line \in 0 .. N, NEW n
    PROVE  OldLine(p, line, n) \in Entry /\ OldLine(p, line, n).index = line
<1>1. line \in Int
  BY ExpectedIsText
<1>2. line # N => Expected[line + 1] \in Line
  <2>1. line # N => line + 1 \in 1 .. N
    BY ExpectedIsText
  <2>2. \A j \in 1 .. N : Expected[j] \in Line
    BY ExpectedIsText
  <2> QED BY <2>1, <2>2
<1> QED BY <1>1, <1>2 DEF OldLine, Entry

LEMMA BlockFacts ==
    ASSUME NEW p, IsScript(p), NEW line \in 0 .. N, NEW n \in 0 .. Len(p)
    PROVE  /\ Block(p, line, n) \in Seq(Entry)
           /\ \A L \in Nat : L # line => Block(p, line, n) \in Seq(Others(L))
<1> DEFINE A == AddedBy(p, line, n)
           old == OldLine(p, line, n)
<1>1. A \in Seq(Line) /\ old \in Entry /\ old.index = line
  BY AddedFacts, OldLineIsEntry
<1>2. New(A) \in Seq(Entry)
  <2> HIDE DEF A
  <2> QED BY <1>1, NewFacts
<1>3. <<old>> \in Seq(Entry)
  <2> HIDE DEF old
  <2> QED BY <1>1
<1>4. New(A) \o <<old>> \in Seq(Entry)
  BY <1>2, <1>3, ConcatProperties
<1>5. ASSUME NEW L \in Nat, L # line PROVE New(A) \o <<old>> \in Seq(Others(L))
  <2>1. old \in Others(L)
    BY <1>1, <1>5 DEF Others
  <2>2. <<old>> \in Seq(Others(L))
    <3> HIDE DEF old
    <3> QED BY <2>1
  <2>3. New(A) \in Seq(Others(L))
    <3> HIDE DEF A
    <3>1. Len(A) \in Nat /\ DOMAIN A = 1 .. Len(A) /\ \A i \in 1 .. Len(A) : A[i] \in Line
      BY <1>1
    <3>2. \A i \in 1 .. Len(A) : TextLine(-1, A[i]) \in Others(L)
      BY <3>1 DEF TextLine, Entry, Others
    <3>3. New(A) \in [1 .. Len(A) -> Others(L)]
      BY <3>1, <3>2 DEF New
    <3> QED BY <3>1, <3>3
  <2> QED BY <2>2, <2>3, ConcatProperties
<1> QED BY <1>4, <1>5 DEF Block

LEMMA BlocksFacts ==
    ASSUME NEW p, IsScript(p), NEW n \in 0 .. Len(p)
    PROVE  Blocks(p, n) \in Seq(Seq(Entry)) /\ Len(Blocks(p, n)) = N + 1
<1> DEFINE U == Seq(Entry)
<1>1. N \in Nat
  BY ExpectedIsText
<1>2. ASSUME NEW l \in 1 .. N + 1 PROVE Block(p, l - 1, n) \in U
  <2>1. l - 1 \in 0 .. N
    BY <1>1
  <2> QED BY <2>1, BlockFacts
<1> HIDE DEF U
<1>3. Blocks(p, n) \in [1 .. N + 1 -> U]
  BY <1>2 DEF Blocks
<1>4. Blocks(p, n) \in Seq(U) /\ Len(Blocks(p, n)) = N + 1
  BY <1>1, <1>3
<1> QED BY <1>4 DEF U

\* The part of the lines that belongs to a line number.
LEMMA Located ==
    ASSUME NEW p, IsScript(p), NEW n \in 0 .. Len(p), NEW L \in 0 .. N
    PROVE  \E s \in Seq(Others(L)), t \in Seq(Others(L)) :
              Splits(Entry, Blocks(p, n), L + 1, s, t)
<1> DEFINE U == Seq(Others(L))
           W == Seq(Entry)
           b == Blocks(p, n)
           gap == [b EXCEPT ![L + 1] = <<>>]
<1>1. N \in Nat /\ L \in Nat /\ L + 1 \in 1 .. N + 1
  BY ExpectedIsText
<1>2. b \in Seq(W) /\ Len(b) = N + 1 /\ DOMAIN b = 1 .. N + 1
  BY BlocksFacts DEF Blocks
<1>3. ASSUME NEW l \in 1 .. N + 1, l # L + 1 PROVE b[l] \in U
  <2>1. l - 1 \in 0 .. N /\ L # l - 1
    BY <1>1, <1>3
  <2>2. Block(p, l - 1, n) \in U
    BY <1>1, <2>1, BlockFacts
  <2> QED BY <2>2 DEF Blocks
<1>4. gap \in [1 .. N + 1 -> U]
  <2>1. <<>> \in U
    OBVIOUS
  <2> HIDE DEF U, W, b
  <2> QED BY <1>2, <1>3, <2>1
<1>5. gap \in Seq(U) /\ Len(gap) = N + 1
  <2> HIDE DEF U, gap
  <2> QED BY <1>1, <1>4
<1>6. Others(L) \subseteq Entry
  BY DEF Others
<1>7. \E s \in Seq(Others(L)), t \in Seq(Others(L)) : Splits(Entry, gap, L + 1, s, t)
  <2> DEFINE m == L + 1
  <2>1. m \in 1 .. Len(gap) /\ gap \in Seq(Seq(Others(L)))
    BY <1>1, <1>5
  <2> HIDE DEF gap, m
  <2> QED BY <1>6, <2>1, FlattenSplit DEF m
<1>8. ASSUME NEW e PROVE [gap EXCEPT ![L + 1] = e] = [b EXCEPT ![L + 1] = e]
  <2> HIDE DEF b, W, U
  <2> QED BY <1>2
<1> HIDE DEF gap, b
<1>9. PICK s \in Seq(Others(L)), t \in Seq(Others(L)) : Splits(Entry, gap, L + 1, s, t)
  BY <1>7
<1>10. Splits(Entry, b, L + 1, s, t)
  BY <1>8, <1>9 DEF Splits
<1> QED BY <1>10 DEF b

\* There are no lines with a number behind the last one.
LEMMA NothingBehind ==
    ASSUME NEW p, IsScript(p), NEW n \in 0 .. Len(p), NEW L \in Nat, L > N
    PROVE  FlattenSeq(Blocks(p, n)) \in Seq(Others(L))
<1> DEFINE U == Seq(Others(L))
<1>1. N \in Nat
  BY ExpectedIsText
<1>2. ASSUME NEW l \in 1 .. N + 1 PROVE Block(p, l - 1, n) \in U
  <2>1. l - 1 \in 0 .. N /\ L # l - 1
    BY <1>1
  <2> QED BY <2>1, BlockFacts
<1>3. Blocks(p, n) \in Seq(U)
  <2> HIDE DEF U
  <2>1. Blocks(p, n) \in [1 .. N + 1 -> U]
    BY <1>2 DEF Blocks
  <2> QED BY <1>1, <2>1
<1> QED BY <1>3, FlattenType
-----------------------------------------------------------------------------
\* What an edit of the line number L finds.
IsFirst(ls, L, c) ==
    /\ c \in DOMAIN ls /\ ls[c].index = L
    /\ \A m \in DOMAIN ls : ls[m].index = L => c <= m

IsFound(ls, L, x, old, t) ==
    /\ x \in Seq(Entry) /\ ls = x \o (<<old>> \o t) /\ ls \in Seq(Entry)
    /\ IsFirst(ls, L, Len(x) + 1) /\ ls[Len(x) + 1] = old

\* It is the line of the unmodified text, which is the last one of its block.
LEMMA FoundThere ==
    ASSUME NEW L \in Nat, NEW s \in Seq(Others(L)), NEW A \in Seq(Line), NEW t \in Seq(Others(L)),
           NEW old \in Entry, old.index = L, NEW ls, ls = (s \o (New(A) \o <<old>>)) \o t
    PROVE  IsFound(ls, L, s \o New(A), old, t)
<1>1. s \in Seq(Entry) /\ t \in Seq(Entry)
  <2>1. Others(L) \subseteq Entry
    BY DEF Others
  <2> QED BY <2>1
<1>2. New(A) \in Seq(Entry) /\ Len(New(A)) = Len(A) /\ \A i \in 1 .. Len(A) : New(A)[i] = TextLine(-1, A[i])
  BY NewFacts
<1> DEFINE x == s \o New(A)
           o == <<old>>
           c == Len(x) + 1
<1>3. x \in Seq(Entry) /\ o \in Seq(Entry)
  BY <1>1, <1>2, ConcatProperties
<1>4. ls = x \o (o \o t)
  <2>1. o \in Seq(Entry) /\ New(A) \in Seq(Entry)
    BY <1>2, <1>3
  <2> DEFINE a == New(A)
  <2> HIDE DEF o, a
  <2>2. Regroups(s, a, o, t)
    BY <1>1, <2>1, ConcatShift DEF a
  <2>3. ls = (s \o (a \o o)) \o t
    BY DEF a, o
  <2>4. ls = (s \o a) \o (o \o t)
    BY <2>2, <2>3 DEF Regroups
  <2> QED BY <2>4 DEF a
<1>5. /\ ls \in Seq(Entry) /\ Len(ls) = c + Len(t) /\ DOMAIN ls = 1 .. Len(ls)
      /\ ls[c] = old /\ \A m \in 1 .. Len(x) : ls[m] = x[m]
  <2> HIDE DEF x
  <2>1. ls = x \o (<<old>> \o t)
    BY <1>4
  <2>2. IsJoint(Entry, ls, x, old, t, c)
    BY <1>1, <1>3, <2>1, JointFacts
  <2> QED BY <2>2 DEF IsJoint
<1>6. ASSUME NEW m \in 1 .. Len(x) PROVE x[m].index # L
  <2>3. Len(x) = Len(s) + Len(New(A))
    <3>1. s \in Seq(Entry) /\ New(A) \in Seq(Entry)
      BY <1>1, <1>2
    <3> QED BY <3>1, ConcatProperties
  <2>4. Len(s) \in Nat /\ Len(A) \in Nat
    OBVIOUS
  <2>0. Len(x) = Len(s) + Len(A) /\ Len(s) \in Nat /\ Len(A) \in Nat
    <3> HIDE DEF x
    <3> QED BY <1>2, <2>3, <2>4
  <2>1. CASE m <= Len(s)
    <3>1. m \in 1 .. Len(s)
      BY <2>0, <2>1
    <3>2. x[m] = s[m]
      BY <1>1, <1>2, <3>1
    <3>3. s[m] \in Others(L)
      BY <3>1
    <3> QED BY <3>2, <3>3 DEF Others
  <2>2. CASE ~(m <= Len(s))
    <3>1. PICK j \in 1 .. Len(A) : m = Len(s) + j
      <4>1. m - Len(s) \in 1 .. Len(A) /\ m = Len(s) + (m - Len(s))
        BY <2>0, <2>2
      <4> QED BY <4>1
    <3>2. x[m] = New(A)[j]
      BY <1>1, <1>2, <3>1
    <3>5. New(A)[j] = TextLine(-1, A[j])
      BY <1>2
    <3>3. New(A)[j].index = -1
      BY <3>5 DEF TextLine
    <3>4. -1 # L
      OBVIOUS
    <3> QED BY <3>2, <3>3, <3>4
  <2> QED BY <2>1, <2>2
<1>7. IsFirst(ls, L, c)
  <2>1. Len(x) \in Nat /\ Len(t) \in Nat
    BY <1>1, <1>3
  <2> HIDE DEF x
  <2>2. c \in DOMAIN ls
    BY <1>5, <2>1
  <2>3. ASSUME NEW m \in DOMAIN ls, ls[m].index = L PROVE c <= m
    <3>1. CASE m <= Len(x)
      <4>1. m \in 1 .. Len(x)
        BY <1>5, <2>1, <3>1
      <4> QED BY <1>5, <1>6, <2>3, <4>1
    <3>2. CASE ~(m <= Len(x))
      <4>1. m \in 1 .. Len(ls) /\ Len(ls) \in Nat
        BY <1>5, <2>1
      <4> QED BY <2>1, <3>2, <4>1
    <3> QED BY <3>1, <3>2
  <2> QED BY <1>5, <2>2, <2>3 DEF IsFirst
<1> QED BY <1>3, <1>4, <1>5, <1>7 DEF IsFound

\* An edit changes the block of its line only.
LEMMA BlocksNext ==
    ASSUME NEW p, IsScript(p), NEW n \in 0 .. Len(p), n < Len(p), p[n + 1].line \in 0 .. N,
           NEW L, L = p[n + 1].line
    PROVE  Blocks(p, n + 1) =
             [Blocks(p, n) EXCEPT ![L + 1] =
                New(AddedBy(p, L, n) \o Addition(p, L, n + 1)) \o <<OldLine(p, L, n + 1)>>]
<1>1. n + 1 \in 1 .. Len(p) /\ n + 1 \in 0 .. Len(p) /\ N \in Nat /\ n \in Nat /\ L \in Nat
  BY ScriptFacts, ExpectedIsText
<1>2. ASSUME NEW l \in 1 .. N + 1, l # L + 1 PROVE Block(p, l - 1, n + 1) = Block(p, l - 1, n)
  <2> DEFINE line == l - 1
  <2>1. line # L
    BY <1>1, <1>2
  <2> HIDE DEF line
  <2>2. Addition(p, line, n + 1) = <<>>
    BY <2>1 DEF Addition
  <2>3. AddedBy(p, line, n + 1) = AddedBy(p, line, n) \o <<>> /\ AddedBy(p, line, n) \in Seq(Line)
    BY <2>2, AddedFacts
  <2>4. AddedBy(p, line, n + 1) = AddedBy(p, line, n)
    BY <2>3
  <2>5. p[n + 1] # Del(line)
    BY <2>1 DEF Del
  <2>6. OldLine(p, line, n + 1) = OldLine(p, line, n)
    <3>1. \A j \in 1 .. n + 1 : j \in 1 .. n \/ j = n + 1
      BY <1>1
    <3>2. \A j \in 1 .. n : j \in 1 .. n + 1
      BY <1>1
    <3>3. (\E j \in 1 .. n + 1 : p[j] = Del(line)) <=> (\E j \in 1 .. n : p[j] = Del(line))
      BY <2>5, <3>1, <3>2
    <3> QED BY <3>3 DEF OldLine
  <2>7. Block(p, line, n + 1) = Block(p, line, n)
    BY <2>4, <2>6 DEF Block
  <2> QED BY <2>7 DEF line
<1>3. Block(p, L, n + 1) = New(AddedBy(p, L, n) \o Addition(p, L, n + 1)) \o <<OldLine(p, L, n + 1)>>
  BY AddedFacts DEF Block
<1>4. L + 1 \in 1 .. N + 1 /\ (L + 1) - 1 = L
  BY <1>1
<1> DEFINE e == New(AddedBy(p, L, n) \o Addition(p, L, n + 1)) \o <<OldLine(p, L, n + 1)>>
<1>5. \A l \in 1 .. N + 1 : Block(p, l - 1, n + 1) = IF l = L + 1 THEN e ELSE Block(p, l - 1, n)
  BY <1>2, <1>3, <1>4
<1> HIDE DEF e
<1>6. Blocks(p, n + 1) = [Blocks(p, n) EXCEPT ![L + 1] = e]
  BY <1>5 DEF Blocks
<1> QED BY <1>6 DEF e

LEMMA LinesEntries ==
    ASSUME NEW p, IsScript(p), NEW n \in 0 .. Len(p), NEW L \in 0 .. N
    PROVE  \E s \in Seq(Others(L)), t \in Seq(Others(L)) :
              /\ FlattenSeq(Blocks(p, n)) = (s \o (New(AddedBy(p, L, n)) \o <<OldLine(p, L, n)>>)) \o t
              /\ Splits(Entry, Blocks(p, n), L + 1, s, t)
<1>1. PICK s \in Seq(Others(L)), t \in Seq(Others(L)) : Splits(Entry, Blocks(p, n), L + 1, s, t)
  BY Located
<1> DEFINE e == Block(p, L, n)
<1>2. e \in Seq(Entry)
  BY BlockFacts
<1>3. [Blocks(p, n) EXCEPT ![L + 1] = e] = Blocks(p, n)
  <2>1. L + 1 \in 1 .. N + 1 /\ (L + 1) - 1 = L
    BY ExpectedIsText
  <2>2. Blocks(p, n)[L + 1] = e
    BY <2>1 DEF Blocks
  <2> HIDE DEF e
  <2> QED BY <2>2 DEF Blocks
<1> HIDE DEF e
<1>4. FlattenSeq(Blocks(p, n)) = (s \o e) \o t
  BY <1>1, <1>2, <1>3 DEF Splits
<1>5. FlattenSeq(Blocks(p, n)) = (s \o (New(AddedBy(p, L, n)) \o <<OldLine(p, L, n)>>)) \o t
  BY <1>4 DEF e, Block
<1> QED BY <1>1, <1>5

\* delLine marks the last line of the block.
DelChanges(p, n, ls) ==
    \E c : /\ IsFirst(ls, p[n + 1].line, c)
           /\ FlattenSeq(Blocks(p, n + 1)) = [ls EXCEPT ![c].deleted = TRUE]

LEMMA EditDel ==
    ASSUME NEW p, IsScript(p), NEW n \in 0 .. Len(p), n < Len(p), p[n + 1].line \in 0 .. N,
           p[n + 1].op = "del", NEW ls, ls = FlattenSeq(Blocks(p, n))
    PROVE  DelChanges(p, n, ls)
<1> DEFINE L == p[n + 1].line
           A == AddedBy(p, L, n)
           old == OldLine(p, L, n)
           new == OldLine(p, L, n + 1)
<1>1. /\ n + 1 \in 1 .. Len(p) /\ n + 1 \in 0 .. Len(p) /\ N \in Nat /\ n \in Nat /\ L \in Nat
      /\ L \in 0 .. N /\ p[n + 1] = Del(L)
  <2>1. n + 1 \in 1 .. Len(p) /\ n + 1 \in 0 .. Len(p) /\ N \in Nat /\ n \in Nat /\ L \in Nat
    BY ScriptFacts, ExpectedIsText
  <2>2. p[n + 1] = Del(L)
    BY <2>1, ScriptFacts
  <2> QED BY <2>1, <2>2
<1>2. A \in Seq(Line) /\ old \in Entry /\ old.index = L /\ new \in Entry
  BY <1>1, AddedFacts, OldLineIsEntry
<1>3. new = [old EXCEPT !.deleted = TRUE]
  <2>1. n + 1 \in 1 .. n + 1
    BY <1>1
  <2>2. \E j \in 1 .. n + 1 : p[j] = Del(L)
    BY <1>1, <2>1
  <2>3. new.index = old.index /\ new.line = old.line /\ new.deleted = TRUE
    BY <2>2 DEF OldLine
  <2> HIDE DEF old, new
  <2> QED BY <1>2, <2>3 DEF Entry
<1>4. Addition(p, L, n + 1) = <<>>
  BY DEF Addition
<1>5. Blocks(p, n + 1) = [Blocks(p, n) EXCEPT ![L + 1] = New(A) \o <<new>>]
  <2>1. Blocks(p, n + 1) = [Blocks(p, n) EXCEPT ![L + 1] = New(A \o Addition(p, L, n + 1)) \o <<new>>]
    BY <1>1, BlocksNext
  <2>2. A \o <<>> = A
    BY <1>2
  <2> QED BY <1>4, <2>1, <2>2
<1>6. PICK s \in Seq(Others(L)), t \in Seq(Others(L)) :
           /\ ls = (s \o (New(A) \o <<old>>)) \o t
           /\ Splits(Entry, Blocks(p, n), L + 1, s, t)
  BY <1>1, LinesEntries
<1> HIDE DEF L, A, old, new
<1>7. s \in Seq(Entry) /\ t \in Seq(Entry) /\ New(A) \in Seq(Entry)
  <2>1. Others(L) \subseteq Entry
    BY DEF Others
  <2> QED BY <1>2, <2>1, NewFacts
<1> DEFINE x == s \o New(A)
           c == Len(x) + 1
<1>8. /\ x \in Seq(Entry) /\ ls = x \o (<<old>> \o t) /\ ls \in Seq(Entry)
      /\ IsFirst(ls, L, c) /\ ls[c] = old
  <2>1. IsFound(ls, L, s \o New(A), old, t)
    BY <1>1, <1>2, <1>6, FoundThere
  <2> QED BY <2>1 DEF IsFound
<1>9. FlattenSeq(Blocks(p, n + 1)) = x \o (<<new>> \o t)
  <2> DEFINE o == <<new>>
             a == New(A)
  <2>1. o \in Seq(Entry) /\ a \in Seq(Entry)
    BY <1>2, <1>7
  <2> HIDE DEF o, a
  <2>2. a \o o \in Seq(Entry)
    BY <2>1, ConcatProperties
  <2>3. FlattenSeq([Blocks(p, n) EXCEPT ![L + 1] = a \o o]) = (s \o (a \o o)) \o t
    BY <1>6, <2>2 DEF Splits
  <2>4. Regroups(s, a, o, t)
    BY <1>7, <2>1, ConcatShift
  <2>5. FlattenSeq([Blocks(p, n) EXCEPT ![L + 1] = a \o o]) = (s \o a) \o (o \o t)
    BY <2>3, <2>4 DEF Regroups
  <2> QED BY <1>5, <2>5 DEF a, o
<1>10. [ls EXCEPT ![c] = new] = x \o (<<new>> \o t)
  <2> HIDE DEF x
  <2>1. IsReplacement(x, old, t, new)
    BY <1>2, <1>7, <1>8, JointReplaced
  <2> QED BY <1>8, <2>1 DEF IsReplacement
<1>11. [ls EXCEPT ![c].deleted = TRUE] = [ls EXCEPT ![c] = new]
  <2> HIDE DEF c
  <2> QED BY <1>3, <1>8
<1>12. FlattenSeq(Blocks(p, n + 1)) = [ls EXCEPT ![c].deleted = TRUE]
  BY <1>9, <1>10, <1>11
<1> HIDE DEF c
<1> QED BY <1>8, <1>12 DEF L, DelChanges

\* addText puts its lines between those that have been added there and the line.
AddChanges(p, n, ls) ==
    \E c : /\ IsFirst(ls, p[n + 1].line, c)
           /\ FlattenSeq(Blocks(p, n + 1)) =
                (SubSeq(ls, 1, c - 1) \o New(p[n + 1].text)) \o SubSeq(ls, c, Len(ls))

LEMMA EditAdd ==
    ASSUME NEW p, IsScript(p), NEW n \in 0 .. Len(p), n < Len(p), p[n + 1].line \in 0 .. N,
           p[n + 1].op = "add", NEW ls, ls = FlattenSeq(Blocks(p, n))
    PROVE  AddChanges(p, n, ls)
<1> DEFINE L == p[n + 1].line
           u == p[n + 1].text
           A == AddedBy(p, L, n)
           old == OldLine(p, L, n)
<1>1. /\ n + 1 \in 1 .. Len(p) /\ n + 1 \in 0 .. Len(p) /\ N \in Nat /\ n \in Nat /\ L \in Nat
      /\ L \in 0 .. N /\ u \in Seq(Line)
  <2>1. n + 1 \in 1 .. Len(p) /\ n + 1 \in 0 .. Len(p) /\ N \in Nat /\ n \in Nat /\ L \in Nat
    BY ScriptFacts, ExpectedIsText
  <2>2. u \in Seq(Line)
    BY <2>1, ScriptFacts
  <2> QED BY <2>1, <2>2
<1>2. A \in Seq(Line) /\ old \in Entry /\ old.index = L
  BY <1>1, AddedFacts, OldLineIsEntry
<1>3. OldLine(p, L, n + 1) = old
  <2>1. p[n + 1] # Del(L)
    BY DEF Del
  <2>2. \A j \in 1 .. n + 1 : j \in 1 .. n \/ j = n + 1
    BY <1>1
  <2>3. \A j \in 1 .. n : j \in 1 .. n + 1
    BY <1>1
  <2>4. (\E j \in 1 .. n + 1 : p[j] = Del(L)) <=> (\E j \in 1 .. n : p[j] = Del(L))
    BY <2>1, <2>2, <2>3
  <2> QED BY <2>4 DEF OldLine
<1>4. Addition(p, L, n + 1) = u
  BY DEF Addition
<1>5. Blocks(p, n + 1) = [Blocks(p, n) EXCEPT ![L + 1] = New(A \o u) \o <<old>>]
  <2>1. Blocks(p, n + 1) = [Blocks(p, n) EXCEPT ![L + 1] =
                               New(A \o Addition(p, L, n + 1)) \o <<OldLine(p, L, n + 1)>>]
    BY <1>1, BlocksNext
  <2> QED BY <1>3, <1>4, <2>1
<1>6. PICK s \in Seq(Others(L)), t \in Seq(Others(L)) :
           /\ ls = (s \o (New(A) \o <<old>>)) \o t
           /\ Splits(Entry, Blocks(p, n), L + 1, s, t)
  BY <1>1, LinesEntries
<1> HIDE DEF L, A, old, u
<1>7. s \in Seq(Entry) /\ t \in Seq(Entry) /\ New(A) \in Seq(Entry) /\ New(u) \in Seq(Entry)
  <2>1. Others(L) \subseteq Entry
    BY DEF Others
  <2> QED BY <1>1, <1>2, <2>1, NewFacts
<1> DEFINE x == s \o New(A)
           c == Len(x) + 1
<1>8. /\ x \in Seq(Entry) /\ ls = x \o (<<old>> \o t) /\ ls \in Seq(Entry)
      /\ IsFirst(ls, L, c)
  <2>1. IsFound(ls, L, s \o New(A), old, t)
    BY <1>1, <1>2, <1>6, FoundThere
  <2> QED BY <2>1 DEF IsFound
<1>9. New(A \o u) = New(A) \o New(u)
  BY <1>1, <1>2, NewConcat
<1>10. FlattenSeq(Blocks(p, n + 1)) = (x \o New(u)) \o (<<old>> \o t)
  <2> DEFINE o == <<old>>
             a == New(A)
             b == New(u)
             d == a \o b
  <2>1. o \in Seq(Entry) /\ a \in Seq(Entry) /\ b \in Seq(Entry)
    BY <1>2, <1>7
  <2> HIDE DEF o, a, b
  <2>2. d \in Seq(Entry)
    BY <2>1, ConcatProperties
  <2> HIDE DEF d
  <2>3. d \o o \in Seq(Entry)
    BY <2>1, <2>2, ConcatProperties
  <2>4. FlattenSeq([Blocks(p, n) EXCEPT ![L + 1] = d \o o]) = (s \o (d \o o)) \o t
    BY <1>6, <2>3 DEF Splits
  <2>5. Regroups(s, d, o, t)
    BY <1>7, <2>1, <2>2, ConcatShift
  <2>6. FlattenSeq([Blocks(p, n) EXCEPT ![L + 1] = d \o o]) = (s \o d) \o (o \o t)
    BY <2>4, <2>5 DEF Regroups
  <2>7. IsAssociativeAt(s, a, b)
    BY <1>7, <2>1, ConcatAssociates
  <2>8. s \o d = (s \o a) \o b
    BY <2>7 DEF IsAssociativeAt, d
  <2>9. Blocks(p, n + 1) = [Blocks(p, n) EXCEPT ![L + 1] = d \o o]
    BY <1>5, <1>9 DEF a, b, d, o
  <2> QED BY <2>6, <2>8, <2>9 DEF a, b, o
<1>11. SubSeq(ls, 1, c - 1) = x /\ SubSeq(ls, c, Len(ls)) = <<old>> \o t
  <2> HIDE DEF x
  <2>1. IsCut(ls, c, x, old, t)
    BY <1>2, <1>7, <1>8, JointCut
  <2> QED BY <2>1 DEF IsCut
<1>12. FlattenSeq(Blocks(p, n + 1)) = (SubSeq(ls, 1, c - 1) \o New(u)) \o SubSeq(ls, c, Len(ls))
  BY <1>10, <1>11
<1> HIDE DEF c
<1> QED BY <1>8, <1>12 DEF L, u, AddChanges

\* A line number behind the last one is not found.
LEMMA EditMissing ==
    ASSUME NEW p, IsScript(p), NEW n \in 0 .. Len(p), NEW L \in Nat, L > N,
           NEW ls, ls = FlattenSeq(Blocks(p, n))
    PROVE  \A m \in DOMAIN ls : ls[m].index # L
<1>1. ls \in Seq(Others(L))
  BY NothingBehind
<1>2. \A m \in DOMAIN ls : ls[m] \in Others(L)
  BY <1>1
<1> QED BY <1>2 DEF Others
-----------------------------------------------------------------------------
\* Without an edit, every block is its line.
LEMMA BlocksAtStart ==
    ASSUME NEW p, IsScript(p)
    PROVE  LinesOf(Expected) = FlattenSeq(Blocks(p, 0))
<1> DEFINE ls == LinesOf(Expected)
           front == [n \in DOMAIN Expected |-> TextLine(n - 1, Expected[n])]
           dummy == [TextLine(Len(Expected), None) EXCEPT !.deleted = TRUE]
<1>1. N \in Nat /\ Len(Expected) = N /\ DOMAIN Expected = 1 .. N /\ 0 \in 0 .. Len(p)
      /\ \A n \in 1 .. N : Expected[n] \in Line
  BY ExpectedIsText, ScriptFacts DEF N
<1>2. dummy \in Entry /\ dummy.index = N /\ dummy.line = None /\ dummy.deleted = TRUE
  <2> DEFINE r == TextLine(Len(Expected), None)
  <2>1. r \in Entry /\ r.index = N /\ r.line = None
    BY <1>1 DEF TextLine, Entry
  <2> HIDE DEF r
  <2>2. LET d == [r EXCEPT !.deleted = TRUE]
        IN  d \in Entry /\ d.index = N /\ d.line = None /\ d.deleted = TRUE
    BY <2>1 DEF Entry
  <2> QED BY <2>2 DEF r
<1>3. front \in Seq(Entry) /\ Len(front) = N
  <2>1. \A n \in 1 .. N : TextLine(n - 1, Expected[n]) \in Entry
    BY <1>1 DEF TextLine, Entry
  <2>2. front \in [1 .. N -> Entry]
    BY <1>1, <2>1
  <2> HIDE DEF front
  <2> QED BY <1>1, <2>2
<1>4. /\ ls \in Seq(Entry) /\ Len(ls) = N + 1
      /\ \A n \in 1 .. N : ls[n] = front[n]
      /\ ls[N + 1] = dummy
  <2>1. ls = front \o <<dummy>>
    BY DEF LinesOf
  <2> HIDE DEF front, dummy, ls
  <2> QED BY <1>1, <1>2, <1>3, <2>1
<1>5. ASSUME NEW n \in 1 .. N + 1 PROVE ls[n] = OldLine(p, n - 1, 0)
  <2>1. OldLine(p, n - 1, 0) \in Entry /\ OldLine(p, n - 1, 0).index = n - 1
    <3>1. n - 1 \in 0 .. N
      BY <1>1
    <3> QED BY <3>1, OldLineIsEntry
  <2>2. CASE n = N + 1
    <3>1. /\ OldLine(p, n - 1, 0).line = None /\ OldLine(p, n - 1, 0).deleted = TRUE
          /\ OldLine(p, n - 1, 0).index = N
      <4>1. n - 1 = N
        BY <1>1, <2>2
      <4>2. OldLine(p, N, 0).line = None /\ OldLine(p, N, 0).deleted = TRUE /\ OldLine(p, N, 0).index = N
        BY DEF OldLine
      <4> QED BY <4>1, <4>2
    <3> HIDE DEF dummy, ls
    <3> QED BY <1>2, <1>4, <2>1, <2>2, <3>1 DEF Entry
  <2>3. CASE n # N + 1
    <3>1. n \in 1 .. N /\ n - 1 # N /\ (n - 1) + 1 = n /\ ~ \E j \in 1 .. 0 : p[j] = Del(n - 1)
      BY <1>1, <2>3
    <3>2. /\ OldLine(p, n - 1, 0).line = Expected[n] /\ OldLine(p, n - 1, 0).deleted = FALSE
      BY <3>1 DEF OldLine
    <3>3. ls[n] = TextLine(n - 1, Expected[n])
      BY <1>1, <1>4, <3>1
    <3> HIDE DEF ls
    <3>4. ls[n].index = n - 1 /\ ls[n].line = Expected[n] /\ ls[n].deleted = FALSE /\ ls[n] \in Entry
      BY <1>1, <3>1, <3>3 DEF TextLine, Entry
    <3> QED BY <2>1, <3>2, <3>4 DEF Entry
  <2> QED BY <2>2, <2>3
<1> HIDE DEF ls
<1>6. ASSUME NEW n \in 1 .. N + 1 PROVE Blocks(p, 0)[n] = <<ls[n]>>
  <2>1. AddedBy(p, n - 1, 0) = <<>>
    BY <1>1, AddedFacts
  <2>2. New(<<>>) = <<>>
    BY DEF New
  <2> DEFINE o == <<OldLine(p, n - 1, 0)>>
  <2>3. o \in Seq(Entry) /\ o = <<ls[n]>>
    <3>1. n - 1 \in 0 .. N
      BY <1>1
    <3>2. OldLine(p, n - 1, 0) \in Entry
      BY <3>1, OldLineIsEntry
    <3> QED BY <1>5, <3>2
  <2>4. Blocks(p, 0)[n] = <<>> \o o
    BY <2>1, <2>2 DEF Blocks, Block
  <2> HIDE DEF o
  <2>5. <<>> \o o = o
    BY <2>3
  <2> QED BY <2>3, <2>4, <2>5
<1>7. Blocks(p, 0) = [n \in DOMAIN ls |-> <<ls[n]>>]
  <2>1. DOMAIN ls = 1 .. N + 1
    BY <1>1, <1>4
  <2>2. \A n \in 1 .. N + 1 : Block(p, n - 1, 0) = <<ls[n]>>
    BY <1>6 DEF Blocks
  <2> QED BY <2>1, <2>2 DEF Blocks
<1>8. FlattenSeq([n \in DOMAIN ls |-> <<ls[n]>>]) = ls
  BY <1>4, FlattenSingletons
<1> QED BY <1>7, <1>8 DEF ls

\* The text of some lines.
TextOf(ls) == FlattenSeq([n \in DOMAIN ls |-> Kept(ls[n])])

\* The text of a block is what has been added and the line, if it is kept.
LEMMA BlocksText ==
    ASSUME NEW p, IsScript(p), NEW n \in 0 .. Len(p)
    PROVE  TextOf(FlattenSeq(Blocks(p, n))) = PatchedBy(p, n)
<1> DEFINE V == Line \cup {None}
           K == [r \in Entry |-> Kept(r)]
           b == Blocks(p, n)
<1>1. K \in [Entry -> Seq(V)]
  <2>1. \A r \in Entry : Kept(r) \in Seq(V)
    <3> SUFFICES ASSUME NEW r \in Entry PROVE Kept(r) \in Seq(V)
      OBVIOUS
    <3>1. r.line \in V
      BY DEF Entry
    <3> HIDE DEF V
    <3>2. <<>> \in Seq(V) /\ <<r.line>> \in Seq(V)
      BY <3>1
    <3> QED BY <3>2 DEF Kept
  <2> QED BY <2>1
<1>2. ASSUME NEW ls \in Seq(Entry) PROVE Mapped(K, ls) = TextOf(ls)
  <2>1. \A i \in DOMAIN ls : ls[i] \in Entry
    OBVIOUS
  <2>2. \A i \in DOMAIN ls : K[ls[i]] = Kept(ls[i])
    BY <2>1
  <2> HIDE DEF K
  <2> QED BY <2>2 DEF Mapped, TextOf
<1>3. b \in Seq(Seq(Entry)) /\ Len(b) = N + 1 /\ DOMAIN b = 1 .. N + 1 /\ N \in Nat
  BY BlocksFacts, ExpectedIsText DEF Blocks
<1>4. \A seqs \in Seq(Seq(Entry)) :
         Mapped(K, FlattenSeq(seqs)) = FlattenSeq([l \in DOMAIN seqs |-> Mapped(K, seqs[l])])
  <2> HIDE DEF K, V
  <2> QED BY <1>1, MappedFlatten
<1>5. ASSUME NEW s \in Seq(Entry), NEW t \in Seq(Entry)
      PROVE  Mapped(K, s \o t) = Mapped(K, s) \o Mapped(K, t)
  <2> HIDE DEF K, V, b
  <2> QED BY <1>1, MappedConcat
<1>6. ASSUME NEW line \in 0 .. N
      PROVE  Mapped(K, Block(p, line, n)) = AddedBy(p, line, n) \o KeptBy(p, line, n)
  <2> DEFINE A == AddedBy(p, line, n)
             old == OldLine(p, line, n)
             o == <<old>>
  <2>1. A \in Seq(Line) /\ old \in Entry
    BY AddedFacts, OldLineIsEntry
  <2>2. o \in Seq(Entry)
    <3> HIDE DEF old
    <3> QED BY <2>1
  <2>3. New(A) \in Seq(Entry) /\ DOMAIN New(A) = DOMAIN A
        /\ \A i \in DOMAIN A : New(A)[i] = TextLine(-1, A[i])
    <3> HIDE DEF A
    <3> QED BY <2>1, NewFacts DEF New
  <2>4. Mapped(K, New(A)) = A
    <3> HIDE DEF A, K
    <3>1. \A i \in DOMAIN A : Kept(New(A)[i]) = <<A[i]>>
      BY <2>3 DEF Kept, TextLine
    <3>2. TextOf(New(A)) = FlattenSeq([i \in DOMAIN A |-> <<A[i]>>])
      BY <2>3, <3>1 DEF TextOf
    <3>3. FlattenSeq([i \in DOMAIN A |-> <<A[i]>>]) = A
      BY <2>1, FlattenSingletons
    <3> QED BY <1>2, <2>3, <3>2, <3>3
  <2>5. Mapped(K, o) = KeptBy(p, line, n)
    <3>1. Kept(old) = KeptBy(p, line, n)
      BY DEF Kept, OldLine, KeptBy
    <3>2. TextOf(o) = FlattenSeq(<<Kept(old)>>)
      <4> HIDE DEF old
      <4>1. DOMAIN o = 1 .. 1 /\ o[1] = old
        OBVIOUS
      <4> HIDE DEF o
      <4>2. [i \in DOMAIN o |-> Kept(o[i])] = [i \in 1 .. 1 |-> Kept(old)]
        BY <4>1
      <4>3. [i \in 1 .. 1 |-> Kept(old)] = <<Kept(old)>>
        OBVIOUS
      <4> QED BY <4>2, <4>3 DEF TextOf
    <3>3. FlattenSeq(<<Kept(old)>>) = Kept(old)
      <4> DEFINE e == Kept(old)
      <4>1. e \in Seq(V)
        <5>1. K[old] \in Seq(V) /\ K[old] = e
          <6> HIDE DEF V, old
          <6> QED BY <1>1, <2>1
        <5> QED BY <5>1
      <4> HIDE DEF e, V
      <4>2. <<>> \in Seq(Seq(V)) /\ Append(<<>>, e) = <<e>> /\ <<>> \o e = e
        BY <4>1
      <4>3. FlattenSeq(Append(<<>>, e)) = FlattenSeq(<<>>) \o e
        BY <4>1, <4>2, FlattenAppend
      <4> QED BY <4>2, <4>3, FlattenEmpty DEF e
    <3> QED BY <1>2, <2>2, <3>1, <3>2, <3>3
  <2>6. Mapped(K, New(A) \o o) = Mapped(K, New(A)) \o Mapped(K, o)
    BY <1>5, <2>2, <2>3
  <2> QED BY <2>4, <2>5, <2>6 DEF Block
<1>7. \A l \in 1 .. N + 1 : Mapped(K, b[l]) = AddedBy(p, l - 1, n) \o KeptBy(p, l - 1, n)
  <2> SUFFICES ASSUME NEW l \in 1 .. N + 1
               PROVE  Mapped(K, b[l]) = AddedBy(p, l - 1, n) \o KeptBy(p, l - 1, n)
    OBVIOUS
  <2>1. l - 1 \in 0 .. N
    BY <1>3
  <2>2. b[l] = Block(p, l - 1, n)
    BY DEF Blocks
  <2> HIDE DEF K, b
  <2> QED BY <1>6, <2>1, <2>2
<1>8. FlattenSeq([l \in DOMAIN b |-> Mapped(K, b[l])]) = PatchedBy(p, n)
  <2> HIDE DEF K, b
  <2> QED BY <1>3, <1>7 DEF PatchedBy
<1>9. FlattenSeq(b) \in Seq(Entry)
  BY <1>3, FlattenType
<1> HIDE DEF K, b
<1>10. Mapped(K, FlattenSeq(b)) = FlattenSeq([l \in DOMAIN b |-> Mapped(K, b[l])])
  BY <1>3, <1>4
<1> QED BY <1>2, <1>8, <1>9, <1>10 DEF b
-----------------------------------------------------------------------------
PatchInv == FilesInv /\ LinesAreBlocks

LEMMA ScriptsAreScripts == FilesInv => IsScript(edits)
BY TextPatcherAssumption DEF FilesInv

LEMMA FirstIsFound ==
    ASSUME NEW c, DOMAIN lines \subseteq Int, IsFirst(lines, Edit.line, c)
    PROVE  FirstFound = c /\ Found # {}
<1>1. c \in Found /\ \A m \in Found : c <= m
  BY DEF IsFirst, Found
<1>2. c \in Int /\ \A m \in Found : m \in Int
  BY DEF IsFirst, Found
<1>3. \A n \in Found : (\A m \in Found : n <= m) => n = c
  BY <1>1, <1>2
<1>4. (CHOOSE n \in Found : \A m \in Found : n <= m) = c
  <2> HIDE DEF Found
  <2> QED BY <1>1, <1>3
<1> QED BY <1>1, <1>4 DEF FirstFound

\* What delLine and addText rely on: their line number is found only if the
\* unmodified text has this line, or ends in front of it.
LEMMA NumberIsThere ==
    ASSUME PatchInv, pc = "edit", k <= Len(edits), Natural(k), Found # {}
    PROVE  /\ k - 1 \in 0 .. Len(edits) /\ k - 1 < Len(edits) /\ (k - 1) + 1 = k
           /\ k \in 1 .. Len(edits) /\ DOMAIN lines \subseteq Int
           /\ lines = FlattenSeq(Blocks(edits, k - 1)) /\ edits[k].line \in 0 .. N
           /\ \A j \in 1 .. k : edits[j].line <= N
<1>1. IsScript(edits) /\ Len(edits) \in Nat
  BY ScriptsAreScripts, ScriptFacts DEF PatchInv
<1>2. k \in 1 .. Len(edits) /\ k - 1 \in 0 .. Len(edits) /\ k - 1 < Len(edits) /\ (k - 1) + 1 = k
  BY <1>1 DEF PatchInv, LinesAreBlocks
<1>3. Natural(k - 1) /\ edits[k].line >= 0
  <2>1. \A j \in 1 .. k - 1 : j \in 1 .. k
    BY <1>2
  <2>2. k \in 1 .. k
    BY <1>2
  <2> QED BY <2>1, <2>2 DEF Natural
<1>4. lines = FlattenSeq(Blocks(edits, k - 1)) /\ \A j \in 1 .. k - 1 : edits[j].line <= N
  BY <1>3 DEF PatchInv, LinesAreBlocks
<1>5. DOMAIN lines \subseteq Int
  <2>1. lines \in Seq(Entry)
    <3>1. Blocks(edits, k - 1) \in Seq(Seq(Entry))
      BY <1>1, <1>2, BlocksFacts
    <3> QED BY <1>4, <3>1, FlattenType
  <2> QED BY <2>1
<1>6. edits[k].line \in Nat
  <2>1. edits[k].line \in Int
    BY <1>1, <1>2, ScriptFacts
  <2> QED BY <1>3, <2>1
<1>7. edits[k].line <= N
  <2> SUFFICES ASSUME ~(edits[k].line <= N) PROVE FALSE
    OBVIOUS
  <2>1. edits[k].line > N
    BY <1>6, ExpectedIsText
  <2>2. \A m \in DOMAIN lines : lines[m].index # edits[k].line
    BY <1>1, <1>2, <1>4, <1>6, <2>1, EditMissing
  <2> QED BY <2>2 DEF Found, Edit
<1>8. \A j \in 1 .. k : edits[j].line <= N
  <2>1. \A j \in 1 .. k : j \in 1 .. k - 1 \/ j = k
    BY <1>2
  <2> QED BY <1>4, <1>7, <2>1
<1>9. edits[k].line \in 0 .. N
  BY <1>6, <1>7, ExpectedIsText
<1> QED BY <1>2, <1>4, <1>5, <1>8, <1>9

LEMMA InitIsPatchInv == Init => PatchInv
<1> SUFFICES ASSUME Init PROVE PatchInv
  OBVIOUS
<1>1. LinesAreBlocks
  BY DEF Init, LinesAreBlocks
<1>2. FilesInv
  BY DEF Init, FilesInv, IsRight
<1> QED BY <1>1, <1>2 DEF PatchInv

\* The edits of a script are performed on blocks.
LEMMA EditsKeepBlocks ==
    ASSUME PatchInv, Next
    PROVE  LinesAreBlocks'
<1>0. IsScript(edits) /\ Len(edits) \in Nat
  BY ScriptsAreScripts, ScriptFacts DEF PatchInv
<1>1. CASE Check
  <2>1. pc' = "edit" /\ k' = 1 /\ lines' = LinesOf(Expected) /\ edits' = edits
    BY <1>1 DEF Check, Start, script
  <2>2. lines' = FlattenSeq(Blocks(edits, 0))
    BY <1>0, <2>1, BlocksAtStart
  <2>3. 1 \in 1 .. Len(edits) + 1 /\ 1 - 1 = 0 /\ \A j \in 1 .. 0 : edits[j].line <= N
    BY <1>0
  <2> QED BY <2>1, <2>2, <2>3 DEF LinesAreBlocks
<1>2. CASE DelLine
  <2>1. /\ pc = "edit" /\ k <= Len(edits) /\ Found # {} /\ edits[k].op = "del"
        /\ lines' = [lines EXCEPT ![FirstFound].deleted = TRUE]
        /\ k' = k + 1 /\ pc' = "edit" /\ edits' = edits
    BY <1>2 DEF DelLine, Edit, script
  <2>4. k \in 1 .. Len(edits) + 1
    BY <2>1 DEF PatchInv, LinesAreBlocks
  <2>2. k' \in 1 .. Len(edits) + 1 /\ k' - 1 = k
    BY <1>0, <2>1, <2>4
  <2>3. ASSUME Natural(k)
        PROVE  lines' = FlattenSeq(Blocks(edits, k)) /\ \A j \in 1 .. k : edits[j].line <= N
    <3>1. /\ k - 1 \in 0 .. Len(edits) /\ k - 1 < Len(edits) /\ (k - 1) + 1 = k
          /\ DOMAIN lines \subseteq Int
          /\ lines = FlattenSeq(Blocks(edits, k - 1)) /\ edits[k].line \in 0 .. N
          /\ \A j \in 1 .. k : edits[j].line <= N
      BY <2>1, <2>3, NumberIsThere
    <3>2. PICK c : /\ IsFirst(lines, edits[k].line, c)
                   /\ FlattenSeq(Blocks(edits, k)) = [lines EXCEPT ![c].deleted = TRUE]
      <4> DEFINE n == k - 1
      <4>1. /\ n \in 0 .. Len(edits) /\ n < Len(edits) /\ edits[n + 1].line \in 0 .. N
            /\ edits[n + 1].op = "del" /\ lines = FlattenSeq(Blocks(edits, n))
        BY <2>1, <3>1
      <4> HIDE DEF n
      <4>2. DelChanges(edits, n, lines)
        BY <1>0, <4>1, EditDel
      <4> QED BY <3>1, <4>2 DEF n, DelChanges
    <3>3. FirstFound = c
      BY <3>1, <3>2, FirstIsFound DEF Edit
    <3> QED BY <2>1, <3>1, <3>2, <3>3
  <2> QED BY <2>1, <2>2, <2>3 DEF LinesAreBlocks, Natural
<1>3. CASE AddText
  <2>1. /\ pc = "edit" /\ k <= Len(edits) /\ Found # {} /\ edits[k].op = "add"
        /\ lines' = (SubSeq(lines, 1, FirstFound - 1) \o New(edits[k].text))
                      \o SubSeq(lines, FirstFound, Len(lines))
        /\ k' = k + 1 /\ pc' = "edit" /\ edits' = edits
    BY <1>3 DEF AddText, Inserted, New, Edit, script
  <2>4. k \in 1 .. Len(edits) + 1
    BY <2>1 DEF PatchInv, LinesAreBlocks
  <2>2. k' \in 1 .. Len(edits) + 1 /\ k' - 1 = k
    BY <1>0, <2>1, <2>4
  <2>3. ASSUME Natural(k)
        PROVE  lines' = FlattenSeq(Blocks(edits, k)) /\ \A j \in 1 .. k : edits[j].line <= N
    <3>1. /\ k - 1 \in 0 .. Len(edits) /\ k - 1 < Len(edits) /\ (k - 1) + 1 = k
          /\ DOMAIN lines \subseteq Int
          /\ lines = FlattenSeq(Blocks(edits, k - 1)) /\ edits[k].line \in 0 .. N
          /\ \A j \in 1 .. k : edits[j].line <= N
      BY <2>1, <2>3, NumberIsThere
    <3>2. PICK c : /\ IsFirst(lines, edits[k].line, c)
                   /\ FlattenSeq(Blocks(edits, k)) =
                        (SubSeq(lines, 1, c - 1) \o New(edits[k].text)) \o SubSeq(lines, c, Len(lines))
      <4> DEFINE n == k - 1
      <4>1. /\ n \in 0 .. Len(edits) /\ n < Len(edits) /\ edits[n + 1].line \in 0 .. N
            /\ edits[n + 1].op = "add" /\ lines = FlattenSeq(Blocks(edits, n))
        BY <2>1, <3>1
      <4> HIDE DEF n
      <4>2. AddChanges(edits, n, lines)
        BY <1>0, <4>1, EditAdd
      <4> QED BY <3>1, <4>2 DEF n, AddChanges
    <3>3. FirstFound = c
      BY <3>1, <3>2, FirstIsFound DEF Edit
    <3> QED BY <2>1, <3>1, <3>2, <3>3
  <2> QED BY <2>1, <2>2, <2>3 DEF LinesAreBlocks, Natural
<1>4. CASE \/ Run \/ Disassemble \/ DisassembleFails \/ Refuse \/ LineMissing \/ PrintText
           \/ Assemble \/ AssembleFails \/ OpenOutput \/ OpenFails \/ WriteOutput \/ WriteFails
  <2>1. pc' # "edit"
    BY <1>4 DEF Run, Disassemble, DisassembleFails, Refuse, LineMissing, PrintText,
                Assemble, AssembleFails, OpenOutput, OpenFails, WriteOutput, WriteFails, End
  <2> QED BY <2>1 DEF LinesAreBlocks
<1> QED BY <1>1, <1>2, <1>3, <1>4 DEF Next

LEMMA PatchedIs == \A n : Patched(n) = PatchedBy(edits, n)
BY DEF Patched, PatchedBy, AddedAt, KeptAt, AddedBy, Addition, KeptBy, N

\* With TextIsEdits, Assemble gets the text with all edits.
LEMMA TextIsPatched ==
    ASSUME PatchInv, pc = "edit", Natural(k - 1)
    PROVE  /\ GetText = PatchedBy(edits, k - 1)
           /\ \A j \in 1 .. k - 1 : edits[j].line <= N
<1>1. IsScript(edits) /\ Len(edits) \in Nat
  BY ScriptsAreScripts, ScriptFacts DEF PatchInv
<1>2. /\ k \in 1 .. Len(edits) + 1 /\ lines = FlattenSeq(Blocks(edits, k - 1))
      /\ \A j \in 1 .. k - 1 : edits[j].line <= N
  BY DEF PatchInv, LinesAreBlocks
<1>3. k - 1 \in 0 .. Len(edits)
  BY <1>1, <1>2
<1>4. TextOf(lines) = PatchedBy(edits, k - 1)
  BY <1>1, <1>2, <1>3, BlocksText
<1> QED BY <1>2, <1>4 DEF GetText, TextOf

LEMMA FilesStayRight ==
    ASSUME PatchInv, Next
    PROVE  FilesInv'
<1>0. IsScript(edits) /\ Len(edits) \in Nat /\ DOMAIN edits = 1 .. Len(edits)
  BY ScriptsAreScripts, ScriptFacts DEF PatchInv
<1>1. edits' = edits /\ first' = first /\ trouble \subseteq trouble'
      /\ to' \in Names \cup {None}
  <2>1. to \in Names \cup {None}
    BY DEF PatchInv, FilesInv
  <2> QED BY <2>1 DEF Next, Run, Disassemble, DisassembleFails, Check, Start, Refuse, DelLine, AddText,
                      LineMissing, PrintText, Assemble, AssembleFails, OpenOutput, OpenFails,
                      WriteOutput, WriteFails, End, script
<1>2. edits \in Patches /\ files = [f \in Names |-> files[f]]
      /\ (pc \in {"open", "write"} => to \in Names)
  BY DEF PatchInv, FilesInv
<1>3. ASSUME NEW x, NEW x0
      PROVE  /\ IsRight(x, x0, edits, trouble) => IsRight(x, x0, edits, trouble')
             /\ IsRightBinary(x, edits, trouble) => IsRightBinary(x, edits, trouble')
  BY <1>1 DEF IsRight, IsRightBinary
<1>4. ASSUME Natural(Len(edits))
      PROVE  /\ \A f \in Names :
                  (pc = "write" /\ f = to) \/ IsRight(files[f], first[f], edits, trouble)
             /\ pc \in {"open", "write"} => IsRightBinary(bin, edits, trouble)
  BY <1>4 DEF PatchInv, FilesInv
<1>5. Natural(Len(edits))' <=> Natural(Len(edits))
  BY <1>1 DEF Natural
<1>6. CASE \/ Run \/ Disassemble \/ DisassembleFails \/ Check \/ Refuse \/ DelLine \/ AddText
           \/ LineMissing \/ PrintText \/ OpenFails
  <2>1. files' = files /\ bin' = bin /\ pc # "write" /\ pc' \notin {"open", "write"}
    BY <1>6 DEF Run, Disassemble, DisassembleFails, Check, Start, Refuse, DelLine, AddText, LineMissing,
                PrintText, OpenFails, End
  <2>2. ASSUME Natural(Len(edits)), NEW f \in Names PROVE IsRight(files[f], first[f], edits, trouble')
    BY <1>3, <1>4, <2>1, <2>2
  <2> QED BY <1>1, <1>2, <1>5, <2>1, <2>2 DEF FilesInv
<1>7. CASE Assemble \/ AssembleFails
  <2>1. files' = files /\ to' = to /\ to \in Names /\ pc = "edit" /\ pc' = "open" /\ k > Len(edits)
    <3>1. to \in Names \cup {None}
      BY DEF PatchInv, FilesInv
    <3> QED BY <1>7, <3>1 DEF Assemble, AssembleFails, script
  <2>2. ASSUME Natural(Len(edits)) PROVE IsRightBinary(bin', edits, trouble')
    <3>1. CASE Assemble
      <4>1. k - 1 = Len(edits)
        <5>1. k \in 1 .. Len(edits) + 1
          BY <2>1 DEF PatchInv, LinesAreBlocks
        <5> QED BY <1>0, <2>1, <5>1
      <4>2. /\ GetText = PatchedBy(edits, Len(edits))
            /\ \A j \in 1 .. Len(edits) : edits[j].line <= N
        BY <2>1, <2>2, <4>1, TextIsPatched
      <4>3. bin' = Image(GetText)
        BY <3>1 DEF Assemble
      <4> QED BY <1>0, <4>2, <4>3 DEF IsRightBinary, AllLinesExist
    <3>2. CASE AssembleFails
      <4>1. "asm" \in trouble' /\ ~bin'.whole
        BY <3>2 DEF AssembleFails, Damaged
      <4> QED BY <4>1 DEF IsRightBinary
    <3> QED BY <1>7, <3>1, <3>2
  <2>3. ASSUME Natural(Len(edits)), NEW f \in Names PROVE IsRight(files[f], first[f], edits, trouble')
    BY <1>3, <1>4, <2>1, <2>3
  <2> QED BY <1>1, <1>2, <1>5, <2>1, <2>2, <2>3 DEF FilesInv
<1>8. CASE OpenOutput
  <2>1. /\ files' = [files EXCEPT ![to] = Damaged(<<>>)] /\ to' = to /\ bin' = bin /\ trouble' = trouble
        /\ pc = "open" /\ pc' = "write" /\ to \in Names
    BY <1>2, <1>8 DEF OpenOutput, script
  <2>2. files' = [f \in Names |-> files'[f]] /\ \A f \in Names : f # to => files'[f] = files[f]
    BY <1>2, <2>1
  <2>3. ASSUME Natural(Len(edits)), NEW f \in Names, f # to
        PROVE  IsRight(files'[f], first[f], edits, trouble)
    BY <1>4, <2>1, <2>2, <2>3
  <2> QED BY <1>1, <1>2, <1>4, <1>5, <2>1, <2>2, <2>3 DEF FilesInv
<1>9. CASE WriteOutput \/ WriteFails
  <2>1. PICK x : /\ files' = [files EXCEPT ![to] = x]
                 /\ x = bin \/ (~x.whole /\ "write" \in trouble')
    <3>1. CASE WriteOutput
      BY <3>1 DEF WriteOutput
    <3>2. CASE WriteFails
      <4>1. PICK rest : files' = [files EXCEPT ![to] = Damaged(rest)]
        BY <3>2 DEF WriteFails
      <4>2. "write" \in trouble' /\ ~Damaged(rest).whole
        BY <3>2 DEF WriteFails, Damaged
      <4> QED BY <4>1, <4>2
    <3> QED BY <1>9, <3>1, <3>2
  <2>2. pc = "write" /\ pc' = "idle" /\ to \in Names
    BY <1>2, <1>9 DEF WriteOutput, WriteFails, End
  <2>3. files' = [f \in Names |-> files'[f]]
        /\ \A f \in Names : files'[f] = IF f = to THEN x ELSE files[f]
    BY <1>2, <2>1, <2>2
  <2>4. ASSUME Natural(Len(edits)), NEW f \in Names PROVE IsRight(files'[f], first[f], edits, trouble')
    <3>1. CASE f # to
      BY <1>3, <1>4, <2>3, <2>4, <3>1
    <3>2. CASE f = to
      <4>1. files'[f] = x
        BY <2>3, <3>2
      <4>2. CASE x = bin
        <5>1. IsRightBinary(x, edits, trouble)
          BY <1>4, <2>2, <2>4, <4>2
        <5>2. IsRightBinary(x, edits, trouble')
          BY <1>3, <5>1
        <5> QED BY <4>1, <5>2 DEF IsRight, IsRightBinary
      <4>3. CASE ~x.whole /\ "write" \in trouble'
        BY <4>1, <4>3 DEF IsRight
      <4> QED BY <2>1, <4>2, <4>3
    <3> QED BY <3>1, <3>2
  <2> QED BY <1>1, <1>2, <1>5, <2>2, <2>3, <2>4 DEF FilesInv
<1> QED BY <1>6, <1>7, <1>8, <1>9 DEF Next

LEMMA PatchInvHolds == Spec => []PatchInv
<1>1. Init => PatchInv
  BY InitIsPatchInv
<1>2. PatchInv /\ [Next]_vars => PatchInv'
  <2> SUFFICES ASSUME PatchInv, [Next]_vars PROVE PatchInv'
    OBVIOUS
  <2>1. CASE Next
    BY <2>1, EditsKeepBlocks, FilesStayRight DEF PatchInv
  <2>2. CASE UNCHANGED vars
    <3>1. LinesAreBlocks'
      BY <2>2 DEF vars, PatchInv, LinesAreBlocks, Natural
    <3>2. FilesInv'
      BY <2>2 DEF vars, PatchInv, FilesInv, Natural
    <3> QED BY <3>1, <3>2 DEF PatchInv
  <2> QED BY <2>1, <2>2
<1> QED BY <1>1, <1>2, PTL DEF Spec
-----------------------------------------------------------------------------
\* A line number of delLine and addText means the line of the unmodified text
\* whatever was inserted and deleted before, for every text and every script:
\* what getText returns is the text with the calls so far applied to it.
THEOREM EditsMeanOriginalLines == Spec => []TextIsEdits
<1>1. PatchInv => TextIsEdits
  <2> SUFFICES ASSUME PatchInv, pc = "edit", Natural(k - 1) PROVE GetText = Patched(k - 1)
    BY DEF TextIsEdits
  <2> QED BY TextIsPatched, PatchedIs
<1> QED BY <1>1, PatchInvHolds, PTL

\* However often the script runs, on whatever files and with whatever failures,
\* a file is what it was or holds the text with all edits applied once; only
\* the assembler and the writing of the file leave a damaged one.
THEOREM FilesArePatchedOnce == Spec => []PatchedOnce
<1>1. PatchInv => PatchedOnce
  <2> SUFFICES ASSUME PatchInv, pc # "write", Natural(Len(edits)), NEW f \in Names
               PROVE  \/ files[f] = first[f]
                      \/ /\ \A j \in DOMAIN edits : edits[j].line <= Len(Expected)
                         /\ files[f] = Image(Patched(Len(edits)))
                      \/ ~files[f].whole /\ trouble \cap {"asm", "write"} # {}
    BY DEF PatchedOnce
  <2>1. IsRight(files[f], first[f], edits, trouble)
    BY DEF PatchInv, FilesInv
  <2> QED BY <2>1, PatchedIs DEF IsRight, AllLinesExist, N
<1> QED BY <1>1, PatchInvHolds, PTL
=============================================================================
