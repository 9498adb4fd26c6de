--------------------------- MODULE FwConv_proofs ---------------------------
(***************************************************************************)
(* The two brcm files, for every driver, all files from elsewhere and any  *)
(* number of commands: unless an accident has damaged them they belong     *)
(* together, and what both programs do with them are the operations of a   *)
(* store of sections; an accident costs one section at most. And the files *)
(* for b43: each is the driver's data, or a beginning of them, and both    *)
(* tools that print initvals print the same.                               *)
(***************************************************************************)
EXTENDS FwConv, SequenceLemmas

WriteType == [idx : Nat, data : Seq(Nat)]

\* The indices that the object o is written with, and those that have been
\* written when main's loop is at its k-th object.
IndicesOf(o) ==
    (IF o.name \in DOMAIN BrcmIndex THEN {BrcmIndex[o.name]} ELSE {})
        \cup (IF o.name \in DOMAIN SizeIndex THEN {SizeIndex[o.name]} ELSE {})

Written(last) ==
    (UNION {IndicesOf(driver.extract[n]) : n \in {m \in DOMAIN driver.extract : m < last}})
        \cup (IF last > Len(driver.extract) + 1 THEN {7, 14, 15} ELSE {})

\* The entries whose data are in the data file.
Done == IF pc = "data" THEN Front(hdr) ELSE hdr

\* One section of the store s has other data in the store t.
OneReplaced(s, t) ==
    \E old \in s : \E d \in Seq(Nat) : t = (s \ {old}) \cup {[idx |-> old.idx, data |-> d]}

ConvTypeOK ==
    /\ driver \in Drivers /\ k \in Nat \ {0} /\ damaged \in BOOLEAN
    /\ bin \in Seq(Nat) /\ hdr \in Seq(EntryType \cup {Torn})
    /\ out \in Seq(Nat) \cup {None}
    /\ pc \in {"header", "data"} => pending \in Seq(WriteType) /\ pending # <<>>
    /\ pc = "write" => InFwCutter("b43")
    /\ pc = "sections" => \A n \in DOMAIN hdr : hdr[n] # Torn
    /\ pc \in {"write bin", "write hdr"} => new.bin \in Seq(Nat) /\ new.hdr \in Seq(EntryType)

\* Between two writes the files belong together; while the data of an entry are
\* missing, all others do; and what a merge will write does, too.
StoreIsSound ==
    ~damaged =>
        /\ pc \notin {"clear header", "data", "write hdr"} => Intact(hdr, bin)
        /\ pc = "data" => hdr = Append(Front(hdr), NextEntry) /\ Intact(Front(hdr), bin)
        /\ pc \in {"write bin", "write hdr"} => Intact(new.hdr, new.bin)
        /\ pc = "write bin" => OneReplaced(StoreOf(hdr, bin), StoreOf(new.hdr, new.bin))
        /\ pc = "write hdr" => bin = new.bin

\* An extraction writes no index twice.
IndicesAreFresh ==
    ~damaged =>
        /\ (pc \in {"header", "data"} \/ (pc = "object" /\ InFwCutter("brcmsmac"))) =>
              \A n \in DOMAIN Done : Done[n].idx \in Written(k)
        /\ pc \in {"header", "data"} =>
              \A m \in DOMAIN pending :
                  /\ pending[m].idx \in Written(k)
                  /\ \A n \in DOMAIN Done : Done[n].idx # pending[m].idx
                  /\ \A n \in DOMAIN pending : pending[n].idx = pending[m].idx => n = m

ConvInv == ConvTypeOK /\ StoreIsSound /\ IndicesAreFresh
-----------------------------------------------------------------------------
\* The steps of the abstract store.
StoreStep == [SectionStore!Next]_(SectionStore!vars)

LEMMA StutterStep ==
    ASSUME Sections' = Sections, damaged' = damaged PROVE StoreStep
BY DEF StoreStep, SectionStore!vars

LEMMA DamageStep ==
    ASSUME damaged' = TRUE PROVE StoreStep
BY DEF StoreStep, SectionStore!Next, SectionStore!Damage

LEMMA ResetStep ==
    ASSUME Sections' = {}, damaged' = FALSE PROVE StoreStep
BY DEF StoreStep, SectionStore!Next, SectionStore!Reset

LEMMA AddStep ==
    ASSUME ~damaged, damaged' = damaged, NEW idx \in Nat, NEW d,
           \A s \in Sections : s.idx # idx,
           Sections' = Sections \cup {[idx |-> idx, data |-> d]}
    PROVE  StoreStep
<1> DEFINE s == [idx |-> idx, data |-> d]
<1>1. s \in Sections' \ Sections /\ s.idx \in Nat \ SectionStore!InUse(Sections)
  BY DEF SectionStore!InUse
<1> HIDE DEF s
<1>2. Sections' = Sections \cup {s}
  BY DEF s
<1>3. SectionStore!Add
  BY <1>1, <1>2 DEF SectionStore!Add
<1> QED BY <1>3 DEF StoreStep, SectionStore!Next

LEMMA ReplaceStep ==
    ASSUME ~damaged, damaged' = damaged, OneReplaced(Sections, Sections'),
           \A s, t \in Sections : s.idx = t.idx => s = t
    PROVE  StoreStep
<1>1. PICK old \in Sections, d \in Seq(Nat) :
          Sections' = (Sections \ {old}) \cup {[idx |-> old.idx, data |-> d]}
  BY DEF OneReplaced
<1> DEFINE s == [idx |-> old.idx, data |-> d]
<1>2. s.idx = old.idx
  OBVIOUS
<1> HIDE DEF s
<1>3. Sections' = (Sections \ {old}) \cup {s}
  BY <1>1 DEF s
<1>4. CASE s = old
  BY <1>3, <1>4, StutterStep
<1>5. CASE s # old
  <2>1. s \in Sections' \ Sections /\ old \in Sections \ Sections'
    BY <1>2, <1>3, <1>5
  <2>2. SectionStore!Replace
    BY <1>2, <1>3, <2>1 DEF SectionStore!Replace
  <2> QED BY <2>2 DEF StoreStep, SectionStore!Next
<1> QED BY <1>4, <1>5
-----------------------------------------------------------------------------
\* An injection of a finite set into itself reaches every element.
LEMMA OntoItself ==
    ASSUME NEW n \in Nat, NEW f \in [1 .. n -> 1 .. n],
           \A a, b \in 1 .. n : f[a] = f[b] => a = b,
           NEW c \in 1 .. n
    PROVE  \E a \in 1 .. n : f[a] = c
<1>1. IsFiniteSet(1 .. n)
  BY FS_Interval
<1>2. f \in Injection(1 .. n, 1 .. n)
  BY DEF Injection, IsInjective
<1>3. f \in Surjection(1 .. n, 1 .. n)
  BY <1>1, <1>2, FS_Injection
<1> QED BY <1>3 DEF Surjection

\* Sorting by offset only changes the order of the entries.
LEMMA ByOffsetPermutes ==
    ASSUME NEW h \in Seq(EntryType)
    PROVE  \E o \in [1 .. Len(h) -> 1 .. Len(h)] :
              /\ \A p, q \in 1 .. Len(h) : o[p] = o[q] => p = q
              /\ \A n \in 1 .. Len(h) : \E p \in 1 .. Len(h) : o[p] = n
              /\ ByOffset(h) = [p \in 1 .. Len(h) |-> h[o[p]]]
<1> DEFINE D == 1 .. Len(h)
           before(n, m) == h[n].offset < h[m].offset \/ (h[n].offset = h[m].offset /\ n < m)
           Ahead(n) == {m \in D : before(m, n)}
           place(n) == Cardinality(Ahead(n)) + 1
           o == [p \in D |-> CHOOSE n \in D : place(n) = p]
           rank == [n \in D |-> place(n)]
<1>1. Len(h) \in Nat /\ DOMAIN h = D /\ \A n \in D : h[n].offset \in Nat /\ n \in Nat
  <2>1. Len(h) \in Nat /\ DOMAIN h = D /\ \A n \in D : h[n] \in EntryType /\ n \in Nat
    OBVIOUS
  <2> QED BY <2>1 DEF EntryType
<1>2. IsFiniteSet(D) /\ Cardinality(D) = Len(h)
  <2>1. IsFiniteSet(1 .. Len(h)) /\ Cardinality(1 .. Len(h)) = IF 1 > Len(h) THEN 0 ELSE Len(h) - 1 + 1
    <3> DEFINE N == Len(h)
    <3>1. N \in Int /\ 1 \in Int
      BY <1>1
    <3> HIDE DEF N
    <3>2. IsFiniteSet(1 .. N) /\ Cardinality(1 .. N) = IF 1 > N THEN 0 ELSE N - 1 + 1
      BY <3>1, FS_Interval
    <3> QED BY <3>2 DEF N
  <2> QED BY <1>1, <2>1
<1>3. ASSUME NEW n \in D
      PROVE  IsFiniteSet(Ahead(n)) /\ Cardinality(Ahead(n)) \in Nat /\ place(n) \in D
  <2>1. Ahead(n) \subseteq D /\ n \notin Ahead(n)
    BY <1>1
  <2> HIDE DEF Ahead, D
  <2>2. IsFiniteSet(Ahead(n)) /\ Cardinality(Ahead(n)) <= Cardinality(D) /\ Cardinality(Ahead(n)) # Cardinality(D)
    BY <1>2, <2>1, FS_Subset
  <2>3. Cardinality(Ahead(n)) \in Nat
    BY <2>2, FS_CardinalityType
  <2> QED BY <1>1, <1>2, <2>2, <2>3 DEF D
<1>4. ASSUME NEW n \in D, NEW m \in D, before(n, m)
      PROVE  place(n) < place(m)
  <2>1. Ahead(n) \subseteq Ahead(m) /\ n \in Ahead(m) /\ n \notin Ahead(n)
    BY <1>1, <1>4
  <2> HIDE DEF Ahead, D, before
  <2>2. Cardinality(Ahead(n)) <= Cardinality(Ahead(m)) /\ Cardinality(Ahead(n)) # Cardinality(Ahead(m))
    BY <1>3, <2>1, FS_Subset
  <2> QED BY <1>3, <2>2
<1>5. ASSUME NEW n \in D, NEW m \in D, place(n) = place(m)
      PROVE  n = m
  <2>1. n = m \/ before(n, m) \/ before(m, n)
    BY <1>1
  <2> HIDE DEF before, place, Ahead
  <2>2. place(n) \in Nat /\ place(m) \in Nat
    BY <1>3, SMTT(60)
  <2> QED BY <1>4, <1>5, <2>1, <2>2
<1>6. ASSUME NEW p \in D PROVE \E n \in D : place(n) = p
  <2>1. rank \in [D -> D] /\ \A n, m \in D : rank[n] = rank[m] => n = m
    <3> HIDE DEF place
    <3> QED BY <1>3, <1>5
  <2> HIDE DEF rank
  <2>2. \E n \in D : rank[n] = p
    BY <1>1, <2>1, OntoItself
  <2> QED BY <2>2 DEF rank
<1>7. ASSUME NEW p \in D PROVE o[p] \in D /\ place(o[p]) = p
  <2> HIDE DEF place
  <2> QED BY <1>6
<1>8. o \in [D -> D]
  <2> HIDE DEF place
  <2> QED BY <1>7
<1>9. \A p, q \in D : o[p] = o[q] => p = q
  <2> HIDE DEF place, o
  <2> QED BY <1>7
<1>10. \A n \in D : \E p \in D : o[p] = n
  <2> HIDE DEF o
  <2> QED BY <1>1, <1>8, <1>9, OntoItself
<1>11. ByOffset(h) = [p \in D |-> h[o[p]]]
  <2>1. ByOffset(h) = [p \in DOMAIN h |-> h[CHOOSE n \in DOMAIN h :
            Cardinality({m \in DOMAIN h : before(m, n)}) + 1 = p]]
    BY DEF ByOffset
  <2> QED BY <1>1, <2>1
<1> HIDE DEF o
<1> QED BY <1>8, <1>9, <1>10, <1>11
-----------------------------------------------------------------------------
LEMMA SliceType ==
    ASSUME NEW b \in Seq(Nat), NEW e \in EntryType
    PROVE  Slice(b, e) \in Seq(Nat)
<1> DEFINE m == e.offset + 1
           n == IF e.offset + e.len < Len(b) THEN e.offset + e.len ELSE Len(b)
<1>1. e.offset \in Nat /\ e.len \in Nat /\ Len(b) \in Nat
  BY DEF EntryType
<1>2. m \in Int /\ n \in Int /\ \A i \in m .. n : i \in 1 .. Len(b)
  BY <1>1
<1>3. Slice(b, e) = SubSeq(b, m, n)
  BY DEF Slice
<1> HIDE DEF m, n
<1>4. \A i \in m .. n : b[i] \in Nat
  BY <1>2
<1> QED BY <1>2, <1>3, <1>4, SubSeqProperties

\* An entry that lies in the data file has as many bytes as it says.
LEMMA SliceWhole ==
    ASSUME NEW b \in Seq(Nat), NEW e \in EntryType, e.offset + e.len <= Len(b)
    PROVE  /\ Slice(b, e) = SubSeq(b, e.offset + 1, e.offset + e.len)
           /\ Len(Slice(b, e)) = e.len
<1>1. e.offset \in Nat /\ e.len \in Nat /\ Len(b) \in Nat
  BY DEF EntryType
<1>2. (IF e.offset + e.len < Len(b) THEN e.offset + e.len ELSE Len(b)) = e.offset + e.len
  BY <1>1
<1>3. Slice(b, e) = SubSeq(b, e.offset + 1, e.offset + e.len)
  BY <1>2 DEF Slice
<1> DEFINE m == e.offset + 1
           n == e.offset + e.len
<1>4. m \in Int /\ n \in Int /\ \A i \in m .. n : i \in 1 .. Len(b)
  BY <1>1
<1>5. (IF m <= n THEN n - m + 1 ELSE 0) = e.len
  BY <1>1
<1> HIDE DEF m, n
<1>6. \A i \in m .. n : b[i] \in Nat
  BY <1>4
<1>7. Len(SubSeq(b, m, n)) = IF m <= n THEN n - m + 1 ELSE 0
  BY <1>4, <1>6, SubSeqProperties
<1> QED BY <1>3, <1>5, <1>7 DEF m, n

LEMMA SliceOfLonger ==
    ASSUME NEW b \in Seq(Nat), NEW t \in Seq(Nat), NEW e \in EntryType, e.offset + e.len <= Len(b)
    PROVE  Slice(b \o t, e) = Slice(b, e) /\ e.offset + e.len <= Len(b \o t)
<1>1. e.offset \in Nat /\ e.len \in Nat /\ Len(b) \in Nat /\ Len(t) \in Nat
  BY DEF EntryType
<1>2. b \o t \in Seq(Nat) /\ Len(b \o t) = Len(b) + Len(t)
  OBVIOUS
<1>3. e.offset + e.len <= Len(b \o t) /\ e.offset + e.len \in Nat
  BY <1>1, <1>2
<1>4. SubSeq(b \o t, e.offset + 1, e.offset + e.len) = SubSeq(b, e.offset + 1, e.offset + e.len)
  <2> DEFINE i == e.offset
             n == e.offset + e.len
  <2>1. i \in Nat /\ n \in Nat /\ n <= Len(b)
    BY <1>1
  <2> HIDE DEF i, n
  <2>2. SubSeq(b \o t, i + 1, n) = SubSeq(b, i + 1, n)
    BY <2>1, SubSeqOfLonger
  <2> QED BY <2>2 DEF i, n
<1> QED BY <1>2, <1>3, <1>4, SliceWhole

LEMMA SliceOfNew ==
    ASSUME NEW b \in Seq(Nat), NEW t \in Seq(Nat), NEW e \in EntryType,
           e.offset = Len(b), e.len = Len(t)
    PROVE  Slice(b \o t, e) = t /\ e.offset + e.len <= Len(b \o t)
<1>1. Len(b) \in Nat /\ Len(t) \in Nat
  OBVIOUS
<1>2. /\ b \o t \in Seq(Nat) /\ Len(b \o t) = Len(b) + Len(t)
      /\ \A j \in 1 .. Len(t) : (b \o t)[Len(b) + j] = t[j]
  OBVIOUS
<1>3. SubSeq(b \o t, Len(b) + 1, Len(b) + Len(t)) = t
  BY <1>1, <1>2, SubSeqIs
<1>4. e.offset + e.len <= Len(b \o t)
  BY <1>1, <1>2
<1> QED BY <1>2, <1>3, <1>4, SliceWhole

\* What a merge makes: the index of every section, and, if the old ones lay in
\* the data file, the data of every section at its new place.
Rearranged(m, sections, b, idx, d) ==
    /\ m.bin \in Seq(Nat) /\ m.hdr \in Seq(EntryType)
    /\ Len(m.hdr) = Len(sections)
    /\ \A n \in 1 .. Len(sections) : m.hdr[n].idx = sections[n].idx
    /\ (\A n \in 1 .. Len(sections) : sections[n].offset + sections[n].len <= Len(b)) =>
          \A n \in 1 .. Len(sections) :
             /\ m.hdr[n].offset + m.hdr[n].len <= Len(m.bin)
             /\ Slice(m.bin, m.hdr[n])
                   = IF sections[n].idx = idx THEN d ELSE Slice(b, sections[n])

LEMMA MergedFacts ==
    ASSUME NEW sections \in Seq(EntryType), NEW b \in Seq(Nat), NEW d \in Seq(Nat), NEW idx
    PROVE  Rearranged(Merged(sections, b, idx, d), sections, b, idx, d)
<1> DEFINE D == 1 .. Len(sections)
           part(n) == IF sections[n].idx = idx THEN d ELSE Slice(b, sections[n])
           length(n) == IF sections[n].idx = idx THEN Len(d) ELSE sections[n].len
           parts == [n \in D |-> part(n)]
           Step(f) == [n \in D |-> IF n = 1 THEN 0 ELSE f[n - 1] + length(n - 1)]
           at == CHOOSE f : f = Step(f)
           m == Merged(sections, b, idx, d)
           h == [n \in D |-> Entry(at[n], length(n), sections[n].idx)]
<1>1. Len(sections) \in Nat /\ DOMAIN sections = D /\ \A n \in D : sections[n] \in EntryType
  OBVIOUS
<1>2. m.bin = FlattenSeq(parts) /\ m.hdr = h
  BY <1>1 DEF Merged
<1>3. \A n \in D : length(n) \in Nat /\ sections[n].idx \in Nat
  BY <1>1 DEF EntryType
<1>4. \A n \in D : part(n) \in Seq(Nat)
  BY <1>1, SliceType
<1>5. parts \in Seq(Seq(Nat)) /\ Len(parts) = Len(sections) /\ \A n \in D : parts[n] = part(n)
  <2> HIDE DEF part
  <2> QED BY <1>1, <1>4
<1> HIDE DEF m
<1>6. \E f : f = Step(f)
  <2> DEFINE N == Len(sections)
             G == [n \in Nat |-> [x \in Nat |-> IF n \in D /\ n # 1 THEN x + length(n - 1) ELSE x]]
  <2>1. G \in [Nat -> [Nat -> Nat]]
    <3>1. ASSUME NEW n \in Nat, n \in D, n # 1 PROVE n - 1 \in D
      BY <1>1, <3>1
    <3> HIDE DEF length, D
    <3> QED BY <1>3, <3>1
  <2>2. Recursion(Nat, 0, G, N) # {}
    <3> HIDE DEF G, N
    <3>1. N \in Nat
      BY <1>1 DEF N
    <3> QED BY <2>1, <3>1, RecursionExists
  <2>3. PICK f \in [D -> Nat] : \A n \in D : f[n] = IF n = 1 THEN 0 ELSE G[n][f[n - 1]]
    <3> HIDE DEF G
    <3> QED BY <2>2 DEF Recursion
  <2>4. ASSUME NEW n \in D, n # 1 PROVE G[n][f[n - 1]] = f[n - 1] + length(n - 1)
    <3>1. n - 1 \in D /\ n \in Nat
      BY <1>1, <2>4
    <3> HIDE DEF length, D
    <3> QED BY <2>3, <2>4, <3>1
  <2> HIDE DEF G, length
  <2>5. \A n \in D : f[n] = IF n = 1 THEN 0 ELSE f[n - 1] + length(n - 1)
    BY <2>3, <2>4
  <2>6. f = [n \in D |-> f[n]]
    BY <2>3
  <2> QED BY <2>5, <2>6
<1>7. at = Step(at)
  <2> HIDE DEF Step
  <2> QED BY <1>6
<1> HIDE DEF at
<1>8. \A n \in D : at[n] = IF n = 1 THEN 0 ELSE at[n - 1] + length(n - 1)
  <2> HIDE DEF length
  <2> QED BY <1>7
<1>9. at \in [D -> Nat]
  <2> DEFINE T == {n \in D : at[n] \in Nat}
  <2>1. CASE Len(sections) = 0
    BY <1>7, <2>1
  <2>2. CASE Len(sections) # 0
    <3>1. 1 \in T
      BY <1>1, <1>8, <2>2
    <3>2. ASSUME NEW n \in 1 .. Len(sections) - 1, n \in T PROVE n + 1 \in T
      <4>1. n \in D /\ n + 1 \in D /\ n + 1 # 1 /\ (n + 1) - 1 = n
        BY <1>1
      <4> HIDE DEF length, D
      <4> QED BY <1>3, <1>8, <3>2, <4>1
    <3>3. D \subseteq T
      <4> HIDE DEF T
      <4> QED BY <1>1, <3>1, <3>2, InductionOnEntries
    <3>4. at = [n \in D |-> at[n]]
      BY <1>7
    <3> QED BY <3>3, <3>4
  <2> QED BY <2>1, <2>2
<1>10. h \in Seq(EntryType) /\ Len(h) = Len(sections) /\ \A n \in D : h[n] = Entry(at[n], length(n), sections[n].idx)
  <2>1. \A n \in D : Entry(at[n], length(n), sections[n].idx) \in EntryType
    <3> HIDE DEF length
    <3> QED BY <1>3, <1>9 DEF Entry, EntryType
  <2> HIDE DEF length
  <2> QED BY <1>1, <2>1
<1>11. m.bin \in Seq(Nat)
  BY <1>2, <1>5, FlattenType
<1>12. ASSUME \A n \in D : sections[n].offset + sections[n].len <= Len(b), NEW n \in D
       PROVE  /\ m.hdr[n].offset + m.hdr[n].len <= Len(m.bin)
              /\ Slice(m.bin, m.hdr[n]) = part(n)
  <2>1. \A i \in D : Len(part(i)) = length(i)
    BY <1>1, <1>12, SliceWhole
  <2> HIDE DEF part, length
  <2>2. /\ at \in [1 .. Len(parts) -> Nat] /\ n \in 1 .. Len(parts)
        /\ \A i \in 1 .. Len(parts) : at[i] = IF i = 1 THEN 0 ELSE at[i - 1] + Len(parts[i - 1])
    <3>1. \A i \in D : i # 1 => i - 1 \in D
      BY <1>1
    <3> HIDE DEF D, parts
    <3>2. \A i \in D : at[i] = IF i = 1 THEN 0 ELSE at[i - 1] + Len(parts[i - 1])
      BY <1>5, <1>8, <2>1, <3>1
    <3> QED BY <1>5, <1>9, <3>2 DEF D
  <2>3. /\ at[n] + Len(parts[n]) <= Len(m.bin)
        /\ \A j \in 1 .. Len(parts[n]) : m.bin[at[n] + j] = parts[n][j]
    <3>1. parts \in Seq(Seq(Nat))
      BY <1>5
    <3> HIDE DEF parts
    <3>2. /\ at[n] + Len(parts[n]) <= Len(FlattenSeq(parts))
          /\ \A j \in 1 .. Len(parts[n]) : FlattenSeq(parts)[at[n] + j] = parts[n][j]
      BY <2>2, <3>1, FlattenFacts
    <3> QED BY <1>2, <3>2
  <2>4. m.hdr[n] \in EntryType /\ m.hdr[n].offset = at[n] /\ m.hdr[n].len = length(n)
    <3> HIDE DEF h, D
    <3>1. m.hdr[n] = Entry(at[n], length(n), sections[n].idx)
      BY <1>2, <1>10
    <3>2. h[n] \in EntryType
      BY <1>10 DEF D
    <3> QED BY <1>2, <3>1, <3>2 DEF Entry
  <2>5. parts[n] = part(n) /\ part(n) \in Seq(Nat) /\ Len(part(n)) = length(n)
    BY <1>4, <1>5, <2>1
  <2>6. SubSeq(m.bin, at[n] + 1, at[n] + Len(part(n))) = part(n)
    <3> HIDE DEF parts, h, D
    <3>1. at[n] \in Nat
      BY <1>9
    <3> DEFINE t == part(n)
               i == at[n]
    <3>2. t \in Seq(Nat) /\ i \in Nat /\ i + Len(t) <= Len(m.bin)
          /\ \A j \in 1 .. Len(t) : m.bin[i + j] = t[j]
      BY <2>3, <2>5, <3>1
    <3> HIDE DEF t, i
    <3>3. SubSeq(m.bin, i + 1, i + Len(t)) = t
      BY <1>11, <3>2, SubSeqIs
    <3> QED BY <3>3 DEF t, i
  <2>7. m.hdr[n].offset + m.hdr[n].len <= Len(m.bin)
    BY <2>3, <2>4, <2>5
  <2> QED BY <1>11, <2>4, <2>5, <2>6, <2>7, SliceWhole
<1>13. \A n \in D : m.hdr[n].idx = sections[n].idx
  <2>1. \A i, l, x : Entry(i, l, x).idx = x
    BY DEF Entry
  <2> HIDE DEF length, h, D
  <2> QED BY <1>2, <1>10, <2>1
<1> HIDE DEF h
<1>14. m.hdr \in Seq(EntryType) /\ Len(m.hdr) = Len(sections)
  <2> HIDE DEF h
  <2> QED BY <1>2, <1>10
<1>15. Rearranged(m, sections, b, idx, d)
  BY <1>11, <1>12, <1>13, <1>14 DEF Rearranged
<1> QED BY <1>15 DEF m

LEMMA EntryIsNotTorn ==
    ASSUME NEW e \in EntryType PROVE e # Torn
BY FwCutterAssumption DEF EntryType, Torn, Entry

LEMMA StoreOfWhole ==
    ASSUME NEW h \in Seq(EntryType), NEW b
    PROVE  StoreOf(h, b) = {[idx |-> h[n].idx, data |-> Slice(b, h[n])] : n \in 1 .. Len(h)}
<1>1. DOMAIN h = 1 .. Len(h) /\ \A n \in 1 .. Len(h) : h[n] # Torn
  BY EntryIsNotTorn
<1> QED BY <1>1 DEF StoreOf

LEMMA SortedType ==
    ASSUME NEW h \in Seq(EntryType)
    PROVE  ByOffset(h) \in Seq(EntryType) /\ Len(ByOffset(h)) = Len(h)
<1>1. PICK o \in [1 .. Len(h) -> 1 .. Len(h)] : ByOffset(h) = [p \in 1 .. Len(h) |-> h[o[p]]]
  BY ByOffsetPermutes
<1>2. \A p \in 1 .. Len(h) : h[o[p]] \in EntryType
  OBVIOUS
<1> QED BY <1>1, <1>2

\* A merge replaces the data of one section and keeps all others.
THEOREM MergeReplacesOne ==
    ASSUME NEW h \in Seq(EntryType), NEW b \in Seq(Nat), NEW d \in Seq(Nat), NEW idx,
           Intact(h, b), Cardinality(EntriesOf(h, idx)) = 1
    PROVE  LET m == Merged(ByOffset(h), b, idx, d)
           IN  Intact(m.hdr, m.bin) /\ OneReplaced(StoreOf(h, b), StoreOf(m.hdr, m.bin))
<1> DEFINE D == 1 .. Len(h)
           sections == ByOffset(h)
           m == Merged(sections, b, idx, d)
           section(n) == [idx |-> h[n].idx, data |-> Slice(b, h[n])]
<1>1. PICK o \in [D -> D] :
          /\ \A p, q \in D : o[p] = o[q] => p = q
          /\ \A n \in D : \E p \in D : o[p] = n
          /\ sections = [p \in D |-> h[o[p]]]
  BY ByOffsetPermutes
<1>2. sections \in Seq(EntryType) /\ Len(sections) = Len(h) /\ DOMAIN h = D
  BY SortedType
<1>3. \A n \in D : h[n].offset + h[n].len <= Len(b) /\ \A l \in D : h[n].idx = h[l].idx => n = l
  BY <1>2 DEF Intact
<1> HIDE DEF sections
<1>4. \A p \in D : sections[p] = h[o[p]] /\ sections[p].offset + sections[p].len <= Len(b)
  <2>1. \A p \in D : sections[p] = h[o[p]] /\ o[p] \in D
    BY <1>1
  <2> HIDE DEF D
  <2> QED BY <1>3, <2>1
<1>5. /\ m.bin \in Seq(Nat) /\ m.hdr \in Seq(EntryType) /\ Len(m.hdr) = Len(h)
      /\ \A p \in D : /\ m.hdr[p].idx = sections[p].idx
                      /\ m.hdr[p].offset + m.hdr[p].len <= Len(m.bin)
                      /\ Slice(m.bin, m.hdr[p])
                            = IF sections[p].idx = idx THEN d ELSE Slice(b, sections[p])
  <2>1. Rearranged(m, sections, b, idx, d)
    BY <1>2, MergedFacts
  <2> HIDE DEF m
  <2> QED BY <1>2, <1>4, <2>1 DEF Rearranged
<1> HIDE DEF m
<1>6. DOMAIN m.hdr = D
  BY <1>5
<1>7. \A p, q \in D : m.hdr[p].idx = m.hdr[q].idx => p = q
  <2> SUFFICES ASSUME NEW p \in D, NEW q \in D, m.hdr[p].idx = m.hdr[q].idx PROVE p = q
    OBVIOUS
  <2>1. o[p] \in D /\ o[q] \in D /\ h[o[p]].idx = h[o[q]].idx
    BY <1>4, <1>5
  <2>2. o[p] = o[q]
    BY <1>3, <2>1
  <2> QED BY <1>1, <2>2
<1>8. Intact(m.hdr, m.bin)
  <2>1. \A p \in D : m.hdr[p] # Torn
    BY <1>5, EntryIsNotTorn
  <2> QED BY <1>5, <1>6, <1>7, <2>1 DEF Intact
<1>9. PICK n0 \in D : h[n0].idx = idx
  <2>1. EntriesOf(h, idx) # {}
    <3> SUFFICES ASSUME EntriesOf(h, idx) = {} PROVE FALSE
      OBVIOUS
    <3>1. Cardinality(EntriesOf(h, idx)) = 0
      BY FS_EmptySet
    <3>2. Cardinality(EntriesOf(h, idx)) = 1
      OBVIOUS
    <3> QED BY <3>1, <3>2
  <2> QED BY <1>2, <2>1 DEF EntriesOf
<1> DEFINE old == section(n0)
           s == [idx |-> old.idx, data |-> d]
<1>10. StoreOf(h, b) = {section(n) : n \in D}
  BY StoreOfWhole
<1>11. StoreOf(m.hdr, m.bin) = {IF o[p] = n0 THEN s ELSE section(o[p]) : p \in D}
  <2>1. ASSUME NEW p \in D
        PROVE  [idx |-> m.hdr[p].idx, data |-> Slice(m.bin, m.hdr[p])]
                  = IF o[p] = n0 THEN s ELSE section(o[p])
    <3>1. sections[p].idx = idx <=> o[p] = n0
      <4>1. o[p] \in D /\ n0 \in D /\ sections[p].idx = h[o[p]].idx
        BY <1>4
      <4> HIDE DEF D
      <4> QED BY <1>3, <1>9, <4>1
    <3>2. m.hdr[p].idx = h[o[p]].idx
      BY <1>4, <1>5
    <3>3. Slice(m.bin, m.hdr[p]) = IF o[p] = n0 THEN d ELSE Slice(b, h[o[p]])
      BY <1>4, <1>5, <3>1
    <3> QED BY <3>2, <3>3
  <2>2. StoreOf(m.hdr, m.bin) = {[idx |-> m.hdr[p].idx, data |-> Slice(m.bin, m.hdr[p])] : p \in D}
    BY <1>5, StoreOfWhole
  <2> HIDE DEF s, section
  <2> QED BY <2>1, <2>2
<1>12. \A n \in D : section(n) = old => n = n0
  <2>1. \A n \in D : section(n) = old => h[n].idx = h[n0].idx
    OBVIOUS
  <2> QED BY <1>3, <2>1
<1> HIDE DEF s, section, old
<1>13. StoreOf(m.hdr, m.bin) = (StoreOf(h, b) \ {old}) \cup {s}
  <2>1. ASSUME NEW x \in StoreOf(m.hdr, m.bin) PROVE x \in (StoreOf(h, b) \ {old}) \cup {s}
    <3>1. PICK p \in D : x = IF o[p] = n0 THEN s ELSE section(o[p])
      BY <1>11
    <3> QED BY <1>10, <1>12, <3>1
  <2>2. ASSUME NEW x \in (StoreOf(h, b) \ {old}) \cup {s} PROVE x \in StoreOf(m.hdr, m.bin)
    <3>1. CASE x = s
      <4>1. PICK p \in D : o[p] = n0
        BY <1>1
      <4> QED BY <1>11, <3>1, <4>1
    <3>2. CASE x # s
      <4>1. PICK n \in D : x = section(n)
        BY <1>10, <2>2, <3>2
      <4>2. n # n0
        BY <2>2, <3>2, <4>1 DEF old
      <4>3. PICK p \in D : o[p] = n
        BY <1>1
      <4> QED BY <1>11, <4>1, <4>2, <4>3
    <3> QED BY <3>1, <3>2
  <2> QED BY <2>1, <2>2
<1>14. old \in StoreOf(h, b)
  BY <1>10 DEF old
<1>15. OneReplaced(StoreOf(h, b), StoreOf(m.hdr, m.bin))
  BY <1>13, <1>14 DEF OneReplaced, s
<1> QED BY <1>8, <1>15 DEF m, sections
-----------------------------------------------------------------------------
LEMMA DivMod ==
    ASSUME NEW n \in Nat
    PROVE  n \div 8 \in Nat /\ n = 8 * (n \div 8) + (n % 8)
OBVIOUS

LEMMA SwapWordsType ==
    ASSUME NEW d \in Seq(Nat)
    PROVE  SwapWords(d) \in Seq(Nat) /\ Len(SwapWords(d)) = Len(d)
<1>1. Len(d) \in Nat /\ DOMAIN d = 1 .. Len(d)
  OBVIOUS
<1>2. ASSUME NEW n \in 1 .. Len(d)
      PROVE  LET last == 4 * ((n - 1) \div 4) + 4
             IN  last <= Len(d) => 2 * last - 3 - n \in 1 .. Len(d)
  <2> DEFINE q == (n - 1) \div 4
             last == 4 * q + 4
  <2>1. q \in Nat /\ 4 * q <= n - 1 /\ n - 1 < 4 * q + 4
    BY <1>1
  <2> HIDE DEF q
  <2>2. last <= Len(d) => 2 * last - 3 - n \in 1 .. Len(d)
    BY <1>1, <2>1
  <2> QED BY <2>2 DEF q
<1>3. \A n \in 1 .. Len(d) :
        LET last == 4 * ((n - 1) \div 4) + 4
        IN  (IF last <= Len(d) THEN d[2 * last - 3 - n] ELSE d[n]) \in Nat
  BY <1>2
<1>4. SwapWords(d) \in [1 .. Len(d) -> Nat]
  BY <1>1, <1>3 DEF SwapWords
<1> QED BY <1>1, <1>4, FunctionIsSequence

LEMMA SwapIvsType ==
    ASSUME NEW d \in Seq(Nat), Len(d) % 8 = 0
    PROVE  SwapIvs(d) \in Seq(Nat) /\ Len(SwapIvs(d)) = Len(d)
<1> DEFINE order == <<2, 1, 4, 3, 8, 7, 6, 5>>
<1>1. Len(d) \in Nat /\ DOMAIN d = 1 .. Len(d)
  OBVIOUS
<1>2. \A i \in 1 .. 8 : order[i] \in 1 .. 8
  OBVIOUS
<1> HIDE DEF order
<1>3. ASSUME NEW n \in 1 .. Len(d)
      PROVE  LET base == 8 * ((n - 1) \div 8) IN base + order[n - base] \in 1 .. Len(d)
  <2> DEFINE q == (n - 1) \div 8
             r == Len(d) \div 8
             base == 8 * q
  <2>1. q \in Nat /\ 8 * q <= n - 1 /\ n - 1 < 8 * q + 8
    BY <1>1
  <2>2. r \in Nat /\ Len(d) = 8 * r
    <3> DEFINE n0 == Len(d)
    <3>1. n0 \in Nat /\ n0 % 8 = 0
      BY <1>1
    <3> HIDE DEF n0
    <3>2. n0 \div 8 \in Nat /\ n0 = 8 * (n0 \div 8)
      BY <3>1, DivMod
    <3> QED BY <3>2 DEF n0
  <2> HIDE DEF q, r
  <2>3. n - base \in 1 .. 8 /\ base + 8 <= Len(d) /\ base \in Nat
    BY <1>1, <2>1, <2>2
  <2>4. order[n - base] \in 1 .. 8
    BY <1>2, <2>3
  <2>5. base + order[n - base] \in 1 .. Len(d)
    <3> DEFINE o == order[n - base]
    <3>1. o \in 1 .. 8
      BY <2>4
    <3> HIDE DEF o, base
    <3>2. base + o \in 1 .. Len(d)
      BY <1>1, <2>3, <3>1
    <3> QED BY <3>2 DEF o
  <2> QED BY <2>5 DEF q
<1>4. \A n \in 1 .. Len(d) :
        LET base == 8 * ((n - 1) \div 8) IN d[base + order[n - base]] \in Nat
  <2>1. \A i \in 1 .. Len(d) : d[i] \in Nat
    OBVIOUS
  <2> QED BY ONLY <1>3, <2>1
<1>5. SwapIvs(d) \in [1 .. Len(d) -> Nat]
  BY <1>1, <1>4 DEF SwapIvs, order
<1> QED BY <1>1, <1>5, FunctionIsSequence

\* Whatever the byte order of the driver, as many bytes are written as the object
\* has.
LEMMA LittleEndianType ==
    ASSUME NEW object \in ObjectType, object.type = "iv" => Len(object.data) % 8 = 0
    PROVE  LittleEndian(object) \in Seq(Nat)
<1>1. object.data \in Seq(Nat)
  BY DEF ObjectType
<1>2. Swap(object.type, object.data) \in Seq(Nat)
  BY <1>1, SwapWordsType, SwapIvsType DEF Swap
<1>3. BigEndian(object) \in Seq(Nat)
  BY <1>1, <1>2 DEF BigEndian
<1> QED BY <1>1, <1>2, <1>3, SwapWordsType DEF LittleEndian
-----------------------------------------------------------------------------
LEMMA AppendFront ==
    ASSUME NEW S, NEW h \in Seq(S), NEW e \in S
    PROVE  /\ Append(h, e) \in Seq(S) /\ Append(h, e) # <<>>
           /\ Front(Append(h, e)) = h
<1> DEFINE a == Append(h, e)
<1>1. a \in Seq(S) /\ Len(a) = Len(h) + 1 /\ Len(h) \in Nat /\ \A j \in 1 .. Len(h) : a[j] = h[j]
  OBVIOUS
<1>2. SubSeq(a, 0 + 1, 0 + Len(h)) = h
  <2> HIDE DEF a
  <2> QED BY <1>1, SubSeqIs
<1>3. Len(a) - 1 = Len(h) /\ 0 + 1 = 1 /\ 0 + Len(h) = Len(h)
  BY <1>1
<1> QED BY <1>1, <1>2, <1>3 DEF Front

LEMMA PieceType ==
    ASSUME NEW S, NEW d \in Seq(S), NEW n \in Nat, n <= Len(d)
    PROVE  SubSeq(d, 1, n) \in Seq(S)
<1>1. \A i \in 1 .. n : d[i] \in S
  OBVIOUS
<1>2. 1 \in Int /\ n \in Int
  OBVIOUS
<1> QED BY <1>1, <1>2, SubSeqProperties

LEMMA PiecesType ==
    ASSUME NEW d \in Seq(Nat), NEW p \in Pieces(d)
    PROVE  p \in Seq(Nat)
<1>1. PICK n \in Nat : n <= Len(d) /\ p = SubSeq(d, 1, n)
  BY DEF Pieces
<1> QED BY <1>1, PieceType

LEMMA IntactType ==
    ASSUME NEW h \in Seq(EntryType \cup {Torn}), \A n \in DOMAIN h : h[n] # Torn
    PROVE  h \in Seq(EntryType)
<1>1. Len(h) \in Nat /\ h = [n \in 1 .. Len(h) |-> h[n]] /\ \A n \in 1 .. Len(h) : h[n] \in EntryType
  OBVIOUS
<1> QED BY <1>1

LEMMA DriverFacts ==
    ASSUME driver \in Drivers
    PROVE  /\ driver.extract \in Seq(ObjectType)
           /\ \A n \in DOMAIN driver.extract :
                 LET o == driver.extract[n]
                 IN  /\ o.type = "iv" => Len(o.data) % 8 = 0
                     /\ o.name # "n0absinitvals16"
                     /\ \A m \in DOMAIN driver.extract : driver.extract[m].name = o.name => m = n
BY FwCutterAssumption

\* brcmsmac_name_to_idx gives two objects neither one index nor the size index
\* of the other, and 7, 14 and 15, which the dummy entries have, to none that is
\* in a list.
LEMMA IndicesDiffer ==
    ASSUME NEW o, NEW p, o.name # "n0absinitvals16"
    PROVE  /\ IndicesOf(o) \subseteq Nat
           /\ 7 \notin IndicesOf(o) /\ 14 \notin IndicesOf(o) /\ 15 \notin IndicesOf(o)
           /\ p.name # o.name => IndicesOf(o) \cap IndicesOf(p) = {}
BY DEF IndicesOf, BrcmIndex, SizeIndex

LEMMA SizeIndexFacts ==
    /\ \A name \in DOMAIN BrcmIndex : BrcmIndex[name] \in Nat
    /\ \A name \in DOMAIN SizeIndex :
          SizeIndex[name] \in Nat /\ (name \in DOMAIN BrcmIndex => SizeIndex[name] # BrcmIndex[name])
BY DEF BrcmIndex, SizeIndex

LEMMA WrittenGrows ==
    ASSUME driver \in Drivers, NEW i \in Nat, NEW j \in Nat, i <= j
    PROVE  Written(i) \subseteq Written(j)
<1>1. Len(driver.extract) \in Nat /\ DOMAIN driver.extract = 1 .. Len(driver.extract)
  BY DriverFacts
<1>2. {m \in DOMAIN driver.extract : m < i} \subseteq {m \in DOMAIN driver.extract : m < j}
  BY <1>1
<1>3. i > Len(driver.extract) + 1 => j > Len(driver.extract) + 1
  BY <1>1
<1> QED BY <1>2, <1>3 DEF Written

\* The indices of the object that the loop is at are not used yet.
LEMMA NextIndicesAreNew ==
    ASSUME driver \in Drivers, NEW i \in DOMAIN driver.extract
    PROVE  /\ IndicesOf(driver.extract[i]) \subseteq Written(i + 1)
           /\ IndicesOf(driver.extract[i]) \cap Written(i) = {}
<1>1. /\ Len(driver.extract) \in Nat /\ DOMAIN driver.extract = 1 .. Len(driver.extract)
      /\ i \in Nat /\ i <= Len(driver.extract)
  BY DriverFacts
<1>2. IndicesOf(driver.extract[i]) \subseteq Written(i + 1)
  <2>1. i \in {m \in DOMAIN driver.extract : m < i + 1}
    BY <1>1
  <2> QED BY <2>1 DEF Written
<1>3. ASSUME NEW m \in DOMAIN driver.extract, m < i
      PROVE  IndicesOf(driver.extract[i]) \cap IndicesOf(driver.extract[m]) = {}
  <2> DEFINE o == driver.extract[i]
  <2>1. /\ o.name # "n0absinitvals16"
        /\ \A l \in DOMAIN driver.extract : driver.extract[l].name = o.name => l = i
    BY DriverFacts
  <2>2. m # i
    BY <1>1, <1>3
  <2>3. driver.extract[m].name # o.name
    BY <2>1, <2>2
  <2> QED BY <2>1, <2>3, IndicesDiffer
<1>4. ~(i > Len(driver.extract) + 1)
  BY <1>1
<1>5. IndicesOf(driver.extract[i]) \cap Written(i) = {}
  BY <1>3, <1>4 DEF Written
<1> QED BY <1>2, <1>5

LEMMA DummiesAreNew ==
    ASSUME driver \in Drivers
    PROVE  LET n == Len(driver.extract) + 1
           IN  {7, 14, 15} \subseteq Written(n + 1) /\ {7, 14, 15} \cap Written(n) = {}
<1> DEFINE n == Len(driver.extract) + 1
<1>1. Len(driver.extract) \in Nat
  BY DriverFacts
<1>2. {7, 14, 15} \subseteq Written(n + 1)
  <2> DEFINE j == n + 1
  <2>1. j > Len(driver.extract) + 1
    BY <1>1
  <2> HIDE DEF j
  <2>2. {7, 14, 15} \subseteq Written(j)
    BY <2>1 DEF Written
  <2> QED BY <2>2 DEF j
<1>3. \A m \in DOMAIN driver.extract : {7, 14, 15} \cap IndicesOf(driver.extract[m]) = {}
  BY DriverFacts, IndicesDiffer
<1>4. ~(n > Len(driver.extract) + 1)
  BY <1>1
<1>5. {7, 14, 15} \cap Written(n) = {}
  BY <1>3, <1>4 DEF Written
<1> QED BY <1>2, <1>5
-----------------------------------------------------------------------------
LEMMA NextEntryType ==
    ASSUME bin \in Seq(Nat), pending \in Seq(WriteType), pending # <<>>
    PROVE  /\ NextEntry \in EntryType /\ Head(pending) \in WriteType
           /\ NextEntry.offset = Len(bin) /\ NextEntry.len = Len(Head(pending).data)
           /\ NextEntry.idx = Head(pending).idx
<1>1. Head(pending) \in WriteType
  OBVIOUS
<1>2. Head(pending).data \in Seq(Nat) /\ Head(pending).idx \in Nat
  BY <1>1 DEF WriteType
<1>3. Len(bin) \in Nat /\ Len(Head(pending).data) \in Nat
  BY <1>2
<1> QED BY <1>1, <1>2, <1>3 DEF NextEntry, Entry, EntryType

LEMMA TwoTogether ==
    ASSUME NEW S, NEW x \in S, NEW y \in S
    PROVE  <<x>> \o <<y>> = <<x, y>>
<1>1. <<x>> \o <<y>> = Append(<<x>>, y)
  OBVIOUS
<1>2. <<x, y>> = Append(<<x>>, y)
  OBVIOUS
<1> QED BY <1>1, <1>2

LEMMA WritesOfFacts ==
    ASSUME driver \in Drivers, NEW i \in DOMAIN driver.extract,
           driver.extract[i].name \in DOMAIN BrcmIndex
    PROVE  LET w == WritesOf(driver.extract[i])
           IN  /\ w \in Seq(WriteType) /\ w # <<>>
               /\ \A m \in DOMAIN w :
                     /\ w[m].idx \in IndicesOf(driver.extract[i])
                     /\ \A n \in DOMAIN w : w[n].idx = w[m].idx => n = m
<1> DEFINE o == driver.extract[i]
           a == Write(BrcmIndex[o.name], LittleEndian(o))
           b == Write(SizeIndex[o.name], SizeOf(o))
<1>1. o \in ObjectType /\ (o.type = "iv" => Len(o.data) % 8 = 0)
  <2>1. driver.extract \in Seq(ObjectType)
    BY DriverFacts
  <2>2. o \in ObjectType
    BY <2>1
  <2>3. o.type = "iv" => Len(o.data) % 8 = 0
    BY DriverFacts
  <2> QED BY <2>2, <2>3
<1>2. a \in WriteType /\ a.idx = BrcmIndex[o.name] /\ a.idx \in IndicesOf(o)
  BY <1>1, LittleEndianType, SizeIndexFacts DEF Write, WriteType, IndicesOf
<1>3. ASSUME o.name \in DOMAIN SizeIndex
      PROVE  b \in WriteType /\ b.idx = SizeIndex[o.name] /\ b.idx \in IndicesOf(o) /\ b.idx # a.idx
  <2>1. SizeOf(o) \in Seq(Nat)
    <3> DEFINE n == Len(o.data)
    <3>1. n \in Nat
      BY <1>1 DEF ObjectType
    <3> HIDE DEF n
    <3>2. n % 256 \in Nat /\ (n \div 256) % 256 \in Nat /\ (n \div 65536) % 256 \in Nat /\ n \div 16777216 \in Nat
      BY <3>1
    <3>3. Le32(n) \in Seq(Nat)
      BY <3>2 DEF Le32
    <3> QED BY <3>3 DEF n, SizeOf
  <2> QED BY <1>2, <1>3, <2>1, SizeIndexFacts DEF Write, WriteType, IndicesOf
<1>4. WritesOf(o) = IF o.name \in DOMAIN SizeIndex THEN <<a>> \o <<b>> ELSE <<a>> \o <<>>
  BY DEF WritesOf
<1> HIDE DEF a, b
<1>5. CASE o.name \in DOMAIN SizeIndex
  <2>1. WritesOf(o) = <<a, b>>
    <3>1. a \in WriteType /\ b \in WriteType
      BY <1>2, <1>3, <1>5
    <3>2. <<a>> \o <<b>> = <<a, b>>
      BY ONLY <3>1, TwoTogether
    <3> QED BY <1>4, <1>5, <3>2
  <2>2. <<a, b>> \in Seq(WriteType) /\ <<a, b>> # <<>>
    BY <1>2, <1>3, <1>5
  <2>3. \A m \in DOMAIN <<a, b>> :
           /\ <<a, b>>[m].idx \in IndicesOf(o)
           /\ \A n \in DOMAIN <<a, b>> : <<a, b>>[n].idx = <<a, b>>[m].idx => n = m
    BY <1>2, <1>3, <1>5
  <2> QED BY <2>1, <2>2, <2>3
<1>6. CASE o.name \notin DOMAIN SizeIndex
  <2>1. WritesOf(o) = <<a>>
    BY <1>4, <1>6
  <2>2. <<a>> \in Seq(WriteType) /\ <<a>> # <<>>
    BY <1>2
  <2>3. \A m \in DOMAIN <<a>> :
           /\ <<a>>[m].idx \in IndicesOf(o)
           /\ \A n \in DOMAIN <<a>> : <<a>>[n].idx = <<a>>[m].idx => n = m
    BY <1>2
  <2> QED BY <2>1, <2>2, <2>3
<1> QED BY <1>5, <1>6

LEMMA DummiesFacts ==
    /\ Dummies \in Seq(WriteType) /\ Dummies # <<>>
    /\ \A m \in DOMAIN Dummies :
          /\ Dummies[m].idx \in {7, 14, 15}
          /\ \A n \in DOMAIN Dummies : Dummies[n].idx = Dummies[m].idx => n = m
<1> DEFINE order == <<7, 14, 15>>
<1>1. \A n \in 1 .. 3 : order[n] \in {7, 14, 15} /\ \A m \in 1 .. 3 : order[n] = order[m] => n = m
  OBVIOUS
<1>2. <<0, 0, 0, 0>> \in Seq(Nat)
  OBVIOUS
<1> HIDE DEF order
<1>3. Dummies = [n \in 1 .. 3 |-> Write(order[n], <<0, 0, 0, 0>>)]
  BY DEF Dummies, order
<1>4. \A n \in 1 .. 3 : Write(order[n], <<0, 0, 0, 0>>) \in WriteType
                        /\ Write(order[n], <<0, 0, 0, 0>>).idx = order[n]
  BY <1>1, <1>2 DEF Write, WriteType
<1>5. Dummies \in [1 .. 3 -> WriteType]
  BY <1>3, <1>4
<1>6. Dummies \in Seq(WriteType) /\ Len(Dummies) = 3
  BY <1>5, FunctionIsSequence
<1>7. DOMAIN Dummies = 1 .. 3 /\ Dummies # <<>>
  BY <1>5, <1>6
<1>8. \A n \in 1 .. 3 : Dummies[n].idx = order[n]
  BY <1>3, <1>4
<1> QED BY <1>1, <1>6, <1>7, <1>8
-----------------------------------------------------------------------------
LEMMA TypesOfCutter ==
    ASSUME ConvTypeOK, FwCutterNext, UNCHANGED convVars
    PROVE  ConvTypeOK'
<1> USE DEF convVars, user, store, End, InFwCutter
<1>0. /\ k + 1 \in Nat \ {0} /\ 1 \in Nat \ {0}
      /\ <<>> \in Seq(Nat) /\ <<>> \in Seq(EntryType \cup {Torn})
      /\ driver \in Drivers /\ bin \in Seq(Nat) /\ hdr \in Seq(EntryType \cup {Torn})
      /\ pc \in {"header", "data"} => pending \in Seq(WriteType) /\ pending # <<>>
  <2>1. <<>> \in Seq(Nat) /\ <<>> \in Seq(EntryType \cup {Torn})
    OBVIOUS
  <2>2. k \in Nat \ {0} => k + 1 \in Nat \ {0} /\ 1 \in Nat \ {0}
    OBVIOUS
  <2> QED BY <2>1, <2>2 DEF ConvTypeOK
<1>1. CASE RunFwCutter
  BY <1>1, <1>0 DEF RunFwCutter, Run, ConvTypeOK
<1>2. CASE NotFound
  BY <1>2, <1>0 DEF NotFound, ConvTypeOK
<1>3. CASE Found
  BY <1>3, <1>0 DEF Found, ConvTypeOK
<1>4. CASE ReadFails
  BY <1>4, <1>0 DEF ReadFails, ConvTypeOK
<1>5. CASE Killed
  BY <1>5, <1>0 DEF Killed, ConvTypeOK
<1>6. CASE ConversionError
  BY <1>6, <1>0 DEF ConversionError, ConvTypeOK
<1>7. CASE Identify
  BY <1>7, <1>0 DEF Identify, ConvTypeOK
<1>8. CASE OpenFile
  BY <1>8, <1>0 DEF OpenFile, AtObject, ConvTypeOK
<1>9. CASE OpenFails
  BY <1>9, <1>0 DEF OpenFails, ConvTypeOK
<1>10. CASE WriteFile
  BY <1>10, <1>0 DEF WriteFile, ConvTypeOK
<1>11. CASE WriteFileFails
  BY <1>11, <1>0 DEF WriteFileFails, ConvTypeOK
<1>12. CASE LastObject
  BY <1>12, <1>0 DEF LastObject, ConvTypeOK
<1>13. CASE ClearFails
  BY <1>13, <1>0 DEF ClearFails, ConvTypeOK
<1>14. CASE SkipObject
  BY <1>14, <1>0 DEF SkipObject, ConvTypeOK
<1>15. CASE LastDummy
  BY <1>15, <1>0 DEF LastDummy, ConvTypeOK
<1>16. CASE ClearBin
  BY <1>16, <1>0 DEF ClearBin, ConvTypeOK
<1>17. CASE ClearHeader
  BY <1>17, <1>0 DEF ClearHeader, ConvTypeOK
<1>18. CASE ConvertObject
  <2>1. k \in DOMAIN driver.extract /\ Object.name \in DOMAIN BrcmIndex
    <3>1. DOMAIN driver.extract = 1 .. Len(driver.extract) /\ Len(driver.extract) \in Nat
      BY <1>0, DriverFacts
    <3>2. k \in Nat \ {0} /\ k <= Len(driver.extract) /\ Object.name \in DOMAIN BrcmIndex
      BY <1>18 DEF ConvertObject, AtObject, ConvTypeOK
    <3> QED BY <3>1, <3>2
  <2>2. WritesOf(Object) \in Seq(WriteType) /\ WritesOf(Object) # <<>>
    BY <2>1, <1>0, WritesOfFacts DEF Object
  <2> QED BY <1>18, <2>2, <1>0 DEF ConvertObject, ConvTypeOK
<1>19. CASE AddDummies
  BY <1>19, DummiesFacts, <1>0 DEF AddDummies, ConvTypeOK
<1>20. CASE AppendEntry
  <2>1. NextEntry \in EntryType
    BY <1>20, <1>0, NextEntryType DEF AppendEntry
  <2>2. Append(hdr, NextEntry) \in Seq(EntryType \cup {Torn})
    BY <1>0, <2>1
  <2> QED BY <1>20, <2>2, <1>0 DEF AppendEntry, ConvTypeOK
<1>21. CASE AppendEntryFails
  <2>1. Append(hdr, Torn) \in Seq(EntryType \cup {Torn})
    BY <1>0
  <2> QED BY <1>21, <2>1, <1>0 DEF AppendEntryFails, ConvTypeOK
<1>22. ASSUME pc = "data"
      PROVE  /\ Head(pending).data \in Seq(Nat) /\ Tail(pending) \in Seq(WriteType)
             /\ AfterWrite \in {"object", "header"}
             /\ AfterWrite = "header" => Tail(pending) # <<>>
  <2>1. pending \in Seq(WriteType) /\ pending # <<>>
    BY <1>0, <1>22
  <2>2. Head(pending) \in WriteType
    BY <2>1
  <2>3. Tail(pending) \in Seq(WriteType) /\ Len(Tail(pending)) = Len(pending) - 1
    BY <2>1
  <2>4. Len(pending) # 1 => Tail(pending) # <<>>
    <3>1. Len(pending) \in Nat /\ Len(pending) # 0 /\ Len(<<>>) = 0
      BY <2>1
    <3>2. Len(pending) # 1 => Len(Tail(pending)) # 0
      BY <2>3, <3>1
    <3>3. Tail(pending) = <<>> => Len(Tail(pending)) = 0
      BY <3>1, Zenon
    <3> QED BY <3>2, <3>3
  <2> QED BY <2>2, <2>3, <2>4 DEF WriteType, AfterWrite
<1>23. CASE AppendData
  <2>1. bin \o Head(pending).data \in Seq(Nat)
    BY <1>0, <1>22, <1>23 DEF AppendData
  <2> QED BY <1>0, <1>22, <1>23, <2>1 DEF AppendData, ConvTypeOK
<1>24. CASE AppendDataFails
  <2>1. bin' \in Seq(Nat)
    <3>1. pc = "data"
      BY <1>24, <1>0 DEF AppendDataFails, ConvTypeOK
    <3>2. Head(pending).data \in Seq(Nat)
      BY <1>22, <3>1
    <3> DEFINE d == Head(pending).data
    <3>3. PICK piece \in Pieces(d) : bin' = bin \o piece
      BY <1>24, <1>0 DEF AppendDataFails, ConvTypeOK
    <3> HIDE DEF d
    <3>4. piece \in Seq(Nat)
      BY <3>2, PiecesType DEF d
    <3> QED BY <1>0, <3>3, <3>4
  <2>2. /\ pc = "data" /\ damaged' = TRUE
        /\ pc' = "idle" \/ (pc' = AfterWrite /\ pending' = Tail(pending))
        /\ UNCHANGED <<driver, cmd, k, hdr, out, new>>
    BY <1>24, <1>0 DEF AppendDataFails, ConvTypeOK
  <2> QED BY <1>22, <2>1, <2>2, <1>0 DEF ConvTypeOK
<1> QED BY <1>1, <1>2, <1>3, <1>4, <1>5, <1>6, <1>7, <1>8, <1>9, <1>10, <1>11, <1>12, <1>13, <1>14, <1>15, <1>16, <1>17, <1>18, <1>19, <1>20, <1>21, <1>23, <1>24 DEF FwCutterNext

\* The section that is extracted is a part of the data file, and what is merged
\* is a file of the user's or such a part.
LEMMA SectionType ==
    ASSUME bin \in Seq(Nat), hdr \in Seq(EntryType \cup {Torn}), \A n \in DOMAIN hdr : hdr[n] # Torn,
           NEW idx, EntriesOf(hdr, idx) # {}
    PROVE  Section(hdr, bin, idx) \in Seq(Nat)
<1> DEFINE n == Min(EntriesOf(hdr, idx))
<1>1. EntriesOf(hdr, idx) \subseteq DOMAIN hdr /\ DOMAIN hdr \subseteq Nat
  BY DEF EntriesOf
<1>2. n \in DOMAIN hdr
  BY <1>1, MinFacts
<1>3. hdr \in Seq(EntryType)
  BY IntactType
<1>4. hdr[n] \in EntryType
  BY <1>2, <1>3
<1> QED BY <1>4, SliceType DEF Section

LEMMA MergedType ==
    ASSUME ConvTypeOK, MergeSection
    PROVE  \E d \in Seq(Nat) :
              /\ new' = Merged(ByOffset(hdr), bin, cmd.index, d)
              /\ new'.bin \in Seq(Nat) /\ new'.hdr \in Seq(EntryType)
<1>1. bin \in Seq(Nat) /\ hdr \in Seq(EntryType)
  BY IntactType DEF ConvTypeOK, MergeSection
<1>2. PICK d \in UserFiles \cup ({out} \ {None}) : new' = Merged(ByOffset(hdr), bin, cmd.index, d)
  BY DEF MergeSection
<1>3. d \in Seq(Nat)
  BY <1>2, FwConvAssumption DEF ConvTypeOK
<1>4. ByOffset(hdr) \in Seq(EntryType)
  BY <1>1, SortedType
<1>5. Rearranged(new', ByOffset(hdr), bin, cmd.index, d)
  BY <1>1, <1>2, <1>3, <1>4, MergedFacts
<1> QED BY <1>2, <1>3, <1>5 DEF Rearranged

LEMMA TypesOfConv ==
    ASSUME ConvTypeOK, Next, ~(FwCutterNext /\ UNCHANGED convVars)
    PROVE  ConvTypeOK'
<1> USE DEF convVars, user, store, others, End, InFwCutter
<1>1. CASE RunFwConv
  BY <1>1 DEF RunFwConv, Run, ConvTypeOK
<1>2. CASE ParseFails
  BY <1>2 DEF ParseFails, ConvTypeOK
<1>3. CASE Parse
  <2>1. \A n \in DOMAIN hdr : hdr[n] # Torn
    BY <1>3 DEF Parse, Range
  <2> QED BY <1>3, <2>1 DEF Parse, ConvTypeOK
<1>4. CASE DumpInfo
  BY <1>4 DEF DumpInfo, ConvTypeOK
<1>5. CASE NoSection
  BY <1>5 DEF NoSection, ConvTypeOK
<1>6. CASE CannotOpen
  BY <1>6 DEF CannotOpen, ConvTypeOK
<1>7. CASE ExtractSection
  <2>1. out' \in Seq(Nat)
    <3>1. EntriesOf(hdr, cmd.index) # {} /\ out' = Section(hdr, bin, cmd.index)
      BY <1>7 DEF ExtractSection
    <3>2. bin \in Seq(Nat) /\ hdr \in Seq(EntryType \cup {Torn}) /\ \A n \in DOMAIN hdr : hdr[n] # Torn
      BY <1>7 DEF ExtractSection, ConvTypeOK
    <3> QED BY <3>1, <3>2, SectionType
  <2> QED BY <1>7, <2>1 DEF ExtractSection, ConvTypeOK
<1>8. CASE ExtractFails
  <2>1. out' \in Seq(Nat)
    <3>1. EntriesOf(hdr, cmd.index) # {} /\ out' \in Pieces(Section(hdr, bin, cmd.index))
      BY <1>8 DEF ExtractFails
    <3>2. bin \in Seq(Nat) /\ hdr \in Seq(EntryType \cup {Torn}) /\ \A n \in DOMAIN hdr : hdr[n] # Torn
      BY <1>8 DEF ExtractFails, ConvTypeOK
    <3> QED BY <3>1, <3>2, SectionType, PiecesType
  <2> QED BY <1>8, <2>1 DEF ExtractFails, ConvTypeOK
<1>9. CASE Confused
  BY <1>9 DEF Confused, ConvTypeOK
<1>10. CASE MergeSection
  <2>1. new'.bin \in Seq(Nat) /\ new'.hdr \in Seq(EntryType)
    BY <1>10, MergedType
  <2> QED BY <1>10, <2>1 DEF MergeSection, ConvTypeOK
<1>11. CASE WriteBin
  BY <1>11 DEF WriteBin, ConvTypeOK
<1>12. CASE WriteBinFails
  <2>1. bin' \in Seq(Nat)
    BY <1>12, PiecesType DEF WriteBinFails, ConvTypeOK
  <2> QED BY <1>12, <2>1 DEF WriteBinFails, ConvTypeOK
<1>13. CASE WriteHdr
  <2>1. hdr' \in Seq(EntryType \cup {Torn})
    <3>1. hdr' \in Seq(EntryType)
      BY <1>13 DEF WriteHdr, ConvTypeOK
    <3> QED BY <3>1
  <2> QED BY <1>13, <2>1 DEF WriteHdr, ConvTypeOK
<1>14. CASE WriteHdrFails
  <2>1. hdr' \in Seq(EntryType \cup {Torn})
    <3>1. new.hdr \in Seq(EntryType)
      BY <1>14 DEF WriteHdrFails, ConvTypeOK
    <3>2. PICK n \in 0 .. Len(new.hdr) - 1, piece \in {<<>>, <<Torn>>} :
              hdr' = SubSeq(new.hdr, 1, n) \o piece
      BY <1>14 DEF WriteHdrFails
    <3>3. n \in Nat /\ n <= Len(new.hdr)
      BY <3>1
    <3>4. SubSeq(new.hdr, 1, n) \in Seq(EntryType)
      BY <3>1, <3>3, PieceType
    <3>5. <<>> \in Seq(EntryType \cup {Torn}) /\ <<Torn>> \in Seq(EntryType \cup {Torn})
      OBVIOUS
    <3>6. SubSeq(new.hdr, 1, n) \in Seq(EntryType \cup {Torn})
      BY <3>4
        <3>7. piece = <<>> \/ piece = <<Torn>>
      OBVIOUS
    <3>8. piece \in Seq(EntryType \cup {Torn})
      BY <3>5, <3>7, Zenon
    <3> QED BY <3>2, <3>6, <3>8
  <2> QED BY <1>14, <2>1 DEF WriteHdrFails, ConvTypeOK
<1>15. CASE KilledInMerge
  BY <1>15 DEF KilledInMerge, ConvTypeOK
<1> QED BY <1>1, <1>2, <1>3, <1>4, <1>5, <1>6, <1>7, <1>8, <1>9, <1>10, <1>11, <1>12, <1>13,
           <1>14, <1>15 DEF Next

LEMMA TypesKept ==
    ASSUME ConvTypeOK, [Next]_vars
    PROVE  ConvTypeOK'
<1>1. CASE UNCHANGED vars
  BY <1>1 DEF ConvTypeOK, vars, cutterVars, convVars, InFwCutter
<1>2. CASE FwCutterNext /\ UNCHANGED convVars
  BY <1>2, TypesOfCutter
<1>3. CASE Next /\ ~(FwCutterNext /\ UNCHANGED convVars)
  BY <1>3, TypesOfConv
<1> QED BY <1>1, <1>2, <1>3
-----------------------------------------------------------------------------
\* What an action has to show about the files besides its types.
Kept == (StoreIsSound /\ IndicesAreFresh)' /\ StoreStep

\* After an accident nothing is said.
LEMMA DamagedStep ==
    ASSUME damaged' = TRUE
    PROVE  Kept
BY DamageStep DEF Kept, StoreIsSound, IndicesAreFresh

LEMMA SectionsFacts ==
    /\ pc = "clear header" => Sections = StoreOf(<<>>, bin)
    /\ pc = "data"         => Sections = StoreOf(Front(hdr), bin)
    /\ pc = "write hdr"    => Sections = StoreOf(new.hdr, new.bin)
    /\ pc \notin {"clear header", "data", "write hdr"} => Sections = StoreOf(hdr, bin)
BY DEF Sections

LEMMA NextSectionsFacts ==
    /\ pc' = "clear header" => Sections' = StoreOf(<<>>, bin')
    /\ pc' = "data"         => Sections' = StoreOf(Front(hdr'), bin')
    /\ pc' = "write hdr"    => Sections' = StoreOf(new'.hdr, new'.bin)
    /\ pc' \notin {"clear header", "data", "write hdr"} => Sections' = StoreOf(hdr', bin')
BY DEF Sections, StoreOf, Slice

LEMMA NothingStored ==
    ASSUME NEW b
    PROVE  StoreOf(<<>>, b) = {}
BY DEF StoreOf

\* The actions that write to neither file.
LEMMA QuietStep ==
    ASSUME ConvInv, UNCHANGED <<driver, bin, hdr, damaged>>,
           pc \notin {"clear header", "data", "write hdr"},
           pc' \notin {"clear header", "header", "data", "write bin", "write hdr"},
           (pc' = "object" /\ InFwCutter("brcmsmac")') =>
              pc = "object" /\ InFwCutter("brcmsmac") /\ k' \in Nat /\ k <= k'
    PROVE  Kept
<1>1. StoreStep
  <2>1. Sections' = Sections
    BY SectionsFacts, NextSectionsFacts
  <2> QED BY <2>1, StutterStep
<1>2. StoreIsSound'
  BY DEF ConvInv, StoreIsSound, Intact
<1>3. IndicesAreFresh'
  <2> SUFFICES ASSUME ~damaged, pc' = "object", InFwCutter("brcmsmac")'
               PROVE  \A n \in DOMAIN hdr : hdr[n].idx \in Written(k)'
    BY DEF IndicesAreFresh, Done
  <2>1. pc = "object" /\ InFwCutter("brcmsmac") /\ k' \in Nat /\ k <= k'
    OBVIOUS
  <2>2. \A n \in DOMAIN hdr : hdr[n].idx \in Written(k)
    BY <2>1 DEF ConvInv, IndicesAreFresh, Done
  <2>3. Written(k) \subseteq Written(k')
    BY <2>1, WrittenGrows DEF ConvInv, ConvTypeOK
  <2>4. Written(k)' = Written(k')
    BY DEF Written
  <2> QED BY <2>2, <2>3, <2>4
<1> QED BY <1>1, <1>2, <1>3 DEF Kept

\* An object's sections or the dummy entries come next.
LEMMA NewWrites ==
    ASSUME ConvInv, UNCHANGED <<driver, bin, hdr, damaged>>,
           pc = "object", InFwCutter("brcmsmac"), pc' = "header", k' = k + 1,
           NEW I, I \subseteq Written(k + 1), I \cap Written(k) = {},
           \A m \in DOMAIN pending' :
              /\ pending'[m].idx \in I
              /\ \A n \in DOMAIN pending' : pending'[n].idx = pending'[m].idx => n = m
    PROVE  Kept
<1>1. StoreStep
  <2>1. Sections' = Sections
    BY SectionsFacts, NextSectionsFacts
  <2> QED BY <2>1, StutterStep
<1>2. StoreIsSound'
  BY DEF ConvInv, StoreIsSound, Intact
<1>3. IndicesAreFresh'
  <2> SUFFICES ASSUME ~damaged
               PROVE  /\ \A n \in DOMAIN hdr : hdr[n].idx \in Written(k')
                      /\ \A m \in DOMAIN pending' :
                            /\ pending'[m].idx \in Written(k')
                            /\ \A n \in DOMAIN hdr : hdr[n].idx # pending'[m].idx
    <3>1. Written(k)' = Written(k')
      BY DEF Written
    <3>2. Done' = hdr
      BY DEF Done
    <3> QED BY <3>1, <3>2 DEF IndicesAreFresh
  <2>1. \A n \in DOMAIN hdr : hdr[n].idx \in Written(k)
    BY DEF ConvInv, IndicesAreFresh, Done
  <2>2. Written(k) \subseteq Written(k + 1)
    <3> DEFINE j == k + 1
    <3>1. k \in Nat /\ j \in Nat /\ k <= j /\ driver \in Drivers
      BY DEF ConvInv, ConvTypeOK
    <3> HIDE DEF j
    <3>2. Written(k) \subseteq Written(j)
      BY <3>1, WrittenGrows
    <3> QED BY <3>2 DEF j
  <2> QED BY <2>1, <2>2
<1> QED BY <1>1, <1>2, <1>3 DEF Kept

\* The data of an entry that was announced at the end of the data file.
LEMMA AddEntry ==
    ASSUME NEW f \in Seq(EntryType), NEW b \in Seq(Nat), NEW t \in Seq(Nat), NEW e \in EntryType,
           e.offset = Len(b), e.len = Len(t), Intact(f, b),
           \A n \in DOMAIN f : f[n].idx # e.idx
    PROVE  /\ Intact(Append(f, e), b \o t)
           /\ \A s \in StoreOf(f, b) : s.idx # e.idx
           /\ StoreOf(Append(f, e), b \o t) = StoreOf(f, b) \cup {[idx |-> e.idx, data |-> t]}
<1> DEFINE D == 1 .. Len(f)
           h == Append(f, e)
           section(n) == [idx |-> f[n].idx, data |-> Slice(b, f[n])]
           s == [idx |-> e.idx, data |-> t]
<1>1. /\ Len(f) \in Nat /\ DOMAIN f = D /\ h \in Seq(EntryType) /\ Len(h) = Len(f) + 1
      /\ h[Len(f) + 1] = e /\ \A n \in D : h[n] = f[n] /\ f[n] \in EntryType
  OBVIOUS
<1>2. DOMAIN h = 1 .. Len(f) + 1 /\ \A n \in DOMAIN h : n \in D \/ n = Len(f) + 1
  BY <1>1
<1>3. \A n \in D : n \in DOMAIN h
  BY <1>1
<1>4. Len(f) + 1 \in DOMAIN h /\ Len(f) + 1 \notin D
  BY <1>1
<1> HIDE DEF h
<1>5. /\ Slice(b \o t, e) = t /\ e.offset + e.len <= Len(b \o t)
      /\ \A n \in D : Slice(b \o t, f[n]) = Slice(b, f[n]) /\ f[n].offset + f[n].len <= Len(b \o t)
  BY <1>1, SliceOfNew, SliceOfLonger DEF Intact
<1>6. Intact(h, b \o t)
  <2>1. ASSUME NEW n \in DOMAIN h PROVE h[n] # Torn /\ h[n].offset + h[n].len <= Len(b \o t)
    <3>1. h[n] # Torn
      BY <1>1, EntryIsNotTorn
    <3> QED BY <1>1, <1>2, <1>5, <3>1
  <2>2. ASSUME NEW n \in DOMAIN h, NEW m \in DOMAIN h, h[n].idx = h[m].idx PROVE n = m
    BY <1>1, <1>2, <2>2 DEF Intact
  <2> QED BY <2>1, <2>2 DEF Intact
<1>7. StoreOf(f, b) = {section(n) : n \in D}
  BY StoreOfWhole
<1>8. \A x \in StoreOf(f, b) : x.idx # e.idx
  <2>1. \A n \in D : section(n).idx # e.idx
    BY <1>1
  <2> HIDE DEF section, D
  <2> QED BY <1>7, <2>1
<1>9. StoreOf(h, b \o t) = {[idx |-> h[n].idx, data |-> Slice(b \o t, h[n])] : n \in DOMAIN h}
  <2>1. \A c : StoreOf(h, c) = {[idx |-> h[n].idx, data |-> Slice(c, h[n])] : n \in 1 .. Len(h)}
    BY <1>1, StoreOfWhole
  <2>2. 1 .. Len(h) = DOMAIN h
    BY <1>1
  <2> QED BY <2>1, <2>2
<1>10. /\ \A n \in D : [idx |-> h[n].idx, data |-> Slice(b \o t, h[n])] = section(n)
       /\ [idx |-> h[Len(f) + 1].idx, data |-> Slice(b \o t, h[Len(f) + 1])] = s
  BY <1>1, <1>5
<1>11. StoreOf(h, b \o t) = StoreOf(f, b) \cup {s}
  <2> HIDE DEF s, section, D
  <2> QED BY <1>2, <1>3, <1>4, <1>7, <1>9, <1>10
<1> QED BY <1>6, <1>8, <1>11 DEF h

LEMMA AppendDataStep ==
    ASSUME ConvInv, AppendData, UNCHANGED convVars, ~damaged
    PROVE  Kept
<1> DEFINE f == Front(hdr)
           e == NextEntry
           t == Head(pending).data
<1>1. /\ pc = "data" /\ bin' = bin \o t /\ pending' = Tail(pending) /\ pc' = AfterWrite
      /\ UNCHANGED <<driver, k, hdr, damaged>>
  BY DEF AppendData, user
<1>2. /\ bin \in Seq(Nat) /\ hdr \in Seq(EntryType \cup {Torn})
      /\ pending \in Seq(WriteType) /\ pending # <<>>
  BY <1>1 DEF ConvInv, ConvTypeOK
<1>3. hdr = Append(f, e) /\ Intact(f, bin)
  BY <1>1 DEF ConvInv, StoreIsSound
<1>4. /\ \A n \in DOMAIN f : f[n].idx \in Written(k)
      /\ \A m \in DOMAIN pending :
            /\ pending[m].idx \in Written(k)
            /\ \A n \in DOMAIN f : f[n].idx # pending[m].idx
            /\ \A n \in DOMAIN pending : pending[n].idx = pending[m].idx => n = m
  BY <1>1 DEF ConvInv, IndicesAreFresh, Done
<1>5. /\ Len(pending) \in Nat /\ Len(pending) >= 1 /\ DOMAIN pending = 1 .. Len(pending)
      /\ Head(pending) = pending[1] /\ Len(Tail(pending)) = Len(pending) - 1
      /\ DOMAIN Tail(pending) = 1 .. Len(pending) - 1
      /\ \A n \in 1 .. Len(pending) - 1 : Tail(pending)[n] = pending[n + 1]
  <2>1. Tail(pending) \in Seq(WriteType)
    BY <1>2
  <2> QED BY <1>2, <2>1
<1>6. /\ e \in EntryType /\ e.offset = Len(bin) /\ e.len = Len(t)
      /\ t \in Seq(Nat) /\ e.idx = pending[1].idx /\ e.idx \in Nat
  BY <1>2, <1>5, NextEntryType DEF WriteType, EntryType
<1>7. f \in Seq(EntryType)
  <2>1. f \in Seq(EntryType \cup {Torn})
    <3> DEFINE S == EntryType \cup {Torn}
    <3>1. Len(hdr) \in Nat /\ hdr \in Seq(S)
      BY <1>2
    <3> HIDE DEF S
    <3>2. CASE Len(hdr) = 0
      <4>1. SubSeq(hdr, 1, Len(hdr) - 1) = <<>>
        BY <3>1, <3>2
      <4> QED BY <4>1 DEF Front, S
    <3>3. CASE Len(hdr) # 0
      <4>1. Len(hdr) - 1 \in Nat /\ Len(hdr) - 1 <= Len(hdr)
        BY <3>1, <3>3
      <4>2. SubSeq(hdr, 1, Len(hdr) - 1) \in Seq(S)
        BY <3>1, <4>1, PieceType
      <4> QED BY <4>2 DEF Front, S
    <3> QED BY <3>2, <3>3
  <2> QED BY <1>3, <2>1, IntactType DEF Intact
<1>8. 1 \in DOMAIN pending
  BY <1>5
<1> HIDE DEF f, e, t
<1>9. /\ Intact(hdr, bin') /\ \A s \in StoreOf(f, bin) : s.idx # e.idx
      /\ StoreOf(hdr, bin') = StoreOf(f, bin) \cup {[idx |-> e.idx, data |-> t]}
  BY <1>1, <1>2, <1>3, <1>4, <1>6, <1>7, <1>8, AddEntry
<1>10. pc' \in {"object", "header"}
  BY <1>1 DEF AfterWrite
<1>11. StoreStep
  <2>1. Sections = StoreOf(f, bin)
    BY <1>1, SectionsFacts DEF f
  <2>2. Sections' = StoreOf(hdr, bin')
    BY <1>1, <1>10, NextSectionsFacts
  <2> QED BY <1>1, <1>6, <1>9, <2>1, <2>2, AddStep
<1>12. StoreIsSound'
  <2>1. Intact(hdr, bin)'
    BY <1>1, <1>9 DEF Intact
  <2> QED BY <1>10, <2>1 DEF StoreIsSound
<1>13. IndicesAreFresh'
  <2>1. \A n \in DOMAIN hdr : hdr[n].idx \in Written(k)
    <3>1. \A n \in DOMAIN hdr : hdr[n] = e \/ (n \in DOMAIN f /\ hdr[n] = f[n])
      BY <1>3, <1>6, <1>7
    <3> QED BY <1>4, <1>6, <1>8, <3>1
  <2>2. ASSUME NEW m \in DOMAIN Tail(pending)
        PROVE  /\ Tail(pending)[m].idx \in Written(k)
               /\ \A n \in DOMAIN hdr : hdr[n].idx # Tail(pending)[m].idx
               /\ \A n \in DOMAIN Tail(pending) : Tail(pending)[n].idx = Tail(pending)[m].idx => n = m
    <3>1. m + 1 \in DOMAIN pending /\ m + 1 # 1 /\ Tail(pending)[m] = pending[m + 1]
      BY <1>5
    <3>2. \A n \in DOMAIN hdr : hdr[n] = e \/ (n \in DOMAIN f /\ hdr[n] = f[n])
      BY <1>3, <1>6, <1>7
    <3>3. \A n \in DOMAIN hdr : hdr[n].idx # Tail(pending)[m].idx
      BY <1>4, <1>6, <1>8, <3>1, <3>2
    <3>4. ASSUME NEW n \in DOMAIN Tail(pending), Tail(pending)[n].idx = Tail(pending)[m].idx PROVE n = m
      <4>1. n + 1 \in DOMAIN pending /\ Tail(pending)[n] = pending[n + 1]
        BY <1>5
      <4>2. n + 1 = m + 1
        BY <1>4, <3>1, <3>4, <4>1
      <4> QED BY <1>5, <4>2
    <3> QED BY <1>4, <3>1, <3>3, <3>4
  <2>3. Written(k)' = Written(k)
    BY <1>1 DEF Written
  <2>4. Done' = hdr
    BY <1>1, <1>10 DEF Done
  <2> QED BY <1>1, <1>10, <2>1, <2>2, <2>3, <2>4 DEF IndicesAreFresh
<1> QED BY <1>11, <1>12, <1>13 DEF Kept

LEMMA KeptByCutter ==
    ASSUME ConvInv, ConvTypeOK', FwCutterNext, UNCHANGED convVars
    PROVE  Kept
<1> USE DEF convVars, user, store, End, InFwCutter
<1>0. damaged \in BOOLEAN /\ k \in Nat /\ k <= k + 1 /\ k + 1 \in Nat /\ driver \in Drivers
  <2>1. k \in Nat => k <= k + 1 /\ k + 1 \in Nat
    OBVIOUS
  <2> QED BY <2>1 DEF ConvInv, ConvTypeOK
<1>1. CASE RunFwCutter
  BY <1>1, <1>0, QuietStep DEF RunFwCutter, Run
<1>2. CASE NotFound
  BY <1>2, <1>0, QuietStep DEF NotFound
<1>3. CASE Found
  BY <1>3, <1>0, QuietStep DEF Found
<1>4. CASE ReadFails
  BY <1>4, <1>0, QuietStep DEF ReadFails
<1>5. CASE ConversionError
  BY <1>5, <1>0, QuietStep DEF ConversionError, AtObject
<1>6. CASE Identify
  BY <1>6, <1>0, QuietStep DEF Identify, AtObject
<1>7. CASE OpenFile
  BY <1>7, <1>0, QuietStep DEF OpenFile, AtObject
<1>8. CASE OpenFails
  BY <1>8, <1>0, QuietStep DEF OpenFails, AtObject
<1>9. CASE WriteFile
  <2>1. InFwCutter("b43")
    BY <1>9 DEF WriteFile, ConvInv, ConvTypeOK
  <2> QED BY <1>9, <2>1, <1>0, QuietStep DEF WriteFile
<1>10. CASE WriteFileFails
  <2>1. InFwCutter("b43")
    BY <1>10 DEF WriteFileFails, ConvInv, ConvTypeOK
  <2> QED BY <1>10, <2>1, <1>0, QuietStep DEF WriteFileFails
<1>11. CASE LastObject
  BY <1>11, <1>0, QuietStep DEF LastObject
<1>12. CASE SkipObject
  BY <1>12, <1>0, QuietStep DEF SkipObject, AtObject
<1>13. CASE LastDummy
  BY <1>13, <1>0, QuietStep DEF LastDummy
<1>14. CASE Killed
  <2>1. CASE pc \in {"clear header", "data"}
    BY <1>14, <2>1, DamagedStep DEF Killed
  <2>2. CASE pc \notin {"clear header", "data"}
    BY <1>14, <1>0, <2>2, QuietStep DEF Killed
  <2> QED BY <2>1, <2>2
<1>15. CASE ClearFails
  <2>1. CASE pc = "clear header"
    BY <1>15, <2>1, DamagedStep DEF ClearFails
  <2>2. CASE pc = "clear"
    BY <1>15, <1>0, <2>2, QuietStep DEF ClearFails
  <2> QED BY <1>15, <2>1, <2>2 DEF ClearFails
<1>16. CASE ClearBin
  <2>1. CASE damaged
    BY <1>0, <1>16, <2>1, DamagedStep DEF ClearBin
  <2>2. CASE ~damaged
    <3>1. pc' = "clear header" /\ damaged' = FALSE
      BY <1>0, <1>16, <2>2 DEF ClearBin
    <3>2. Sections' = {}
      BY <3>1, NextSectionsFacts, NothingStored
    <3>3. StoreStep
      BY <3>1, <3>2, ResetStep
    <3> QED BY <3>1, <3>3 DEF Kept, StoreIsSound, IndicesAreFresh
  <2> QED BY <2>1, <2>2
<1>17. CASE ClearHeader
  <2>1. pc' = "object" /\ damaged' = FALSE /\ hdr' = <<>>
    BY <1>17 DEF ClearHeader
  <2>2. Sections' = {}
    BY <2>1, NextSectionsFacts, NothingStored
  <2>3. StoreStep
    BY <2>1, <2>2, ResetStep
  <2>4. DOMAIN hdr' = {}
    BY <2>1
  <2>5. StoreIsSound'
    BY <2>1, <2>4 DEF StoreIsSound, Intact
  <2>6. IndicesAreFresh'
    BY <2>1, <2>4 DEF IndicesAreFresh, Done
  <2> QED BY <2>3, <2>5, <2>6 DEF Kept
<1>18. CASE ConvertObject
  <2>1. /\ pc = "object" /\ InFwCutter("brcmsmac") /\ pc' = "header" /\ k' = k + 1
        /\ UNCHANGED <<driver, bin, hdr, damaged>> /\ pending' = WritesOf(driver.extract[k])
        /\ k <= Len(driver.extract) /\ driver.extract[k].name \in DOMAIN BrcmIndex
    BY <1>18 DEF ConvertObject, AtObject, Object
  <2>2. k \in DOMAIN driver.extract
    <3>1. DOMAIN driver.extract = 1 .. Len(driver.extract) /\ Len(driver.extract) \in Nat
      BY <1>0, DriverFacts
    <3>2. k \in Nat \ {0}
      BY DEF ConvInv, ConvTypeOK
    <3> QED BY <2>1, <3>1, <3>2
  <2> DEFINE I == IndicesOf(driver.extract[k])
  <2>3. I \subseteq Written(k + 1) /\ I \cap Written(k) = {}
    BY <1>0, <2>2, NextIndicesAreNew
  <2>4. \A m \in DOMAIN pending' :
           /\ pending'[m].idx \in I
           /\ \A l \in DOMAIN pending' : pending'[l].idx = pending'[m].idx => l = m
    BY <1>0, <2>1, <2>2, WritesOfFacts
  <2> HIDE DEF I
  <2> QED BY <2>1, <2>3, <2>4, NewWrites
<1>19. CASE AddDummies
  <2>1. /\ pc = "object" /\ InFwCutter("brcmsmac") /\ pc' = "header" /\ k' = k + 1
        /\ UNCHANGED <<driver, bin, hdr, damaged>> /\ pending' = Dummies
        /\ k = Len(driver.extract) + 1
    BY <1>19 DEF AddDummies
  <2>2. {7, 14, 15} \subseteq Written(k + 1) /\ {7, 14, 15} \cap Written(k) = {}
    BY <1>0, <2>1, DummiesAreNew
  <2>3. \A m \in DOMAIN pending' :
           /\ pending'[m].idx \in {7, 14, 15}
           /\ \A l \in DOMAIN pending' : pending'[l].idx = pending'[m].idx => l = m
    BY <2>1, DummiesFacts
  <2> QED BY <2>1, <2>2, <2>3, NewWrites
<1>20. CASE AppendEntry
  <2>1. CASE damaged
    BY <1>0, <1>20, <2>1, DamagedStep DEF AppendEntry
  <2>2. CASE ~damaged
    <3>1. /\ pc = "header" /\ pc' = "data" /\ hdr' = Append(hdr, NextEntry)
          /\ UNCHANGED <<driver, k, pending, bin, damaged>>
      BY <1>20 DEF AppendEntry
    <3>2. Front(hdr') = hdr
      <4>1. NextEntry \in EntryType \cup {Torn} /\ hdr \in Seq(EntryType \cup {Torn})
        BY <3>1, NextEntryType DEF ConvInv, ConvTypeOK
      <4> QED BY <3>1, <4>1, AppendFront
    <3>3. StoreStep
      BY <3>1, <3>2, SectionsFacts, NextSectionsFacts, StutterStep
    <3>4. StoreIsSound'
      <4>1. NextEntry' = NextEntry
        BY <3>1 DEF NextEntry
      <4>2. Intact(hdr, bin)
        BY <2>2, <3>1 DEF ConvInv, StoreIsSound
      <4>3. Intact(Front(hdr), bin)'
        BY <3>1, <3>2, <4>2 DEF Intact
      <4> QED BY <3>1, <3>2, <4>1, <4>3 DEF StoreIsSound
    <3>5. IndicesAreFresh'
      <4>1. Done' = Done /\ Written(k)' = Written(k)
        BY <3>1, <3>2 DEF Done, Written
      <4> QED BY <2>2, <3>1, <4>1 DEF ConvInv, IndicesAreFresh
    <3> QED BY <3>3, <3>4, <3>5 DEF Kept
  <2> QED BY <2>1, <2>2
<1>21. CASE AppendEntryFails
  <2>1. CASE pc' = "data" \/ hdr' # hdr
    BY <1>21, <2>1, DamagedStep DEF AppendEntryFails
  <2>2. CASE pc' # "data" /\ hdr' = hdr
    BY <1>0, <1>21, <2>2, QuietStep DEF AppendEntryFails
  <2> QED BY <2>1, <2>2
<1>22. CASE AppendData
  <2>1. CASE damaged
    BY <1>0, <1>22, <2>1, DamagedStep DEF AppendData
  <2> QED BY <1>22, <2>1, AppendDataStep
<1>23. CASE AppendDataFails
  BY <1>23, DamagedStep DEF AppendDataFails
<1> QED BY <1>1, <1>2, <1>3, <1>4, <1>5, <1>6, <1>7, <1>8, <1>9, <1>10, <1>11, <1>12, <1>13, <1>14, <1>15, <1>16, <1>17, <1>18, <1>19, <1>20, <1>21, <1>22, <1>23 DEF FwCutterNext

LEMMA KeptByConv ==
    ASSUME ConvInv, ConvTypeOK', Next, ~(FwCutterNext /\ UNCHANGED convVars)
    PROVE  Kept
<1> USE DEF convVars, user, store, others, End, InFwCutter
<1>0. damaged \in BOOLEAN
  BY DEF ConvInv, ConvTypeOK
<1>1. CASE RunFwConv
  BY <1>1, QuietStep DEF RunFwConv, Run
<1>2. CASE ParseFails
  BY <1>2, QuietStep DEF ParseFails
<1>3. CASE Parse
  BY <1>3, QuietStep DEF Parse
<1>4. CASE DumpInfo
  BY <1>4, QuietStep DEF DumpInfo
<1>5. CASE NoSection
  BY <1>5, QuietStep DEF NoSection
<1>6. CASE CannotOpen
  <2>1. CASE pc = "write hdr"
    BY <1>6, <2>1, DamagedStep DEF CannotOpen
  <2>2. CASE pc # "write hdr"
    BY <1>0, <1>6, <2>2, QuietStep DEF CannotOpen
  <2> QED BY <2>1, <2>2
<1>7. CASE ExtractSection
  BY <1>7, QuietStep DEF ExtractSection
<1>8. CASE ExtractFails
  BY <1>8, QuietStep DEF ExtractFails
<1>9. CASE Confused
  BY <1>9, QuietStep DEF Confused
<1>10. CASE MergeSection
  <2>1. CASE damaged
    BY <1>0, <1>10, <2>1, DamagedStep DEF MergeSection
  <2>2. CASE ~damaged
    <3>1. /\ pc = "sections" /\ pc' = "write bin" /\ UNCHANGED <<bin, hdr, damaged>>
          /\ Cardinality(EntriesOf(hdr, cmd.index)) = 1
      BY <1>10 DEF MergeSection
    <3>2. hdr \in Seq(EntryType) /\ bin \in Seq(Nat) /\ Intact(hdr, bin)
      BY <2>2, <3>1, IntactType DEF ConvInv, ConvTypeOK, StoreIsSound
    <3>3. PICK d \in Seq(Nat) : new' = Merged(ByOffset(hdr), bin, cmd.index, d)
      BY <1>10, MergedType DEF ConvInv
    <3>4. Intact(new'.hdr, new'.bin) /\ OneReplaced(StoreOf(hdr, bin), StoreOf(new'.hdr, new'.bin))
      BY <3>1, <3>2, <3>3, MergeReplacesOne
    <3>5. StoreStep
      BY <3>1, SectionsFacts, NextSectionsFacts, StutterStep
    <3>6. StoreIsSound'
      <4>1. Intact(hdr, bin)' /\ Intact(new.hdr, new.bin)'
        BY <3>1, <3>2, <3>4 DEF Intact
      <4>2. OneReplaced(StoreOf(hdr, bin), StoreOf(new.hdr, new.bin))'
        <5>1. StoreOf(hdr, bin)' = StoreOf(hdr, bin)
          BY <3>1 DEF StoreOf, Slice
        <5>2. StoreOf(new.hdr, new.bin)' = StoreOf(new'.hdr, new'.bin)
          BY DEF StoreOf, Slice
        <5>3. OneReplaced(StoreOf(hdr, bin)', StoreOf(new.hdr, new.bin)')
          BY <3>4, <5>1, <5>2
        <5> QED BY <5>3 DEF OneReplaced
      <4> QED BY <3>1, <4>1, <4>2 DEF StoreIsSound
    <3>7. IndicesAreFresh'
      BY <3>1 DEF IndicesAreFresh
    <3> QED BY <3>5, <3>6, <3>7 DEF Kept
  <2> QED BY <2>1, <2>2
<1>11. CASE WriteBin
  <2>1. CASE damaged
    BY <1>0, <1>11, <2>1, DamagedStep DEF WriteBin
  <2>2. CASE ~damaged
    <3>1. /\ pc = "write bin" /\ pc' = "write hdr" /\ bin' = new.bin
          /\ UNCHANGED <<hdr, new, damaged>>
      BY <1>11 DEF WriteBin
    <3>2. /\ Intact(hdr, bin) /\ Intact(new.hdr, new.bin)
          /\ OneReplaced(StoreOf(hdr, bin), StoreOf(new.hdr, new.bin))
      BY <2>2, <3>1 DEF ConvInv, StoreIsSound
    <3>3. Sections = StoreOf(hdr, bin) /\ Sections' = StoreOf(new.hdr, new.bin)
      BY <3>1, SectionsFacts, NextSectionsFacts
    <3>4. \A x, y \in Sections : x.idx = y.idx => x = y
      <4>1. \A x, y \in StoreOf(hdr, bin) : x.idx = y.idx => x = y
        BY <3>2 DEF StoreOf, Intact
      <4> QED BY <3>3, <4>1
    <3>5. StoreStep
      BY <2>2, <3>1, <3>2, <3>3, <3>4, ReplaceStep
    <3>6. StoreIsSound'
      <4>1. Intact(new.hdr, new.bin)'
        BY <3>1, <3>2 DEF Intact
      <4> QED BY <3>1, <4>1 DEF StoreIsSound
    <3>7. IndicesAreFresh'
      BY <3>1 DEF IndicesAreFresh
    <3> QED BY <3>5, <3>6, <3>7 DEF Kept
  <2> QED BY <2>1, <2>2
<1>12. CASE WriteBinFails
  BY <1>12, DamagedStep DEF WriteBinFails
<1>13. CASE WriteHdr
  <2>1. CASE damaged
    BY <1>0, <1>13, <2>1, DamagedStep DEF WriteHdr
  <2>2. CASE ~damaged
    <3>1. pc = "write hdr" /\ pc' = "idle" /\ hdr' = new.hdr /\ UNCHANGED <<bin, damaged>>
      BY <1>13 DEF WriteHdr
    <3>2. Intact(new.hdr, new.bin) /\ bin = new.bin
      BY <2>2, <3>1 DEF ConvInv, StoreIsSound
    <3>3. Sections' = Sections
      BY <3>1, <3>2, SectionsFacts, NextSectionsFacts
    <3>4. StoreIsSound'
      <4>1. Intact(hdr, bin)'
        BY <3>1, <3>2 DEF Intact
      <4> QED BY <3>1, <4>1 DEF StoreIsSound
    <3>5. IndicesAreFresh'
      BY <3>1 DEF IndicesAreFresh
    <3>6. StoreStep
      BY <3>1, <3>3, StutterStep
    <3> QED BY <3>4, <3>5, <3>6 DEF Kept
  <2> QED BY <2>1, <2>2
<1>14. CASE WriteHdrFails
  BY <1>14, DamagedStep DEF WriteHdrFails
<1>15. CASE KilledInMerge
  <2>1. CASE pc = "write hdr"
    BY <1>15, <2>1, DamagedStep DEF KilledInMerge
  <2>2. CASE pc # "write hdr"
    BY <1>0, <1>15, <2>2, QuietStep DEF KilledInMerge
  <2> QED BY <2>1, <2>2
<1> QED BY <1>1, <1>2, <1>3, <1>4, <1>5, <1>6, <1>7, <1>8, <1>9, <1>10, <1>11, <1>12, <1>13,
           <1>14, <1>15 DEF Next
-----------------------------------------------------------------------------
LEMMA ConvInvAtFirst ==
    ASSUME ConvInit
    PROVE  ConvInv
<1>1. PICK old \in OldBins : bin = old.bin /\ hdr = old.hdr
  BY DEF ConvInit, Init
<1>2. bin \in Seq(Nat) /\ hdr \in Seq(EntryType \cup {Torn})
  BY <1>1, FwCutterAssumption
<1>3. driver \in Drivers /\ k = 1 /\ out = None /\ pc = "idle" /\ damaged = ~Intact(hdr, bin)
  BY DEF ConvInit, Init
<1>4. ConvTypeOK
  BY <1>2, <1>3 DEF ConvTypeOK
<1>5. StoreIsSound /\ IndicesAreFresh
  BY <1>3 DEF StoreIsSound, IndicesAreFresh
<1> QED BY <1>4, <1>5 DEF ConvInv

LEMMA ConvStep ==
    ASSUME ConvInv, [Next]_vars
    PROVE  ConvInv' /\ StoreStep
<1>1. ConvTypeOK'
  BY TypesKept DEF ConvInv
<1>2. CASE UNCHANGED vars
  <2>1. StoreIsSound' /\ IndicesAreFresh'
    <3> USE <1>2 DEF vars, cutterVars, convVars
    <3>1. StoreIsSound'
      <4>1. NextEntry' = NextEntry
        BY DEF NextEntry
      <4>2. /\ Intact(hdr, bin)' <=> Intact(hdr, bin)
            /\ Intact(Front(hdr), bin)' <=> Intact(Front(hdr), bin)
            /\ Intact(new.hdr, new.bin)' <=> Intact(new.hdr, new.bin)
        BY DEF Intact
      <4>3. /\ StoreOf(hdr, bin)' = StoreOf(hdr, bin)
            /\ StoreOf(new.hdr, new.bin)' = StoreOf(new.hdr, new.bin)
        BY DEF StoreOf, Slice
      <4>4. OneReplaced(StoreOf(hdr, bin), StoreOf(new.hdr, new.bin))'
               <=> OneReplaced(StoreOf(hdr, bin), StoreOf(new.hdr, new.bin))
        BY <4>3 DEF OneReplaced
      <4> QED BY <4>1, <4>2, <4>4 DEF ConvInv, StoreIsSound
    <3>2. Done' = Done /\ Written(k)' = Written(k) /\ InFwCutter("brcmsmac")' = InFwCutter("brcmsmac")
      BY DEF Done, Written, InFwCutter
    <3>3. IndicesAreFresh'
      BY <3>2 DEF ConvInv, IndicesAreFresh
    <3> QED BY <3>1, <3>3
  <2>2. Sections' = Sections /\ damaged' = damaged
    BY <1>2, SectionsFacts, NextSectionsFacts DEF vars, cutterVars, convVars, Sections
  <2> QED BY <1>1, <2>1, <2>2, StutterStep DEF ConvInv
<1>3. CASE FwCutterNext /\ UNCHANGED convVars
  BY <1>1, <1>3, KeptByCutter DEF Kept, ConvInv
<1>4. CASE Next /\ ~(FwCutterNext /\ UNCHANGED convVars)
  BY <1>1, <1>4, KeptByConv DEF Kept, ConvInv
<1> QED BY <1>2, <1>3, <1>4

\* At every moment of every sequence of extractions and merges, also right after
\* one that failed elsewhere, the header file describes the data file unless an
\* accident has damaged the two (brcmsmac_write_file, mergeSection).
THEOREM OnlyAccidentsDamage == Spec => []FilesBelongTogether
<1>1. ConvInit => ConvInv
  BY ConvInvAtFirst
<1>2. ConvInv /\ [Next]_vars => ConvInv'
  BY ConvStep
<1>3. ConvInv => FilesBelongTogether
  BY DEF ConvInv, StoreIsSound, FilesBelongTogether
<1> QED BY <1>1, <1>2, <1>3, PTL DEF Spec

\* What both programs do with the two files is to empty a store of sections, to
\* add a section with a new index, or to replace one section and keep all others,
\* in whatever order the sections lie in the data file and however long the new
\* one is; anything else is an accident that damages the store
\* (brcmsmac_clear_file, brcmsmac_write_file, mergeSection).
THEOREM FilesAreAStore == Spec => ImplementsStore
<1>1. ConvInit => ConvInv
  BY ConvInvAtFirst
<1>2. ConvInv /\ [Next]_vars => ConvInv' /\ [SectionStore!Next]_(SectionStore!vars)
  BY ConvStep DEF StoreStep
<1>3. ConvInit => SectionStore!Init
  <2> SUFFICES ASSUME ConvInit PROVE SectionStore!Init
    OBVIOUS
  <2>1. ConvInv /\ pc = "idle"
    BY ConvInvAtFirst DEF ConvInit, Init
  <2>2. Sections = StoreOf(hdr, bin)
    BY <2>1, SectionsFacts
  <2>3. \A n \in DOMAIN hdr : hdr[n] # Torn => hdr[n].idx \in Nat
    <3>1. hdr \in Seq(EntryType \cup {Torn})
      BY <2>1 DEF ConvInv, ConvTypeOK
    <3>2. \A n \in DOMAIN hdr : hdr[n] # Torn => hdr[n] \in EntryType
      BY <3>1
    <3> QED BY <3>2 DEF EntryType
  <2>4. \A s \in StoreOf(hdr, bin) : s.idx \in Nat
    BY <2>3 DEF StoreOf
  <2> QED BY <2>1, <2>2, <2>4 DEF ConvInv, ConvTypeOK, SectionStore!Init, SectionStore!InUse
<1> QED BY <1>1, <1>2, <1>3, PTL DEF Spec, ImplementsStore, SectionStore!Spec
-----------------------------------------------------------------------------
\* What changing the byte order does to the values.

\* The bytes of a whole word are turned round, those behind the last one kept.
LEMMA SwappedWord ==
    ASSUME NEW d \in Seq(Nat), NEW w \in Nat, 4 * w + 4 <= Len(d), NEW j \in 1 .. 4
    PROVE  SwapWords(d)[4 * w + j] = d[4 * w + (5 - j)]
<1> DEFINE n == 4 * w + j
           q == (n - 1) \div 4
<1>1. n \in DOMAIN d /\ Len(d) \in Nat
  OBVIOUS
<1>2. q = w
  OBVIOUS
<1>3. SwapWords(d)[n] = IF 4 * q + 4 <= Len(d) THEN d[2 * (4 * q + 4) - 3 - n] ELSE d[n]
  BY <1>1 DEF SwapWords
<1> HIDE DEF q
<1>4. SwapWords(d)[n] = d[2 * (4 * w + 4) - 3 - n]
  BY <1>2, <1>3
<1>5. 2 * (4 * w + 4) - 3 - n = 4 * w + (5 - j)
  OBVIOUS
<1> QED BY <1>4, <1>5

\* Bytes that make no whole word stay where they are.
LEMMA KeptRest ==
    ASSUME NEW d \in Seq(Nat), NEW w \in Nat, 4 * w + 4 > Len(d), NEW j \in 1 .. 4, 4 * w + j <= Len(d)
    PROVE  SwapWords(d)[4 * w + j] = d[4 * w + j]
<1> DEFINE n == 4 * w + j
           q == (n - 1) \div 4
<1>1. n \in DOMAIN d /\ Len(d) \in Nat
  OBVIOUS
<1>2. q = w
  OBVIOUS
<1>3. SwapWords(d)[n] = IF 4 * q + 4 <= Len(d) THEN d[2 * (4 * q + 4) - 3 - n] ELSE d[n]
  BY <1>1 DEF SwapWords
<1> HIDE DEF q
<1> QED BY <1>2, <1>3

\* The bytes of an initvals record, offset and size as halfwords, the value as a word.
LEMMA SwappedByte ==
    ASSUME NEW d \in Seq(Nat), NEW q \in Nat, 8 * q + 8 <= Len(d), NEW i \in 1 .. 8
    PROVE  SwapIvs(d)[8 * q + i] = d[8 * q + <<2, 1, 4, 3, 8, 7, 6, 5>>[i]]
<1> DEFINE n == 8 * q + i
           p == (n - 1) \div 8
           order == <<2, 1, 4, 3, 8, 7, 6, 5>>
<1>1. n \in DOMAIN d /\ Len(d) \in Nat
  OBVIOUS
<1>2. p = q
  OBVIOUS
<1> HIDE DEF order
<1>3. SwapIvs(d)[n] = d[8 * p + order[n - 8 * p]]
  BY <1>1 DEF SwapIvs, order
<1> HIDE DEF p
<1>4. n - 8 * q = i
  OBVIOUS
<1> QED BY <1>2, <1>3, <1>4 DEF order

SameMeaning(type, le, x, y) == Values(type, ~le, x) = Values(type, le, y)

\* Words in the other byte order have the same values.
LEMMA SwappedWordsMeanTheSame ==
    ASSUME NEW d \in Seq(Nat), NEW type, type # "iv", NEW le \in BOOLEAN
    PROVE  SameMeaning(type, le, SwapWords(d), d)
<1> DEFINE e == SwapWords(d)
           L == Len(d)
           N == (L + 3) \div 4
           end(n) == IF 4 * n < L THEN 4 * n ELSE L
<1>1. e \in Seq(Nat) /\ Len(e) = L /\ L \in Nat
  BY SwapWordsType
<1>2. N \in Nat /\ \A n \in 1 .. N : 4 * n - 3 <= L
  BY <1>1
<1>3. \A w \in Nat : 4 * w + 4 <= L => \A j \in 1 .. 4 : e[4 * w + j] = d[4 * w + (5 - j)]
  BY SwappedWord
<1>4. \A w \in Nat : 4 * w + 4 > L => \A j \in 1 .. 4 : 4 * w + j <= L => e[4 * w + j] = d[4 * w + j]
  BY KeptRest
<1> HIDE DEF e, N
<1>5. /\ WordsOf(e) = [n \in 1 .. N |-> SubSeq(e, 4 * n - 3, end(n))]
      /\ WordsOf(d) = [n \in 1 .. N |-> SubSeq(d, 4 * n - 3, end(n))]
  BY <1>1 DEF WordsOf, N
<1> HIDE DEF L
<1>6. ASSUME NEW n \in 1 .. N
      PROVE  LET u == SubSeq(e, 4 * n - 3, end(n))
                 v == SubSeq(d, 4 * n - 3, end(n))
             IN  \/ Len(u) = 4 /\ Len(v) = 4 /\ Mirrored(u, v)
                 \/ Len(u) # 4 /\ Len(v) # 4 /\ u = v
  <2> DEFINE w == n - 1
             i == 4 * w
  <2>1. w \in Nat /\ i \in Nat /\ 4 * n - 3 = i + 1 /\ i + 1 <= L /\ 4 * n = i + 4
    BY <1>1, <1>2
  <2>2. CASE i + 4 <= L
    <3>1. end(n) = i + 4
      BY <1>1, <2>1, <2>2
    <3>2. \A j \in 1 .. 4 : e[i + j] = d[i + (4 + 1 - j)]
      <4>1. \A j \in 1 .. 4 : e[4 * w + j] = d[4 * w + (5 - j)]
        BY <1>3, <2>1, <2>2
      <4>2. \A j \in 1 .. 4 : 4 + 1 - j = 5 - j
        OBVIOUS
      <4> QED BY <4>1, <4>2
    <3> HIDE DEF i
    <3>3. Mirrored(SubSeq(e, i + 1, i + 4), SubSeq(d, i + 1, i + 4))
      BY <1>1, <2>1, <2>2, <3>2, MirroredParts DEF L
    <3>4. Len(SubSeq(e, i + 1, i + 4)) = 4 /\ Len(SubSeq(d, i + 1, i + 4)) = 4
      BY <1>1, <2>1, <2>2, PartFacts DEF IsPart, L
    <3> QED BY <2>1, <3>1, <3>3, <3>4
  <2>3. CASE i + 4 > L
    <3> DEFINE m == L - i
    <3>1. end(n) = i + m /\ m \in Nat /\ m \in 1 .. 3 /\ i + m <= L
      BY <1>1, <2>1, <2>3
    <3>2. \A j \in 1 .. m : e[i + j] = d[i + j]
      <4> SUFFICES ASSUME NEW j \in 1 .. m PROVE e[i + j] = d[i + j]
        OBVIOUS
      <4>1. j \in 1 .. 4 /\ 4 * w + j <= L /\ 4 * w + 4 > L
        BY <1>1, <2>1, <2>3, <3>1
      <4> QED BY <1>4, <2>1, <4>1
    <3> HIDE DEF i, m
    <3> DEFINE u == SubSeq(e, i + 1, i + m)
               v == SubSeq(d, i + 1, i + m)
    <3>3. /\ u \in Seq(Nat) /\ Len(u) = m /\ \A j \in 1 .. m : u[j] = e[i + j]
          /\ v \in Seq(Nat) /\ Len(v) = m /\ \A j \in 1 .. m : v[j] = d[i + j]
      <4>1. /\ u \in Seq(Nat) /\ IsPart(u, e, i, m)
            /\ v \in Seq(Nat) /\ IsPart(v, d, i, m)
        <5>1. i + m <= Len(e) /\ i + m <= Len(d)
          BY <1>1, <3>1 DEF L
        <5>2. u \in Seq(Nat) /\ IsPart(u, e, i, m)
          BY <1>1, <2>1, <3>1, <5>1, PartFacts
        <5>3. v \in Seq(Nat) /\ IsPart(v, d, i, m)
          BY <1>1, <2>1, <3>1, <5>1, PartFacts
        <5> QED BY <5>2, <5>3
      <4> HIDE DEF u, v
      <4> QED BY <4>1 DEF IsPart
    <3> HIDE DEF u, v
    <3>4. u = v
      <4>1. u = [j \in 1 .. m |-> u[j]] /\ v = [j \in 1 .. m |-> v[j]]
        BY <3>3
      <4>2. \A j \in 1 .. m : u[j] = v[j]
        BY <3>2, <3>3
      <4> QED BY <4>1, <4>2
    <3>5. Len(u) # 4 /\ Len(v) # 4
      BY <3>1, <3>3
    <3> QED BY <2>1, <3>1, <3>4, <3>5 DEF u, v
  <2>4. i + 4 <= L \/ i + 4 > L
    BY <1>1, <2>1
  <2> QED BY <2>2, <2>3, <2>4
<1> DEFINE val(b, f) == IF Len(f) = 4 THEN IF b THEN Reverse(f) ELSE f ELSE f
<1>7. /\ DOMAIN WordsOf(e) = 1 .. N /\ DOMAIN WordsOf(d) = 1 .. N
      /\ \A n \in 1 .. N : WordsOf(e)[n] = SubSeq(e, 4 * n - 3, end(n))
      /\ \A n \in 1 .. N : WordsOf(d)[n] = SubSeq(d, 4 * n - 3, end(n))
  BY <1>5
<1> HIDE DEF end
<1>8. \A n \in 1 .. N : val(~le, WordsOf(e)[n]) = val(le, WordsOf(d)[n])
  BY <1>6, <1>7 DEF Mirrored
<1>9. /\ Values(type, ~le, e) = [n \in 1 .. N |-> val(~le, WordsOf(e)[n])]
      /\ Values(type, le, d) = [n \in 1 .. N |-> val(le, WordsOf(d)[n])]
  BY <1>7 DEF Values
<1> HIDE DEF val
<1> QED BY <1>8, <1>9 DEF SameMeaning, e

\* A record and the same in the other byte order.
Swapped(x, y) ==
    /\ x \in Seq(Nat) /\ Len(x) = 8 /\ y \in Seq(Nat) /\ Len(y) = 8
    /\ x[1] = y[2] /\ x[2] = y[1] /\ x[3] = y[4] /\ x[4] = y[3]
    /\ x[5] = y[8] /\ x[6] = y[7] /\ x[7] = y[6] /\ x[8] = y[5]

\* The bytes of two records that lie in each other's order.
LEMMA SwappedRecords ==
    ASSUME NEW d \in Seq(Nat), Len(d) % 8 = 0
    PROVE  /\ DOMAIN Records(SwapIvs(d)) = DOMAIN Records(d)
           /\ \A n \in DOMAIN Records(d) : Swapped(Records(SwapIvs(d))[n], Records(d)[n])
<1> DEFINE e == SwapIvs(d)
           L == Len(d)
           N == L \div 8
<1>1. e \in Seq(Nat) /\ Len(e) = L /\ L \in Nat
  BY SwapIvsType
<1>2. N \in Nat /\ L = 8 * N
  <2>1. L = 8 * N + (L % 8) /\ N \in Nat
    BY <1>1, DivMod
  <2>2. L % 8 = 0
    OBVIOUS
  <2> HIDE DEF N, L
  <2> QED BY <1>1, <2>1, <2>2
<1>3. \A q \in Nat : 8 * q + 8 <= L =>
        \A i \in 1 .. 8 : e[8 * q + i] = d[8 * q + <<2, 1, 4, 3, 8, 7, 6, 5>>[i]]
  BY SwappedByte
<1> HIDE DEF e, N
<1>4. /\ Records(e) = [n \in 1 .. N |-> SubSeq(e, 8 * n - 7, 8 * n)]
      /\ Records(d) = [n \in 1 .. N |-> SubSeq(d, 8 * n - 7, 8 * n)]
  BY <1>1 DEF Records, N
<1> HIDE DEF L
<1>5. ASSUME NEW n \in 1 .. N
      PROVE  Swapped(SubSeq(e, 8 * n - 7, 8 * n), SubSeq(d, 8 * n - 7, 8 * n))
  <2> DEFINE q == n - 1
             i == 8 * q
  <2>1. q \in Nat /\ i \in Nat /\ 8 * n - 7 = i + 1 /\ 8 * n = i + 8 /\ i + 8 <= L
    BY <1>2
  <2>2. \A j \in 1 .. 8 : e[i + j] = d[i + <<2, 1, 4, 3, 8, 7, 6, 5>>[j]]
    BY <1>3, <2>1
  <2>3. /\ e[i + 1] = d[i + 2] /\ e[i + 2] = d[i + 1] /\ e[i + 3] = d[i + 4] /\ e[i + 4] = d[i + 3]
        /\ e[i + 5] = d[i + 8] /\ e[i + 6] = d[i + 7] /\ e[i + 7] = d[i + 6] /\ e[i + 8] = d[i + 5]
    <3> HIDE DEF i
    <3> QED BY <2>2
  <2> HIDE DEF i
  <2> DEFINE u == SubSeq(e, i + 1, i + 8)
             v == SubSeq(d, i + 1, i + 8)
  <2>4. /\ u \in Seq(Nat) /\ Len(u) = 8 /\ \A j \in 1 .. 8 : u[j] = e[i + j]
        /\ v \in Seq(Nat) /\ Len(v) = 8 /\ \A j \in 1 .. 8 : v[j] = d[i + j]
    <3>1. i + 8 <= Len(e) /\ i + 8 <= Len(d) /\ 8 \in Nat
      BY <1>1, <2>1 DEF L
    <3>2. u \in Seq(Nat) /\ IsPart(u, e, i, 8)
      BY <1>1, <2>1, <3>1, PartFacts
    <3>3. v \in Seq(Nat) /\ IsPart(v, d, i, 8)
      BY <1>1, <2>1, <3>1, PartFacts
    <3> HIDE DEF u, v
    <3> QED BY <3>2, <3>3 DEF IsPart
  <2> HIDE DEF u, v
  <2>5. /\ u[1] = e[i + 1] /\ u[2] = e[i + 2] /\ u[3] = e[i + 3] /\ u[4] = e[i + 4]
        /\ u[5] = e[i + 5] /\ u[6] = e[i + 6] /\ u[7] = e[i + 7] /\ u[8] = e[i + 8]
        /\ v[1] = d[i + 1] /\ v[2] = d[i + 2] /\ v[3] = d[i + 3] /\ v[4] = d[i + 4]
        /\ v[5] = d[i + 5] /\ v[6] = d[i + 6] /\ v[7] = d[i + 7] /\ v[8] = d[i + 8]
    BY <2>4
  <2>6. Swapped(u, v)
    BY <2>3, <2>4, <2>5 DEF Swapped
  <2> QED BY <2>1, <2>6 DEF u, v
<1> QED BY <1>4, <1>5 DEF e

\* Initvals in the other byte order have the same offsets, sizes and values.
LEMMA SwappedIvsMeanTheSame ==
    ASSUME NEW d \in Seq(Nat), Len(d) % 8 = 0, NEW le \in BOOLEAN
    PROVE  SameMeaning("iv", le, SwapIvs(d), d)
<1> DEFINE e == SwapIvs(d)
           msb(b, f) == IF b THEN Reverse(f) ELSE f
           val(b, iv) == <<msb(b, SubSeq(iv, 1, 2)), msb(b, SubSeq(iv, 3, 4)), msb(b, SubSeq(iv, 5, 8))>>
<1>1. /\ DOMAIN Records(e) = DOMAIN Records(d)
      /\ \A n \in DOMAIN Records(d) : Swapped(Records(e)[n], Records(d)[n])
  BY SwappedRecords
<1>2. ASSUME NEW x, NEW y, Swapped(x, y)
      PROVE  val(~le, x) = val(le, y)
  <2>1. x \in Seq(Nat) /\ Len(x) = 8 /\ y \in Seq(Nat) /\ Len(y) = 8
    BY <1>2 DEF Swapped
  <2>2. Mirrored(SubSeq(x, 0 + 1, 0 + 2), SubSeq(y, 0 + 1, 0 + 2))
    <3>1. \A j \in 1 .. 2 : x[0 + j] = y[0 + (2 + 1 - j)]
      BY <1>2 DEF Swapped
    <3>2. 0 \in Nat /\ 2 \in Nat /\ 0 + 2 <= Len(x) /\ 0 + 2 <= Len(y)
      BY <2>1
    <3> QED BY <2>1, <3>1, <3>2, MirroredParts
  <2>3. Mirrored(SubSeq(x, 2 + 1, 2 + 2), SubSeq(y, 2 + 1, 2 + 2))
    <3>1. \A j \in 1 .. 2 : x[2 + j] = y[2 + (2 + 1 - j)]
      BY <1>2 DEF Swapped
    <3>2. 2 \in Nat /\ 2 + 2 <= Len(x) /\ 2 + 2 <= Len(y)
      BY <2>1
    <3> QED BY <2>1, <3>1, <3>2, MirroredParts
  <2>4. Mirrored(SubSeq(x, 4 + 1, 4 + 4), SubSeq(y, 4 + 1, 4 + 4))
    <3>1. \A j \in 1 .. 4 : x[4 + j] = y[4 + (4 + 1 - j)]
      BY <1>2 DEF Swapped
    <3>2. 4 \in Nat /\ 4 + 4 <= Len(x) /\ 4 + 4 <= Len(y)
      BY <2>1
    <3> QED BY <2>1, <3>1, <3>2, MirroredParts
  <2>5. /\ 0 + 1 = 1 /\ 0 + 2 = 2 /\ 2 + 1 = 3 /\ 2 + 2 = 4 /\ 4 + 1 = 5 /\ 4 + 4 = 8
    OBVIOUS
  <2>6. /\ Mirrored(SubSeq(x, 1, 2), SubSeq(y, 1, 2))
        /\ Mirrored(SubSeq(x, 3, 4), SubSeq(y, 3, 4))
        /\ Mirrored(SubSeq(x, 5, 8), SubSeq(y, 5, 8))
    BY <2>2, <2>3, <2>4, <2>5
  <2>7. \A u, v : Mirrored(u, v) => msb(~le, u) = msb(le, v)
    BY DEF Mirrored
  <2> HIDE DEF msb
  <2> QED BY <2>6, <2>7
<1>3. /\ Values("iv", ~le, e) = [n \in DOMAIN Records(e) |-> val(~le, Records(e)[n])]
      /\ Values("iv", le, d) = [n \in DOMAIN Records(d) |-> val(le, Records(d)[n])]
  BY DEF Values
<1> HIDE DEF val
<1>4. \A n \in DOMAIN Records(d) : val(~le, Records(e)[n]) = val(le, Records(d)[n])
  BY <1>1, <1>2
<1> QED BY <1>1, <1>3, <1>4 DEF SameMeaning
-----------------------------------------------------------------------------
\* The files for b43: the one that is being written is empty, and every other is
\* a beginning of the object's file, and all of it unless something went wrong.
IsFileOf(file, o) ==
    /\ \E n \in 0 .. Len(B43File(o.type, BigEndian(o))) :
          file = SubSeq(B43File(o.type, BigEndian(o)), 1, n)
    /\ ~faulty => file = B43File(o.type, BigEndian(o)) /\ ~Refused(o)

FilesInv ==
    /\ files = [name \in Names |-> files[name]]
    /\ pc = "write" => k \in DOMAIN driver.extract /\ ~Refused(Object) /\ files[Object.name] = <<>>
    /\ \A o \in Objects :
          files[o.name] # None /\ ~(pc = "write" /\ o = Object) => IsFileOf(files[o.name], o)
-----------------------------------------------------------------------------
\* All that an extraction writes.
Elements(s) == {s[m] : m \in DOMAIN s}
AllWrites ==
    (UNION {Elements(WritesOf(o)) : o \in {p \in Objects : p.name \in DOMAIN BrcmIndex}})
        \cup Elements(Dummies)

IsGood(e, b, W) == e.offset + e.len <= Len(b) /\ Write(e.idx, Slice(b, e)) \in W

\* All entries but the x-th are good; the last one may be an awaited one.
GoodBut(h, b, W, x, awaited) ==
    \A n \in DOMAIN h :
        h[n] = Torn \/ n = x \/ (n = Len(h) /\ h[n] \in awaited) \/ IsGood(h[n], b, W)

Awaited == IF pc = "data" THEN {NextEntry} ELSE {}

AllButOneGood ==
    origin = "cutter" =>
        \E x \in Nat : (x = 0 \/ damaged) /\ GoodBut(hdr, bin, AllWrites, x, Awaited)

\* The indices still to be written while an object's or the dummies are.
IndicesIn(s) == {s[n].idx : n \in DOMAIN s}
Coming == CASE pc = "header" -> IndicesIn(pending)
            [] pc = "data"   -> IndicesIn(Tail(pending))
            [] OTHER         -> {}

Extracting ==
    \/ pc \in {"header", "data"}
    \/ InFwCutter("brcmsmac") /\ (pc = "object" \/ (pc = "idle" /\ status = "ok"))

AllButOneThere ==
    (origin = "cutter" /\ Extracting) =>
        \E y : (y = None \/ damaged) /\ Written(k) \subseteq Coming \cup IndicesIn(hdr) \cup {y}

Phases ==
    /\ pc \in {"clear", "clear header"} => k = 1
    /\ pc = "clear header" => origin = "old"
    /\ pc = "write hdr" => origin = "merge"
    /\ pc \in {"parse", "sections", "write bin", "write hdr"} => cmd.tool = "fwconv"
    /\ (pc = "idle" /\ InFwCutter("brcmsmac") /\ status = "ok") => k > Len(driver.extract) + 1
    /\ pc \in {"header", "data"} => Elements(pending) \subseteq AllWrites
    /\ (origin = "cutter" /\ damaged) => faulty
-----------------------------------------------------------------------------
\* The driver's objects: whole records, 32-bit lengths, one object of each name.
LEMMA ObjectFacts ==
    ASSUME driver \in Drivers
    PROVE  /\ driver.le \in BOOLEAN
           /\ \A o \in Objects :
                 /\ o \in ObjectType /\ Is32Bit(Len(o.data))
                 /\ o.type = "iv" => o.data # <<>> /\ Len(o.data) % 8 = 0
           /\ \A o, p \in Objects : o.name = p.name => o = p
<1>1. /\ driver.le \in BOOLEAN /\ driver.extract \in Seq(ObjectType)
      /\ \A n \in DOMAIN driver.extract :
            LET o == driver.extract[n]
            IN  /\ o.type = "iv" => o.data # <<>> /\ Len(o.data) % 8 = 0
                /\ Is32Bit(Len(o.data))
                /\ \A m \in DOMAIN driver.extract : driver.extract[m].name = o.name => m = n
  BY FwCutterAssumption
<1>2. \A n \in DOMAIN driver.extract : driver.extract[n] \in ObjectType
  BY <1>1
<1> QED BY <1>1, <1>2 DEF Objects

\* The values of an object in big endian, as in a file for b43, and in little
\* endian, as in the data file.
LEMMA BigEndianMeans ==
    ASSUME driver \in Drivers, NEW o \in Objects
    PROVE  /\ BigEndian(o) \in Seq(Nat) /\ Len(BigEndian(o)) = Len(o.data)
           /\ SameValues(o, FALSE, BigEndian(o))
<1>1. /\ driver.le \in BOOLEAN /\ o.data \in Seq(Nat)
      /\ o.type = "iv" => Len(o.data) % 8 = 0
  BY ObjectFacts DEF ObjectType
<1>2. CASE ~driver.le
  BY <1>1, <1>2 DEF BigEndian, SameValues
<1>3. CASE driver.le /\ o.type = "iv"
  <2>1. BigEndian(o) = SwapIvs(o.data)
    BY <1>3 DEF BigEndian, Swap
  <2>2. SameMeaning("iv", TRUE, SwapIvs(o.data), o.data)
    BY <1>1, <1>3, SwappedIvsMeanTheSame
  <2>3. SwapIvs(o.data) \in Seq(Nat) /\ Len(SwapIvs(o.data)) = Len(o.data)
    BY <1>1, <1>3, SwapIvsType
  <2> QED BY <1>1, <1>3, <2>1, <2>2, <2>3 DEF SameMeaning, SameValues
<1>4. CASE driver.le /\ o.type # "iv"
  <2>1. BigEndian(o) = SwapWords(o.data)
    BY <1>4 DEF BigEndian, Swap
  <2>2. SameMeaning(o.type, TRUE, SwapWords(o.data), o.data)
    BY <1>1, <1>4, SwappedWordsMeanTheSame
  <2>3. SwapWords(o.data) \in Seq(Nat) /\ Len(SwapWords(o.data)) = Len(o.data)
    BY <1>1, <1>4, SwapWordsType
  <2> QED BY <1>1, <1>4, <2>1, <2>2, <2>3 DEF SameMeaning, SameValues
<1> QED BY <1>2, <1>3, <1>4

LEMMA LittleEndianMeans ==
    ASSUME driver \in Drivers, NEW o \in Objects
    PROVE  SameValues(o, TRUE, LittleEndian(o))
<1>1. /\ driver.le \in BOOLEAN /\ o.data \in Seq(Nat)
      /\ o.type = "iv" => Len(o.data) % 8 = 0
  BY ObjectFacts DEF ObjectType
<1>2. CASE o.type = "ucode"
  <2> DEFINE be == BigEndian(o)
  <2>1. be \in Seq(Nat) /\ Values(o.type, FALSE, be) = Values(o.type, driver.le, o.data)
    BY BigEndianMeans DEF SameValues
  <2> HIDE DEF be
  <2>2. SameMeaning(o.type, FALSE, SwapWords(be), be)
    BY <1>2, <2>1, SwappedWordsMeanTheSame
  <2>3. LittleEndian(o) = SwapWords(be)
    BY <1>2 DEF LittleEndian, be
  <2> QED BY <2>1, <2>2, <2>3 DEF SameMeaning, SameValues
<1>3. CASE o.type # "ucode" /\ driver.le
  BY <1>1, <1>3 DEF LittleEndian, SameValues
<1>4. CASE o.type # "ucode" /\ ~driver.le
  <2>1. LittleEndian(o) = Swap(o.type, o.data)
    BY <1>4 DEF LittleEndian
  <2>2. CASE o.type = "iv"
    <3>1. SameMeaning("iv", FALSE, SwapIvs(o.data), o.data)
      BY <1>1, <2>2, SwappedIvsMeanTheSame
    <3> QED BY <1>1, <1>4, <2>1, <2>2, <3>1 DEF SameMeaning, SameValues, Swap
  <2>3. CASE o.type # "iv"
    <3>1. SameMeaning(o.type, FALSE, SwapWords(o.data), o.data)
      BY <1>1, <2>3, SwappedWordsMeanTheSame
    <3> QED BY <1>1, <1>4, <2>1, <2>3, <3>1 DEF SameMeaning, SameValues, Swap
  <2> QED BY <2>2, <2>3
<1> QED BY <1>1, <1>2, <1>3, <1>4

\* to_le32, read from its most significant byte.
LEMMA NumberOfLe32 ==
    ASSUME NEW n \in Nat, Is32Bit(n)
    PROVE  /\ Reverse(Le32(n)) \in Seq(Nat) /\ Len(Reverse(Le32(n))) = 4
           /\ IsNumber(Reverse(Le32(n)), n)
<1> DEFINE b == Le32(n)
           r == Reverse(b)
           b1 == n % 256
           b2 == (n \div 256) % 256
           b3 == (n \div 65536) % 256
           b4 == n \div 16777216
<1>1. b = <<b1, b2, b3, b4>>
  BY SMT DEF Le32
<1>2. b1 \in 0 .. 255 /\ b2 \in 0 .. 255 /\ b3 \in 0 .. 255 /\ b4 \in 0 .. 255
  BY SMT DEF Is32Bit
<1>3. n = 16777216 * b4 + 65536 * b3 + 256 * b2 + b1
  BY SMT
<1> HIDE DEF b1, b2, b3, b4
<1>4. b[1] = b1 /\ b[2] = b2 /\ b[3] = b3 /\ b[4] = b4
  BY <1>1
<1>5. r = [i \in 1 .. 4 |-> b[5 - i]]
  <2>1. Len(b) = 4
    BY <1>1
  <2>2. r = [i \in 1 .. Len(b) |-> b[(Len(b) - i) + 1]]
    BY DEF Reverse
  <2> HIDE DEF b, r
  <2>3. \A i \in 1 .. 4 : (4 - i) + 1 = 5 - i
    OBVIOUS
  <2> QED BY <2>1, <2>2, <2>3
<1> HIDE DEF b, r
<1>6. r[1] = b4 /\ r[2] = b3 /\ r[3] = b2 /\ r[4] = b1
  BY <1>4, <1>5
<1>7. \A i \in 1 .. 4 : r[i] \in 0 .. 255
  <2>1. \A i \in 1 .. 4 : i = 1 \/ i = 2 \/ i = 3 \/ i = 4
    OBVIOUS
  <2> QED BY <1>2, <1>6, <2>1
<1>8. r \in Seq(Nat) /\ Len(r) = 4
  <2>1. r \in [1 .. 4 -> Nat]
    BY <1>5, <1>7
  <2> QED BY <2>1, FunctionIsSequence
<1>9. IsNumber(r, n)
  BY <1>3, <1>6, <1>7, <1>8, SMT DEF IsNumber
<1> QED BY <1>8, <1>9 DEF r, b

\* A sequence with another one behind it.
IsJoined(S, u, s, t, n) ==
    /\ u \in Seq(S) /\ Len(u) = n + Len(t) /\ Len(t) \in Nat
    /\ \A j \in 1 .. n : u[j] = s[j]
    /\ \A j \in 1 .. Len(t) : u[n + j] = t[j]

LEMMA JoinedFacts ==
    ASSUME NEW S, NEW s \in Seq(S), NEW t \in Seq(S), NEW n, n = Len(s)
    PROVE  IsJoined(S, s \o t, s, t, n)
BY DEF IsJoined

\* The header of a file for b43, and the number in it.
LEMMA HeaderFacts ==
    ASSUME NEW type \in {"ucode", "pcm", "iv"}, NEW n \in Nat, Is32Bit(n)
    PROVE  /\ Header(type, n) \in Seq(Nat) /\ Len(Header(type, n)) = 8
           /\ SubSeq(Header(type, n), 4 + 1, 4 + 4) = Reverse(Le32(n))
           /\ Header(type, n)[1] = TypeLetter[type] /\ Header(type, n)[2] = 1
<1> DEFINE r == Reverse(Le32(n))
           a == <<TypeLetter[type], 1, 0, 0>>
           h == a \o r
<1>1. r \in Seq(Nat) /\ Len(r) = 4
  BY NumberOfLe32
<1>2. a \in Seq(Nat) /\ Len(a) = 4 /\ a[1] = TypeLetter[type] /\ a[2] = 1
  BY DEF TypeLetter
<1> HIDE DEF a, r
<1>3. /\ h \in Seq(Nat) /\ Len(h) = 8 /\ h[1] = a[1] /\ h[2] = a[2]
      /\ \A j \in 1 .. Len(r) : h[4 + j] = r[j]
  <2>1. IsJoined(Nat, h, a, r, 4)
    BY <1>1, <1>2, JoinedFacts
  <2> HIDE DEF h
  <2> QED BY <1>1, <2>1 DEF IsJoined
<1> HIDE DEF h
<1>4. SubSeq(h, 4 + 1, 4 + Len(r)) = r
  BY <1>1, <1>3, SubSeqIs
<1>5. h = Header(type, n)
  BY DEF h, a, r, Header
<1> QED BY <1>1, <1>2, <1>3, <1>4, <1>5 DEF r

\* A header with what follows it.
LEMMA BehindHeader ==
    ASSUME NEW h \in Seq(Nat), Len(h) = 8, NEW d \in Seq(Nat)
    PROVE  /\ h \o d \in Seq(Nat) /\ Len(h \o d) = 8 + Len(d)
           /\ SubSeq(h \o d, 5, 8) = SubSeq(h, 4 + 1, 4 + 4)
           /\ SubSeq(h \o d, 9, Len(h \o d)) = d
           /\ (h \o d)[1] = h[1] /\ (h \o d)[2] = h[2]
           /\ \A j \in 1 .. Len(d) : (h \o d)[8 + j] = d[j]
<1> DEFINE f == h \o d
<1>1. /\ f \in Seq(Nat) /\ Len(f) = 8 + Len(d) /\ f[1] = h[1] /\ f[2] = h[2] /\ Len(d) \in Nat
      /\ \A j \in 1 .. Len(d) : f[8 + j] = d[j]
  <2>1. IsJoined(Nat, f, h, d, 8)
    BY JoinedFacts
  <2> HIDE DEF f
  <2> QED BY <2>1 DEF IsJoined
<1>2. SubSeq(h \o d, 4 + 1, 8) = SubSeq(h, 4 + 1, 8)
  <2> DEFINE i == 4
             n == 8
  <2>1. i \in Nat /\ n \in Nat /\ n <= Len(h)
    OBVIOUS
  <2> HIDE DEF i, n
  <2>2. SubSeq(h \o d, i + 1, n) = SubSeq(h, i + 1, n)
    BY <2>1, SubSeqOfLonger
  <2> QED BY <2>2 DEF i, n
<1>3. 4 + 1 = 5 /\ 4 + 4 = 8 /\ 8 + 1 = 9
  OBVIOUS
<1> HIDE DEF f
<1>4. SubSeq(f, 8 + 1, 8 + Len(d)) = d
  BY <1>1, SubSeqIs
<1>5. SubSeq(f, 9, Len(f)) = d
  BY <1>1, <1>3, <1>4
<1> QED BY <1>1, <1>2, <1>3, <1>5 DEF f

\* The records that build_ivs makes of initvals.
LEMMA RecordsType ==
    ASSUME NEW d \in Seq(Nat)
    PROVE  /\ DOMAIN Records(d) = 1 .. Len(d) \div 8 /\ Len(d) \div 8 \in Nat
           /\ \A n \in DOMAIN Records(d) : Records(d)[n] \in Seq(Nat) /\ IsPart(Records(d)[n], d, 8 * (n - 1), 8)
<1> DEFINE N == Len(d) \div 8
<1>1. Len(d) \in Nat /\ N \in Nat /\ 8 * N <= Len(d)
  OBVIOUS
<1>2. Records(d) = [n \in 1 .. N |-> SubSeq(d, 8 * n - 7, 8 * n)]
  BY DEF Records
<1> HIDE DEF N
<1>3. ASSUME NEW n \in 1 .. N
      PROVE  SubSeq(d, 8 * n - 7, 8 * n) \in Seq(Nat) /\ IsPart(SubSeq(d, 8 * n - 7, 8 * n), d, 8 * (n - 1), 8)
  <2> DEFINE i == 8 * (n - 1)
             e == 8
  <2>1. i \in Nat /\ e \in Nat /\ i + e <= Len(d) /\ i + 1 = 8 * n - 7 /\ i + e = 8 * n
    BY <1>1
  <2> HIDE DEF i, e
  <2>2. SubSeq(d, i + 1, i + e) \in Seq(Nat) /\ IsPart(SubSeq(d, i + 1, i + e), d, i, e)
    BY <2>1, PartFacts
  <2> QED BY <2>1, <2>2 DEF i, e
<1> QED BY <1>1, <1>2, <1>3 DEF N

\* A record of a file for b43, and all of them.
LEMMA B43IvType ==
    ASSUME NEW iv \in Seq(Nat), Len(iv) = 8
    PROVE  B43Iv(iv) \in Seq(Nat)
<1>1. \A j \in 1 .. 8 : iv[j] \in Nat
  <2>1. \A j \in 1 .. Len(iv) : iv[j] \in Nat
    BY ElementOfSeq
  <2> QED BY <2>1
<1>2. iv[1] + 128 \in Nat
  BY <1>1
<1>3. <<iv[1] + 128, iv[2]>> \in Seq(Nat) /\ <<iv[1], iv[2], iv[7], iv[8]>> \in Seq(Nat)
  BY <1>1, <1>2
<1>4. SubSeq(iv, 5, 8) \in Seq(Nat)
  <2> DEFINE i == 4
             e == 4
  <2>1. i \in Nat /\ e \in Nat /\ i + e <= Len(iv) /\ i + 1 = 5 /\ i + e = 8
    OBVIOUS
  <2> HIDE DEF i, e
  <2>2. SubSeq(iv, i + 1, i + e) \in Seq(Nat)
    BY <2>1, PartFacts
  <2> QED BY <2>1, <2>2
<1>5. <<iv[1] + 128, iv[2]>> \o SubSeq(iv, 5, 8) \in Seq(Nat)
  BY <1>3, <1>4
<1> QED BY <1>3, <1>5 DEF B43Iv

LEMMA BuiltIvsType ==
    ASSUME NEW d \in Seq(Nat)
    PROVE  BuiltIvs(d) \in Seq(Nat)
<1> DEFINE built == [n \in DOMAIN Records(d) |-> B43Iv(Records(d)[n])]
<1>1. \A n \in DOMAIN Records(d) : B43Iv(Records(d)[n]) \in Seq(Nat)
  BY RecordsType, B43IvType DEF IsPart
<1>2. built \in [1 .. Len(d) \div 8 -> Seq(Nat)] /\ Len(d) \div 8 \in Nat
  BY <1>1, RecordsType
<1> HIDE DEF built
<1>3. built \in Seq(Seq(Nat))
  BY <1>2, FunctionIsSequence
<1>4. FlattenSeq(built) \in Seq(Nat)
  BY <1>3, FlattenType
<1> QED BY <1>4 DEF BuiltIvs, built

\* What a file for b43 says of its object.
FileMeans(file, o) ==
    /\ file \in Seq(Nat)
    /\ IsNumber(SubSeq(file, 5, 8), Len(o.data) \div IF o.type = "iv" THEN 8 ELSE 1)
    /\ o.type = "iv" \/ SameValues(o, FALSE, SubSeq(file, 9, Len(file)))

LEMMA FilesMean ==
    ASSUME driver \in Drivers, NEW o \in Objects
    PROVE  FileMeans(B43File(o.type, BigEndian(o)), o)
<1> DEFINE be == BigEndian(o)
           size == Len(o.data) \div IF o.type = "iv" THEN 8 ELSE 1
           body == IF o.type = "iv" THEN BuiltIvs(be) ELSE be
           h == Header(o.type, size)
<1>1. be \in Seq(Nat) /\ Len(be) = Len(o.data) /\ SameValues(o, FALSE, be)
  BY BigEndianMeans
<1>2. /\ o.type \in {"ucode", "pcm", "iv"} /\ o.data \in Seq(Nat) /\ Len(o.data) \in Nat
      /\ Is32Bit(Len(o.data))
  <2>1. o \in ObjectType /\ Is32Bit(Len(o.data))
    BY ObjectFacts
  <2>2. o.type \in {"ucode", "pcm", "iv"} /\ o.data \in Seq(Nat)
    BY <2>1 DEF ObjectType
  <2> QED BY <2>1, <2>2
<1>3. size \in Nat /\ Is32Bit(size)
  <2> DEFINE l == Len(o.data)
             w == IF o.type = "iv" THEN 8 ELSE 1
  <2>1. l \in Nat /\ Is32Bit(l) /\ (w = 8 \/ w = 1)
    BY <1>2
  <2> HIDE DEF l, w
  <2>2. w = 8 => l \div w \in Nat /\ Is32Bit(l \div w)
    BY <2>1, SMT DEF Is32Bit
  <2>3. w = 1 => l \div w \in Nat /\ Is32Bit(l \div w)
    BY <2>1, SMT DEF Is32Bit
  <2> QED BY <2>1, <2>2, <2>3 DEF l, w
<1>4. body \in Seq(Nat)
  BY <1>1, BuiltIvsType
<1>5. B43File(o.type, be) = h \o body
  <2>1. o.type # "iv" => size = Len(be)
    <3> DEFINE l == Len(o.data)
    <3>0. l \in Nat
      BY <1>2
    <3> HIDE DEF l
    <3>2. l \div 1 = l
      BY <3>0
    <3>1. Len(o.data) \div 1 = Len(o.data)
      BY <3>2 DEF l
    <3> QED BY <1>1, <3>1
  <2>2. o.type = "iv" => size = Len(be) \div 8
    BY <1>1
  <2> HIDE DEF size, be
  <2> QED BY <2>1, <2>2 DEF B43File
<1>6. /\ h \in Seq(Nat) /\ Len(h) = 8
      /\ SubSeq(h, 4 + 1, 4 + 4) = Reverse(Le32(size))
  <2> HIDE DEF size
  <2> QED BY <1>2, <1>3, HeaderFacts
<1>7. IsNumber(Reverse(Le32(size)), size)
  <2> HIDE DEF size
  <2> QED BY <1>3, NumberOfLe32
<1> HIDE DEF be, size, body, h
<1>8. /\ h \o body \in Seq(Nat)
      /\ SubSeq(h \o body, 5, 8) = SubSeq(h, 4 + 1, 4 + 4)
      /\ SubSeq(h \o body, 9, Len(h \o body)) = body
  BY <1>4, <1>6, BehindHeader
<1> DEFINE f == h \o body
<1> HIDE DEF f
<1>9. /\ f \in Seq(Nat) /\ SubSeq(f, 5, 8) = Reverse(Le32(size)) /\ SubSeq(f, 9, Len(f)) = body
      /\ B43File(o.type, be) = f
  BY <1>5, <1>6, <1>8 DEF f
<1>10. o.type = "iv" \/ body = be
  BY DEF body
<1>11. IsNumber(SubSeq(f, 5, 8), size)
  BY <1>7, <1>9
<1>12. o.type = "iv" \/ SameValues(o, FALSE, SubSeq(f, 9, Len(f)))
  BY <1>1, <1>9, <1>10
<1> QED BY <1>9, <1>11, <1>12 DEF FileMeans, be, size
-----------------------------------------------------------------------------
\* The first bytes of a file are a beginning of it.
LEMMA PrefixOfFile ==
    ASSUME NEW d \in Seq(Nat), NEW n \in 0 .. Len(d)
    PROVE  IsPrefix(SubSeq(d, 1, n), d)
<1>1. SubSeq(d, 0 + 1, 0 + n) \in Seq(Nat) /\ IsPart(SubSeq(d, 0 + 1, 0 + n), d, 0, n)
  <2>1. 0 \in Nat /\ n \in Nat /\ 0 + n <= Len(d)
    OBVIOUS
  <2> QED BY <2>1, PartFacts
<1> DEFINE p == SubSeq(d, 1, n)
<1>2. Len(p) = n
  <2>1. 0 + 1 = 1 /\ 0 + n = n
    OBVIOUS
  <2> QED BY <1>1, <2>1 DEF IsPart
<1>3. SubSeq(p, 1, n) = p
  <2>1. 0 + 1 = 1 /\ 0 + n = n
    OBVIOUS
  <2>2. p \in Seq(Nat)
    BY <1>1, <2>1
  <2> HIDE DEF p
  <2>3. SubSeq(p, 0 + 1, 0 + Len(p)) = p
    <3>1. 0 \in Nat /\ 0 + Len(p) <= Len(p) /\ \A j \in 1 .. Len(p) : p[0 + j] = p[j]
      BY <2>2
    <3> QED BY <2>2, <3>1, SubSeqIs
  <2> QED BY <1>2, <2>1, <2>3
<1>4. n <= Len(d)
  OBVIOUS
<1> QED BY <1>2, <1>3, <1>4 DEF IsPrefix

NewFileOf(o) == B43File(o.type, BigEndian(o))

\* The file that write_file makes.
LEMMA NewFileType ==
    ASSUME driver \in Drivers, NEW o \in Objects
    PROVE  /\ NewFileOf(o) \in Seq(Nat) /\ Len(NewFileOf(o)) \in Nat
           /\ <<>> = SubSeq(NewFileOf(o), 1, 0)
           /\ NewFileOf(o) = SubSeq(NewFileOf(o), 1, Len(NewFileOf(o)))
<1>1. NewFileOf(o) \in Seq(Nat)
  BY FilesMean DEF FileMeans, NewFileOf
<1> DEFINE f == NewFileOf(o)
<1> HIDE DEF f
<1>2. f \in Seq(Nat) /\ Len(f) \in Nat
  BY <1>1 DEF f
<1>3. <<>> = SubSeq(f, 1, 0)
  BY <1>2
<1>4. f = SubSeq(f, 1, Len(f))
  BY <1>2
<1> QED BY <1>2, <1>3, <1>4 DEF f

\* The object that main's loop is at.
LEMMA ObjectIsOne ==
    ASSUME driver \in Drivers, k \in DOMAIN driver.extract
    PROVE  /\ Object \in Objects /\ Object.name \in Names
           /\ \A o \in Objects : o.name = Object.name => o = Object
BY ObjectFacts DEF Object, Objects, Names

\* No file is touched.
LEMMA FilesQuiet ==
    ASSUME FilesInv, UNCHANGED <<driver, files>>, pc # "write", pc' # "write", faulty => faulty'
    PROVE  FilesInv'
<1>1. Names' = Names /\ Objects' = Objects
  BY DEF Names, Objects
<1>2. \A o : BigEndian(o)' = BigEndian(o) /\ (Refused(o)' <=> Refused(o))
  BY DEF BigEndian, Refused
<1>3. \A o \in Objects : files[o.name] # None => IsFileOf(files[o.name], o)
  BY DEF FilesInv
<1>4. \A o \in Objects : files'[o.name] # None => IsFileOf(files[o.name], o)'
  BY <1>2, <1>3 DEF IsFileOf
<1>5. files' = [name \in Names |-> files'[name]]
  BY DEF FilesInv
<1> QED BY <1>1, <1>4, <1>5 DEF FilesInv

\* The object's file is made.
LEMMA FilesWritten ==
    ASSUME FilesInv, driver \in Drivers, driver' = driver, pc = "write", pc' # "write",
           faulty => faulty',
           NEW file, files' = [files EXCEPT ![Object.name] = file],
           \E n \in 0 .. Len(NewFileOf(Object)) : file = SubSeq(NewFileOf(Object), 1, n),
           ~faulty' => file = NewFileOf(Object)
    PROVE  FilesInv'
<1>1. Names' = Names /\ Objects' = Objects
  BY DEF Names, Objects
<1>2. \A o : BigEndian(o)' = BigEndian(o) /\ (Refused(o)' <=> Refused(o))
  BY DEF BigEndian, Refused
<1>3. /\ k \in DOMAIN driver.extract /\ ~Refused(Object) /\ DOMAIN files = Names
      /\ \A o \in Objects : files[o.name] # None /\ o # Object => IsFileOf(files[o.name], o)
  <2>1. files = [name \in Names |-> files[name]]
    BY DEF FilesInv
  <2> QED BY <2>1 DEF FilesInv
<1>4. /\ Object \in Objects /\ Object.name \in Names
      /\ \A o \in Objects : o.name = Object.name => o = Object
  BY <1>3, ObjectIsOne
<1>5. files' = [name \in Names |-> files'[name]]
  BY <1>3
<1>6. \A o \in Objects : files'[o.name] # None => IsFileOf(files[o.name], o)'
  <2> TAKE o \in Objects
  <2> HAVE files'[o.name] # None
  <2>1. CASE o = Object
    <3>1. files'[o.name] = file
      BY <1>3, <1>4, <2>1
    <3> QED BY <1>2, <1>3, <2>1, <3>1 DEF IsFileOf, NewFileOf
  <2>2. CASE o # Object
    <3>1. files'[o.name] = files[o.name]
      BY <1>3, <1>4, <2>2
    <3>2. IsFileOf(files[o.name], o)
      BY <1>3, <2>2, <3>1
    <3> QED BY <1>2, <3>1, <3>2 DEF IsFileOf
  <2> QED BY <2>1, <2>2
<1> QED BY <1>1, <1>5, <1>6 DEF FilesInv

\* What a failing write leaves is a beginning.
LEMMA PiecesAre ==
    ASSUME NEW d \in Seq(Nat), NEW p \in Pieces(d)
    PROVE  \E n \in 0 .. Len(d) : p = SubSeq(d, 1, n)
<1>1. PICK n \in 0 .. Len(d) - 1 : p = SubSeq(d, 1, n)
  BY DEF Pieces
<1>2. n \in 0 .. Len(d)
  BY <1>1
<1> QED BY <1>1, <1>2

\* Every step keeps what is known of the files for b43.
LEMMA FilesStep ==
    ASSUME ConvInv, FilesInv, [Next]_vars
    PROVE  FilesInv'
<1> USE DEF convVars, user, store, End, InFwCutter, others
<1>0. driver \in Drivers /\ k \in Nat \ {0} /\ (pc = "write" => InFwCutter("b43"))
  BY DEF ConvInv, ConvTypeOK
<1>1. /\ DOMAIN driver.extract = 1 .. Len(driver.extract) /\ Len(driver.extract) \in Nat
  BY <1>0, DriverFacts
<1>2. CASE UNCHANGED vars
  <2>1. CASE pc = "write"
    <3>1. UNCHANGED <<driver, files, faulty, k, pc>>
      BY <1>2 DEF vars, cutterVars
    <3>2. Names' = Names /\ Objects' = Objects /\ Object' = Object
      BY <3>1 DEF Names, Objects, Object
    <3>3. \A o : BigEndian(o)' = BigEndian(o) /\ (Refused(o)' <=> Refused(o))
      BY <3>1 DEF BigEndian, Refused
    <3>4. Refused(Object)' <=> Refused(Object)
      BY <3>1, <3>2 DEF BigEndian, Refused
    <3> QED BY <3>1, <3>2, <3>3, <3>4 DEF FilesInv, IsFileOf
  <2>2. CASE pc # "write"
    BY <1>2, <2>2, FilesQuiet DEF vars, cutterVars
  <2> QED BY <2>1, <2>2
<1>3. CASE OpenFile
  <2>1. /\ k \in DOMAIN driver.extract /\ ~Refused(Object) /\ pc = "object" /\ pc' = "write"
        /\ files' = [files EXCEPT ![Object.name] = <<>>]
        /\ UNCHANGED <<driver, k, faulty>>
    BY <1>0, <1>1, <1>3 DEF OpenFile, AtObject
  <2>2. /\ Object \in Objects /\ Object.name \in Names
        /\ \A o \in Objects : o.name = Object.name => o = Object
    BY <1>0, <2>1, ObjectIsOne
  <2>3. Names' = Names /\ Objects' = Objects /\ Object' = Object
    BY <2>1 DEF Names, Objects, Object
  <2>4. \A o : BigEndian(o)' = BigEndian(o) /\ (Refused(o)' <=> Refused(o))
    BY <2>1 DEF BigEndian, Refused
  <2>5. ~Refused(Object)'
    BY <2>1, <2>3 DEF BigEndian, Refused
  <2>6. /\ DOMAIN files = Names
        /\ \A o \in Objects : files[o.name] # None => IsFileOf(files[o.name], o)
    <3>1. files = [name \in Names |-> files[name]]
      BY DEF FilesInv
    <3> QED BY <2>1, <3>1 DEF FilesInv
  <2>7. files' = [name \in Names |-> files'[name]] /\ files'[Object.name] = <<>>
    BY <2>1, <2>2, <2>6
  <2>8. \A o \in Objects : o # Object => files'[o.name] = files[o.name]
    BY <2>1, <2>2, <2>6
  <2>9. \A o \in Objects : (o # Object /\ files'[o.name] # None) => IsFileOf(files[o.name], o)'
    BY <2>1, <2>4, <2>6, <2>8 DEF IsFileOf
  <2> QED BY <2>1, <2>3, <2>5, <2>7, <2>9 DEF FilesInv
<1>4. ASSUME pc = "write"
      PROVE  /\ Object \in Objects /\ NewFileOf(Object) \in Seq(Nat)
             /\ files[Object.name] = <<>> /\ files = [files EXCEPT ![Object.name] = <<>>]
             /\ \E n \in 0 .. Len(NewFileOf(Object)) : <<>> = SubSeq(NewFileOf(Object), 1, n)
             /\ \E n \in 0 .. Len(NewFileOf(Object)) : NewFileOf(Object) = SubSeq(NewFileOf(Object), 1, n)
  <2>1. Object \in Objects
    BY <1>0, <1>4, ObjectIsOne DEF FilesInv
  <2>2. /\ NewFileOf(Object) \in Seq(Nat) /\ Len(NewFileOf(Object)) \in Nat
        /\ <<>> = SubSeq(NewFileOf(Object), 1, 0)
        /\ NewFileOf(Object) = SubSeq(NewFileOf(Object), 1, Len(NewFileOf(Object)))
    BY <1>0, <2>1, NewFileType
  <2>3. files[Object.name] = <<>> /\ files = [files EXCEPT ![Object.name] = <<>>]
    <3>1. files[Object.name] = <<>> /\ files = [name \in Names |-> files[name]]
      BY <1>4 DEF FilesInv
    <3>2. files = [files EXCEPT ![Object.name] = files[Object.name]]
      BY <3>1
    <3> QED BY <3>1, <3>2
  <2>4. 0 \in 0 .. Len(NewFileOf(Object)) /\ Len(NewFileOf(Object)) \in 0 .. Len(NewFileOf(Object))
    BY <2>2
  <2> QED BY <2>1, <2>2, <2>3, <2>4
<1>5. CASE WriteFile
  BY <1>0, <1>4, <1>5, FilesWritten DEF WriteFile, NewFile, NewFileOf
<1>6. CASE WriteFileFails
  <2>1. PICK piece \in Pieces(NewFileOf(Object)) : files' = [files EXCEPT ![Object.name] = piece]
    BY <1>6 DEF WriteFileFails, NewFile, NewFileOf
  <2>2. \E n \in 0 .. Len(NewFileOf(Object)) : piece = SubSeq(NewFileOf(Object), 1, n)
    <3>1. NewFileOf(Object) \in Seq(Nat)
      BY <1>4, <1>6 DEF WriteFileFails
    <3> QED BY <3>1, PiecesAre
  <2>3. pc = "write" /\ pc' # "write" /\ faulty' = TRUE /\ driver' = driver
    BY <1>6 DEF WriteFileFails
  <2> QED BY <1>0, <2>1, <2>2, <2>3, FilesWritten
<1>7. CASE Killed
  <2>1. pc' # "write" /\ faulty' = TRUE /\ UNCHANGED <<driver, files>>
    BY <1>7 DEF Killed
  <2>2. CASE pc = "write"
    BY <1>0, <1>4, <2>1, <2>2, FilesWritten
  <2>3. CASE pc # "write"
    BY <2>1, <2>3, FilesQuiet
  <2> QED BY <2>2, <2>3
<1>8. CASE FwCutterNext /\ UNCHANGED convVars /\ ~OpenFile /\ ~WriteFile /\ ~WriteFileFails /\ ~Killed
  <2>1. pc # "write" /\ pc' # "write" /\ UNCHANGED <<driver, files>> /\ (faulty => faulty')
    <3>1. CASE RunFwCutter
      BY <3>1 DEF RunFwCutter, Run
    <3>2. CASE NotFound
      BY <3>2 DEF NotFound
    <3>3. CASE Found
      BY <3>3 DEF Found
    <3>4. CASE ReadFails
      BY <3>4 DEF ReadFails
    <3>5. CASE ConversionError
      BY <3>5 DEF ConversionError, AtObject
    <3>6. CASE Identify
      BY <3>6 DEF Identify, AtObject
    <3>7. CASE OpenFails
      BY <3>7 DEF OpenFails, AtObject
    <3>8. CASE LastObject
      BY <3>8 DEF LastObject
    <3>9. CASE ClearBin
      BY <3>9 DEF ClearBin
    <3>10. CASE ClearHeader
      BY <3>10 DEF ClearHeader
    <3>11. CASE ClearFails
      BY <3>11 DEF ClearFails
    <3>12. CASE SkipObject
      BY <3>12 DEF SkipObject, AtObject
    <3>13. CASE ConvertObject
      BY <3>13 DEF ConvertObject, AtObject
    <3>14. CASE AddDummies
      BY <3>14 DEF AddDummies
    <3>15. CASE LastDummy
      BY <3>15 DEF LastDummy
    <3>16. CASE AppendEntry
      BY <3>16 DEF AppendEntry
    <3>17. CASE AppendEntryFails
      BY <3>17 DEF AppendEntryFails
    <3>18. CASE AppendData
      BY <3>18 DEF AppendData, AfterWrite
    <3>19. CASE AppendDataFails
      BY <3>19 DEF AppendDataFails, AfterWrite
    <3> QED BY <1>8, <3>1, <3>2, <3>3, <3>4, <3>5, <3>6, <3>7, <3>8, <3>9, <3>10, <3>11, <3>12, <3>13, <3>14, <3>15, <3>16, <3>17, <3>18, <3>19 DEF FwCutterNext
  <2> QED BY <2>1, FilesQuiet
<1>9. CASE Next /\ ~(FwCutterNext /\ UNCHANGED convVars)
  <2>1. pc # "write" /\ pc' # "write" /\ UNCHANGED <<driver, files>> /\ (faulty => faulty')
    <3>1. CASE RunFwConv
      BY <3>1 DEF RunFwConv, Run
    <3>2. CASE ParseFails
      BY <3>2 DEF ParseFails
    <3>3. CASE Parse
      BY <3>3 DEF Parse
    <3>4. CASE DumpInfo
      BY <3>4 DEF DumpInfo
    <3>5. CASE NoSection
      BY <3>5 DEF NoSection
    <3>6. CASE CannotOpen
      BY <3>6 DEF CannotOpen
    <3>7. CASE ExtractSection
      BY <3>7 DEF ExtractSection
    <3>8. CASE ExtractFails
      BY <3>8 DEF ExtractFails
    <3>9. CASE Confused
      BY <3>9 DEF Confused
    <3>10. CASE MergeSection
      BY <3>10 DEF MergeSection
    <3>11. CASE WriteBin
      BY <3>11 DEF WriteBin
    <3>12. CASE WriteBinFails
      BY <3>12 DEF WriteBinFails
    <3>13. CASE WriteHdr
      BY <3>13 DEF WriteHdr
    <3>14. CASE WriteHdrFails
      BY <3>14 DEF WriteHdrFails
    <3>15. CASE KilledInMerge
      BY <3>15 DEF KilledInMerge
    <3> QED BY <1>9, <3>1, <3>2, <3>3, <3>4, <3>5, <3>6, <3>7, <3>8, <3>9, <3>10, <3>11, <3>12, <3>13, <3>14, <3>15 DEF Next
  <2> QED BY <2>1, FilesQuiet
<1> QED BY <1>2, <1>3, <1>5, <1>6, <1>7, <1>8, <1>9 DEF Next

LEMMA FilesAtFirst ==
    ASSUME ConvInit
    PROVE  FilesInv
<1>1. pc = "idle" /\ files = [name \in Names |-> None]
  BY DEF ConvInit, Init
<1>2. \A o \in Objects : o.name \in Names
  BY DEF Objects, Names
<1> QED BY <1>1, <1>2 DEF FilesInv

\* Every file of an extraction for b43 is a beginning of the object's file and, if
\* nothing went wrong, has a header that counts what follows and the driver's
\* values, after any number of extractions (extract_or_identify, write_file).
THEOREM FilesHaveDriverData == Spec => []FilesAreDriverData
<1>1. ConvInit => ConvInv /\ FilesInv
  BY ConvInvAtFirst, FilesAtFirst
<1>2. ConvInv /\ FilesInv /\ [Next]_vars => (ConvInv /\ FilesInv)'
  BY ConvStep, FilesStep
<1>3. ConvInv /\ FilesInv => FilesAreDriverData
  <2> SUFFICES ASSUME ConvInv, FilesInv, NEW o \in Objects,
                      files[o.name] # None, ~(pc = "write" /\ o = Object)
               PROVE  LET file == files[o.name]
                      IN  /\ IsPrefix(file, NewFileOf(o))
                          /\ ~faulty =>
                               /\ IsNumber(SubSeq(file, 5, 8), Len(o.data) \div IF o.type = "iv" THEN 8 ELSE 1)
                               /\ o.type = "iv" \/ SameValues(o, FALSE, SubSeq(file, 9, Len(file)))
    BY DEF FilesAreDriverData, NewFileOf
  <2>1. IsFileOf(files[o.name], o)
    BY DEF FilesInv
  <2>2. driver \in Drivers
    BY DEF ConvInv, ConvTypeOK
  <2>3. IsPrefix(files[o.name], NewFileOf(o))
    <3>1. PICK n \in 0 .. Len(NewFileOf(o)) : files[o.name] = SubSeq(NewFileOf(o), 1, n)
      BY <2>1 DEF IsFileOf, NewFileOf
    <3>2. NewFileOf(o) \in Seq(Nat)
      BY <2>2, NewFileType
    <3> QED BY <3>1, <3>2, PrefixOfFile
  <2>4. ~faulty => FileMeans(files[o.name], o)
    BY <2>1, <2>2, FilesMean DEF IsFileOf
  <2> QED BY <2>3, <2>4 DEF FileMeans
<1> QED BY <1>1, <1>2, <1>3, PTL DEF Spec
-----------------------------------------------------------------------------
\* What an extraction writes depends on the driver alone.
LEMMA AllWritesKept ==
    ASSUME driver' = driver
    PROVE  AllWrites' = AllWrites /\ Objects' = Objects
<1>1. Objects' = Objects
  BY DEF Objects
<1>2. \A o : WritesOf(o)' = WritesOf(o)
  BY DEF WritesOf, LittleEndian, BigEndian, SizeOf
<1>3. Dummies' = Dummies
  BY DEF Dummies
<1> QED BY <1>1, <1>2, <1>3 DEF AllWrites, Elements

\* The writes of an object: its data, and its size where the file has an entry for it.
LEMMA WritesOfAre ==
    ASSUME NEW o, NEW w \in Elements(WritesOf(o))
    PROVE  \/ w = Write(BrcmIndex[o.name], LittleEndian(o))
           \/ o.name \in DOMAIN SizeIndex /\ w = Write(SizeIndex[o.name], SizeOf(o))
<1> DEFINE a == Write(BrcmIndex[o.name], LittleEndian(o))
           b == Write(SizeIndex[o.name], SizeOf(o))
<1>1. WritesOf(o) = IF o.name \in DOMAIN SizeIndex THEN <<a>> \o <<b>> ELSE <<a>> \o <<>>
  BY DEF WritesOf
<1> HIDE DEF a, b
<1>2. <<a>> \o <<b>> = <<a, b>>
  <2>1. a \in {a, b} /\ b \in {a, b}
    OBVIOUS
  <2> QED BY ONLY <2>1, TwoTogether
<1>3. <<a>> \o <<>> = <<a>>
  OBVIOUS
<1>4. \A m \in DOMAIN <<a, b>> : <<a, b>>[m] \in {a, b}
  OBVIOUS
<1>5. \A m \in DOMAIN <<a>> : <<a>>[m] = a
  OBVIOUS
<1>6. CASE o.name \in DOMAIN SizeIndex
  <2>1. WritesOf(o) = <<a, b>>
    BY <1>1, <1>2, <1>6
  <2> QED BY <1>4, <1>6, <2>1 DEF Elements, a, b
<1>7. CASE o.name \notin DOMAIN SizeIndex
  <2>1. WritesOf(o) = <<a>>
    BY <1>1, <1>3, <1>7
  <2> QED BY <1>5, <1>7, <2>1 DEF Elements, a, b
<1> QED BY <1>6, <1>7

\* The indices of an object's writes, all of them.
LEMMA WritesOfHave ==
    ASSUME NEW o, o.name \in DOMAIN BrcmIndex
    PROVE  IndicesOf(o) \subseteq IndicesIn(WritesOf(o))
<1> DEFINE a == Write(BrcmIndex[o.name], LittleEndian(o))
           b == Write(SizeIndex[o.name], SizeOf(o))
<1>1. WritesOf(o) = IF o.name \in DOMAIN SizeIndex THEN <<a>> \o <<b>> ELSE <<a>> \o <<>>
  BY DEF WritesOf
<1>0. a.idx = BrcmIndex[o.name] /\ b.idx = SizeIndex[o.name]
  BY DEF Write
<1> HIDE DEF a, b
<1>2. <<a>> \o <<b>> = <<a, b>>
  <2>1. a \in {a, b} /\ b \in {a, b}
    OBVIOUS
  <2> QED BY ONLY <2>1, TwoTogether
<1>3. <<a>> \o <<>> = <<a>>
  OBVIOUS
<1>4. {1, 2} \subseteq DOMAIN <<a, b>> /\ <<a, b>>[1] = a /\ <<a, b>>[2] = b
  OBVIOUS
<1>5. {1} \subseteq DOMAIN <<a>> /\ <<a>>[1] = a
  OBVIOUS
<1>6. CASE o.name \in DOMAIN SizeIndex
  <2>1. WritesOf(o) = <<a, b>>
    BY <1>1, <1>2, <1>6
  <2>2. {a.idx, b.idx} \subseteq IndicesIn(WritesOf(o))
    BY <1>4, <2>1 DEF IndicesIn
  <2> QED BY <1>0, <2>2 DEF IndicesOf
<1>7. CASE o.name \notin DOMAIN SizeIndex
  <2>1. WritesOf(o) = <<a>>
    BY <1>1, <1>3, <1>7
  <2>2. a.idx \in IndicesIn(WritesOf(o))
    BY <1>5, <2>1 DEF IndicesIn
  <2> QED BY <1>0, <1>7, <2>2 DEF IndicesOf
<1> QED BY <1>6, <1>7

\* The four empty sections of brcmsmac_add_dummy_entries.
LEMMA DummiesAre ==
    /\ \A w \in Elements(Dummies) : w.idx \in {7, 14, 15} /\ w.data = <<0, 0, 0, 0>>
    /\ {7, 14, 15} \subseteq IndicesIn(Dummies)
<1> DEFINE order == <<7, 14, 15>>
           four == <<0, 0, 0, 0>>
<1>1. \A n \in 1 .. 3 : order[n] \in {7, 14, 15}
  OBVIOUS
<1>2. order[1] = 7 /\ order[2] = 14 /\ order[3] = 15
  OBVIOUS
<1> HIDE DEF order, four
<1>3. Dummies = [n \in 1 .. 3 |-> Write(order[n], four)]
  BY DEF Dummies, order, four
<1>4. DOMAIN Dummies = 1 .. 3
  BY <1>3
<1>5. \A n \in 1 .. 3 : Dummies[n].idx = order[n] /\ Dummies[n].data = four
  BY <1>3 DEF Write
<1>6. 1 \in 1 .. 3 /\ 2 \in 1 .. 3 /\ 3 \in 1 .. 3
  OBVIOUS
<1>7. {7, 14, 15} \subseteq IndicesIn(Dummies)
  BY <1>2, <1>4, <1>5, <1>6 DEF IndicesIn
<1> QED BY <1>1, <1>4, <1>5, <1>7 DEF Elements, four

\* What an extraction writes is right.
LEMMA GoodIsRight ==
    ASSUME driver \in Drivers, NEW e, IsGood(e, bin, AllWrites)
    PROVE  IsRight(e)
<1> DEFINE s == Slice(bin, e)
           w == Write(e.idx, s)
<1>0. w.idx = e.idx /\ w.data = s
  BY DEF Write
<1>1. w \in AllWrites
  BY DEF IsGood
<1> HIDE DEF w
<1>2. CASE w \in Elements(Dummies)
  <2>1. e.idx \in {7, 14, 15} /\ s = <<0, 0, 0, 0>>
    BY <1>0, <1>2, DummiesAre
  <2> QED BY <2>1 DEF IsRight
<1>3. ASSUME NEW o \in Objects, o.name \in DOMAIN BrcmIndex, w \in Elements(WritesOf(o))
      PROVE  IsRight(e)
  <2>1. CASE w = Write(BrcmIndex[o.name], LittleEndian(o))
    <3>1. e.idx = BrcmIndex[o.name] /\ s = LittleEndian(o)
      BY <1>0, <2>1 DEF Write
    <3>2. SameValues(o, TRUE, s)
      BY <3>1, LittleEndianMeans
    <3>3. o \in ObjectAt(e.idx)
      BY <1>3, <3>1 DEF ObjectAt
    <3> QED BY <3>2, <3>3 DEF IsRight
  <2>2. CASE o.name \in DOMAIN SizeIndex /\ w = Write(SizeIndex[o.name], SizeOf(o))
    <3>1. e.idx = SizeIndex[o.name] /\ s = SizeOf(o)
      BY <1>0, <2>2 DEF Write
    <3>2. Len(o.data) \in Nat /\ Is32Bit(Len(o.data))
      <4>1. o \in ObjectType /\ Is32Bit(Len(o.data))
        BY ObjectFacts
      <4> QED BY <4>1 DEF ObjectType
    <3>3. IsNumber(Reverse(Le32(Len(o.data))), Len(o.data))
      BY <3>2, NumberOfLe32
    <3>4. IsNumber(Reverse(s), Len(o.data))
      BY <3>1, <3>3 DEF SizeOf
    <3>5. o \in SizedBy(e.idx)
      BY <2>2, <3>1 DEF SizedBy
    <3> QED BY <3>4, <3>5 DEF IsRight
  <2> QED BY <1>3, <2>1, <2>2, WritesOfAre
<1> QED BY <1>1, <1>2, <1>3 DEF AllWrites
-----------------------------------------------------------------------------
\* More entries may be awaited.
LEMMA GoodWeaker ==
    ASSUME NEW h, NEW b, NEW W, NEW x, NEW A, NEW B, A \subseteq B, GoodBut(h, b, W, x, A)
    PROVE  GoodBut(h, b, W, x, B)
BY DEF GoodBut

\* An entry is announced, or torn.
LEMMA GoodAppended ==
    ASSUME NEW h \in Seq(EntryType \cup {Torn}), NEW e \in EntryType \cup {Torn}, NEW b, NEW W, NEW x, NEW A,
           GoodBut(h, b, W, x, {}), e = Torn \/ e \in A
    PROVE  GoodBut(Append(h, e), b, W, x, A)
<1> DEFINE a == Append(h, e)
<1>1. /\ Len(h) \in Nat /\ DOMAIN h = 1 .. Len(h) /\ Len(a) = Len(h) + 1 /\ DOMAIN a = 1 .. Len(h) + 1
      /\ \A n \in 1 .. Len(h) : a[n] = h[n]
      /\ a[Len(h) + 1] = e
  OBVIOUS
<1> HIDE DEF a
<1>2. ASSUME NEW n \in DOMAIN a
      PROVE  a[n] = Torn \/ n = x \/ (n = Len(a) /\ a[n] \in A) \/ IsGood(a[n], b, W)
  <2>1. CASE n = Len(h) + 1
    BY <1>1, <2>1
  <2>2. CASE n # Len(h) + 1
    <3>1. n \in DOMAIN h
      BY <1>1, <2>2
    <3> QED BY <1>1, <3>1 DEF GoodBut
  <2> QED BY <2>1, <2>2
<1> QED BY <1>2 DEF GoodBut, a

\* Entries lie in the data file, whatever comes behind it.
LEMMA GoodStays ==
    ASSUME NEW e \in EntryType, NEW b \in Seq(Nat), NEW t \in Seq(Nat), NEW W, IsGood(e, b, W)
    PROVE  IsGood(e, b \o t, W)
<1>1. e.offset + e.len <= Len(b) /\ Write(e.idx, Slice(b, e)) \in W
  BY DEF IsGood
<1>2. Slice(b \o t, e) = Slice(b, e) /\ e.offset + e.len <= Len(b \o t)
  BY <1>1, SliceOfLonger
<1> QED BY <1>1, <1>2 DEF IsGood

\* The announced data are appended: the last entry is good, too.
LEMMA GoodAfterData ==
    ASSUME NEW h \in Seq(EntryType \cup {Torn}), NEW b \in Seq(Nat), NEW t \in Seq(Nat), NEW W, NEW x,
           NEW e \in EntryType, e.offset = Len(b), e.len = Len(t), Write(e.idx, t) \in W,
           GoodBut(h, b, W, x, {e})
    PROVE  GoodBut(h, b \o t, W, x, {})
<1>1. IsGood(e, b \o t, W)
  <2>1. Slice(b \o t, e) = t /\ e.offset + e.len <= Len(b \o t)
    BY SliceOfNew
  <2> QED BY <2>1 DEF IsGood
<1>2. \A n \in DOMAIN h : h[n] = Torn \/ h[n] \in EntryType
  OBVIOUS
<1>3. ASSUME NEW n \in DOMAIN h
      PROVE  h[n] = Torn \/ n = x \/ IsGood(h[n], b \o t, W)
  <2>1. CASE h[n] = Torn \/ n = x
    BY <2>1
  <2>2. CASE h[n] = e
    BY <1>1, <2>2
  <2>3. CASE IsGood(h[n], b, W) /\ h[n] \in EntryType
    <3>1. h[n] \in EntryType /\ IsGood(h[n], b, W)
      BY <2>3
    <3> QED BY <3>1, GoodStays
  <2>4. h[n] = Torn \/ n = x \/ h[n] = e \/ IsGood(h[n], b, W)
    BY DEF GoodBut
  <2> QED BY <1>2, <2>1, <2>2, <2>3, <2>4
<1> QED BY <1>3 DEF GoodBut

\* The data of the last entry are not written as announced.
LEMMA GoodButLast ==
    ASSUME NEW h \in Seq(EntryType \cup {Torn}), NEW b \in Seq(Nat), NEW t \in Seq(Nat), NEW W, NEW A,
           GoodBut(h, b, W, 0, A)
    PROVE  GoodBut(h, b, W, Len(h), {}) /\ GoodBut(h, b \o t, W, Len(h), {})
<1>1. \A n \in DOMAIN h : n # 0 /\ (h[n] = Torn \/ h[n] \in EntryType)
  OBVIOUS
<1>2. \A n \in DOMAIN h : h[n] = Torn \/ n = Len(h) \/ (h[n] \in EntryType /\ IsGood(h[n], b, W))
  BY <1>1 DEF GoodBut
<1>3. \A n \in DOMAIN h : h[n] = Torn \/ n = Len(h) \/ IsGood(h[n], b \o t, W)
  BY <1>2, GoodStays
<1> QED BY <1>2, <1>3 DEF GoodBut
-----------------------------------------------------------------------------
\* Neither of the two files is touched.
LEMMA GoodQuiet ==
    ASSUME AllButOneGood, UNCHANGED <<driver, bin, hdr>>, origin' = "cutter" => origin = "cutter",
           damaged => damaged', pc # "data"
    PROVE  AllButOneGood'
<1> SUFFICES ASSUME origin' = "cutter"
             PROVE  \E x \in Nat : (x = 0 \/ damaged') /\ GoodBut(hdr, bin, AllWrites, x, Awaited')
  BY AllWritesKept DEF AllButOneGood
<1>1. PICK x \in Nat : (x = 0 \/ damaged) /\ GoodBut(hdr, bin, AllWrites, x, Awaited)
  BY DEF AllButOneGood
<1>2. Awaited = {}
  BY DEF Awaited
<1>3. GoodBut(hdr, bin, AllWrites, x, Awaited')
  BY <1>1, <1>2, GoodWeaker
<1> QED BY <1>1, <1>3

LEMMA GoodSame ==
    ASSUME AllButOneGood, UNCHANGED <<driver, pc, pending, bin, hdr, origin, damaged>>
    PROVE  AllButOneGood'
<1>1. Awaited' = Awaited
  BY DEF Awaited, NextEntry
<1> QED BY <1>1, AllWritesKept DEF AllButOneGood

\* What GoodBut says in the next state.
LEMMA GoodNext ==
    ASSUME driver' = driver,
           origin' = "cutter" =>
              \E x \in Nat : (x = 0 \/ damaged') /\ GoodBut(hdr', bin', AllWrites, x, Awaited')
    PROVE  AllButOneGood'
BY AllWritesKept DEF AllButOneGood

\* write_file announces an entry, appends a part of one, or appends the data.
LEMMA GoodAnnounced ==
    ASSUME ConvTypeOK, AllButOneGood, AppendEntry
    PROVE  AllButOneGood'
<1>1. /\ pc = "header" /\ pc' = "data" /\ hdr' = Append(hdr, NextEntry)
      /\ UNCHANGED <<driver, pending, bin, origin, damaged>>
  BY DEF AppendEntry, user
<1>2. hdr \in Seq(EntryType \cup {Torn}) /\ NextEntry \in EntryType \cup {Torn}
  BY <1>1, NextEntryType DEF ConvTypeOK
<1>3. Awaited = {} /\ Awaited' = {NextEntry}
  BY <1>1 DEF Awaited, NextEntry
<1>4. ASSUME origin' = "cutter"
      PROVE  \E x \in Nat : (x = 0 \/ damaged') /\ GoodBut(hdr', bin', AllWrites, x, Awaited')
  <2>1. PICK x \in Nat : (x = 0 \/ damaged) /\ GoodBut(hdr, bin, AllWrites, x, Awaited)
    BY <1>1, <1>4 DEF AllButOneGood
  <2> DEFINE e == NextEntry
             A == {e}
  <2>2. e \in EntryType \cup {Torn} /\ e \in A /\ GoodBut(hdr, bin, AllWrites, x, {})
    BY <1>2, <1>3, <2>1
  <2> HIDE DEF e, A
  <2>3. GoodBut(Append(hdr, e), bin, AllWrites, x, A)
    BY <1>2, <2>2, GoodAppended
  <2> QED BY <1>1, <1>3, <2>1, <2>3 DEF e, A
<1> QED BY <1>1, <1>4, GoodNext

LEMMA GoodTorn ==
    ASSUME ConvTypeOK, AllButOneGood, AppendEntryFails
    PROVE  AllButOneGood'
<1>1. /\ pc = "header" /\ hdr' \in {hdr, Append(hdr, Torn)}
      /\ UNCHANGED <<driver, bin, origin>>
      /\ damaged => damaged'
  BY DEF AppendEntryFails, user
<1>2. CASE hdr' = hdr
  BY <1>1, <1>2, GoodQuiet
<1>3. CASE hdr' = Append(hdr, Torn)
  <2>0. hdr \in Seq(EntryType \cup {Torn}) /\ Torn \in EntryType \cup {Torn}
    BY DEF ConvTypeOK
  <2>1. Awaited = {}
    BY <1>1 DEF Awaited
  <2>2. ASSUME origin' = "cutter"
        PROVE  \E x \in Nat : (x = 0 \/ damaged') /\ GoodBut(hdr', bin', AllWrites, x, Awaited')
    <3>1. PICK x \in Nat : (x = 0 \/ damaged) /\ GoodBut(hdr, bin, AllWrites, x, Awaited)
      BY <1>1, <2>2 DEF AllButOneGood
    <3>2. GoodBut(hdr, bin, AllWrites, x, {})
      BY <2>1, <3>1
    <3>3. GoodBut(Append(hdr, Torn), bin, AllWrites, x, Awaited')
      BY <2>0, <3>2, GoodAppended
    <3> QED BY <1>1, <1>3, <3>1, <3>3
  <2> QED BY <1>1, <2>2, GoodNext
<1> QED BY <1>1, <1>2, <1>3

LEMMA GoodWritten ==
    ASSUME ConvTypeOK, Phases, AllButOneGood, AppendData
    PROVE  AllButOneGood'
<1>1. /\ pc = "data" /\ pc' # "data" /\ bin' = bin \o Head(pending).data
      /\ UNCHANGED <<driver, hdr, origin, damaged>>
  BY DEF AppendData, user, AfterWrite
<1>2. /\ hdr \in Seq(EntryType \cup {Torn}) /\ bin \in Seq(Nat)
      /\ pending \in Seq(WriteType) /\ pending # <<>>
  BY <1>1 DEF ConvTypeOK
<1>3. /\ NextEntry \in EntryType /\ Head(pending).data \in Seq(Nat)
      /\ NextEntry.offset = Len(bin) /\ NextEntry.len = Len(Head(pending).data)
      /\ Write(NextEntry.idx, Head(pending).data) \in AllWrites
  <2>1. /\ NextEntry \in EntryType /\ Head(pending) \in WriteType
        /\ NextEntry.offset = Len(bin) /\ NextEntry.len = Len(Head(pending).data)
        /\ NextEntry.idx = Head(pending).idx
    BY <1>2, NextEntryType
  <2>2. Head(pending) \in AllWrites
    <3>1. Elements(pending) \subseteq AllWrites
      BY <1>1 DEF Phases
    <3>2. 1 \in DOMAIN pending /\ Head(pending) = pending[1]
      BY <1>2
    <3> QED BY <3>1, <3>2 DEF Elements
  <2>3. Write(Head(pending).idx, Head(pending).data) = Head(pending)
    BY <2>1 DEF Write, WriteType
  <2> QED BY <2>1, <2>2, <2>3 DEF WriteType
<1>4. Awaited = {NextEntry} /\ Awaited' = {}
  BY <1>1 DEF Awaited
<1>5. ASSUME origin' = "cutter"
      PROVE  \E x \in Nat : (x = 0 \/ damaged') /\ GoodBut(hdr', bin', AllWrites, x, Awaited')
  <2>1. PICK x \in Nat : (x = 0 \/ damaged) /\ GoodBut(hdr, bin, AllWrites, x, Awaited)
    BY <1>1, <1>5 DEF AllButOneGood
  <2> DEFINE e == NextEntry
             t == Head(pending).data
  <2>2. /\ e \in EntryType /\ t \in Seq(Nat) /\ e.offset = Len(bin) /\ e.len = Len(t)
        /\ Write(e.idx, t) \in AllWrites /\ GoodBut(hdr, bin, AllWrites, x, {e})
    BY <1>3, <1>4, <2>1
  <2>4. bin' = bin \o t /\ Awaited' = {}
    BY <1>1, <1>4
  <2> HIDE DEF e, t
  <2>3. GoodBut(hdr, bin \o t, AllWrites, x, {})
    BY <1>2, <2>2, GoodAfterData
  <2> QED BY <1>1, <2>1, <2>3, <2>4
<1> QED BY <1>1, <1>5, GoodNext

\* The first accident, at the last entry.
LEMMA GoodLost ==
    ASSUME ConvTypeOK, Phases, AllButOneGood, pc = "data", ~faulty, pc' # "data", damaged' = TRUE,
           UNCHANGED <<driver, hdr, origin>>,
           bin' = bin \/ \E t \in Seq(Nat) : bin' = bin \o t
    PROVE  AllButOneGood'
<1>1. hdr \in Seq(EntryType \cup {Torn}) /\ bin \in Seq(Nat) /\ Len(hdr) \in Nat
  BY DEF ConvTypeOK
<1>2. Awaited' = {}
  BY DEF Awaited
<1>3. ASSUME origin' = "cutter"
      PROVE  \E x \in Nat : (x = 0 \/ damaged') /\ GoodBut(hdr', bin', AllWrites, x, Awaited')
  <2>1. PICK x \in Nat : (x = 0 \/ damaged) /\ GoodBut(hdr, bin, AllWrites, x, Awaited)
    BY <1>3 DEF AllButOneGood
  <2>2. ~damaged
    BY <1>3 DEF Phases
  <2>3. GoodBut(hdr, bin, AllWrites, 0, Awaited)
    BY <2>1, <2>2
  <2>4. \A t \in Seq(Nat) : GoodBut(hdr, bin, AllWrites, Len(hdr), {})
                            /\ GoodBut(hdr, bin \o t, AllWrites, Len(hdr), {})
    BY <1>1, <2>3, GoodButLast
  <2>5. GoodBut(hdr, bin', AllWrites, Len(hdr), {})
    <3>1. CASE bin' = bin
      <4>1. <<>> \in Seq(Nat)
        OBVIOUS
      <4> QED BY <2>4, <3>1, <4>1
    <3>2. CASE \E t \in Seq(Nat) : bin' = bin \o t
      BY <2>4, <3>2
    <3> QED BY <3>1, <3>2
  <2> QED BY <1>1, <1>2, <2>5
<1> QED BY <1>3, GoodNext
-----------------------------------------------------------------------------
\* The pending writes stay as they are.
LEMMA WritesKept ==
    ASSUME driver' = driver, pending' = pending, Elements(pending) \subseteq AllWrites
    PROVE  Elements(pending') \subseteq AllWrites'
BY AllWritesKept

\* What the phases of the two programs have in common is kept, by the steps of
\* b43-fwcutter and those of brcm80211-fwconv.
LEMMA PhasesInCutter ==
    ASSUME ConvTypeOK, Phases, FwCutterNext, UNCHANGED convVars
    PROVE  Phases'
<1> USE DEF convVars, user, store, End, InFwCutter
<1>0. /\ k \in Nat \ {0} /\ driver \in Drivers /\ Len(driver.extract) \in Nat
      /\ pc = "write" => InFwCutter("b43")
      /\ driver' = driver => AllWrites' = AllWrites
  <2>1. k \in Nat \ {0} /\ driver \in Drivers /\ (pc = "write" => InFwCutter("b43"))
    BY DEF ConvTypeOK
  <2>2. Len(driver.extract) \in Nat
    BY <2>1, DriverFacts
  <2>3. driver' = driver => AllWrites' = AllWrites
    BY AllWritesKept
  <2> QED BY <2>1, <2>2, <2>3
<1>1. CASE RunFwCutter
  BY <1>0, <1>1 DEF RunFwCutter, Run, Phases
<1>2. CASE NotFound
  BY <1>0, <1>2 DEF NotFound, Phases
<1>3. CASE Found
  BY <1>0, <1>3 DEF Found, Phases
<1>4. CASE ReadFails
  BY <1>0, <1>4 DEF ReadFails, Phases
<1>5. CASE ConversionError
  BY <1>0, <1>5 DEF ConversionError, AtObject, Phases
<1>6. CASE Identify
  BY <1>0, <1>6 DEF Identify, AtObject, Phases
<1>7. CASE OpenFile
  BY <1>0, <1>7 DEF OpenFile, AtObject, Phases
<1>8. CASE OpenFails
  BY <1>0, <1>8 DEF OpenFails, AtObject, Phases
<1>9. CASE WriteFile
  BY <1>0, <1>9 DEF WriteFile, Phases
<1>10. CASE WriteFileFails
  BY <1>0, <1>10 DEF WriteFileFails, Phases
<1>11. CASE LastObject
  BY <1>0, <1>11 DEF LastObject, Phases
<1>12. CASE ClearBin
  BY <1>0, <1>12 DEF ClearBin, Phases
<1>13. CASE ClearHeader
  BY <1>0, <1>13 DEF ClearHeader, Phases
<1>14. CASE ClearFails
  BY <1>0, <1>14 DEF ClearFails, Phases
<1>15. CASE SkipObject
  BY <1>0, <1>15 DEF SkipObject, AtObject, Phases
<1>16. CASE ConvertObject
  <2>1. /\ pc = "object" /\ pc' = "header" /\ Object.name \in DOMAIN BrcmIndex
        /\ k <= Len(driver.extract) /\ pending' = WritesOf(Object)
        /\ UNCHANGED <<driver, cmd, status, origin, damaged, faulty>>
    BY <1>16 DEF ConvertObject, AtObject
  <2>2. k \in DOMAIN driver.extract
    BY <1>0, <2>1, DriverFacts
  <2>3. Object \in Objects
    BY <2>2 DEF Object, Objects
  <2>4. Elements(pending') \subseteq AllWrites'
    BY <1>0, <2>1, <2>3 DEF AllWrites
  <2> QED BY <2>1, <2>4 DEF Phases
<1>17. CASE AddDummies
  <2>1. /\ pc = "object" /\ pc' = "header" /\ pending' = Dummies
        /\ UNCHANGED <<driver, cmd, status, origin, damaged, faulty>>
    BY <1>17 DEF AddDummies
  <2>2. Elements(pending') \subseteq AllWrites'
    BY <1>0, <2>1 DEF AllWrites
  <2> QED BY <2>1, <2>2 DEF Phases
<1>18. CASE LastDummy
  BY <1>0, <1>18 DEF LastDummy, Phases
<1>19. CASE AppendEntry
  BY <1>0, <1>19 DEF AppendEntry, Phases
<1>20. CASE AppendEntryFails
  BY <1>0, <1>20 DEF AppendEntryFails, Phases
<1>24. ASSUME pc = "data"
      PROVE  Elements(Tail(pending)) \subseteq AllWrites /\ AfterWrite \in {"object", "header"}
  <2>1. pending \in Seq(WriteType) /\ pending # <<>> /\ Elements(pending) \subseteq AllWrites
    BY <1>24 DEF ConvTypeOK, Phases
  <2>2. \A m \in DOMAIN Tail(pending) : m + 1 \in DOMAIN pending /\ Tail(pending)[m] = pending[m + 1]
    BY <2>1
  <2> QED BY <2>1, <2>2 DEF Elements, AfterWrite
<1>21. CASE AppendData
  <2>1. /\ pc = "data" /\ pc' = AfterWrite /\ pending' = Tail(pending)
        /\ UNCHANGED <<driver, cmd, status, k, origin, damaged, faulty>>
    BY <1>21 DEF AppendData
  <2> QED BY <1>0, <1>24, <2>1 DEF Phases
<1>22. CASE AppendDataFails
  <2>1. /\ pc = "data" /\ UNCHANGED <<driver, cmd, k, origin>> /\ faulty'
        /\ \/ pc' = "idle" /\ status' = "error"
           \/ pc' = AfterWrite /\ pending' = Tail(pending)
    BY <1>22 DEF AppendDataFails
  <2> QED BY <1>0, <1>24, <2>1 DEF Phases
<1>23. CASE Killed
  BY <1>0, <1>23 DEF Killed, Phases
<1> QED BY <1>1, <1>2, <1>3, <1>4, <1>5, <1>6, <1>7, <1>8, <1>9, <1>10, <1>11, <1>12, <1>13, <1>14, <1>15, <1>16, <1>17, <1>18, <1>19, <1>20, <1>21, <1>22, <1>23 DEF FwCutterNext

LEMMA PhasesInConv ==
    ASSUME ConvTypeOK, Phases, Next, ~(FwCutterNext /\ UNCHANGED convVars)
    PROVE  Phases'
<1> USE DEF convVars, user, store, others, End, InFwCutter
<1>0. driver' = driver => AllWrites' = AllWrites
  BY AllWritesKept
<1>1. CASE RunFwConv
  BY <1>0, <1>1 DEF RunFwConv, Run, Phases
<1>2. CASE ParseFails
  BY <1>0, <1>2 DEF ParseFails, Phases
<1>3. CASE Parse
  BY <1>0, <1>3 DEF Parse, Phases
<1>4. CASE DumpInfo
  BY <1>0, <1>4 DEF DumpInfo, Running, Phases
<1>5. CASE NoSection
  BY <1>0, <1>5 DEF NoSection, Phases
<1>6. CASE CannotOpen
  BY <1>0, <1>6 DEF CannotOpen, Phases
<1>7. CASE ExtractSection
  BY <1>0, <1>7 DEF ExtractSection, Phases
<1>8. CASE ExtractFails
  BY <1>0, <1>8 DEF ExtractFails, Phases
<1>9. CASE Confused
  BY <1>0, <1>9 DEF Confused, Phases
<1>10. CASE MergeSection
  BY <1>0, <1>10 DEF MergeSection, Phases
<1>11. CASE WriteBin
  BY <1>0, <1>11 DEF WriteBin, Phases
<1>12. CASE WriteBinFails
  BY <1>0, <1>12 DEF WriteBinFails, Phases
<1>13. CASE WriteHdr
  BY <1>0, <1>13 DEF WriteHdr, Phases
<1>14. CASE WriteHdrFails
  BY <1>0, <1>14 DEF WriteHdrFails, Phases
<1>15. CASE KilledInMerge
  BY <1>0, <1>15 DEF KilledInMerge, Phases
<1> QED BY <1>1, <1>2, <1>3, <1>4, <1>5, <1>6, <1>7, <1>8, <1>9, <1>10, <1>11, <1>12, <1>13, <1>14, <1>15 DEF Next
-----------------------------------------------------------------------------
LEMMA PhasesStep ==
    ASSUME ConvTypeOK, Phases, [Next]_vars
    PROVE  Phases'
<1>1. CASE UNCHANGED vars
  <2>1. AllWrites' = AllWrites
    BY <1>1, AllWritesKept DEF vars, cutterVars
  <2> QED BY <1>1, <2>1 DEF vars, cutterVars, Phases, InFwCutter
<1>2. CASE FwCutterNext /\ UNCHANGED convVars
  BY <1>2, PhasesInCutter
<1>3. CASE Next /\ ~(FwCutterNext /\ UNCHANGED convVars)
  BY <1>3, PhasesInConv
<1> QED BY <1>1, <1>2, <1>3

\* All entries but one stay good.
LEMMA GoodInCutter ==
    ASSUME ConvTypeOK, Phases, AllButOneGood, FwCutterNext
    PROVE  AllButOneGood'
<1> USE DEF user, store, End
<1>1. CASE RunFwCutter
  BY <1>1, GoodQuiet DEF RunFwCutter, Run
<1>2. CASE NotFound
  BY <1>2, GoodQuiet DEF NotFound
<1>3. CASE Found
  BY <1>3, GoodQuiet DEF Found
<1>4. CASE ReadFails
  BY <1>4, GoodQuiet DEF ReadFails
<1>5. CASE ConversionError
  BY <1>5, GoodQuiet DEF ConversionError, AtObject
<1>6. CASE Identify
  BY <1>6, GoodQuiet DEF Identify, AtObject
<1>7. CASE OpenFile
  BY <1>7, GoodQuiet DEF OpenFile, AtObject
<1>8. CASE OpenFails
  BY <1>8, GoodQuiet DEF OpenFails, AtObject
<1>9. CASE WriteFile
  BY <1>9, GoodQuiet DEF WriteFile
<1>10. CASE WriteFileFails
  BY <1>10, GoodQuiet DEF WriteFileFails
<1>11. CASE LastObject
  BY <1>11, GoodQuiet DEF LastObject
<1>12. CASE ClearBin
  <2>1. driver' = driver /\ origin' # "cutter"
    BY <1>12 DEF ClearBin, user
  <2> QED BY <2>1, GoodNext
<1>13. CASE ClearHeader
  <2>1. driver' = driver /\ hdr' = <<>>
    BY <1>13 DEF ClearHeader
  <2>2. DOMAIN hdr' = {}
    BY <2>1
  <2>3. GoodBut(hdr', bin', AllWrites, 0, Awaited')
    BY <2>2 DEF GoodBut
  <2> QED BY <2>1, <2>3, GoodNext
<1>14. CASE ClearFails
  BY <1>14, GoodQuiet DEF ClearFails
<1>15. CASE SkipObject
  BY <1>15, GoodQuiet DEF SkipObject, AtObject
<1>16. CASE ConvertObject
  BY <1>16, GoodQuiet DEF ConvertObject, AtObject
<1>17. CASE AddDummies
  BY <1>17, GoodQuiet DEF AddDummies
<1>18. CASE LastDummy
  BY <1>18, GoodQuiet DEF LastDummy
<1>19. CASE AppendEntry
  BY <1>19, GoodAnnounced
<1>20. CASE AppendEntryFails
  BY <1>20, GoodTorn
<1>21. CASE AppendData
  BY <1>21, GoodWritten
<1>22. CASE AppendDataFails
  <2>1. /\ pc = "data" /\ ~faulty /\ pc' # "data" /\ damaged' = TRUE
        /\ UNCHANGED <<driver, hdr, origin>>
        /\ \E piece \in Pieces(Head(pending).data) : bin' = bin \o piece
    BY <1>22 DEF AppendDataFails, AfterWrite
  <2>2. Head(pending).data \in Seq(Nat)
    <3>1. pending \in Seq(WriteType) /\ pending # <<>>
      BY <2>1 DEF ConvTypeOK
    <3>2. Head(pending) \in WriteType
      BY <3>1
    <3> QED BY <3>2 DEF WriteType
  <2>3. \E t \in Seq(Nat) : bin' = bin \o t
    <3> DEFINE d == Head(pending).data
    <3>1. d \in Seq(Nat)
      BY <2>2
    <3>2. PICK piece \in Pieces(d) : bin' = bin \o piece
      BY <2>1
    <3> HIDE DEF d
    <3>3. piece \in Seq(Nat)
      BY <3>1, PiecesType
    <3> QED BY <3>2, <3>3
  <2> QED BY <2>1, <2>3, GoodLost
<1>23. CASE Killed
  <2>1. /\ ~faulty /\ pc' # "data" /\ UNCHANGED <<driver, bin, hdr, origin>>
        /\ damaged' = (damaged \/ pc \in {"clear header", "data"})
    BY <1>23 DEF Killed
  <2>2. CASE pc = "data"
    BY <2>1, <2>2, GoodLost
  <2>3. CASE pc # "data"
    BY <2>1, <2>3, GoodQuiet
  <2> QED BY <2>2, <2>3
<1> QED BY <1>1, <1>2, <1>3, <1>4, <1>5, <1>6, <1>7, <1>8, <1>9, <1>10, <1>11, <1>12, <1>13, <1>14, <1>15, <1>16, <1>17, <1>18, <1>19, <1>20, <1>21, <1>22, <1>23 DEF FwCutterNext

LEMMA GoodInConv ==
    ASSUME ConvTypeOK, Phases, AllButOneGood, Next, ~(FwCutterNext /\ UNCHANGED convVars)
    PROVE  AllButOneGood'
<1> USE DEF convVars, user, store, others, End
<1>1. CASE RunFwConv
  BY <1>1, GoodQuiet DEF RunFwConv, Run
<1>2. CASE ParseFails
  BY <1>2, GoodQuiet DEF ParseFails
<1>3. CASE Parse
  BY <1>3, GoodQuiet DEF Parse
<1>4. CASE DumpInfo
  BY <1>4, GoodQuiet DEF DumpInfo, Running
<1>5. CASE NoSection
  BY <1>5, GoodQuiet DEF NoSection
<1>6. CASE CannotOpen
  BY <1>6, GoodQuiet DEF CannotOpen
<1>7. CASE ExtractSection
  BY <1>7, GoodQuiet DEF ExtractSection
<1>8. CASE ExtractFails
  BY <1>8, GoodQuiet DEF ExtractFails
<1>9. CASE Confused
  BY <1>9, GoodQuiet DEF Confused
<1>10. CASE MergeSection
  BY <1>10, GoodQuiet DEF MergeSection
<1>11. CASE WriteBin
  BY <1>11, GoodNext DEF WriteBin
<1>12. CASE WriteBinFails
  BY <1>12, GoodNext DEF WriteBinFails
<1>13. CASE WriteHdr
  BY <1>13, GoodNext DEF WriteHdr, Phases
<1>14. CASE WriteHdrFails
  BY <1>14, GoodNext DEF WriteHdrFails, Phases
<1>15. CASE KilledInMerge
  BY <1>15, GoodQuiet DEF KilledInMerge
<1> QED BY <1>1, <1>2, <1>3, <1>4, <1>5, <1>6, <1>7, <1>8, <1>9, <1>10, <1>11, <1>12, <1>13, <1>14, <1>15 DEF Next

LEMMA GoodStep ==
    ASSUME ConvTypeOK, Phases, AllButOneGood, [Next]_vars
    PROVE  AllButOneGood'
<1>1. CASE UNCHANGED vars
  BY <1>1, GoodSame DEF vars, cutterVars
<1>2. CASE FwCutterNext /\ UNCHANGED convVars
  BY <1>2, GoodInCutter
<1>3. CASE Next /\ ~(FwCutterNext /\ UNCHANGED convVars)
  BY <1>3, GoodInConv
<1> QED BY <1>1, <1>2, <1>3
-----------------------------------------------------------------------------
\* The indices that an extraction has written at its next object.
LEMMA WrittenNext ==
    ASSUME driver \in Drivers, NEW i \in Nat
    PROVE  /\ Written(i + 1) \subseteq
                 Written(i) \cup (IF i \in DOMAIN driver.extract THEN IndicesOf(driver.extract[i]) ELSE {})
                            \cup (IF i = Len(driver.extract) + 1 THEN {7, 14, 15} ELSE {})
           /\ Written(1) = {} /\ Written(i) \subseteq Nat
<1>1. DOMAIN driver.extract = 1 .. Len(driver.extract) /\ Len(driver.extract) \in Nat
  BY DriverFacts
<1> DEFINE U(j) == UNION {IndicesOf(driver.extract[n]) : n \in {m \in DOMAIN driver.extract : m < j}}
<1>2. U(i + 1) \subseteq U(i) \cup (IF i \in DOMAIN driver.extract THEN IndicesOf(driver.extract[i]) ELSE {})
  <2>1. \A m \in DOMAIN driver.extract : m < i + 1 => m < i \/ m = i
    BY <1>1
  <2> QED BY <2>1
<1>3. i + 1 > Len(driver.extract) + 1 => i > Len(driver.extract) + 1 \/ i = Len(driver.extract) + 1
  BY <1>1
<1>4. \A j : Written(j) = U(j) \cup (IF j > Len(driver.extract) + 1 THEN {7, 14, 15} ELSE {})
  BY DEF Written
<1>5. U(1) = {} /\ ~(1 > Len(driver.extract) + 1)
  BY <1>1
<1>6. U(i) \subseteq Nat
  <2>1. \A n \in DOMAIN driver.extract : IndicesOf(driver.extract[n]) \subseteq Nat
    BY DriverFacts, IndicesDiffer
  <2> QED BY <2>1
<1> HIDE DEF U
<1>7. Written(1) = {}
  BY <1>4, <1>5
<1>8. Written(i) \subseteq Nat
  BY <1>4, <1>6
<1> DEFINE j == i + 1
<1>9. Written(j) = U(j) \cup (IF j > Len(driver.extract) + 1 THEN {7, 14, 15} ELSE {})
  BY <1>4
<1> QED BY <1>2, <1>3, <1>4, <1>7, <1>8, <1>9

\* After the last object all expected indices have been written.
LEMMA WrittenAll ==
    ASSUME driver \in Drivers, NEW i \in Nat, i > Len(driver.extract) + 1
    PROVE  Expected \subseteq Written(i)
<1>1. DOMAIN driver.extract = 1 .. Len(driver.extract) /\ Len(driver.extract) \in Nat
  BY DriverFacts
<1>2. \A n \in DOMAIN driver.extract : n < i
  BY <1>1
<1>3. \A n \in DOMAIN driver.extract : IndicesOf(driver.extract[n]) \subseteq Written(i)
  BY <1>2 DEF Written
<1>4. {7, 14, 15} \subseteq Written(i)
  BY DEF Written
<1> QED BY <1>3, <1>4 DEF Expected, Objects, IndicesOf
-----------------------------------------------------------------------------
\* What AllButOneThere says in the next state.
LEMMA ThereNext ==
    ASSUME driver' = driver,
           (origin' = "cutter" /\ Extracting') =>
              \E y : (y = None \/ damaged') /\ Written(k') \subseteq Coming' \cup IndicesIn(hdr') \cup {y}
    PROVE  AllButOneThere'
<1>1. Written(k)' = Written(k')
  BY DEF Written
<1> QED BY <1>1 DEF AllButOneThere

\* The header file and the loop are as they were.
LEMMA ThereQuiet ==
    ASSUME AllButOneThere, UNCHANGED <<driver, k, hdr>>, damaged => damaged',
           (origin' = "cutter" /\ Extracting') => origin = "cutter" /\ Extracting,
           Coming \subseteq Coming'
    PROVE  AllButOneThere'
<1>1. ASSUME origin' = "cutter", Extracting'
      PROVE  \E y : (y = None \/ damaged') /\ Written(k') \subseteq Coming' \cup IndicesIn(hdr') \cup {y}
  <2>1. PICK y : (y = None \/ damaged) /\ Written(k) \subseteq Coming \cup IndicesIn(hdr) \cup {y}
    BY <1>1 DEF AllButOneThere
  <2>2. Written(k) \subseteq Coming' \cup IndicesIn(hdr) \cup {y}
    BY <2>1
  <2> QED BY <2>1, <2>2
<1> QED BY <1>1, ThereNext

\* The next object of the loop, with the indices I that its writes have.
LEMMA ThereNewWrites ==
    ASSUME ConvTypeOK, AllButOneThere, UNCHANGED <<driver, hdr, origin, damaged>>, k' = k + 1,
           pc = "object", InFwCutter("brcmsmac"),
           NEW I, Written(k + 1) \subseteq Written(k) \cup I, I \subseteq Coming'
    PROVE  AllButOneThere'
<1>1. ASSUME origin' = "cutter"
      PROVE  \E y : (y = None \/ damaged') /\ Written(k') \subseteq Coming' \cup IndicesIn(hdr') \cup {y}
  <2>1. Extracting /\ Coming = {}
    BY DEF Extracting, Coming
  <2>2. PICK y : (y = None \/ damaged) /\ Written(k) \subseteq Coming \cup IndicesIn(hdr) \cup {y}
    BY <1>1, <2>1 DEF AllButOneThere
  <2>3. Written(k + 1) \subseteq Coming' \cup IndicesIn(hdr) \cup {y}
    BY <2>1, <2>2
  <2> QED BY <2>2, <2>3
<1> QED BY <1>1, ThereNext

\* The indices of an appended entry, and of the writes that are left.
LEMMA IndicesAppended ==
    ASSUME NEW S, NEW h \in Seq(S), NEW e \in S
    PROVE  IndicesIn(Append(h, e)) = IndicesIn(h) \cup {e.idx}
<1> DEFINE a == Append(h, e)
<1>1. /\ DOMAIN a = DOMAIN h \cup {Len(h) + 1} /\ a[Len(h) + 1] = e
      /\ \A n \in DOMAIN h : a[n] = h[n]
  OBVIOUS
<1> HIDE DEF a
<1> QED BY <1>1 DEF IndicesIn, a

LEMMA IndicesOfTail ==
    ASSUME NEW S, NEW s \in Seq(S), s # <<>>
    PROVE  IndicesIn(s) = {Head(s).idx} \cup IndicesIn(Tail(s))
<1> DEFINE t == Tail(s)
<1>1. /\ 1 \in DOMAIN s /\ Head(s) = s[1]
      /\ \A n \in DOMAIN t : n + 1 \in DOMAIN s /\ t[n] = s[n + 1]
  OBVIOUS
<1>2. \A n \in DOMAIN s : n = 1 \/ (n - 1 \in DOMAIN t /\ t[n - 1] = s[n])
  OBVIOUS
<1> HIDE DEF t
<1>3. IndicesIn(s) \subseteq {Head(s).idx} \cup IndicesIn(t)
  BY <1>1, <1>2 DEF IndicesIn
<1>4. {Head(s).idx} \cup IndicesIn(t) \subseteq IndicesIn(s)
  BY <1>1 DEF IndicesIn
<1> QED BY <1>3, <1>4 DEF t

\* The next entry is announced.
LEMMA ThereAnnounced ==
    ASSUME ConvTypeOK, AllButOneThere, AppendEntry
    PROVE  AllButOneThere'
<1>1. /\ pc = "header" /\ pc' = "data" /\ hdr' = Append(hdr, NextEntry)
      /\ UNCHANGED <<driver, k, pending, origin, damaged>>
  BY DEF AppendEntry, user
<1>2. /\ hdr \in Seq(EntryType \cup {Torn}) /\ NextEntry \in EntryType \cup {Torn}
      /\ pending \in Seq(WriteType) /\ pending # <<>> /\ NextEntry.idx = Head(pending).idx
  BY <1>1, NextEntryType DEF ConvTypeOK
<1>3. IndicesIn(hdr') = IndicesIn(hdr) \cup {Head(pending).idx}
  BY <1>1, <1>2, IndicesAppended
<1>4. Coming = {Head(pending).idx} \cup Coming'
  BY <1>1, <1>2, IndicesOfTail DEF Coming
<1>5. ASSUME origin' = "cutter"
      PROVE  \E y : (y = None \/ damaged') /\ Written(k') \subseteq Coming' \cup IndicesIn(hdr') \cup {y}
  <2>1. PICK y : (y = None \/ damaged) /\ Written(k) \subseteq Coming \cup IndicesIn(hdr) \cup {y}
    BY <1>1, <1>5 DEF AllButOneThere, Extracting
  <2>2. Written(k) \subseteq Coming' \cup IndicesIn(hdr') \cup {y}
    BY <1>3, <1>4, <2>1
  <2> QED BY <1>1, <2>1, <2>2
<1> QED BY <1>1, <1>5, ThereNext

\* The entry that is lost is the first one.
LEMMA ThereLost ==
    ASSUME ConvTypeOK, Phases, AllButOneThere, AppendEntryFails
    PROVE  AllButOneThere'
<1>1. /\ pc = "header" /\ ~faulty /\ hdr' \in {hdr, Append(hdr, Torn)}
      /\ UNCHANGED <<driver, k, origin>>
      /\ \/ pc' = "idle" /\ status' = "error"
         \/ pc' = "data" /\ pending' = pending /\ damaged'
  BY DEF AppendEntryFails, user, End
<1>2. CASE pc' = "idle" /\ status' = "error"
  BY <1>1, <1>2, ThereNext DEF Extracting
<1>3. CASE pc' = "data" /\ pending' = pending /\ damaged'
  <2>1. /\ hdr \in Seq(EntryType \cup {Torn}) /\ Torn \in EntryType \cup {Torn}
        /\ pending \in Seq(WriteType) /\ pending # <<>> /\ driver \in Drivers /\ k \in Nat
    BY <1>1 DEF ConvTypeOK
  <2>2. IndicesIn(hdr) \subseteq IndicesIn(hdr')
    <3>1. CASE hdr' = Append(hdr, Torn)
      <4>1. IndicesIn(Append(hdr, Torn)) = IndicesIn(hdr) \cup {Torn.idx}
        BY <2>1, IndicesAppended
      <4> QED BY <3>1, <4>1
    <3>2. CASE hdr' = hdr
      BY <3>2
    <3> QED BY <1>1, <3>1, <3>2
  <2>3. Coming = {Head(pending).idx} \cup Coming'
    BY <1>1, <1>3, <2>1, IndicesOfTail DEF Coming
  <2>4. None \notin Written(k)
    BY <2>1, WrittenNext, FwCutterAssumption
  <2>5. ASSUME origin' = "cutter"
        PROVE  \E y : (y = None \/ damaged') /\ Written(k') \subseteq Coming' \cup IndicesIn(hdr') \cup {y}
    <3>1. Written(k) \subseteq Coming \cup IndicesIn(hdr) \cup {None}
      BY <1>1, <2>5 DEF AllButOneThere, Extracting, Phases
    <3>2. Written(k) \subseteq Coming' \cup IndicesIn(hdr') \cup {Head(pending).idx}
      BY <2>2, <2>3, <2>4, <3>1
    <3> QED BY <1>1, <1>3, <3>2
  <2> QED BY <1>1, <2>5, ThereNext
<1> QED BY <1>1, <1>2, <1>3

\* The data of an entry are written, or not.
LEMMA ThereWritten ==
    ASSUME ConvTypeOK, AllButOneThere, AppendData \/ AppendDataFails
    PROVE  AllButOneThere'
<1>1. /\ pc = "data" /\ UNCHANGED <<driver, k, hdr, origin>>
      /\ damaged => damaged'
      /\ \/ pc' = "idle" /\ status' = "error"
         \/ pc' = AfterWrite /\ pending' = Tail(pending)
  <2>1. CASE AppendData
    BY <2>1 DEF AppendData, user
  <2>2. CASE AppendDataFails
    BY <2>2 DEF AppendDataFails, user, End
  <2> QED BY <2>1, <2>2
<1>2. CASE pc' = "idle" /\ status' = "error"
  BY <1>1, <1>2, ThereNext DEF Extracting
<1>3. CASE pc' = AfterWrite /\ pending' = Tail(pending)
  <2>1. pending \in Seq(WriteType) /\ pending # <<>>
    BY <1>1 DEF ConvTypeOK
  <2>2. Len(pending) = 1 => DOMAIN Tail(pending) = {}
    <3> DEFINE t == Tail(pending)
    <3>1. t \in Seq(WriteType) /\ Len(t) = Len(pending) - 1
      BY <2>1
    <3> HIDE DEF t
    <3>2. DOMAIN t = 1 .. Len(t)
      BY <3>1
    <3>3. Len(pending) = 1 => Len(t) = 0
      BY <3>1
    <3>4. Len(t) = 0 => DOMAIN t = {}
      BY <3>2
    <3> QED BY <3>3, <3>4 DEF t
  <2>3. Coming \subseteq Coming'
    BY <1>1, <1>3, <2>2 DEF Coming, AfterWrite, IndicesIn
  <2> QED BY <1>1, <2>3, ThereQuiet DEF Extracting
<1> QED BY <1>1, <1>2, <1>3

\* All sections written so far but one stay.
LEMMA ThereInCutter ==
    ASSUME ConvTypeOK, Phases, AllButOneThere, FwCutterNext
    PROVE  AllButOneThere'
<1> USE DEF user, store, End, InFwCutter
<1>0. /\ driver \in Drivers /\ k \in Nat \ {0} /\ (pc = "write" => InFwCutter("b43"))
      /\ DOMAIN driver.extract = 1 .. Len(driver.extract) /\ Len(driver.extract) \in Nat
  <2>1. driver \in Drivers /\ k \in Nat \ {0} /\ (pc = "write" => InFwCutter("b43"))
    BY DEF ConvTypeOK
  <2> QED BY <2>1, DriverFacts
<1>24. /\ Written(1) = {}
       /\ Written(k + 1) \subseteq
             Written(k) \cup (IF k \in DOMAIN driver.extract THEN IndicesOf(driver.extract[k]) ELSE {})
                        \cup (IF k = Len(driver.extract) + 1 THEN {7, 14, 15} ELSE {})
  BY <1>0, WrittenNext
<1>1. CASE RunFwCutter
  BY <1>0, <1>1, ThereNext DEF RunFwCutter, Run, Extracting
<1>2. CASE NotFound
  BY <1>0, <1>2, ThereNext DEF NotFound, Extracting
<1>3. CASE Found
  BY <1>0, <1>3, ThereNext DEF Found, Extracting
<1>4. CASE ReadFails
  BY <1>0, <1>4, ThereNext DEF ReadFails, Extracting
<1>5. CASE ConversionError
  BY <1>0, <1>5, ThereNext DEF ConversionError, AtObject, Extracting
<1>6. CASE Identify
  BY <1>0, <1>6, ThereNext DEF Identify, AtObject, Extracting
<1>7. CASE OpenFile
  BY <1>0, <1>7, ThereNext DEF OpenFile, AtObject, Extracting
<1>8. CASE OpenFails
  BY <1>0, <1>8, ThereNext DEF OpenFails, AtObject, Extracting
<1>9. CASE WriteFile
  BY <1>0, <1>9, ThereNext DEF WriteFile, Extracting
<1>10. CASE WriteFileFails
  BY <1>0, <1>10, ThereNext DEF WriteFileFails, Extracting
<1>11. CASE LastObject
  BY <1>0, <1>11, ThereNext DEF LastObject, Extracting
<1>12. CASE ClearBin
  BY <1>0, <1>12, ThereNext DEF ClearBin, Extracting
<1>13. CASE ClearHeader
  <2>1. driver' = driver /\ k' = 1 /\ Written(1) = {}
    BY <1>0, <1>24, <1>13 DEF ClearHeader, Phases
  <2>2. Written(k') = {}
    BY <2>1
  <2>3. (None = None \/ damaged') /\ Written(k') \subseteq Coming' \cup IndicesIn(hdr') \cup {None}
    BY <2>2
  <2> QED BY <2>1, <2>3, ThereNext
<1>14. CASE ClearFails
  BY <1>0, <1>14, ThereNext DEF ClearFails, Extracting
<1>15. CASE SkipObject
  <2>1. /\ pc = "object" /\ InFwCutter("brcmsmac") /\ k' = k + 1 /\ k <= Len(driver.extract)
        /\ UNCHANGED <<driver, hdr, origin, damaged>> /\ Object.name \notin DOMAIN BrcmIndex
    BY <1>15 DEF SkipObject, AtObject
  <2>2. IndicesOf(driver.extract[k]) = {}
    BY <2>1 DEF IndicesOf, Object, BrcmIndex, SizeIndex
  <2>3. Written(k + 1) \subseteq Written(k) \cup {}
    BY <1>0, <1>24, <2>1, <2>2
  <2> DEFINE I == {}
  <2>4. I \subseteq Coming' /\ Written(k + 1) \subseteq Written(k) \cup I
    BY <2>3
  <2> HIDE DEF I
  <2> QED BY <2>1, <2>4, ThereNewWrites
<1>16. CASE ConvertObject
  <2>1. /\ pc = "object" /\ InFwCutter("brcmsmac") /\ k' = k + 1 /\ k <= Len(driver.extract)
        /\ UNCHANGED <<driver, hdr, origin, damaged>> /\ Object.name \in DOMAIN BrcmIndex
        /\ pc' = "header" /\ pending' = WritesOf(Object)
    BY <1>16 DEF ConvertObject, AtObject
  <2> DEFINE I == IndicesOf(Object)
  <2>2. Written(k + 1) \subseteq Written(k) \cup I
    BY <1>0, <1>24, <2>1 DEF Object
  <2>3. I \subseteq Coming'
    <3>1. I \subseteq IndicesIn(WritesOf(Object))
      BY <2>1, WritesOfHave
    <3> QED BY <2>1, <3>1 DEF Coming
  <2> HIDE DEF I
  <2> QED BY <2>1, <2>2, <2>3, ThereNewWrites
<1>17. CASE AddDummies
  <2>1. /\ pc = "object" /\ InFwCutter("brcmsmac") /\ k' = k + 1 /\ k = Len(driver.extract) + 1
        /\ UNCHANGED <<driver, hdr, origin, damaged>> /\ pc' = "header" /\ pending' = Dummies
    BY <1>17 DEF AddDummies
  <2> DEFINE I == {7, 14, 15}
  <2>2. k \notin DOMAIN driver.extract
    BY <1>0, <2>1
  <2>3. Written(k + 1) \subseteq Written(k) \cup I
    BY <1>24, <2>1, <2>2
  <2>4. I \subseteq Coming'
    BY <2>1, DummiesAre DEF Coming
  <2> HIDE DEF I
  <2> QED BY <2>1, <2>3, <2>4, ThereNewWrites
<1>18. CASE LastDummy
  <2>1. /\ UNCHANGED <<driver, k, hdr, origin, damaged>> /\ Extracting /\ Coming = {}
    BY <1>18 DEF LastDummy, Extracting, Coming
  <2> QED BY <2>1, ThereQuiet
<1>19. CASE AppendEntry
  BY <1>19, ThereAnnounced
<1>20. CASE AppendEntryFails
  BY <1>20, ThereLost
<1>21. CASE AppendData
  BY <1>21, ThereWritten
<1>22. CASE AppendDataFails
  BY <1>22, ThereWritten
<1>23. CASE Killed
  BY <1>0, <1>23, ThereNext DEF Killed, Extracting
<1> QED BY <1>1, <1>2, <1>3, <1>4, <1>5, <1>6, <1>7, <1>8, <1>9, <1>10, <1>11, <1>12, <1>13, <1>14, <1>15, <1>16, <1>17, <1>18, <1>19, <1>20, <1>21, <1>22, <1>23 DEF FwCutterNext

LEMMA ThereInConv ==
    ASSUME ConvTypeOK, Phases, Next, ~(FwCutterNext /\ UNCHANGED convVars)
    PROVE  AllButOneThere'
<1> USE DEF convVars, user, store, others, End, InFwCutter
<1>1. CASE RunFwConv
  BY <1>1, ThereNext DEF RunFwConv, Run, Extracting, Phases
<1>2. CASE ParseFails
  BY <1>2, ThereNext DEF ParseFails, Extracting, Phases
<1>3. CASE Parse
  BY <1>3, ThereNext DEF Parse, Extracting, Phases
<1>4. CASE DumpInfo
  BY <1>4, ThereNext DEF DumpInfo, Running, Extracting, Phases
<1>5. CASE NoSection
  BY <1>5, ThereNext DEF NoSection, Extracting, Phases
<1>6. CASE CannotOpen
  BY <1>6, ThereNext DEF CannotOpen, Extracting, Phases
<1>7. CASE ExtractSection
  BY <1>7, ThereNext DEF ExtractSection, Extracting, Phases
<1>8. CASE ExtractFails
  BY <1>8, ThereNext DEF ExtractFails, Extracting, Phases
<1>9. CASE Confused
  BY <1>9, ThereNext DEF Confused, Extracting, Phases
<1>10. CASE MergeSection
  BY <1>10, ThereNext DEF MergeSection, Extracting, Phases
<1>11. CASE WriteBin
  BY <1>11, ThereNext DEF WriteBin, Extracting, Phases
<1>12. CASE WriteBinFails
  BY <1>12, ThereNext DEF WriteBinFails, Extracting, Phases
<1>13. CASE WriteHdr
  BY <1>13, ThereNext DEF WriteHdr, Extracting, Phases
<1>14. CASE WriteHdrFails
  BY <1>14, ThereNext DEF WriteHdrFails, Extracting, Phases
<1>15. CASE KilledInMerge
  BY <1>15, ThereNext DEF KilledInMerge, Extracting, Phases
<1> QED BY <1>1, <1>2, <1>3, <1>4, <1>5, <1>6, <1>7, <1>8, <1>9, <1>10, <1>11, <1>12, <1>13, <1>14, <1>15 DEF Next

LEMMA ThereStep ==
    ASSUME ConvTypeOK, Phases, AllButOneThere, [Next]_vars
    PROVE  AllButOneThere'
<1>1. CASE UNCHANGED vars
  <2>1. UNCHANGED <<driver, cmd, pc, status, k, pending, hdr, origin, damaged>>
    BY <1>1 DEF vars, cutterVars
  <2>2. Coming' = Coming /\ Extracting' = Extracting
    BY <2>1 DEF Coming, Extracting, InFwCutter
  <2> QED BY <2>1, <2>2, ThereQuiet
<1>2. CASE FwCutterNext /\ UNCHANGED convVars
  BY <1>2, ThereInCutter
<1>3. CASE Next /\ ~(FwCutterNext /\ UNCHANGED convVars)
  BY <1>3, ThereInConv
<1> QED BY <1>1, <1>2, <1>3
-----------------------------------------------------------------------------
\* At most one element, or none.
LEMMA FewElements ==
    ASSUME NEW S, NEW y, S \subseteq {y}
    PROVE  Cardinality(S) <= 1 /\ (y \notin S => Cardinality(S) <= 0)
<1>1. S = {y} \/ S = {}
  OBVIOUS
<1>2. Cardinality({y}) = 1 /\ Cardinality({}) = 0
  BY FS_Singleton, FS_EmptySet
<1>3. CASE S = {y}
  BY <1>2, <1>3
<1>4. CASE S = {}
  BY <1>2, <1>4
<1> QED BY <1>1, <1>3, <1>4

OneLost == ConvInv /\ Phases /\ AllButOneGood /\ AllButOneThere

\* The invariant gives the property.
LEMMA OneLostMeans ==
    ASSUME OneLost
    PROVE  AtMostOneSectionLost
<1>0. /\ driver \in Drivers /\ hdr \in Seq(EntryType \cup {Torn}) /\ Len(hdr) \in Nat
      /\ DOMAIN hdr = 1 .. Len(hdr) /\ k \in Nat
  <2>1. driver \in Drivers /\ hdr \in Seq(EntryType \cup {Torn}) /\ k \in Nat
    BY DEF OneLost, ConvInv, ConvTypeOK
  <2> QED BY <2>1
<1> SUFFICES ASSUME origin = "cutter"
             PROVE  /\ Cardinality({n \in Finished : ~IsRight(hdr[n])}) <= IF damaged THEN 1 ELSE 0
                    /\ (pc = "idle" /\ InFwCutter("brcmsmac") /\ status = "ok" /\ Readable = DOMAIN hdr) =>
                          Cardinality(Expected \ {hdr[n].idx : n \in DOMAIN hdr})
                              <= IF damaged THEN 1 ELSE 0
  BY DEF AtMostOneSectionLost
<1>1. Cardinality({n \in Finished : ~IsRight(hdr[n])}) <= IF damaged THEN 1 ELSE 0
  <2>1. PICK x \in Nat : (x = 0 \/ damaged) /\ GoodBut(hdr, bin, AllWrites, x, Awaited)
    BY DEF OneLost, AllButOneGood
  <2> DEFINE S == {n \in Finished : ~IsRight(hdr[n])}
  <2>2. ASSUME NEW n \in Finished, n # x
        PROVE  IsRight(hdr[n])
    <3>1. n \in DOMAIN hdr /\ hdr[n] # Torn /\ (pc = "data" => n # Len(hdr))
      BY <1>0 DEF Finished, Readable
    <3>2. pc # "data" => Awaited = {}
      BY DEF Awaited
    <3>3. IsGood(hdr[n], bin, AllWrites)
      BY <2>1, <2>2, <3>1, <3>2 DEF GoodBut
    <3> QED BY <1>0, <3>3, GoodIsRight
  <2>3. S \subseteq {x}
    BY <2>2
  <2>4. x = 0 => x \notin S
    BY <1>0 DEF Finished, Readable
  <2> HIDE DEF S
  <2>5. Cardinality(S) <= 1 /\ (x \notin S => Cardinality(S) <= 0)
    BY <2>3, FewElements
  <2> QED BY <2>1, <2>4, <2>5 DEF S
<1>2. ASSUME pc = "idle", InFwCutter("brcmsmac"), status = "ok"
      PROVE  Cardinality(Expected \ {hdr[n].idx : n \in DOMAIN hdr}) <= IF damaged THEN 1 ELSE 0
  <2> DEFINE S == Expected \ {hdr[n].idx : n \in DOMAIN hdr}
  <2>1. PICK y : (y = None \/ damaged) /\ Written(k) \subseteq Coming \cup IndicesIn(hdr) \cup {y}
    BY <1>2 DEF OneLost, AllButOneThere, Extracting
  <2>2. Coming = {}
    BY <1>2 DEF Coming
  <2>3. Expected \subseteq Written(k)
    BY <1>0, <1>2, WrittenAll DEF OneLost, Phases
  <2>4. S \subseteq {y}
    BY <2>1, <2>2, <2>3 DEF IndicesIn
  <2>5. None \notin S
    BY <1>0, <2>3, WrittenNext, FwCutterAssumption
  <2> HIDE DEF S
  <2>6. Cardinality(S) <= 1 /\ (y \notin S => Cardinality(S) <= 0)
    BY <2>4, FewElements
  <2> QED BY <2>1, <2>5, <2>6 DEF S
<1> QED BY <1>1, <1>2

LEMMA OneLostAtFirst ==
    ASSUME ConvInit
    PROVE  OneLost
<1>1. pc = "idle" /\ origin = "old" /\ status = "none"
  BY DEF ConvInit, Init
<1>2. Phases /\ AllButOneGood /\ AllButOneThere
  BY <1>1 DEF Phases, AllButOneGood, AllButOneThere
<1> QED BY <1>2, ConvInvAtFirst DEF OneLost

LEMMA OneLostStep ==
    ASSUME OneLost, [Next]_vars
    PROVE  OneLost'
BY ConvStep, PhasesStep, GoodStep, ThereStep DEF OneLost, ConvInv

\* Whatever fails, is lost or ends the program during an extraction, and however
\* many extractions and merges there are, one accident costs at most the section
\* it happens at, and none is missing or wrong without an accident
\* (brcmsmac_write_file, brcmsmac_add_dummy_entries, extract_or_identify).
THEOREM OneSectionAtMost == Spec => []AtMostOneSectionLost
<1>1. ConvInit => OneLost
  BY OneLostAtFirst
<1>2. OneLost /\ [Next]_vars => OneLost'
  BY OneLostStep
<1>3. OneLost => AtMostOneSectionLost
  BY OneLostMeans
<1> QED BY <1>1, <1>2, <1>3, PTL DEF Spec
-----------------------------------------------------------------------------
\* What both dumps print of a big-endian record.
PrintedOp(iv) ==
    [type |-> IF Be16(iv, 3) = 4 THEN "mmio32" ELSE "mmio16", offset |-> Be16(iv, 1), routing |-> 0,
     value |-> <<IF Be16(iv, 3) = 4 THEN Be16(iv, 5) ELSE 0, Be16(iv, 7)>>]

Printed(d) == [n \in DOMAIN Records(d) |-> PrintedOp(Records(d)[n])]

\* The same initvals: e in little endian, d in big endian.
InBothOrders(e, d) ==
    /\ e \in Seq(Nat) /\ d \in Seq(Nat) /\ Len(e) = Len(d)
    /\ DOMAIN Records(e) = DOMAIN Records(d)
    /\ \A n \in DOMAIN Records(d) : Swapped(Records(e)[n], Records(d)[n])

\* A record that build_ivs accepts, as brcm80211-ivaldump prints it.
LEMMA PrintedByBrcm ==
    ASSUME NEW x, NEW y, Swapped(x, y), ~IvError(y)
    PROVE  BrcmOp(x) = PrintedOp(y) /\ Le16(x, 1) # \hFFFF /\ BrcmOp(x) # Malformed
<1>1. \A j \in 1 .. 8 : y[j] \in Nat
  <2>1. \A j \in 1 .. Len(y) : y[j] \in Nat
    BY ElementOfSeq DEF Swapped
  <2> QED BY <2>1 DEF Swapped
<1>2. y[1] \in Nat /\ y[2] \in Nat /\ y[3] \in Nat /\ y[4] \in Nat /\ y[5] \in Nat /\ y[6] \in Nat
      /\ y[7] \in Nat /\ y[8] \in Nat
  BY <1>1
<1>3. /\ Le16(x, 1) = Be16(y, 1) /\ Le16(x, 3) = Be16(y, 3)
      /\ Le16(x, 7) = Be16(y, 5) /\ Le16(x, 5) = Be16(y, 7)
  <2>1. /\ x[1] = y[2] /\ x[2] = y[1] /\ x[3] = y[4] /\ x[4] = y[3]
        /\ x[5] = y[8] /\ x[6] = y[7] /\ x[7] = y[6] /\ x[8] = y[5]
    BY DEF Swapped
  <2> QED BY <1>2, <2>1, SMT DEF Le16, Be16
<1>4. Be16(y, 1) \in Nat
  BY <1>2 DEF Be16
<1>5. /\ Be16(y, 1) <= OffsetLimit /\ Be16(y, 3) \in {2, 4}
      /\ Be16(y, 3) = 2 => Be16(y, 5) = 0
  BY <1>4 DEF IvError, OffsetLimit
<1> DEFINE a == Be16(y, 1)
           b == Be16(y, 3)
           c == Be16(y, 5)
           e == Be16(y, 7)
<1>6. a # \hFFFF
  BY <1>4, <1>5, SMT DEF OffsetLimit
<1>7. BrcmOp(x) = CASE b = 4 -> [type |-> "mmio32", offset |-> a, routing |-> 0, value |-> <<c, e>>]
                    [] b = 2 /\ <<c, e>>[1] = 0 ->
                          [type |-> "mmio16", offset |-> a, routing |-> 0, value |-> <<c, e>>]
                    [] OTHER -> Malformed
  BY <1>3 DEF BrcmOp
<1>8. PrintedOp(y) = [type |-> IF b = 4 THEN "mmio32" ELSE "mmio16", offset |-> a, routing |-> 0,
                      value |-> <<IF b = 4 THEN c ELSE 0, e>>]
  BY DEF PrintedOp
<1>9. b \in {2, 4} /\ (b = 2 => c = 0)
  BY <1>5
<1> HIDE DEF a, b, c, e
<1>10. CASE b = 4
  <2>1. BrcmOp(x) = [type |-> "mmio32", offset |-> a, routing |-> 0, value |-> <<c, e>>]
    BY <1>7, <1>10
  <2>2. PrintedOp(y) = [type |-> "mmio32", offset |-> a, routing |-> 0, value |-> <<c, e>>]
    BY <1>8, <1>10
  <2> QED BY <1>3, <1>6, <2>1, <2>2 DEF Malformed, a
<1>11. CASE b = 2
  <2>1. b # 4 /\ <<c, e>>[1] = 0 /\ c = 0
    BY <1>9, <1>11
  <2>2. BrcmOp(x) = [type |-> "mmio16", offset |-> a, routing |-> 0, value |-> <<c, e>>]
    BY <1>7, <1>11, <2>1
  <2>3. PrintedOp(y) = [type |-> "mmio16", offset |-> a, routing |-> 0, value |-> <<c, e>>]
    BY <1>8, <2>1
  <2> QED BY <1>3, <1>6, <2>2, <2>3 DEF Malformed, a
<1> QED BY <1>9, <1>10, <1>11

\* What brcm80211-ivaldump prints of a section, up to its end.
LEMMA BrcmDumpIs ==
    ASSUME NEW e, NEW d, InBothOrders(e, d), d # <<>>, Len(d) % 8 = 0, ~IvsRefused(d)
    PROVE  BrcmDump(e) = Printed(d)
<1> DEFINE ivs == Records(e)
           N == Len(ivs)
           IsEnd(i) == i > N \/ (i <= N /\ Le16(ivs[i], 1) = \hFFFF)
           stop == {i \in 1 .. N + 1 : IsEnd(i) \/ BrcmOp(ivs[i]) = Malformed}
           end == [i \in 1 .. N + 1 |-> IF IsEnd(i) THEN <<>> ELSE <<Malformed>>]
           op == [i \in 1 .. N + 1 |-> BrcmOp(ivs[i])]
           next == [i \in 1 .. N + 1 |-> i + 1]
           Body(f) == [n \in 1 .. N + 1 |->
                         IF IsEnd(n) THEN <<>>
                         ELSE IF BrcmOp(ivs[n]) = Malformed THEN <<Malformed>>
                         ELSE <<BrcmOp(ivs[n])>> \o f[n + 1]]
           from == CHOOSE f : f = Body(f)
<1>1. /\ e \in Seq(Nat) /\ Len(e) # 0 /\ Len(e) % 8 = 0
      /\ \A n \in DOMAIN Records(d) : Swapped(ivs[n], Records(d)[n]) /\ ~IvError(Records(d)[n])
      /\ DOMAIN ivs = DOMAIN Records(d)
  <2>1. d \in Seq(Nat) /\ Len(e) = Len(d)
    BY DEF InBothOrders
  <2>2. Len(d) # 0
    BY <2>1
  <2> QED BY <2>1, <2>2 DEF InBothOrders, IvsRefused
<1>2. N \in Nat /\ DOMAIN ivs = 1 .. N
  BY <1>1, RecordsType
<1>3. BrcmDump(e) = from[1]
  BY <1>1 DEF BrcmDump
<1>4. \A n \in 1 .. N : ~IsEnd(n) /\ BrcmOp(ivs[n]) # Malformed /\ BrcmOp(ivs[n]) = PrintedOp(Records(d)[n])
  BY <1>1, <1>2, PrintedByBrcm
<1> HIDE DEF N, ivs
<1>5. \A f : f = Body(f) <=> IsReading(N, stop, end, op, next, f)
  <2> SUFFICES ASSUME NEW f
               PROVE  Body(f) = [i \in 1 .. N + 1 |-> IF i \in stop THEN end[i] ELSE <<op[i]>> \o f[next[i]]]
    BY DEF IsReading
  <2> SUFFICES ASSUME NEW i \in 1 .. N + 1
               PROVE  (IF IsEnd(i) THEN <<>>
                         ELSE IF BrcmOp(ivs[i]) = Malformed THEN <<Malformed>>
                         ELSE <<BrcmOp(ivs[i])>> \o f[i + 1])
                      = IF i \in stop THEN end[i] ELSE <<op[i]>> \o f[next[i]]
    OBVIOUS
  <2>1. i \in stop <=> IsEnd(i) \/ BrcmOp(ivs[i]) = Malformed
    OBVIOUS
  <2>2. end[i] = (IF IsEnd(i) THEN <<>> ELSE <<Malformed>>) /\ op[i] = BrcmOp(ivs[i]) /\ next[i] = i + 1
    OBVIOUS
  <2> HIDE DEF stop, end, op, next, IsEnd
  <2> QED BY <2>1, <2>2
<1> DEFINE V == {BrcmOp(ivs[i]) : i \in 1 .. N + 1} \cup {Malformed}
<1>6. \E f : IsReading(N, stop, end, op, next, f)
  <2>1. end \in [1 .. N + 1 -> Seq(V)] /\ op \in [1 .. N + 1 -> V]
    <3>1. <<>> \in Seq(V) /\ <<Malformed>> \in Seq(V)
      OBVIOUS
    <3> HIDE DEF IsEnd
    <3> QED BY <3>1
  <2>2. \A i \in 1 .. N + 1 : i \notin stop => next[i] \in i + 1 .. N + 1
    BY <1>2
  <2> HIDE DEF V, stop, end, op, next
  <2> QED BY <1>2, <2>1, <2>2, ReadingExists
<1>7. IsReading(N, stop, end, op, next, from)
  <2> HIDE DEF Body, stop, end, op, next
  <2> QED BY <1>5, <1>6
<1> DEFINE ops == Printed(d)
           W == {PrintedOp(Records(d)[n]) : n \in 1 .. N}
           at == [n \in 1 .. N + 1 |-> n]
<1>8. /\ ops = [n \in 1 .. N |-> PrintedOp(Records(d)[n])]
      /\ ops \in Seq(W) /\ Len(ops) = N
  <2>1. ops = [n \in 1 .. N |-> PrintedOp(Records(d)[n])]
    BY <1>1, <1>2 DEF Printed
  <2>2. \A n \in 1 .. N : PrintedOp(Records(d)[n]) \in W
    OBVIOUS
  <2>3. ops \in [1 .. N -> W]
    BY <2>1, <2>2
  <2> HIDE DEF ops, W
  <2>4. ops \in Seq(W) /\ Len(ops) = N
    BY <1>2, <2>3, FunctionIsSequence
  <2> QED BY <2>1, <2>4
<1>9. ASSUME NEW n \in 1 .. N PROVE at[n] \notin stop /\ op[at[n]] = ops[n] /\ next[at[n]] = at[n + 1]
  <2>1. n \in 1 .. N + 1 /\ n + 1 \in 1 .. N + 1
    BY <1>2
  <2>2. at[n] = n /\ at[n + 1] = n + 1 /\ next[n] = n + 1 /\ op[n] = BrcmOp(ivs[n])
    BY <2>1
  <2>3. n \notin stop /\ BrcmOp(ivs[n]) = PrintedOp(Records(d)[n])
    <3> HIDE DEF IsEnd
    <3> QED BY <1>4
  <2>4. ops[n] = PrintedOp(Records(d)[n])
    BY <1>8
  <2> HIDE DEF stop, op, next, at, ops
  <2> QED BY <2>2, <2>3, <2>4
<1>10. at \in [1 .. N + 1 -> 1 .. N + 1] /\ at[1] = 1 /\ at[N + 1] \in stop /\ end[at[N + 1]] = <<>>
  BY <1>2
<1> HIDE DEF ops, W, at, stop, end, op, next, from
<1>11. from[1] = ops
  <2>1. at \in [1 .. Len(ops) + 1 -> 1 .. N + 1] /\ at[Len(ops) + 1] \in stop /\ end[at[Len(ops) + 1]] = <<>>
    BY <1>8, <1>10
  <2>2. \A n \in 1 .. Len(ops) : at[n] \notin stop /\ op[at[n]] = ops[n] /\ next[at[n]] = at[n + 1]
    BY <1>8, <1>9
  <2>3. ops \in Seq(W) /\ at[1] = 1
    BY <1>8, <1>10
  <2> QED BY <1>2, <1>7, <2>1, <2>2, <2>3, ReadingIs
<1> QED BY <1>3, <1>11 DEF ops
-----------------------------------------------------------------------------
\* The operations at the places at are what b43-ivaldump prints, if each record
\* ends where the next one begins and the last one at the end.
ArePlaces(words, ops, at) ==
    /\ at \in [1 .. Len(ops) + 1 -> 1 .. Len(words) + 1]
    /\ at[1] = 1 /\ at[Len(ops) + 1] = Len(words) + 1
    /\ \A n \in 1 .. Len(ops) :
          /\ DumpedOp(words, at[n]) = ops[n]
          /\ at[n] + RecordLen(words[at[n]]) = at[n + 1]

\* b43-ivaldump goes from place to place.
LEMMA DumpIs ==
    ASSUME NEW words, Len(words) \in Nat, NEW V, NEW ops \in Seq(V), NEW at, ArePlaces(words, ops, at)
    PROVE  Dump(words) = ops
<1> DEFINE N == Len(words)
           next == [i \in 1 .. N + 1 |-> i + RecordLen(words[i])]
           IsEnd(i) == i > N
           IsShort(i) == i + RecordLen(words[i]) > N + 1
           stop == {i \in 1 .. N + 1 : IsEnd(i) \/ IsShort(i)}
           end == [i \in 1 .. N + 1 |-> IF IsEnd(i) THEN <<>> ELSE <<IndexError>>]
           op == [i \in 1 .. N + 1 |-> DumpedOp(words, i)]
           Body(f) == [i \in 1 .. N + 1 |->
                         IF IsEnd(i) THEN <<>>
                         ELSE IF IsShort(i) THEN <<IndexError>>
                         ELSE <<DumpedOp(words, i)>> \o f[i + RecordLen(words[i])]]
           from == CHOOSE f : f = Body(f)
<1>1. Dump(words) = from[1]
  BY DEF Dump
<1>2. N \in Nat /\ \A i \in 1 .. N + 1 : RecordLen(words[i]) \in {2, 3}
  BY DEF RecordLen
<1> HIDE DEF N
<1>3. \A f : f = Body(f) <=> IsReading(N, stop, end, op, next, f)
  <2> SUFFICES ASSUME NEW f
               PROVE  Body(f) = [i \in 1 .. N + 1 |-> IF i \in stop THEN end[i] ELSE <<op[i]>> \o f[next[i]]]
    BY DEF IsReading
  <2> SUFFICES ASSUME NEW i \in 1 .. N + 1
               PROVE  (IF IsEnd(i) THEN <<>>
                         ELSE IF IsShort(i) THEN <<IndexError>>
                         ELSE <<DumpedOp(words, i)>> \o f[i + RecordLen(words[i])])
                      = IF i \in stop THEN end[i] ELSE <<op[i]>> \o f[next[i]]
    OBVIOUS
  <2>1. i \in stop <=> IsEnd(i) \/ IsShort(i)
    OBVIOUS
  <2>2. end[i] = (IF IsEnd(i) THEN <<>> ELSE <<IndexError>>) /\ op[i] = DumpedOp(words, i)
        /\ next[i] = i + RecordLen(words[i])
    OBVIOUS
  <2> HIDE DEF stop, end, op, next, IsEnd, IsShort
  <2> QED BY <2>1, <2>2
<1> DEFINE U == {DumpedOp(words, i) : i \in 1 .. N + 1} \cup {IndexError}
<1>4. \E f : IsReading(N, stop, end, op, next, f)
  <2>1. end \in [1 .. N + 1 -> Seq(U)] /\ op \in [1 .. N + 1 -> U]
    <3>1. <<>> \in Seq(U) /\ <<IndexError>> \in Seq(U)
      OBVIOUS
    <3> HIDE DEF IsEnd
    <3> QED BY <3>1
  <2>2. \A i \in 1 .. N + 1 : i \notin stop => next[i] \in i + 1 .. N + 1
    <3> SUFFICES ASSUME NEW i \in 1 .. N + 1, i \notin stop PROVE next[i] \in i + 1 .. N + 1
      OBVIOUS
    <3>1. ~IsShort(i) /\ next[i] = i + RecordLen(words[i]) /\ RecordLen(words[i]) \in {2, 3}
      BY <1>2
    <3> HIDE DEF stop, next
    <3> QED BY <1>2, <3>1
  <2> HIDE DEF U, stop, end, op, next
  <2> QED BY <1>2, <2>1, <2>2, ReadingExists
<1>5. IsReading(N, stop, end, op, next, from)
  <2> HIDE DEF Body, stop, end, op, next
  <2> QED BY <1>3, <1>4
<1> DEFINE M == Len(ops)
<1>6. /\ at \in [1 .. M + 1 -> 1 .. N + 1] /\ at[1] = 1 /\ at[M + 1] = N + 1 /\ M \in Nat
      /\ \A n \in 1 .. M : DumpedOp(words, at[n]) = ops[n] /\ at[n] + RecordLen(words[at[n]]) = at[n + 1]
  BY DEF ArePlaces, N
<1> HIDE DEF M
<1>7. at[M + 1] \in stop /\ end[at[M + 1]] = <<>>
  <2>1. N + 1 \in 1 .. N + 1 /\ IsEnd(N + 1)
    BY <1>2
  <2> HIDE DEF IsEnd, IsShort
  <2> QED BY <1>6, <2>1
<1>8. ASSUME NEW n \in 1 .. M PROVE at[n] \notin stop /\ op[at[n]] = ops[n] /\ next[at[n]] = at[n + 1]
  <2> DEFINE i == at[n]
  <2>1. n \in 1 .. M + 1 /\ n + 1 \in 1 .. M + 1
    BY <1>6
  <2>2. i \in 1 .. N + 1 /\ at[n + 1] \in 1 .. N + 1 /\ i + RecordLen(words[i]) = at[n + 1]
        /\ DumpedOp(words, i) = ops[n] /\ RecordLen(words[i]) \in {2, 3}
    BY <1>2, <1>6, <2>1
  <2>3. next[i] = i + RecordLen(words[i]) /\ op[i] = DumpedOp(words, i)
    BY <2>2
  <2>4. ~IsEnd(i) /\ ~IsShort(i)
    BY <1>2, <2>2
  <2>5. i \notin stop
    <3> HIDE DEF IsEnd, IsShort
    <3> QED BY <2>4
  <2> HIDE DEF stop, op, next, i
  <2>6. i \notin stop /\ op[i] = ops[n] /\ next[i] = at[n + 1]
    BY <2>2, <2>3, <2>5
  <2> QED BY <2>6 DEF i
<1> HIDE DEF stop, end, op, next, from
<1>9. from[1] = ops
  BY <1>2, <1>5, <1>6, <1>7, <1>8, ReadingIs DEF M
<1> QED BY <1>1, <1>9
-----------------------------------------------------------------------------
\* The words of a record that build_ivs makes.
WordsIn(iv) == IF Be16(iv, 3) = 4 THEN 3 ELSE 2

\* Its bytes, from those of the driver.
LEMMA B43IvIs ==
    ASSUME NEW iv \in Seq(Nat), Len(iv) = 8
    PROVE  LET b == B43Iv(iv)
           IN  /\ Len(b) = 2 * WordsIn(iv)
               /\ Be16(iv, 3) = 4 => /\ b[1] = iv[1] + 128 /\ b[2] = iv[2] /\ b[3] = iv[5] /\ b[4] = iv[6]
                                     /\ b[5] = iv[7] /\ b[6] = iv[8]
               /\ Be16(iv, 3) # 4 => b[1] = iv[1] /\ b[2] = iv[2] /\ b[3] = iv[7] /\ b[4] = iv[8]
<1>1. \A j \in 1 .. 8 : iv[j] \in Nat
  <2>1. \A j \in 1 .. Len(iv) : iv[j] \in Nat
    BY ElementOfSeq
  <2> QED BY <2>1
<1>2. CASE Be16(iv, 3) = 4
  <2> DEFINE s == <<iv[1] + 128, iv[2]>>
             t == SubSeq(iv, 4 + 1, 4 + 4)
             u == s \o t
  <2>1. s \in Seq(Nat) /\ Len(s) = 2 /\ s[1] = iv[1] + 128 /\ s[2] = iv[2]
    <3>1. iv[1] + 128 \in Nat /\ iv[2] \in Nat
      BY <1>1
    <3> QED BY <3>1
  <2>2. t \in Seq(Nat) /\ Len(t) = 4 /\ t[1] = iv[5] /\ t[2] = iv[6] /\ t[3] = iv[7] /\ t[4] = iv[8]
    <3>1. 4 \in Nat /\ 4 + 4 <= Len(iv)
      OBVIOUS
    <3>2. t \in Seq(Nat) /\ IsPart(t, iv, 4, 4)
      BY <3>1, PartFacts
    <3> HIDE DEF t
    <3> QED BY <3>2 DEF IsPart
  <2> HIDE DEF s, t
  <2>3. IsJoined(Nat, u, s, t, 2)
    BY <2>1, <2>2, JoinedFacts
  <2>4. B43Iv(iv) = u
    <3>1. 4 + 1 = 5 /\ 4 + 4 = 8
      OBVIOUS
    <3> QED BY <1>2, <3>1 DEF B43Iv, s, t
  <2> HIDE DEF u
  <2>5. Len(u) = 6 /\ u[1] = s[1] /\ u[2] = s[2] /\ \A j \in 1 .. 4 : u[2 + j] = t[j]
    BY <2>2, <2>3 DEF IsJoined
  <2>6. u[3] = t[1] /\ u[4] = t[2] /\ u[5] = t[3] /\ u[6] = t[4]
    BY <2>5
  <2> QED BY <1>2, <2>1, <2>2, <2>4, <2>5, <2>6 DEF WordsIn
<1>3. CASE Be16(iv, 3) # 4
  <2>1. B43Iv(iv) = <<iv[1], iv[2], iv[7], iv[8]>>
    BY <1>3 DEF B43Iv
  <2> QED BY <1>3, <2>1 DEF WordsIn
<1> QED BY <1>2, <1>3

\* A record that build_ivs makes, as b43-ivaldump prints it.
LEMMA PrintedByB43 ==
    ASSUME NEW iv \in Seq(Nat), Len(iv) = 8, ~IvError(iv), NEW words, NEW i,
           words[i] = Be16(B43Iv(iv), 1), words[i + 1] = Be16(B43Iv(iv), 3),
           Be16(iv, 3) = 4 => words[i + 2] = Be16(B43Iv(iv), 5)
    PROVE  DumpedOp(words, i) = PrintedOp(iv) /\ RecordLen(words[i]) = WordsIn(iv)
<1> DEFINE a == Be16(iv, 1)
           b == Be16(iv, 3)
           c == Be16(iv, 5)
           e == Be16(iv, 7)
           r == B43Iv(iv)
<1>1. iv[1] \in Nat /\ iv[2] \in Nat
  <2>1. \A j \in 1 .. Len(iv) : iv[j] \in Nat
    BY ElementOfSeq
  <2> QED BY <2>1
<1>2. a \in Nat /\ a = 256 * iv[1] + iv[2]
  BY <1>1 DEF Be16
<1>3. a <= OffsetLimit /\ b \in {2, 4}
  BY <1>2 DEF IvError, OffsetLimit
<1>4. PrintedOp(iv) = [type |-> IF b = 4 THEN "mmio32" ELSE "mmio16", offset |-> a, routing |-> 0,
                       value |-> <<IF b = 4 THEN c ELSE 0, e>>]
  BY DEF PrintedOp
<1>5. DumpedOp(words, i) =
        [type |-> IF IsDword(words[i]) THEN "mmio32" ELSE "mmio16", offset |-> words[i] % Flag32, routing |-> 0,
         value |-> IF IsDword(words[i]) THEN <<words[i + 1], words[i + 2]>> ELSE <<0, words[i + 1]>>]
  BY DEF DumpedOp
<1>6. CASE b = 4
  <2>1. r[1] = iv[1] + 128 /\ r[2] = iv[2] /\ r[3] = iv[5] /\ r[4] = iv[6] /\ r[5] = iv[7] /\ r[6] = iv[8]
    BY <1>6, B43IvIs
  <2>2. words[i + 1] = c /\ words[i + 2] = e
    BY <1>6, <2>1 DEF Be16
  <2> HIDE DEF a, r
  <2>3. words[i] = 256 * r[1] + r[2]
    BY DEF Be16, r
  <2>4. words[i] = a + Flag32
    BY <1>1, <1>2, <2>1, <2>3, SMT DEF Flag32
  <2>5. IsDword(words[i]) /\ words[i] % Flag32 = a
    BY <1>2, <1>3, <2>4, SMT DEF IsDword, Flag32, OffsetLimit
  <2> HIDE DEF b, c, e
  <2>6. DumpedOp(words, i) = [type |-> "mmio32", offset |-> a, routing |-> 0, value |-> <<c, e>>]
    BY <1>5, <2>2, <2>5
  <2>7. PrintedOp(iv) = [type |-> "mmio32", offset |-> a, routing |-> 0, value |-> <<c, e>>]
    BY <1>4, <1>6
  <2> QED BY <1>6, <2>5, <2>6, <2>7 DEF RecordLen, WordsIn, b
<1>7. CASE b # 4
  <2>1. r[1] = iv[1] /\ r[2] = iv[2] /\ r[3] = iv[7] /\ r[4] = iv[8]
    BY <1>7, B43IvIs
  <2>2. words[i + 1] = e /\ words[i] = a
    BY <2>1 DEF Be16
  <2> HIDE DEF a, r
  <2>3. ~IsDword(a) /\ a % Flag32 = a
    <3>1. a \in Nat /\ a <= OffsetLimit
      BY <1>2, <1>3
    <3> QED BY ONLY <3>1, SMT DEF IsDword, Flag32, OffsetLimit
  <2>5. ~IsDword(words[i]) /\ words[i] % Flag32 = a
    BY <2>2, <2>3
  <2> HIDE DEF b, c, e
  <2>6. DumpedOp(words, i) = [type |-> "mmio16", offset |-> a, routing |-> 0, value |-> <<0, e>>]
    BY <1>5, <2>2, <2>5
  <2>7. PrintedOp(iv) = [type |-> "mmio16", offset |-> a, routing |-> 0, value |-> <<0, e>>]
    BY <1>4, <1>7
  <2> QED BY <1>7, <2>5, <2>6, <2>7 DEF RecordLen, WordsIn, b
<1> QED BY <1>6, <1>7
-----------------------------------------------------------------------------
\* Where the words of each record begin in a file for b43, and where they end.
AreStarts(d, q) ==
    /\ q \in [1 .. Len(Records(d)) + 1 -> Nat] /\ q[1] = 0
    /\ \A n \in 1 .. Len(Records(d)) : q[n + 1] = q[n] + WordsIn(Records(d)[n])

\* build_ivs puts record behind record.
LEMMA StartsExist ==
    ASSUME NEW d \in Seq(Nat)
    PROVE  \E q : AreStarts(d, q)
<1> DEFINE N == Len(Records(d))
           G == [n \in Nat |-> [x \in Nat |-> x + WordsIn(Records(d)[n - 1])]]
<1>1. N \in Nat
  BY RecordsType
<1> HIDE DEF N
<1>2. \A n : WordsIn(Records(d)[n]) \in Nat
  BY DEF WordsIn
<1>3. G \in [Nat -> [Nat -> Nat]]
  BY <1>2
<1>4. \A n \in Nat, x \in Nat : G[n][x] = x + WordsIn(Records(d)[n - 1])
  OBVIOUS
<1> HIDE DEF G
<1> DEFINE V == Nat
           a == 0
           M == N + 1
<1>5. PICK q \in [1 .. M -> Nat] : \A n \in 1 .. M : q[n] = IF n = 1 THEN a ELSE G[n][q[n - 1]]
  <2>0. G \in [Nat -> [V -> V]]
    BY ONLY <1>3
  <2>1. a \in V /\ M \in Nat
    BY <1>1
  <2> HIDE DEF V, a, M
  <2>2. Recursion(V, a, G, M) # {}
    BY <2>0, <2>1, RecursionExists
  <2> QED BY <2>2 DEF Recursion, V
<1>6. q[1] = 0
  BY <1>1, <1>5
<1>7. ASSUME NEW n \in 1 .. N PROVE q[n + 1] = q[n] + WordsIn(Records(d)[n])
  <2>1. n + 1 \in 1 .. M /\ n \in 1 .. M /\ n + 1 # 1 /\ (n + 1) - 1 = n /\ n + 1 \in Nat
    BY <1>1
  <2>2. q[n + 1] = G[n + 1][q[n]] /\ q[n] \in Nat
    BY <1>5, <2>1
  <2> QED BY <1>4, <2>1, <2>2
<1> QED BY <1>5, <1>6, <1>7 DEF AreStarts, N

\* Each record lies in what build_ivs makes at its place.
LEMMA RecordsInFile ==
    ASSUME NEW d \in Seq(Nat), d # <<>>, Len(d) % 8 = 0, NEW q, AreStarts(d, q)
    PROVE  /\ Len(Records(d)) \in Nat \ {0}
           /\ Len(BuiltIvs(d)) = 2 * q[Len(Records(d)) + 1]
           /\ \A n \in 1 .. Len(Records(d)) :
                 /\ q[n] + WordsIn(Records(d)[n]) <= q[Len(Records(d)) + 1]
                 /\ \A j \in 1 .. 2 * WordsIn(Records(d)[n]) :
                       BuiltIvs(d)[2 * q[n] + j] = B43Iv(Records(d)[n])[j]
<1> DEFINE N == Len(Records(d))
           built == [n \in DOMAIN Records(d) |-> B43Iv(Records(d)[n])]
           p == [n \in 1 .. N |-> 2 * q[n]]
<1>1. N \in Nat /\ DOMAIN Records(d) = 1 .. N /\ N = Len(d) \div 8
  BY RecordsType
<1>2. N # 0
  <2>1. Len(d) \in Nat /\ Len(d) # 0
    OBVIOUS
  <2> QED BY <1>1, <2>1
<1>3. \A n \in 1 .. N : /\ B43Iv(Records(d)[n]) \in Seq(Nat)
                        /\ Len(B43Iv(Records(d)[n])) = 2 * WordsIn(Records(d)[n])
                        /\ WordsIn(Records(d)[n]) \in Nat
  <2> SUFFICES ASSUME NEW n \in 1 .. N
               PROVE  /\ B43Iv(Records(d)[n]) \in Seq(Nat)
                      /\ Len(B43Iv(Records(d)[n])) = 2 * WordsIn(Records(d)[n])
                      /\ WordsIn(Records(d)[n]) \in Nat
    OBVIOUS
  <2>1. Records(d)[n] \in Seq(Nat) /\ Len(Records(d)[n]) = 8
    BY <1>1, RecordsType DEF IsPart
  <2> QED BY <2>1, B43IvType, B43IvIs DEF WordsIn
<1>4. built \in [1 .. N -> Seq(Nat)] /\ \A n \in 1 .. N : built[n] = B43Iv(Records(d)[n])
  BY <1>1, <1>3
<1>5. q \in [1 .. N + 1 -> Nat] /\ q[1] = 0 /\ \A n \in 1 .. N : q[n + 1] = q[n] + WordsIn(Records(d)[n])
  BY DEF AreStarts
<1> HIDE DEF N, built
<1>6. built \in Seq(Seq(Nat)) /\ Len(built) = N
  BY <1>1, <1>4, FunctionIsSequence
<1>7. p \in [1 .. N -> Nat] /\ \A n \in 1 .. N : p[n] = 2 * q[n] /\ q[n] \in Nat
  <2>1. \A n \in 1 .. N : n \in 1 .. N + 1
    BY <1>1
  <2>2. \A n \in 1 .. N : q[n] \in Nat
    BY <1>5, <2>1
  <2>3. \A n \in 1 .. N : 2 * q[n] \in Nat
    BY <2>2
  <2> QED BY <2>2, <2>3
<1>8. ASSUME NEW n \in 1 .. N PROVE p[n] = IF n = 1 THEN 0 ELSE p[n - 1] + Len(built[n - 1])
  <2>1. CASE n = 1
    BY <1>5, <1>7, <2>1
  <2>2. CASE n # 1
    <3>1. n - 1 \in 1 .. N /\ (n - 1) + 1 = n
      BY <1>1, <2>2
    <3>2. q[n] = q[n - 1] + WordsIn(Records(d)[n - 1])
      BY <1>5, <3>1
    <3>3. Len(built[n - 1]) = 2 * WordsIn(Records(d)[n - 1]) /\ WordsIn(Records(d)[n - 1]) \in Nat
      BY <1>3, <1>4, <3>1
    <3>4. p[n] = 2 * q[n] /\ p[n - 1] = 2 * q[n - 1] /\ q[n - 1] \in Nat
      BY <1>7, <3>1
    <3> QED BY <2>2, <3>2, <3>3, <3>4
  <2> QED BY <2>1, <2>2
<1> DEFINE body == FlattenSeq(built)
<1>9. \A n \in 1 .. N : /\ p[n] + Len(built[n]) <= Len(body)
                        /\ \A j \in 1 .. Len(built[n]) : body[p[n] + j] = built[n][j]
                        /\ n = N => Len(body) = p[n] + Len(built[n])
  <2>1. p \in [1 .. Len(built) -> Nat]
    BY <1>6, <1>7
  <2>2. \A n \in 1 .. Len(built) : p[n] = IF n = 1 THEN 0 ELSE p[n - 1] + Len(built[n - 1])
    BY <1>6, <1>8
  <2> HIDE DEF p
  <2> SUFFICES ASSUME NEW n \in 1 .. N
               PROVE  /\ p[n] + Len(built[n]) <= Len(body)
                      /\ \A j \in 1 .. Len(built[n]) : body[p[n] + j] = built[n][j]
                      /\ n = N => Len(body) = p[n] + Len(built[n])
    OBVIOUS
  <2>3. n \in 1 .. Len(built)
    BY <1>6
  <2> QED BY <1>6, <2>1, <2>2, <2>3, FlattenFacts
<1>10. BuiltIvs(d) = body
  BY DEF BuiltIvs, built
<1> HIDE DEF body
<1>11. Len(body) = 2 * q[N + 1]
  <2>1. N \in 1 .. N
    BY <1>1, <1>2
  <2>2. Len(body) = p[N] + Len(built[N]) /\ p[N] = 2 * q[N] /\ q[N] \in Nat
    BY <1>7, <1>9, <2>1
  <2>3. Len(built[N]) = 2 * WordsIn(Records(d)[N]) /\ WordsIn(Records(d)[N]) \in Nat
    BY <1>3, <1>4, <2>1
  <2>4. q[N + 1] = q[N] + WordsIn(Records(d)[N])
    BY <1>5, <2>1
  <2> QED BY <2>2, <2>3, <2>4
<1>12. ASSUME NEW n \in 1 .. N
       PROVE  /\ q[n] + WordsIn(Records(d)[n]) <= q[N + 1]
              /\ \A j \in 1 .. 2 * WordsIn(Records(d)[n]) : body[2 * q[n] + j] = B43Iv(Records(d)[n])[j]
  <2> DEFINE m == WordsIn(Records(d)[n])
  <2>1. Len(built[n]) = 2 * m /\ m \in Nat /\ built[n] = B43Iv(Records(d)[n])
    BY <1>3, <1>4
  <2>2. p[n] = 2 * q[n] /\ q[n] \in Nat /\ q[N + 1] \in Nat
    BY <1>1, <1>5, <1>7
  <2>3. p[n] + Len(built[n]) <= Len(body) /\ \A j \in 1 .. Len(built[n]) : body[p[n] + j] = built[n][j]
    BY <1>9
  <2> HIDE DEF m, p
  <2>4. q[n] + m <= q[N + 1]
    BY <1>11, <2>1, <2>2, <2>3
  <2>5. \A j \in 1 .. 2 * m : body[2 * q[n] + j] = built[n][j]
    BY <2>1, <2>2, <2>3
  <2> QED BY <2>1, <2>4, <2>5 DEF m
<1> QED BY <1>1, <1>2, <1>10, <1>11, <1>12 DEF N
-----------------------------------------------------------------------------
\* What b43-ivaldump prints of a file for b43.
LEMMA B43DumpIs ==
    ASSUME NEW d \in Seq(Nat), d # <<>>, Len(d) % 8 = 0, Is32Bit(Len(d)), ~IvsRefused(d)
    PROVE  B43Dump(B43File("iv", d)) = Printed(d)
<1> DEFINE N == Len(Records(d))
           body == BuiltIvs(d)
           file == B43File("iv", d)
           h == Header("iv", Len(d) \div 8)
           words == [n \in 1 .. (Len(file) - 8) \div 2 |-> Be16(file, 7 + 2 * n)]
           ops == Printed(d)
<1>1. h \in Seq(Nat) /\ Len(h) = 8 /\ h[1] = TypeLetter["iv"] /\ h[2] = 1
  <2> DEFINE l == Len(d)
             type == "iv"
             n == l \div 8
  <2>1. l \in Nat /\ Is32Bit(l) /\ type \in {"ucode", "pcm", "iv"}
    OBVIOUS
  <2> HIDE DEF l, type
  <2>2. n \in Nat /\ Is32Bit(n)
    BY <2>1, SMT DEF Is32Bit
  <2> HIDE DEF n
  <2>3. Header(type, n) \in Seq(Nat) /\ Len(Header(type, n)) = 8
        /\ Header(type, n)[1] = TypeLetter[type] /\ Header(type, n)[2] = 1
    BY <2>1, <2>2, HeaderFacts
  <2> QED BY <2>3 DEF l, n, type
<1>2. body \in Seq(Nat) /\ Len(body) \in Nat
  <2>1. body \in Seq(Nat)
    BY BuiltIvsType
  <2> HIDE DEF body
  <2> QED BY <2>1
<1>3. file = h \o body
  BY DEF B43File
<1>4. PICK q : AreStarts(d, q)
  BY StartsExist
<1>5. /\ N \in Nat \ {0} /\ Len(body) = 2 * q[N + 1]
      /\ \A n \in 1 .. N :
            /\ q[n] + WordsIn(Records(d)[n]) <= q[N + 1]
            /\ \A j \in 1 .. 2 * WordsIn(Records(d)[n]) : body[2 * q[n] + j] = B43Iv(Records(d)[n])[j]
  BY <1>4, RecordsInFile
<1>6. q \in [1 .. N + 1 -> Nat] /\ q[1] = 0 /\ \A n \in 1 .. N : q[n + 1] = q[n] + WordsIn(Records(d)[n])
  BY <1>4 DEF AreStarts
<1>7. DOMAIN Records(d) = 1 .. N /\ \A n \in 1 .. N : Records(d)[n] \in Seq(Nat) /\ Len(Records(d)[n]) = 8
                                                   /\ ~IvError(Records(d)[n])
  <2>1. DOMAIN Records(d) = 1 .. Len(d) \div 8 /\ Len(d) \div 8 \in Nat
    BY RecordsType
  <2>2. DOMAIN Records(d) = 1 .. N
    BY <2>1 DEF Records
  <2> QED BY <2>2, RecordsType DEF IsPart, IvsRefused
<1> HIDE DEF h, body, N
<1>8. /\ Len(file) = 8 + Len(body) /\ file[1] = TypeLetter["iv"] /\ file[2] = 1
      /\ \A j \in 1 .. Len(body) : file[8 + j] = body[j]
  <2>1. /\ Len(h \o body) = 8 + Len(body) /\ (h \o body)[1] = h[1] /\ (h \o body)[2] = h[2]
        /\ \A j \in 1 .. Len(body) : (h \o body)[8 + j] = body[j]
    BY <1>1, <1>2, BehindHeader
  <2> DEFINE f == h \o body
  <2> HIDE DEF f
  <2>2. Len(f) = 8 + Len(body) /\ f[1] = h[1] /\ f[2] = h[2] /\ \A j \in 1 .. Len(body) : f[8 + j] = body[j]
    BY <2>1 DEF f
  <2>3. file = f
    BY <1>3 DEF f
  <2> HIDE DEF file
  <2> QED BY <1>1, <2>2, <2>3
<1> HIDE DEF file
<1>9. B43Dump(file) = Dump(words)
  BY <1>2, <1>8 DEF B43Dump
<1> DEFINE L == q[N + 1]
<1>10. L \in Nat /\ (Len(file) - 8) \div 2 = L /\ Len(body) = 2 * L
  <2>1. N + 1 \in 1 .. N + 1
    BY <1>5
  <2>2. L \in Nat /\ Len(body) = 2 * L
    BY <1>5, <1>6, <2>1
  <2> HIDE DEF L
  <2> QED BY <1>8, <2>2
<1>11. words = [n \in 1 .. L |-> Be16(file, 7 + 2 * n)]
  <2> HIDE DEF L
  <2> QED BY <1>10
<1> HIDE DEF words, L
<1>12. Len(words) = L /\ \A i \in 1 .. L : words[i] = 256 * body[2 * i - 1] + body[2 * i]
  <2>1. ASSUME NEW i \in 1 .. L PROVE words[i] = 256 * body[2 * i - 1] + body[2 * i]
    <3>1. /\ 2 * i - 1 \in 1 .. Len(body) /\ 2 * i \in 1 .. Len(body)
          /\ 8 + (2 * i - 1) = 7 + 2 * i /\ 8 + 2 * i = (7 + 2 * i) + 1
      BY <1>10
    <3>2. file[7 + 2 * i] = body[2 * i - 1] /\ file[(7 + 2 * i) + 1] = body[2 * i]
      BY <1>8, <3>1
    <3>3. words[i] = Be16(file, 7 + 2 * i)
      BY <1>11
    <3> QED BY <3>2, <3>3 DEF Be16
  <2>2. Len(words) = L
    BY <1>10, <1>11
  <2> QED BY <2>1, <2>2
<1> DEFINE at == [n \in 1 .. N + 1 |-> q[n] + 1]
           W == {PrintedOp(Records(d)[n]) : n \in 1 .. N}
<1>13. /\ ops = [n \in 1 .. N |-> PrintedOp(Records(d)[n])]
       /\ ops \in Seq(W) /\ Len(ops) = N
  <2>1. ops = [n \in 1 .. N |-> PrintedOp(Records(d)[n])]
    BY <1>7 DEF Printed
  <2>2. \A n \in 1 .. N : PrintedOp(Records(d)[n]) \in W
    OBVIOUS
  <2>3. ops \in [1 .. N -> W]
    BY <2>1, <2>2
  <2> HIDE DEF ops, W
  <2>4. ops \in Seq(W) /\ Len(ops) = N
    BY <1>5, <2>3, FunctionIsSequence
  <2> QED BY <2>1, <2>4
<1>14. ASSUME NEW n \in 1 .. N
       PROVE  /\ DumpedOp(words, at[n]) = ops[n] /\ at[n] + RecordLen(words[at[n]]) = at[n + 1]
  <2> DEFINE iv == Records(d)[n]
             m == WordsIn(iv)
             i == q[n] + 1
             b == B43Iv(iv)
  <2>1. n \in 1 .. N + 1 /\ n + 1 \in 1 .. N + 1
    BY <1>5
  <2>2. q[n] \in Nat /\ m \in {2, 3} /\ (Be16(iv, 3) = 4 <=> m = 3)
    <3>1. q[n] \in Nat
      BY <1>6, <2>1
    <3>2. m \in {2, 3} /\ (Be16(iv, 3) = 4 <=> m = 3)
      BY DEF WordsIn
    <3> QED BY <3>1, <3>2
  <2>3. at[n] = i /\ at[n + 1] = q[n + 1] + 1 /\ q[n + 1] = q[n] + m
    BY <1>6, <2>1
  <2>4. q[n] + m <= L /\ \A j \in 1 .. 2 * m : body[2 * q[n] + j] = b[j]
    BY <1>5 DEF L
  <2>5. iv \in Seq(Nat) /\ Len(iv) = 8 /\ ~IvError(iv) /\ ops[n] = PrintedOp(iv)
    BY <1>7, <1>13
  <2> HIDE DEF m, iv, b, at, ops
  <2>6. words[i] = Be16(b, 1) /\ words[i + 1] = Be16(b, 3)
    <3>1. /\ i \in 1 .. L /\ i + 1 \in 1 .. L
          /\ 2 * i - 1 = 2 * q[n] + 1 /\ 2 * i = 2 * q[n] + 2
          /\ 2 * (i + 1) - 1 = 2 * q[n] + 3 /\ 2 * (i + 1) = 2 * q[n] + 4
      <4> DEFINE x == q[n]
      <4>1. x \in Nat /\ L \in Nat /\ m \in {2, 3} /\ x + m <= L
        BY <1>10, <2>2, <2>4
      <4> HIDE DEF x
      <4>2. /\ x + 1 \in 1 .. L /\ (x + 1) + 1 \in 1 .. L
            /\ 2 * (x + 1) - 1 = 2 * x + 1 /\ 2 * (x + 1) = 2 * x + 2
            /\ 2 * ((x + 1) + 1) - 1 = 2 * x + 3 /\ 2 * ((x + 1) + 1) = 2 * x + 4
        BY <4>1
      <4> QED BY <4>2 DEF x
    <3> HIDE DEF i
    <3>2. /\ words[i] = 256 * body[2 * q[n] + 1] + body[2 * q[n] + 2]
          /\ words[i + 1] = 256 * body[2 * q[n] + 3] + body[2 * q[n] + 4]
      <4>1. words[i] = 256 * body[2 * i - 1] + body[2 * i]
        BY <1>12, <3>1
      <4>2. words[i + 1] = 256 * body[2 * (i + 1) - 1] + body[2 * (i + 1)]
        BY <1>12, <3>1
      <4> QED BY <3>1, <4>1, <4>2
    <3>3. 1 \in 1 .. 2 * m /\ 2 \in 1 .. 2 * m /\ 3 \in 1 .. 2 * m /\ 4 \in 1 .. 2 * m
      BY <2>2
    <3>4. /\ body[2 * q[n] + 1] = b[1] /\ body[2 * q[n] + 2] = b[2]
          /\ body[2 * q[n] + 3] = b[3] /\ body[2 * q[n] + 4] = b[4]
      BY <2>4, <3>3
    <3> QED BY <3>2, <3>4 DEF Be16
  <2>7. Be16(iv, 3) = 4 => words[i + 2] = Be16(b, 5)
    <3> SUFFICES ASSUME m = 3 PROVE words[i + 2] = Be16(b, 5)
      BY <2>2
    <3>1. i + 2 \in 1 .. L /\ 2 * (i + 2) - 1 = 2 * q[n] + 5 /\ 2 * (i + 2) = 2 * q[n] + 6
      <4> DEFINE x == q[n]
      <4>1. x \in Nat /\ L \in Nat /\ m = 3 /\ x + m <= L
        BY <1>10, <2>2, <2>4
      <4> HIDE DEF x
      <4>2. /\ (x + 1) + 2 \in 1 .. L
            /\ 2 * ((x + 1) + 2) - 1 = 2 * x + 5 /\ 2 * ((x + 1) + 2) = 2 * x + 6
        BY <4>1
      <4> QED BY <4>2 DEF x
    <3> HIDE DEF i
    <3>2. words[i + 2] = 256 * body[2 * q[n] + 5] + body[2 * q[n] + 6]
      BY <1>12, <3>1
    <3>3. 5 \in 1 .. 2 * m /\ 6 \in 1 .. 2 * m
      OBVIOUS
    <3>4. body[2 * q[n] + 5] = b[5] /\ body[2 * q[n] + 6] = b[6]
      BY <2>4, <3>3
    <3> QED BY <3>2, <3>4 DEF Be16
  <2>8. DumpedOp(words, i) = PrintedOp(iv) /\ RecordLen(words[i]) = m
    <3> HIDE DEF i
    <3> QED BY <2>5, <2>6, <2>7, PrintedByB43 DEF b, m
  <2>9. i + m = at[n + 1]
    BY <2>2, <2>3
  <2> HIDE DEF i
  <2> QED BY <2>3, <2>5, <2>8, <2>9
<1>15. at \in [1 .. N + 1 -> 1 .. L + 1] /\ at[1] = 1 /\ at[N + 1] = L + 1
  <2>1. \A n \in 1 .. N : q[n] \in Nat /\ q[n] <= L
    <3> SUFFICES ASSUME NEW n \in 1 .. N PROVE q[n] \in Nat /\ q[n] <= L
      OBVIOUS
    <3>1. n \in 1 .. N + 1 /\ WordsIn(Records(d)[n]) \in Nat
      BY <1>5 DEF WordsIn
    <3>2. q[n] \in Nat /\ q[n] + WordsIn(Records(d)[n]) <= L
      BY <1>5, <1>6, <3>1 DEF L
    <3> QED BY <1>10, <3>1, <3>2
  <2>2. q[N + 1] = L
    BY DEF L
  <2>3. \A n \in 1 .. N + 1 : q[n] + 1 \in 1 .. L + 1
    <3>1. \A n \in 1 .. N + 1 : n \in 1 .. N \/ n = N + 1
      BY <1>5
    <3> QED BY <1>10, <2>1, <2>2, <3>1
  <2>4. 1 \in 1 .. N + 1 /\ N + 1 \in 1 .. N + 1
    BY <1>5
  <2> QED BY <1>6, <2>2, <2>3, <2>4
<1> HIDE DEF at, ops, W
<1>16. ArePlaces(words, ops, at)
  BY <1>12, <1>13, <1>14, <1>15 DEF ArePlaces
<1>17. Dump(words) = ops
  <2>1. Len(words) \in Nat
    BY <1>10, <1>12
  <2> QED BY <1>13, <1>16, <2>1, DumpIs
<1> QED BY <1>9, <1>17 DEF file, ops
-----------------------------------------------------------------------------
\* The other way round.
LEMMA SwappedBack ==
    ASSUME NEW x, NEW y, Swapped(x, y)
    PROVE  Swapped(y, x)
BY DEF Swapped

\* An object's initvals in the file for b43 and in the data file.
LEMMA ObjectInBothOrders ==
    ASSUME driver \in Drivers, NEW o \in Objects, o.type = "iv"
    PROVE  InBothOrders(LittleEndian(o), BigEndian(o))
<1> DEFINE d == o.data
           e == SwapIvs(d)
<1>1. driver.le \in BOOLEAN /\ d \in Seq(Nat) /\ Len(d) % 8 = 0
  BY ObjectFacts DEF ObjectType
<1>2. e \in Seq(Nat) /\ Len(e) = Len(d)
  BY <1>1, SwapIvsType
<1>3. /\ DOMAIN Records(e) = DOMAIN Records(d)
      /\ \A n \in DOMAIN Records(d) : Swapped(Records(e)[n], Records(d)[n])
  BY <1>1, SwappedRecords
<1>4. /\ LittleEndian(o) = IF driver.le THEN d ELSE e
      /\ BigEndian(o) = IF driver.le THEN e ELSE d
  BY DEF LittleEndian, BigEndian, Swap
<1> HIDE DEF d, e
<1>5. CASE driver.le
  <2>1. \A n \in DOMAIN Records(e) : Swapped(Records(d)[n], Records(e)[n])
    BY <1>3, SwappedBack
  <2> QED BY <1>1, <1>2, <1>3, <1>4, <1>5, <2>1 DEF InBothOrders
<1>6. CASE ~driver.le
  BY <1>1, <1>2, <1>3, <1>4, <1>6 DEF InBothOrders
<1> QED BY <1>5, <1>6

\* b43-ivaldump and brcm80211-ivaldump print the same of an object that build_ivs
\* accepts.
LEMMA DumpsAgree ==
    ASSUME driver \in Drivers, NEW o \in Objects, o.type = "iv", ~Refused(o)
    PROVE  B43Dump(B43File(o.type, BigEndian(o))) = BrcmDump(LittleEndian(o))
<1> DEFINE d == BigEndian(o)
           e == LittleEndian(o)
<1>1. InBothOrders(e, d)
  BY ObjectInBothOrders
<1>2. d \in Seq(Nat) /\ Len(d) = Len(o.data)
  BY BigEndianMeans
<1>3. o.data \in Seq(Nat) /\ o.data # <<>> /\ Len(o.data) % 8 = 0 /\ Is32Bit(Len(o.data))
  BY ObjectFacts DEF ObjectType
<1>4. ~IvsRefused(d)
  BY DEF Refused
<1> HIDE DEF d, e
<1>5. d # <<>>
  <2>1. Len(o.data) # 0
    BY <1>3
  <2> QED BY <1>2, <2>1
<1>6. Len(d) % 8 = 0 /\ Is32Bit(Len(d))
  BY <1>2, <1>3
<1>7. B43Dump(B43File("iv", d)) = Printed(d)
  BY <1>2, <1>4, <1>5, <1>6, B43DumpIs
<1>8. BrcmDump(e) = Printed(d)
  BY <1>1, <1>4, <1>5, <1>6, BrcmDumpIs
<1> QED BY <1>7, <1>8 DEF d, e

\* What an extraction writes for an object of initvals with an index.
LEMMA GoodIsLittleEndian ==
    ASSUME driver \in Drivers, NEW o \in Objects, o.name \in DOMAIN BrcmIndex,
           NEW e, e.idx = BrcmIndex[o.name], IsGood(e, bin, AllWrites)
    PROVE  Slice(bin, e) = LittleEndian(o)
<1> DEFINE s == Slice(bin, e)
           w == Write(e.idx, s)
<1>0. w.idx = e.idx /\ w.data = s
  BY DEF Write
<1>1. w \in AllWrites
  BY DEF IsGood
<1> HIDE DEF w, s
<1>2. BrcmIndex[o.name] \notin {7, 14, 15}
  <2>1. o.name # "n0absinitvals16"
    BY FwCutterAssumption DEF Objects
  <2> QED BY <2>1 DEF BrcmIndex
<1>3. w \notin Elements(Dummies)
  BY <1>0, <1>2, DummiesAre
<1>4. PICK p \in Objects : p.name \in DOMAIN BrcmIndex /\ w \in Elements(WritesOf(p))
  BY <1>1, <1>3 DEF AllWrites
<1>5. CASE w = Write(BrcmIndex[p.name], LittleEndian(p))
  <2>1. BrcmIndex[p.name] = BrcmIndex[o.name] /\ s = LittleEndian(p)
    BY <1>0, <1>5 DEF Write
  <2>2. p.name = o.name
    BY <1>4, <2>1 DEF BrcmIndex
  <2>3. p = o
    BY <2>2, ObjectFacts
  <2> QED BY <2>1, <2>3 DEF s
<1>6. CASE p.name \in DOMAIN SizeIndex /\ w = Write(SizeIndex[p.name], SizeOf(p))
  <2>1. SizeIndex[p.name] = BrcmIndex[o.name]
    BY <1>0, <1>6 DEF Write
  <2> QED BY <1>6, <2>1 DEF SizeIndex, BrcmIndex
<1> QED BY <1>4, <1>5, <1>6, WritesOfAre

\* What the theorem about initvals rests on.
AgreeInv == OneLost /\ FilesInv

LEMMA AgreeInvMeans ==
    ASSUME AgreeInv
    PROVE  InitvalsAgree
<1> SUFFICES ASSUME origin = "cutter", pc = "idle", ~faulty,
                    NEW o \in Objects, o.type = "iv", o.name \in DOMAIN BrcmIndex, files[o.name] # None,
                    NEW n \in EntriesOf(hdr, BrcmIndex[o.name])
             PROVE  B43Dump(files[o.name]) = BrcmDump(Slice(bin, hdr[n]))
  BY DEF InitvalsAgree
<1>1. driver \in Drivers
  BY DEF AgreeInv, OneLost, ConvInv, ConvTypeOK
<1>2. files[o.name] = B43File(o.type, BigEndian(o)) /\ ~Refused(o)
  BY DEF AgreeInv, FilesInv, IsFileOf
<1>3. ~damaged
  BY DEF AgreeInv, OneLost, Phases
<1>4. PICK x \in Nat : (x = 0 \/ damaged) /\ GoodBut(hdr, bin, AllWrites, x, Awaited)
  BY DEF AgreeInv, OneLost, AllButOneGood
<1>5. Awaited = {} /\ x = 0
  BY <1>3, <1>4 DEF Awaited
<1>6. n \in DOMAIN hdr /\ hdr[n].idx = BrcmIndex[o.name]
  BY DEF EntriesOf
<1>7. hdr[n] # Torn
  <2>1. BrcmIndex[o.name] \in Nat
    BY SizeIndexFacts
  <2>2. Torn.idx = None
    BY DEF Torn, Entry
  <2> QED BY <1>6, <2>1, <2>2, FwCutterAssumption
<1>8. n # 0
  <2>1. hdr \in Seq(EntryType \cup {Torn})
    BY DEF AgreeInv, OneLost, ConvInv, ConvTypeOK
  <2>2. DOMAIN hdr = 1 .. Len(hdr)
    BY <2>1
  <2> QED BY <1>6, <2>2
<1>9. IsGood(hdr[n], bin, AllWrites)
  BY <1>4, <1>5, <1>6, <1>7, <1>8 DEF GoodBut
<1>10. Slice(bin, hdr[n]) = LittleEndian(o)
  BY <1>1, <1>6, <1>9, GoodIsLittleEndian
<1> QED BY <1>1, <1>2, <1>10, DumpsAgree

\* After any number of extractions and merges, the initvals of a driver print the
\* same from the file for b43 and from the section for brcmsmac, as long as nothing
\* went wrong and the section is the extraction's: the two byte orders and the two
\* record formats say the same (swap_endianness_iv, build_ivs, b43-ivaldump,
\* brcm80211-ivaldump).
THEOREM InitvalsOfBothFilesAgree == Spec => []InitvalsAgree
<1>1. ConvInit => AgreeInv
  BY OneLostAtFirst, FilesAtFirst DEF AgreeInv
<1>2. AgreeInv /\ [Next]_vars => AgreeInv'
  BY OneLostStep, FilesStep DEF AgreeInv, OneLost
<1>3. AgreeInv => InitvalsAgree
  BY AgreeInvMeans
<1> QED BY <1>1, <1>2, <1>3, PTL DEF Spec
=============================================================================
