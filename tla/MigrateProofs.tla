---------------------------- MODULE MigrateProofs ----------------------------
(***************************************************************************)
(* For any schemas, clocks and number of files, edits and databases: as    *)
(* long as the versions are in the order of generation and no run was cut  *)
(* between its two writes, each migration meets the schema it was diffed   *)
(* against; and every change is in one file, but for the runs that were    *)
(* cut there.  A schema has no difference from itself, so every file leads *)
(* to another schema.                                                      *)
(***************************************************************************)
EXTENDS Migrate, FiniteSetTheorems, WellFoundedInduction, TLAPS

\* A set of versions that is not empty has a first one.
LEMMA FirstVersion ==
  ASSUME NEW S \in SUBSET Nat, S # {}
  PROVE  Min(S) \in S /\ \A x \in S : Min(S) <= x
<1> DEFINE R == {p \in Nat \X Nat : p[1] < p[2]}
<1>1. IsWellFoundedOn(R, Nat)
  BY NatLessThanWellFounded DEF OpToRel
<1>2. \E x \in S : \A y \in S : <<y, x>> \notin R
  <2> HIDE DEF R
  <2> QED  BY <1>1, WFMin
<1>3. PICK x \in S : \A y \in S : <<y, x>> \notin R
  BY <1>2
<1>4. ASSUME NEW y \in S PROVE x <= y
  <2>1. <<y, x>> \notin R
    BY <1>3
  <2> QED
    BY <2>1
<1> QED
  BY <1>4 DEF Min

\* next_version finds a version that is free, and none before the clock.
LEMMA FreeVersion ==
  ASSUME IsFiniteSet(DOMAIN files), NEW now \in Nat
  PROVE  NextVersion(now) \in Nat \ DOMAIN files
<1> DEFINE n == Cardinality(DOMAIN files)
           Free == {v \in now..(now + n) : v \notin DOMAIN files}
<1>1. n \in Nat
  BY FS_CardinalityType
<1>2. Free # {}
  <2> SUFFICES ASSUME Free = {} PROVE FALSE
    OBVIOUS
  <2>1. now..(now + n) \subseteq DOMAIN files
    OBVIOUS
  <2>2. Cardinality(now..(now + n)) = n + 1
    <3>1. now + n \in Int /\ now \in Int /\ ~(now > now + n) /\ now + n - now + 1 = n + 1
      BY <1>1
    <3> HIDE DEF n
    <3> QED
      BY <3>1, <1>1, FS_Interval
  <2>3. Cardinality(now..(now + n)) <= n
    BY <2>1, FS_Subset
  <2> QED
    BY <1>1, <2>2, <2>3
<1>3. Free \in SUBSET Nat
  BY <1>1
<1> QED
  <2>1. Min(Free) \in Free
    BY <1>2, <1>3, FirstVersion
  <2>2. NextVersion(now) = Min(Free)
    BY DEF NextVersion
  <2> QED
    BY <2>1, <2>2, <1>3

\* Induction over the numbers up to n, for the sets there are.
LEMMA UpTo ==
  ASSUME NEW n \in Nat, NEW S, 0 \in S, \A i \in 1..n : i - 1 \in S => i \in S
  PROVE  0..n \subseteq S
<1> SUFFICES ASSUME 0..n \ S # {} PROVE FALSE
  OBVIOUS
<1> DEFINE m == Min(0..n \ S)
<1>1. m \in 0..n \ S /\ \A y \in 0..n \ S : m <= y
  BY FirstVersion
<1> HIDE DEF m
<1>2. m \in 1..n /\ m - 1 \in 0..n
  BY <1>1
<1>3. m - 1 \notin S
  BY <1>1, <1>2
<1>4. m - 1 \in 0..n \ S /\ m - 1 < m
  BY <1>2, <1>3
<1> QED
  BY <1>1, <1>4, <1>2

-----------------------------------------------------------------------------
(***************************************************************************)
(* A schema has no difference from itself.                                 *)
(***************************************************************************)
\* The function inside Only, for the first n elements.
Keeps(seq, S, n, f) ==
  /\ f = [i \in 0..n |-> f[i]]
  /\ f[0] = <<>>
  /\ \A i \in 1..n : f[i] = IF i \in S THEN Append(f[i - 1], seq[i]) ELSE f[i - 1]

\* It exists.
LEMMA KeptExists ==
  ASSUME NEW seq, NEW S, NEW n \in Nat
  PROVE  \E f : Keeps(seq, S, n, f)
<1> DEFINE Exists == {k \in 0..n : \E f : Keeps(seq, S, k, f)}
<1>1. 0 \in Exists
  <2> DEFINE f == [i \in 0..0 |-> <<>>]
  <2>1. Keeps(seq, S, 0, f)
    BY DEF Keeps
  <2> HIDE DEF f
  <2> QED
    BY <2>1
<1>2. ASSUME NEW k \in 1..n, k - 1 \in Exists PROVE k \in Exists
  <2>1. PICK h : Keeps(seq, S, k - 1, h)
    BY <1>2
  <2> DEFINE next == IF k \in S THEN Append(h[k - 1], seq[k]) ELSE h[k - 1]
             f == [i \in 0..k |-> IF i = k THEN next ELSE h[i]]
  <2>2. f[0] = <<>> /\ f = [i \in 0..k |-> f[i]]
    BY <2>1 DEF Keeps
  <2>3. ASSUME NEW i \in 1..k
        PROVE  f[i] = IF i \in S THEN Append(f[i - 1], seq[i]) ELSE f[i - 1]
    <3>1. f[i - 1] = h[i - 1]
      BY DEF f
    <3> HIDE DEF next
    <3>2. CASE i = k
      <4>1. f[i] = next
        BY <3>2
      <4> HIDE DEF f
      <4> QED
        BY <3>1, <3>2, <4>1 DEF next
    <3>3. CASE i # k
      <4>1. f[i] = h[i] /\ i \in 1..(k - 1)
        BY <3>3
      <4> HIDE DEF f
      <4> QED
        BY <2>1, <3>1, <4>1 DEF Keeps
    <3> QED
      BY <3>2, <3>3
  <2>4. Keeps(seq, S, k, f)
    <3> HIDE DEF f
    <3> QED
      BY <2>2, <2>3 DEF Keeps
  <2> HIDE DEF f
  <2> QED
    BY <2>4
<1>3. 0..n \subseteq Exists
  <2> HIDE DEF Exists
  <2> QED
    BY <1>1, <1>2, UpTo
<1> QED
  BY <1>3

\* Only is that function at the end of the sequence.
LEMMA KeptIs ==
  ASSUME NEW T, NEW seq \in Seq(T), NEW S
  PROVE  \E f : Keeps(seq, S, Len(seq), f) /\ Only(seq, S) = f[Len(seq)]
<1> DEFINE n == Len(seq)
           Is(g) == g = [i \in 0..n |->
                           IF i = 0 THEN <<>>
                           ELSE IF i \in S THEN Append(g[i - 1], seq[i]) ELSE g[i - 1]]
           f == CHOOSE g : Is(g)
<1>1. n \in Nat
  OBVIOUS
<1>2. Only(seq, S) = f[n]
  BY DEF Only
<1> HIDE DEF n
<1>3. \E g : Is(g)
  <2>1. PICK g : Keeps(seq, S, n, g)
    BY <1>1, KeptExists
  <2>2. \A i \in 0..n : i # 0 => i \in 1..n
    BY <1>1
  <2>3. Is(g)
    BY <2>1, <2>2 DEF Keeps
  <2> HIDE DEF Is
  <2> QED
    BY <2>3
<1>4. Is(f)
  <2> HIDE DEF Is
  <2> QED
    BY <1>3
<1>5. Keeps(seq, S, n, f)
  <2> HIDE DEF f
  <2>1. 0 \in 0..n /\ \A i \in 1..n : i \in 0..n /\ i # 0
    BY <1>1
  <2> QED
    BY <1>4, <2>1 DEF Keeps
<1> HIDE DEF f
<1> QED
  BY <1>2, <1>5 DEF n

\* Only keeps what is at the places, from different ones.
Picked(seq, S, kept, k) ==
  /\ kept \in Seq(Range(seq))
  /\ \A i \in DOMAIN kept : \E a \in S \cap 1..k : kept[i] = seq[a]
  /\ \A i, j \in DOMAIN kept :
       i < j => \E a, b \in S \cap 1..k : a < b /\ kept[i] = seq[a] /\ kept[j] = seq[b]
LEMMA OnlyPicks ==
  ASSUME NEW T, NEW seq \in Seq(T), NEW S
  PROVE  Picked(seq, S, Only(seq, S), Len(seq))
<1> DEFINE n == Len(seq)
<1>0. n \in Nat /\ DOMAIN seq = 1..n
  OBVIOUS
<1>1. PICK f : Keeps(seq, S, n, f) /\ Only(seq, S) = f[n]
  BY KeptIs
<1> HIDE DEF n
<1> DEFINE Ks == {k \in 0..n : Picked(seq, S, f[k], k)}
<1>2. 0 \in Ks
  <2>1. f[0] = <<>>
    BY <1>1 DEF Keeps
  <2>2. Picked(seq, S, <<>>, 0)
    BY DEF Picked
  <2> QED
    BY <1>0, <2>1, <2>2
<1>3. ASSUME NEW k \in 1..n, k - 1 \in Ks PROVE k \in Ks
  <2> DEFINE was == f[k - 1]  is == f[k]
  <2>1. is = IF k \in S THEN Append(was, seq[k]) ELSE was
    BY <1>1 DEF Keeps
  <2>2. Picked(seq, S, was, k - 1)
    BY <1>3
  <2>3. \A a \in S \cap 1..(k - 1) : a \in S \cap 1..k /\ a < k
    OBVIOUS
  <2> HIDE DEF was, is
  <2>4. ASSUME k \notin S PROVE Picked(seq, S, is, k)
    <3>1. is = was
      BY <2>1, <2>4
    <3>2. ASSUME NEW i \in DOMAIN is PROVE \E a \in S \cap 1..k : is[i] = seq[a]
      <4>1. PICK a \in S \cap 1..(k - 1) : was[i] = seq[a]
        BY <2>2, <3>1 DEF Picked
      <4> QED
        BY <2>3, <3>1, <4>1
    <3>3. ASSUME NEW i \in DOMAIN is, NEW j \in DOMAIN is, i < j
          PROVE  \E a, b \in S \cap 1..k : a < b /\ is[i] = seq[a] /\ is[j] = seq[b]
      <4>1. PICK a, b \in S \cap 1..(k - 1) : a < b /\ was[i] = seq[a] /\ was[j] = seq[b]
        BY <2>2, <3>1, <3>3 DEF Picked
      <4> QED
        BY <2>3, <3>1, <4>1
    <3> QED
      BY <2>2, <3>1, <3>2, <3>3 DEF Picked
  <2>5. ASSUME k \in S PROVE Picked(seq, S, is, k)
    <3>1. seq[k] \in Range(seq) /\ was \in Seq(Range(seq)) /\ k \in S \cap 1..k
      BY <1>0, <2>2, <2>5 DEF Picked, Range
    <3>2. /\ is \in Seq(Range(seq))
          /\ DOMAIN was = 1..Len(was) /\ Len(was) \in Nat
          /\ DOMAIN is = 1..(Len(was) + 1)
          /\ is[Len(was) + 1] = seq[k]
          /\ \A i \in 1..Len(was) : is[i] = was[i]
      BY <2>1, <2>5, <3>1
    <3>3. ASSUME NEW i \in DOMAIN is PROVE \E a \in S \cap 1..k : is[i] = seq[a]
      <4>1. CASE i = Len(was) + 1
        BY <3>1, <3>2, <4>1
      <4>2. CASE i # Len(was) + 1
        <5>1. i \in DOMAIN was /\ is[i] = was[i]
          BY <3>2, <4>2
        <5> QED
          BY <2>2, <2>3, <5>1 DEF Picked
      <4> QED
        BY <4>1, <4>2
    <3>4. ASSUME NEW i \in DOMAIN is, NEW j \in DOMAIN is, i < j
          PROVE  \E a, b \in S \cap 1..k : a < b /\ is[i] = seq[a] /\ is[j] = seq[b]
      <4>1. i \in DOMAIN was /\ is[i] = was[i]
        BY <3>2, <3>4
      <4>2. CASE j = Len(was) + 1
        <5>1. PICK a \in S \cap 1..(k - 1) : was[i] = seq[a]
          BY <2>2, <4>1 DEF Picked
        <5> QED
          BY <2>3, <3>1, <3>2, <4>1, <4>2, <5>1
      <4>3. CASE j # Len(was) + 1
        <5>1. j \in DOMAIN was /\ is[j] = was[j]
          BY <3>2, <4>3
        <5>2. PICK a, b \in S \cap 1..(k - 1) : a < b /\ was[i] = seq[a] /\ was[j] = seq[b]
          BY <2>2, <3>4, <4>1, <5>1 DEF Picked
        <5> QED
          BY <2>3, <4>1, <5>1, <5>2
      <4> QED
        BY <4>2, <4>3
    <3> QED
      BY <3>2, <3>3, <3>4 DEF Picked
  <2> QED
    BY <2>4, <2>5 DEF is
<1>4. 0..n \subseteq Ks
  <2> HIDE DEF Ks
  <2> QED
    BY <1>0, <1>2, <1>3, UpTo
<1>5. n \in Ks
  BY <1>0, <1>4
<1> QED
  BY <1>1, <1>5 DEF n

\* Nothing is kept from no place.
LEMMA OnlyNone ==
  ASSUME NEW T, NEW seq \in Seq(T)
  PROVE  Only(seq, {}) = <<>>
<1> DEFINE kept == Only(seq, {})
<1>1. Picked(seq, {}, kept, Len(seq))
  BY OnlyPicks
<1> HIDE DEF kept
<1>2. kept \in Seq(Range(seq)) /\ \A i \in DOMAIN kept : FALSE
  BY <1>1 DEF Picked
<1>3. Len(kept) = 0
  <2>1. Len(kept) \in Nat /\ DOMAIN kept = 1..Len(kept)
    BY <1>2
  <2>2. Len(kept) # 0 => 1 \in DOMAIN kept
    BY <2>1
  <2> QED
    BY <1>2, <2>2
<1>4. kept = <<>>
  BY <1>2, <1>3
<1> QED
  BY <1>4 DEF kept

\* A set of numbers up to n that is not empty has a greatest one.
LEMMA LastPlace ==
  ASSUME NEW n \in Nat, NEW S \in SUBSET (1..n), S # {}
  PROVE  Max(S) \in S /\ \A x \in S : x <= Max(S)
<1> DEFINE T == {n - x : x \in S}
<1>1. T \in SUBSET Nat /\ T # {}
  <2>1. \A x \in S : n - x \in Nat
    OBVIOUS
  <2> QED
    BY <2>1
<1>2. Min(T) \in T /\ \A y \in T : Min(T) <= y
  BY <1>1, FirstVersion
<1>3. PICK x \in S : Min(T) = n - x
  BY <1>2
<1>4. ASSUME NEW y \in S PROVE y <= x
  <2>1. n - y \in T /\ n \in Int /\ x \in Int /\ y \in Int
    OBVIOUS
  <2>2. n - x <= n - y
    BY <1>2, <1>3, <2>1
  <2> QED
    BY <2>1, <2>2
<1>5. \A y \in S : y \in Int
  OBVIOUS
<1> QED
  BY <1>4, <1>5 DEF Max

\* A marker does nothing while the table has its column: no column is renamed.
LEMMA RenamedIsItself ==
  ASSUME NEW def, Distinct(def.columns)
  PROVE  Renamed(def, def) = [columns |-> def.columns, renames |-> <<>>]
<1> DEFINE cols == def.columns  n == Len(cols)
           base == [columns |-> cols, renames |-> <<>>]
           Is(g) == g = [T \in SUBSET (1..n) |->
                          IF T = {} THEN base ELSE Rename(g[T \ {Max(T)}], cols[Max(T)])]
           iter == CHOOSE g : Is(g)
<1>1. n \in Nat /\ DOMAIN cols = 1..n
  BY DEF Distinct
<1>2. \A i \in 1..n : Rename(base, cols[i]) = base
  BY <1>1 DEF Rename, ColumnNames
<1>3. Renamed(def, def) = iter[1..n]
  BY <1>1 DEF Renamed, FoldLeft, MapThenFoldSet
<1> HIDE DEF n, base, cols
<1>4. \E g : Is(g)
  <2> DEFINE g == [T \in SUBSET (1..n) |-> base]
  <2>1. ASSUME NEW T \in SUBSET (1..n), T # {}
        PROVE  base = Rename(g[T \ {Max(T)}], cols[Max(T)])
    <3>1. Max(T) \in 1..n
      BY <1>1, <2>1, LastPlace
    <3>2. T \ {Max(T)} \in SUBSET (1..n)
      OBVIOUS
    <3> QED
      BY <1>2, <3>1, <3>2
  <2>2. Is(g)
    BY <2>1
  <2> HIDE DEF Is, g
  <2> QED
    BY <2>2
<1>5. Is(iter)
  <2> HIDE DEF Is
  <2> QED
    BY <1>4
<1> HIDE DEF iter
<1> DEFINE Ks == {k \in 0..n : iter[1..k] = base}
<1>6. 0 \in Ks
  <2>1. 1..0 = {} /\ 1..0 \in SUBSET (1..n)
    OBVIOUS
  <2> QED
    BY <1>1, <1>5, <2>1
<1>7. ASSUME NEW k \in 1..n, k - 1 \in Ks PROVE k \in Ks
  <2>1. 1..k \in SUBSET (1..n) /\ k \in 1..k
    BY <1>1
  <2>2. Max(1..k) = k
    <3>1. Max(1..k) \in 1..k /\ k <= Max(1..k)
      BY <1>1, <2>1, LastPlace
    <3> QED
      BY <3>1
  <2>3. 1..k \ {k} = 1..(k - 1)
    OBVIOUS
  <2>4. iter[1..k] = Rename(iter[1..(k - 1)], cols[k])
    BY <1>5, <2>1, <2>2, <2>3
  <2> QED
    BY <1>2, <1>7, <2>4
<1>8. 0..n \subseteq Ks
  <2> HIDE DEF Ks
  <2> QED
    BY <1>1, <1>6, <1>7, UpTo
<1>9. iter[1..n] = base
  BY <1>1, <1>8
<1> QED
  BY <1>3, <1>9 DEF base, cols

\* A column is the one its table has under its name.
LEMMA NamedIsItself ==
  ASSUME NEW cols, Distinct(cols), NEW c \in Range(cols)
  PROVE  c.name \in ColumnNames(cols) /\ ColumnNamed(cols, c.name) = c
<1>1. PICK i \in DOMAIN cols : c = cols[i]
  BY DEF Range
<1> QED
  BY <1>1 DEF Distinct, ColumnNames, ColumnNamed

\* Nothing is to be done to a table that is what it should be.
LEMMA PlanIsEmpty ==
  ASSUME NEW def, Distinct(def.columns)
  PROVE  /\ Plan(def, def).renames = <<>> /\ Plan(def, def).added = <<>>
         /\ Plan(def, def).dropped = <<>> /\ Plan(def, def).changed = <<>>
         /\ Plan(def, def).toggled = <<>>
<1> DEFINE is == def.columns  eff == Renamed(def, def)
           had == {i \in DOMAIN is : is[i].name \in ColumnNames(eff.columns)}
           was(c) == ColumnNamed(eff.columns, c.name)
           same == {i \in had : Signature(was(is[i])) = Signature(is[i])}
           gone == {i \in DOMAIN eff.columns : eff.columns[i].name \notin ColumnNames(is)}
           other == {i \in same : was(is[i]).index # is[i].index}
<1>1. eff = [columns |-> is, renames |-> <<>>]
  BY RenamedIsItself
<1> HIDE DEF eff
<1>2. \A i \in DOMAIN is : is[i] \in Range(is)
  BY DEF Range
<1>3. ASSUME NEW i \in DOMAIN is
      PROVE  is[i].name \in ColumnNames(is) /\ was(is[i]) = is[i]
  BY <1>1, <1>2, NamedIsItself
<1> HIDE DEF was
<1>4. had = DOMAIN is /\ same = had
  BY <1>1, <1>3
<1>5. DOMAIN is \ had = {} /\ gone = {} /\ had \ same = {} /\ other = {}
  BY <1>1, <1>3, <1>4
<1>6. is \in Seq(Range(is)) /\ eff.columns = is /\ eff.renames = <<>>
  BY <1>1 DEF Distinct
<1>7. Only(is, {}) = <<>>
  BY <1>6, OnlyNone
<1>8. Plan(def, def) =
        [renames |-> eff.renames, added |-> Only(is, DOMAIN is \ had),
         dropped |-> Only(eff.columns, gone), changed |-> Only(is, had \ same),
         toggled |-> Only(is, other)]
  BY DEF Plan, eff, was
<1>9. Plan(def, def) =
        [renames |-> <<>>, added |-> Only(is, {}), dropped |-> Only(is, {}),
         changed |-> Only(is, {}), toggled |-> Only(is, {})]
  <2> HIDE DEF had, same, gone, other, is
  <2> QED
    BY <1>5, <1>6, <1>8, Zenon
<1> QED
  BY <1>7, <1>9

\* Sequences of nothing are nothing.
LEMMA FlattenNone ==
  ASSUME NEW k \in Nat, NEW seqs, seqs = [i \in 1..k |-> <<>>]
  PROVE  FlattenSeq(seqs) = <<>>
<1>1. seqs \in Seq({<<>>}) /\ Len(seqs) = k
  OBVIOUS
<1>2. CASE k = 0
  BY <1>1, <1>2 DEF FlattenSeq
<1>3. CASE k # 0
  <2> DEFINE Is(g) == g = [i \in 1..Len(seqs) |->
                            IF i = 1 THEN seqs[i] ELSE g[i - 1] \o seqs[i]]
             flatten == CHOOSE g : Is(g)
  <2>1. FlattenSeq(seqs) = flatten[Len(seqs)]
    BY <1>1, <1>3 DEF FlattenSeq
  <2>2. Is(seqs)
    <3>1. <<>> \o <<>> = <<>>
      OBVIOUS
    <3> QED
      BY <1>1, <3>1
  <2>3. Is(flatten)
    <3> HIDE DEF Is
    <3> QED
      BY <2>2
  <2> HIDE DEF flatten
  <2> DEFINE Ks == {i \in 0..k : i # 0 => flatten[i] = <<>>}
  <2>4. ASSUME NEW i \in 1..k, i - 1 \in Ks PROVE i \in Ks
    <3>1. seqs[i] = <<>>
      OBVIOUS
    <3>2. flatten[i] = IF i = 1 THEN seqs[i] ELSE flatten[i - 1] \o seqs[i]
      BY <1>1, <2>3
    <3> QED
      BY <2>4, <3>1, <3>2
  <2>5. 0..k \subseteq Ks
    <3>1. 0 \in Ks
      OBVIOUS
    <3> HIDE DEF Ks
    <3> QED
      BY <2>4, <3>1, UpTo
  <2> QED
    BY <1>1, <1>3, <2>1, <2>5
<1> QED
  BY <1>2, <1>3

\* A set that is empty makes a sequence that is.
LEMMA NothingInOrder == SetToSeq({}) = <<>>
<1>1. Cardinality({}) = 0 /\ 1..0 = {}
  BY FS_EmptySet
<1>2. <<>> = [x \in {} |-> x] /\ <<>> \in [{} -> {}] /\ IsInjective(<<>>)
  BY DEF IsInjective
<1>3. ASSUME NEW f \in [{} -> {}] PROVE f = <<>>
  <2>1. f = [x \in {} |-> f[x]] /\ [x \in {} |-> f[x]] = [x \in {} |-> x]
    OBVIOUS
  <2> QED
    BY <1>2, <2>1
<1>4. SetToSeq({}) = CHOOSE f \in [{} -> {}] : IsInjective(f)
  BY <1>1 DEF SetToSeq
<1>5. (CHOOSE f \in [{} -> {}] : IsInjective(f)) \in [{} -> {}]
  BY <1>2
<1> QED
  BY <1>3, <1>4, <1>5

\* diff_table writes nothing for a table that is what it should be.
LEMMA TableIsItself ==
  ASSUME NEW t, NEW def, Distinct(def.columns)
  PROVE  DiffTable(t, def, def) = <<>>
<1> DEFINE p == Plan(def, def)
<1>1. /\ p.renames = <<>> /\ p.added = <<>> /\ p.dropped = <<>>
      /\ p.changed = <<>> /\ p.toggled = <<>>
  BY PlanIsEmpty
<1> HIDE DEF p
<1>2. ~NeedsRebuild(p)
  BY <1>1 DEF NeedsRebuild
<1>3. FlattenSeq(<<>>) = <<>>
  BY DEF FlattenSeq
<1> DEFINE rename(r) ==
             LET c == ColumnNamed(def.columns, r.to)
             IN (IF c.index THEN <<DropIndex(t, <<r.from>>)>> ELSE <<>>)
                  \o <<[op |-> "rename column", table |-> t, from |-> r.from, to |-> r.to]>>
                  \o (IF c.index THEN <<CreateIndex(t, <<r.to>>, FALSE)>> ELSE <<>>)
           add(c) ==
             <<[op |-> "add column", table |-> t,
                column |-> [Signature(c) EXCEPT !.references = None]]>>
               \o (IF c.index THEN <<CreateIndex(t, <<c.name>>, FALSE)>> ELSE <<>>)
           drop(c) == <<[op |-> "drop column", table |-> t, name |-> c.name]>>
           toggle(c) == IF c.index THEN <<CreateIndex(t, <<c.name>>, FALSE)>>
                        ELSE <<DropIndex(t, <<c.name>>)>>
           lists(was, is, unique) ==
             SetToSeq({DropIndex(t, l) : l \in was \ is}) \o Lists(t, is \ was, unique)
<1>4. Alter(t, def, def, p) =
        FlattenSeq([i \in DOMAIN p.renames |-> rename(p.renames[i])])
          \o FlattenSeq([i \in DOMAIN p.added |-> add(p.added[i])])
          \o FlattenSeq([i \in DOMAIN p.dropped |-> drop(p.dropped[i])])
          \o FlattenSeq([i \in DOMAIN p.toggled |-> toggle(p.toggled[i])])
          \o lists(def.uniques, def.uniques, TRUE) \o lists(def.indexes, def.indexes, FALSE)
  BY DEF Alter, ForEach
<1>5. ASSUME NEW was, NEW unique PROVE lists(was, was, unique) = <<>>
  <2>1. was \ was = {}
    OBVIOUS
  <2>2. {DropIndex(t, l) : l \in {}} = {} /\ {CreateIndex(t, l, unique) : l \in {}} = {}
    OBVIOUS
  <2>3. lists(was, was, unique) = <<>> \o <<>>
    BY <2>1, <2>2, NothingInOrder, Zenon DEF Lists
  <2> QED
    BY <2>3
<1>6. /\ [i \in DOMAIN p.renames |-> rename(p.renames[i])] = <<>>
      /\ [i \in DOMAIN p.added |-> add(p.added[i])] = <<>>
      /\ [i \in DOMAIN p.dropped |-> drop(p.dropped[i])] = <<>>
      /\ [i \in DOMAIN p.toggled |-> toggle(p.toggled[i])] = <<>>
  <2> HIDE DEF rename, add, drop, toggle
  <2>1. DOMAIN p.renames = {} /\ DOMAIN p.added = {} /\ DOMAIN p.dropped = {} /\ DOMAIN p.toggled = {}
    BY <1>1
  <2> QED
    BY <2>1
<1>7. Alter(t, def, def, p) = <<>>
  <2> HIDE DEF rename, add, drop, toggle, lists
  <2>1. Alter(t, def, def, p) = <<>> \o <<>> \o <<>> \o <<>> \o <<>> \o <<>>
    BY <1>3, <1>4, <1>5, <1>6, Zenon
  <2> QED
    BY <2>1
<1> QED
  BY <1>2, <1>7 DEF DiffTable, p

\* diff_schemas returns None for a schema and itself: its documentation says so.
THEOREM NothingToDo ==
  ASSUME NEW s, NEW order, order \in Seq(Range(order)),
         \A t \in Range(order) : s[t] # None => Distinct(s[t].columns)
  PROVE  Diff(s, s, order) = <<>>
<1> DEFINE had == {i \in DOMAIN order : s[order[i]] # None}
           kept == Only(order, had \cap had)
           none == Only(order, had \ had)
           create(t) == <<CreateTable(t, s[t])>> \o Indexes(t, s[t])
           drop(t) == <<[op |-> "drop table", table |-> t]>>
<1>1. Diff(s, s, order) =
        FlattenSeq([i \in DOMAIN none |-> create(none[i])])
          \o FlattenSeq([i \in DOMAIN none |-> drop(none[i])])
          \o FlattenSeq([i \in DOMAIN kept |-> DiffTable(kept[i], s[kept[i]], s[kept[i]])])
  BY DEF Diff, ForEach
<1>2. none = <<>>
  <2>1. had \ had = {}
    OBVIOUS
  <2>2. Only(order, {}) = <<>>
    BY OnlyNone
  <2> QED
    BY <2>1, <2>2, Zenon
<1>3. /\ [i \in DOMAIN none |-> create(none[i])] = <<>>
      /\ [i \in DOMAIN none |-> drop(none[i])] = <<>>
  <2>1. DOMAIN none = {}
    BY <1>2
  <2> HIDE DEF create, drop, none
  <2> QED
    BY <2>1
<1>4. Picked(order, had \cap had, kept, Len(order))
  BY OnlyPicks
<1> HIDE DEF kept
<1>5. /\ Len(kept) \in Nat /\ DOMAIN kept = 1..Len(kept)
      /\ \A i \in DOMAIN kept : kept[i] \in Range(order) /\ s[kept[i]] # None
  <2>1. kept \in Seq(Range(order))
    BY <1>4 DEF Picked
  <2>2. ASSUME NEW i \in DOMAIN kept PROVE s[kept[i]] # None
    <3>1. PICK a \in had : kept[i] = order[a]
      BY <1>4 DEF Picked
    <3> QED
      BY <3>1
  <2> QED
    BY <2>1, <2>2
<1>6. \A i \in DOMAIN kept : DiffTable(kept[i], s[kept[i]], s[kept[i]]) = <<>>
  BY <1>5, TableIsItself
<1>7. [i \in DOMAIN kept |-> DiffTable(kept[i], s[kept[i]], s[kept[i]])]
        = [i \in 1..Len(kept) |-> <<>>]
  BY <1>5, <1>6
<1>8. FlattenSeq([i \in DOMAIN kept |-> DiffTable(kept[i], s[kept[i]], s[kept[i]])]) = <<>>
  BY <1>5, <1>7, FlattenNone
<1>9. FlattenSeq(<<>>) = <<>>
  BY DEF FlattenSeq
<1>10. Diff(s, s, order) = <<>> \o <<>> \o <<>>
  <2> HIDE DEF none, create, drop
  <2> QED
    BY <1>1, <1>3, <1>8, <1>9, Zenon
<1> QED
  BY <1>10

\* The columns of a struct's table have different names, too.
LEMMA TableIsDistinct ==
  ASSUME NEW s, Distinct(s.fields)
  PROVE  Distinct(Table(s).columns)
<1> DEFINE F == s.fields  all == [i \in DOMAIN F |-> Column(F[i])]
           cols == Only(all, Stored(F))
<1>1. F \in Seq(Range(F)) /\ DOMAIN F = 1..Len(F) /\ Len(F) \in Nat
  BY DEF Distinct
<1>2. \A a \in DOMAIN F : all[a].name = F[a].name
  BY DEF Column
<1>3. DOMAIN all = DOMAIN F
  OBVIOUS
<1>4. Table(s).columns = cols
  BY DEF Table
<1> HIDE DEF all
<1>5. all \in Seq(Range(all)) /\ Len(all) = Len(F)
  <2>1. all = [i \in 1..Len(F) |-> all[i]] /\ \A i \in 1..Len(F) : all[i] \in Range(all)
    BY <1>1, <1>3 DEF all, Range
  <2> QED
    BY <1>1, <2>1
<1>6. Picked(all, Stored(F), cols, Len(F))
  BY <1>5, OnlyPicks
<1> HIDE DEF cols
<1>7. Len(cols) \in Nat /\ DOMAIN cols = 1..Len(cols) /\ cols \in Seq(Range(cols))
  <2>1. cols \in Seq(Range(all))
    BY <1>6 DEF Picked
  <2>2. \A i \in 1..Len(cols) : cols[i] \in Range(cols)
    BY <2>1 DEF Range
  <2> QED
    BY <2>1, <2>2
<1>8. ASSUME NEW i \in DOMAIN cols, NEW j \in DOMAIN cols, i < j PROVE cols[i].name # cols[j].name
  <2>1. PICK a, b \in 1..Len(F) : a < b /\ cols[i] = all[a] /\ cols[j] = all[b]
    BY <1>6, <1>8 DEF Picked
  <2>2. F[a].name # F[b].name
    BY <1>1, <2>1 DEF Distinct
  <2> QED
    BY <1>1, <1>2, <2>1, <2>2
<1>9. \A i, j \in DOMAIN cols : i # j => i < j \/ j < i
  BY <1>7
<1> QED
  BY <1>4, <1>7, <1>8, <1>9 DEF Distinct

\* A sequence with different names, whatever else it is one of.
LEMMA DistinctBy ==
  ASSUME NEW n \in Nat, NEW T, NEW seq \in Seq(T), Len(seq) = n,
         \A i, j \in 1..n : seq[i].name = seq[j].name => i = j
  PROVE  Distinct(seq)
<1>1. DOMAIN seq = 1..n /\ \A i \in 1..n : seq[i] \in Range(seq)
  BY DEF Range
<1>2. seq \in Seq(Range(seq))
  BY <1>1
<1> QED
  BY <1>1, <1>2 DEF Distinct

\* One sequence after another.
LEMMA JoinedIs ==
  ASSUME NEW T, NEW a \in Seq(T), NEW b \in Seq(T)
  PROVE  a \o b \in Seq(T) /\ Len(a \o b) = Len(a) + Len(b)
OBVIOUS

\* A sequence of n elements.
Long(seq, T, n) == seq \in Seq(T) /\ Len(seq) = n

\* Without its element at i, a sequence closes up.
LEMMA RemovedIs ==
  ASSUME NEW T, NEW seq \in Seq(T), NEW n \in Nat, Len(seq) = n, NEW i \in 1..n
  PROVE  /\ Long(RemoveAt(seq, i), T, n - 1)
         /\ \A j \in 1..(n - 1) : RemoveAt(seq, i)[j] = seq[IF j < i THEN j ELSE j + 1]
<1> DEFINE front == SubSeq(seq, 1, i - 1)  back == SubSeq(seq, i + 1, n)
<1>1. /\ front \in Seq(T) /\ Len(front) = i - 1
      /\ \A j \in 1..(i - 1) : front[j] = seq[j]
  OBVIOUS
<1>2. /\ back \in Seq(T) /\ Len(back) = n - i
      /\ \A j \in 1..(n - i) : back[j] = seq[i + j]
  OBVIOUS
<1>3. RemoveAt(seq, i) = front \o back
  BY DEF RemoveAt
<1> HIDE DEF front, back
<1>4. front \o back \in Seq(T) /\ Len(front \o back) = Len(front) + Len(back)
  BY <1>1, <1>2, JoinedIs, Zenon
<1>5. ASSUME NEW j \in 1..(n - 1)
      PROVE  (front \o back)[j] = IF j <= Len(front) THEN front[j] ELSE back[j - Len(front)]
  BY <1>1, <1>2
<1> DEFINE both == front \o back
<1>6. \A j \in 1..(n - 1) : both[j] = IF j <= i - 1 THEN front[j] ELSE back[j - (i - 1)]
  BY <1>1, <1>5, Zenon
<1>7. Long(both, T, n - 1)
  <2>1. Len(both) = (i - 1) + (n - i)
    BY <1>1, <1>2, <1>4, Zenon
  <2>2. (i - 1) + (n - i) = n - 1
    OBVIOUS
  <2> QED
    BY <1>4, <2>1, <2>2, Zenon DEF Long
<1> HIDE DEF both
<1>8. ASSUME NEW j \in 1..(n - 1)
      PROVE  both[j] = seq[IF j < i THEN j ELSE j + 1]
  <2>1. CASE j < i
    BY <1>1, <1>6, <2>1
  <2>2. CASE j >= i
    <3> DEFINE k == j - (i - 1)
    <3>1. k \in 1..(n - i) /\ i + k = j + 1
      BY <2>2
    <3>2. both[j] = back[k]
      BY <1>6, <2>2
    <3> HIDE DEF k
    <3>3. back[k] = seq[j + 1]
      BY <1>2, <3>1
    <3> QED
      BY <2>2, <3>2, <3>3
  <2> QED
    BY <2>1, <2>2
<1> QED
  BY <1>3, <1>7, <1>8 DEF both

\* A field as it is written has the name it was given.
LEMMA FieldIs ==
  ASSUME NEW kind, {"name", "from"} \cap DOMAIN kind = {}, NEW name, NEW from
  PROVE  /\ {"name", "from"} \subseteq DOMAIN Field(kind, name, from)
         /\ Field(kind, name, from).name = name
BY DEF Field

\* The developer's edits leave structs.
LEMMA RewritesAreWritten ==
  ASSUME NEW s, Written(s), NEW r \in Rewrites(s)
  PROVE  Written(r)
<1> DEFINE F == s.fields  n == Len(F)  own == {i \in DOMAIN F : F[i].name # "id"}
           With(G) == /\ "fields" \in DOMAIN r /\ r.fields = G
<1>1. /\ n \in Nat /\ DOMAIN F = 1..n /\ F \in Seq(Range(F))
      /\ \A i, j \in 1..n : F[i].name = F[j].name => i = j
      /\ \A i \in 1..n : {"name", "from"} \subseteq DOMAIN F[i]
  BY DEF Written, Distinct
<1>2. \/ \E k \in Kinds, m \in Names \ Taken(s) : r = [s EXCEPT !.fields = Append(@, Field(k, m, None))]
      \/ \E i \in own : r = [fields |-> RemoveAt(F, i),
                             uniques |-> Keep(s.uniques, F[i].name),
                             indexes |-> Keep(s.indexes, F[i].name)]
      \/ \E i \in own, m \in Names \ Taken(s) :
           r = [fields |-> [F EXCEPT ![i] = Field(Kind(@), m, @.name)],
                uniques |-> Relist(s.uniques, F[i].name, m),
                indexes |-> Relist(s.indexes, F[i].name, m)]
      \/ \E i \in own, k \in Kinds : r = [s EXCEPT !.fields[i] = Field(k, F[i].name, F[i].from)]
      \/ \E i \in own : r = [s EXCEPT !.fields[i].from = None]
      \/ r = [s EXCEPT !.indexes = {}] \/ r = [s EXCEPT !.uniques = {}]
      \/ \E i \in own, j \in own : r = [s EXCEPT !.indexes = {<<F[i].name, F[j].name>>}]
  <2> DEFINE A1 == {[s EXCEPT !.fields = Append(@, Field(k, m, None))] : k \in Kinds, m \in Names \ Taken(s)}
             A2 == {[fields |-> RemoveAt(F, i),
                     uniques |-> Keep(s.uniques, F[i].name),
                     indexes |-> Keep(s.indexes, F[i].name)] : i \in own}
             A3 == {[fields |-> [F EXCEPT ![i] = Field(Kind(@), m, @.name)],
                     uniques |-> Relist(s.uniques, F[i].name, m),
                     indexes |-> Relist(s.indexes, F[i].name, m)] : i \in own, m \in Names \ Taken(s)}
             A4 == {[s EXCEPT !.fields[i] = Field(k, F[i].name, F[i].from)] : i \in own, k \in Kinds}
             A5 == {[s EXCEPT !.fields[i].from = None] : i \in own}
             A6 == {[s EXCEPT !.indexes = {}], [s EXCEPT !.uniques = {}]}
             A7 == {[s EXCEPT !.indexes = {<<F[i].name, F[j].name>>}] : i \in own, j \in own}
  <2>1. Rewrites(s) = A1 \cup A2 \cup A3 \cup A4 \cup A5 \cup A6 \cup A7
    BY DEF Rewrites
  <2>2. r \in A1 \/ r \in A2 \/ r \in A3 \/ r \in A4 \/ r \in A5 \/ r \in A6 \/ r \in A7
    <3> HIDE DEF A1, A2, A3, A4, A5, A6, A7
    <3> QED
      BY <2>1, Zenon
  <2>3. ASSUME r \in A1
        PROVE  \E k \in Kinds, m \in Names \ Taken(s) : r = [s EXCEPT !.fields = Append(@, Field(k, m, None))]
    BY <2>3
  <2>4. ASSUME r \in A2
        PROVE  \E i \in own : r = [fields |-> RemoveAt(F, i),
                               uniques |-> Keep(s.uniques, F[i].name),
                               indexes |-> Keep(s.indexes, F[i].name)]
    BY <2>4
  <2>5. ASSUME r \in A3
        PROVE  \E i \in own, m \in Names \ Taken(s) :
                 r = [fields |-> [F EXCEPT ![i] = Field(Kind(@), m, @.name)],
                      uniques |-> Relist(s.uniques, F[i].name, m),
                      indexes |-> Relist(s.indexes, F[i].name, m)]
    BY <2>5
  <2>6. ASSUME r \in A4
        PROVE  \E i \in own, k \in Kinds : r = [s EXCEPT !.fields[i] = Field(k, F[i].name, F[i].from)]
    BY <2>6
  <2>7. ASSUME r \in A5
        PROVE  \E i \in own : r = [s EXCEPT !.fields[i].from = None]
    BY <2>7
  <2>8. ASSUME r \in A6
        PROVE  r = [s EXCEPT !.indexes = {}] \/ r = [s EXCEPT !.uniques = {}]
    BY <2>8
  <2>9. ASSUME r \in A7
        PROVE  \E i \in own, j \in own : r = [s EXCEPT !.indexes = {<<F[i].name, F[j].name>>}]
    BY <2>9
  <2> HIDE DEF A1, A2, A3, A4, A5, A6, A7, own
  <2> QED
    BY <2>2, <2>3, <2>4, <2>5, <2>6, <2>7, <2>8, <2>9, Zenon
<1> HIDE DEF n, F
<1>3. \A k \in Kinds : {"name", "from"} \cap DOMAIN k = {}
  BY ProjectsAssumption
<1>4. ASSUME NEW G, With(G), Distinct(G), \A i \in DOMAIN G : {"name", "from"} \subseteq DOMAIN G[i]
      PROVE  Written(r)
  BY <1>4 DEF Written
<1>5. ASSUME NEW i \in 1..n, NEW f, {"name", "from"} \subseteq DOMAIN f,
             \A j \in 1..n \ {i} : F[j].name # f.name,
             With([F EXCEPT ![i] = f])
      PROVE  Written(r)
  <2> DEFINE G == [F EXCEPT ![i] = f]
  <2>1. /\ G \in Seq(Range(F) \cup {f}) /\ Len(G) = n /\ DOMAIN G = 1..n
        /\ G[i] = f /\ \A j \in 1..n \ {i} : G[j] = F[j]
    BY <1>1 DEF n
  <2> HIDE DEF G
  <2>2. \A j, k \in 1..n : G[j].name = G[k].name => j = k
    BY <1>1, <1>5, <2>1
  <2>3. Distinct(G)
    BY <1>1, <2>1, <2>2, DistinctBy
  <2> QED
    BY <1>1, <1>4, <1>5, <2>1, <2>3 DEF G
<1>6. ASSUME NEW m \in Names \ Taken(s), NEW j \in 1..n PROVE F[j].name # m
  BY <1>1 DEF Taken, F
<1>7. ASSUME NEW k \in Kinds, NEW m \in Names \ Taken(s),
             r = [s EXCEPT !.fields = Append(@, Field(k, m, None))]
      PROVE  Written(r)
  <2> DEFINE f == Field(k, m, None)  G == Append(F, f)
  <2>1. {"name", "from"} \subseteq DOMAIN f /\ f.name = m
    BY <1>3, FieldIs
  <2> HIDE DEF f
  <2>2. /\ G \in Seq(Range(F) \cup {f}) /\ Len(G) = n + 1 /\ DOMAIN G = 1..(n + 1)
        /\ G[n + 1] = f /\ \A j \in 1..n : G[j] = F[j]
    <3>1. F \in Seq(Range(F) \cup {f}) /\ Len(F) = n
      BY <1>1 DEF n
    <3> QED
      BY <3>1
  <2>3. With(G)
    BY <1>7 DEF Written, F, f
  <2> HIDE DEF G
  <2>4. \A j \in 1..(n + 1) : j \in 1..n \/ j = n + 1
    BY <1>1
  <2>5. \A j, l \in 1..(n + 1) : G[j].name = G[l].name => j = l
    BY <1>1, <1>6, <2>1, <2>2, <2>4
  <2>6. Distinct(G)
    <3>1. n + 1 \in Nat
      BY <1>1
    <3> QED
      BY <2>2, <2>5, <3>1, DistinctBy
  <2> QED
    BY <1>1, <1>4, <2>1, <2>2, <2>3, <2>4, <2>6
<1>8. ASSUME NEW i \in own, NEW u, NEW x, r = [fields |-> RemoveAt(F, i), uniques |-> u, indexes |-> x]
      PROVE  Written(r)
  <2> DEFINE G == RemoveAt(F, i)
  <2>1. i \in 1..n
    BY <1>1
  <2>2. /\ G \in Seq(Range(F)) /\ Len(G) = n - 1 /\ DOMAIN G = 1..(n - 1)
        /\ \A j \in 1..(n - 1) : G[j] = F[IF j < i THEN j ELSE j + 1]
    <3>1. Len(F) = n
      BY DEF n
    <3>2. /\ Long(G, Range(F), n - 1)
          /\ \A j \in 1..(n - 1) : G[j] = F[IF j < i THEN j ELSE j + 1]
      BY <1>1, <2>1, <3>1, RemovedIs
    <3> HIDE DEF G
    <3> QED
      BY <3>2, <2>1, <1>1 DEF Long
  <2>3. With(G)
    BY <1>8
  <2> HIDE DEF G
  <2>4. \A j \in 1..(n - 1) : (IF j < i THEN j ELSE j + 1) \in 1..n
    BY <1>1, <2>1
  <2>5. \A j, l \in 1..(n - 1) : G[j].name = G[l].name => j = l
    <3> SUFFICES ASSUME NEW j \in 1..(n - 1), NEW l \in 1..(n - 1), G[j].name = G[l].name PROVE j = l
      OBVIOUS
    <3>1. (IF j < i THEN j ELSE j + 1) = (IF l < i THEN l ELSE l + 1)
      BY <1>1, <2>2, <2>4
    <3> QED
      BY <1>1, <2>1, <3>1
  <2>6. Distinct(G)
    <3>1. n - 1 \in Nat
      BY <1>1, <2>1
    <3> QED
      BY <2>2, <2>5, <3>1, DistinctBy
  <2> QED
    BY <1>1, <1>4, <2>2, <2>3, <2>4, <2>6
<1>9. ASSUME NEW i \in own, NEW m \in Names \ Taken(s), NEW u, NEW x,
             r = [fields |-> [F EXCEPT ![i] = Field(Kind(@), m, @.name)], uniques |-> u, indexes |-> x]
      PROVE  Written(r)
  <2> DEFINE f == Field(Kind(F[i]), m, F[i].name)
  <2>1. i \in 1..n
    BY <1>1
  <2>2. {"name", "from"} \cap DOMAIN Kind(F[i]) = {}
    BY DEF Kind
  <2>3. {"name", "from"} \subseteq DOMAIN f /\ f.name = m
    BY <2>2, FieldIs
  <2>4. With([F EXCEPT ![i] = f])
    BY <1>9
  <2> HIDE DEF f
  <2> QED
    BY <1>5, <1>6, <2>1, <2>3, <2>4
<1>10. ASSUME NEW i \in own, NEW k \in Kinds, r = [s EXCEPT !.fields[i] = Field(k, F[i].name, F[i].from)]
       PROVE  Written(r)
  <2> DEFINE f == Field(k, F[i].name, F[i].from)
  <2>1. i \in 1..n
    BY <1>1
  <2>2. {"name", "from"} \subseteq DOMAIN f /\ f.name = F[i].name
    BY <1>3, FieldIs
  <2>3. With([F EXCEPT ![i] = f])
    BY <1>10 DEF Written, F
  <2> HIDE DEF f
  <2>4. \A j \in 1..n \ {i} : F[j].name # f.name
    BY <1>1, <2>1, <2>2
  <2> QED
    BY <1>5, <2>1, <2>2, <2>3, <2>4
<1>11. ASSUME NEW i \in own, r = [s EXCEPT !.fields[i].from = None]
       PROVE  Written(r)
  <2> DEFINE f == [F[i] EXCEPT !.from = None]
  <2>1. i \in 1..n
    BY <1>1
  <2>2. {"name", "from"} \subseteq DOMAIN f /\ f.name = F[i].name
    BY <1>1, <2>1
  <2>3. With([F EXCEPT ![i] = f])
    BY <1>11 DEF Written, F
  <2> HIDE DEF f
  <2>4. \A j \in 1..n \ {i} : F[j].name # f.name
    BY <1>1, <2>1, <2>2
  <2> QED
    BY <1>5, <2>1, <2>2, <2>3, <2>4
<1>12. ASSUME NEW x, r = [s EXCEPT !.indexes = x] \/ r = [s EXCEPT !.uniques = x]
       PROVE  Written(r)
  <2>1. "fields" \in DOMAIN r /\ r.fields = F
    BY <1>12 DEF Written, F
  <2> QED
    BY <2>1 DEF Written, F
<1> HIDE DEF own
<1> QED
  BY <1>2, <1>7, <1>8, <1>9, <1>10, <1>11, <1>12, Zenon

-----------------------------------------------------------------------------
(***************************************************************************)
(* The invariant.                                                          *)
(***************************************************************************)
FieldsOfFile == {"sql", "todo", "destructive", "old", "new", "after"}

\* The parts of the state that the argument is about keep their shape.
Shapes ==
  /\ pc \in {"idle", "snapshot", "apply"}
  /\ crashes \in Nat /\ DOMAIN structs = Tables
  /\ IsFiniteSet(DOMAIN files) /\ DOMAIN files \subseteq Nat
  /\ \A v \in DOMAIN files : DOMAIN files[v] = FieldsOfFile
  /\ DOMAIN machine = Machines
  /\ \A m \in Machines : machine[m].applied \subseteq DOMAIN files

\* The schema the next migration will be diffed against.
Tip == IF pc = "snapshot" THEN cli.schema ELSE snapshot

\* What is about to be the snapshot belongs to a file.
Announced == pc = "snapshot" => \E v \in DOMAIN files : files[v].new = cli.schema

\* A file leads from one schema to another.
Schemas == /\ snapshot # Lost
           /\ \A v \in DOMAIN files : files[v].old # Lost /\ files[v].new # Lost

\* No file comes before v among those of s.
First(v, s) == v \in s /\ \A u \in s : v <= u

\* The files are a chain from schema to schema that ends at the tip, and each
\* database is somewhere on it: where its first pending file starts.
Chain ==
  /\ \A v \in DOMAIN files : files[v].after = {u \in DOMAIN files : u < v}
  /\ \A u, v \in DOMAIN files :
       u < v /\ (\A w \in DOMAIN files : w <= u \/ v <= w) => files[u].new = files[v].old
  /\ \A v \in DOMAIN files : (\A u \in DOMAIN files : u <= v) => files[v].new = Tip
  /\ \A m \in Machines :
       /\ \A v \in machine[m].applied, u \in DOMAIN files : u < v => u \in machine[m].applied
       /\ Pending(m) = {} => machine[m].at = Tip
       /\ \A v \in DOMAIN files : First(v, Pending(m)) => machine[m].at = files[v].old

IInv == Shapes /\ Announced /\ Schemas /\ (InOrder => Chain)

LEMMA ParsedIsSchema == ASSUME DOMAIN structs = Tables PROVE NewSchema # Lost
<1>1. DOMAIN NewSchema = Tables
  BY DEF NewSchema, Parse
<1>2. DOMAIN Lost = {"lost"}
  BY DEF Lost
<1> QED
  BY <1>1, <1>2, MigrateAssumption DEF Tables

LEMMA InitInv == Init => IInv
<1> SUFFICES ASSUME Init PROVE IInv
  OBVIOUS
<1>1. files = <<>> /\ DOMAIN files = {}
  BY DEF Init
<1>2. DOMAIN structs = Tables
  BY MigrateAssumption DEF Init, Tables
<1>6. Shapes
  <2>1. IsFiniteSet(DOMAIN files)
    BY <1>1, FS_EmptySet
  <2> QED
    BY <1>1, <1>2, <2>1 DEF Init, Shapes
<1>3. Schemas
  BY <1>1, <1>2, ParsedIsSchema DEF Init, Schemas, NewSchema
<1>4. Chain
  BY <1>1 DEF Init, Chain, Pending, Tip, First
<1>5. Announced
  BY DEF Init, Announced
<1> QED
  BY <1>3, <1>4, <1>5, <1>6 DEF IInv

\* What the order of versions says was said before the step, too.
LEMMA OrderWasKept ==
  ASSUME Shapes, InOrder', crashes' = 0 => crashes = 0,
         \A v \in DOMAIN files : v \in DOMAIN files' /\ files'[v].after = files[v].after
  PROVE  InOrder
BY DEF InOrder

\* Steps that touch neither the databases nor what the files say.
LEMMA Elsewhere ==
  ASSUME IInv, UNCHANGED <<machine, crashes>>, DOMAIN structs' = Tables, pc' \in {"idle", "snapshot", "apply"},
         snapshot' # Lost, Tip' = Tip, Announced',
         DOMAIN files' = DOMAIN files,
         \A v \in DOMAIN files :
           /\ DOMAIN files'[v] = FieldsOfFile
           /\ files'[v].after = files[v].after
           /\ files'[v].old = files[v].old /\ files'[v].new = files[v].new
  PROVE  IInv'
<1>1. Shapes' /\ Schemas'
  BY DEF IInv, Shapes, Schemas
<1>2. InOrder' => InOrder
  BY DEF InOrder
<1>3. \A m \in Machines : Pending(m)' = Pending(m)
  BY DEF Pending
<1>4. InOrder' => Chain'
  BY <1>2, <1>3 DEF IInv, Chain, First
<1> QED
  BY <1>1, <1>4 DEF IInv

LEMMA EditKeeps == ASSUME IInv, Edit PROVE IInv'
<1>1. DOMAIN structs' = Tables
  BY DEF Edit, IInv, Shapes
<1> QED
  BY <1>1, Elsewhere DEF Edit, IInv, Shapes, Schemas, Announced, Tip

LEMMA FixTodoKeeps == ASSUME IInv, NEW v \in DOMAIN files, FixTodo(v) PROVE IInv'
<1>1. PICK sql : files' = [files EXCEPT ![v].todo = FALSE, ![v].sql = sql]
  BY DEF FixTodo
<1>2. /\ DOMAIN files' = DOMAIN files
      /\ \A u \in DOMAIN files :
           /\ DOMAIN files'[u] = FieldsOfFile
           /\ files'[u].after = files[u].after
           /\ files'[u].old = files[u].old /\ files'[u].new = files[u].new
  BY <1>1 DEF IInv, Shapes, FieldsOfFile
<1>3. Announced'
  BY <1>2 DEF FixTodo, IInv, Announced
<1> QED
  BY <1>2, <1>3, Elsewhere DEF FixTodo, IInv, Shapes, Schemas, Tip

LEMMA WriteSnapshotKeeps == ASSUME IInv, WriteSnapshot PROVE IInv'
<1>1. PICK v \in DOMAIN files : files[v].new = cli.schema
  BY DEF IInv, Announced, WriteSnapshot
<1>2. snapshot' = cli.schema /\ snapshot' # Lost
  BY <1>1 DEF WriteSnapshot, IInv, Schemas
<1>3. pc' \in {"idle", "apply"}
  BY DEF WriteSnapshot
<1>4. Announced' /\ Tip' = Tip
  BY <1>2, <1>3 DEF WriteSnapshot, Announced, Tip
<1> QED
  BY <1>2, <1>3, <1>4, Elsewhere DEF WriteSnapshot, IInv, Shapes

LEMMA DoneKeeps == ASSUME IInv, Done PROVE IInv'
BY Elsewhere DEF Done, IInv, Shapes, Schemas, Announced, Tip

\* A run that is stopped ends the order.
LEMMA CrashKeeps == ASSUME IInv, Crash PROVE IInv'
<1>1. crashes' \in Nat /\ crashes' # 0
  BY DEF Crash, IInv, Shapes
<1>2. ~InOrder'
  BY <1>1 DEF InOrder
<1>3. Announced' /\ Schemas'
  BY DEF Crash, IInv, Announced, Schemas
<1>4. Shapes'
  BY <1>1 DEF Crash, IInv, Shapes
<1> QED
  BY <1>2, <1>3, <1>4 DEF IInv

\* A set of files that is not empty has a first one, and Min finds it.
LEMMA FirstFile ==
  ASSUME Shapes, NEW S \in SUBSET DOMAIN files, S # {}
  PROVE  First(Min(S), S)
BY FirstVersion DEF Shapes, First

\* A database that applies its first pending file stays on the chain.
LEMMA ApplyNextKeeps == ASSUME IInv, NEW m \in Machines, ApplyNext(m) PROVE IInv'
<1> DEFINE v == Min(Pending(m))
<1>1. /\ v \in DOMAIN files /\ First(v, Pending(m))
      /\ Pending(m) \subseteq DOMAIN files
  BY FirstFile DEF ApplyNext, Pending, First, IInv
<1>2. PICK db : machine' = [machine EXCEPT ![m] = Migrated(m, v, db)]
  BY DEF ApplyNext
<1> HIDE DEF v
<1>3. UNCHANGED <<structs, modules, snapshot, files, pc, cli, edits, crashes>>
  BY DEF ApplyNext
<1>4. /\ DOMAIN machine' = Machines
      /\ machine'[m].applied = machine[m].applied \cup {v}
      /\ machine'[m].at = IF machine[m].at = files[v].old THEN files[v].new ELSE Lost
      /\ \A o \in Machines \ {m} : machine'[o] = machine[o]
  BY <1>2 DEF IInv, Shapes, Migrated
<1>5. Shapes'
  BY <1>1, <1>3, <1>4 DEF IInv, Shapes
<1>6. Announced' /\ Schemas'
  BY <1>3 DEF IInv, Announced, Schemas
<1>7. ASSUME InOrder' PROVE Chain'
  <2>1. Chain
    BY <1>3, <1>7 DEF IInv, InOrder
  <2>2. DOMAIN files \subseteq Nat
    BY DEF IInv, Shapes
  <2>3. machine'[m].at = files[v].new
    BY <1>1, <1>4, <2>1 DEF Chain
  <2>4. Pending(m)' = Pending(m) \ {v}
    BY <1>3, <1>4 DEF Pending
  <2>5. \A u \in DOMAIN files : u < v => u \in machine[m].applied
    BY <1>1, <2>2 DEF First, Pending
  <2>6. ASSUME NEW u \in DOMAIN files, u > v PROVE u \in Pending(m)
    <3>1. v \notin machine[m].applied
      BY <1>1 DEF First, Pending
    <3>2. u \notin machine[m].applied
      BY <1>1, <2>1, <2>2, <2>6, <3>1 DEF Chain
    <3> QED
      BY <3>2 DEF Pending
  <2>7. \A w \in machine'[m].applied, u \in DOMAIN files : u < w => u \in machine'[m].applied
    BY <1>4, <2>1, <2>5 DEF Chain
  <2>8. ASSUME Pending(m)' = {} PROVE machine'[m].at = Tip'
    <3>1. \A u \in DOMAIN files : u <= v
      BY <2>2, <2>4, <2>6, <2>8, <1>1
    <3>2. files[v].new = Tip
      BY <3>1, <1>1, <2>1 DEF Chain
    <3> QED
      BY <3>2, <2>3, <1>3 DEF Tip
  <2>9. ASSUME NEW w \in DOMAIN files, First(w, Pending(m)') PROVE machine'[m].at = files[w].old
    <3>1. v < w /\ \A u \in Pending(m) : u = v \/ w <= u
      BY <1>1, <2>2, <2>4, <2>9 DEF First
    <3>2. \A u \in DOMAIN files : u <= v \/ w <= u
      BY <3>1, <2>2, <2>6, <1>1
    <3> QED
      BY <3>1, <3>2, <1>1, <2>1, <2>3 DEF Chain
  <2>10. \A o \in Machines \ {m} : machine'[o] = machine[o] /\ Pending(o)' = Pending(o)
    BY <1>3, <1>4 DEF Pending
  <2>11. Tip' = Tip
    BY <1>3 DEF Tip
  <2> QED
    BY <1>3, <2>1, <2>7, <2>8, <2>9, <2>10, <2>11 DEF Chain
<1> QED
  BY <1>5, <1>6, <1>7 DEF IInv

\* A run without a difference changes no file.
LEMMA NothingToGenerateKeeps ==
  ASSUME IInv, pc = "idle", pc' = "apply",
         UNCHANGED <<structs, modules, snapshot, files, cli, machine, edits, crashes>>
  PROVE  IInv'
BY Elsewhere DEF IInv, Shapes, Schemas, Announced, Tip

\* A new file starts at the tip and becomes the last of the chain.
LEMMA NewFileKeeps ==
  ASSUME IInv, pc = "idle", pc' = "snapshot",
         NEW v \in Nat \ DOMAIN files, NEW file,
         files' = WithFile(v, file),
         DOMAIN file = FieldsOfFile,
         file.old = snapshot, file.new = NewSchema, file.after = DOMAIN files,
         cli'.schema = NewSchema,
         UNCHANGED <<structs, modules, snapshot, machine, edits, crashes>>
  PROVE  IInv'
<1>1. /\ DOMAIN files' = DOMAIN files \cup {v}
      /\ files'[v] = file
      /\ \A u \in DOMAIN files : files'[u] = files[u]
  BY DEF WithFile
<1>2. Shapes'
  <2>1. IsFiniteSet(DOMAIN files \cup {v})
    BY FS_AddElement DEF IInv, Shapes
  <2> QED
    BY <1>1, <2>1 DEF IInv, Shapes
<1>3. Schemas' /\ Announced'
  BY <1>1, ParsedIsSchema DEF IInv, Shapes, Schemas, Announced
<1>4. ASSUME InOrder' PROVE Chain'
  <2>1. InOrder
    BY <1>1, <1>4 DEF InOrder
  <2>2. Chain /\ DOMAIN files \subseteq Nat
    BY <2>1 DEF IInv, Shapes
  <2>3. \A u \in DOMAIN files : u < v
    BY <1>1, <1>4, <2>2 DEF InOrder
  <2>4. Tip = snapshot /\ Tip' = NewSchema
    BY DEF Tip
  <2>5. \A u \in DOMAIN files' : files'[u].after = {w \in DOMAIN files' : w < u}
    BY <1>1, <2>2, <2>3 DEF Chain
  <2>6. ASSUME NEW u \in DOMAIN files', NEW w \in DOMAIN files', u < w,
               \A x \in DOMAIN files' : x <= u \/ w <= x
        PROVE  files'[u].new = files'[w].old
    <3>1. u \in DOMAIN files
      BY <1>1, <2>2, <2>3, <2>6
    <3>2. CASE w = v
      <4>1. \A x \in DOMAIN files : x <= u
        BY <1>1, <2>2, <2>3, <2>6, <3>2
      <4> QED
        BY <1>1, <2>2, <2>4, <3>1, <3>2, <4>1 DEF Chain
    <3>3. CASE w # v
      BY <1>1, <2>2, <2>6, <3>1, <3>3 DEF Chain
    <3> QED
      BY <3>2, <3>3
  <2>7. ASSUME NEW u \in DOMAIN files', \A w \in DOMAIN files' : w <= u
        PROVE  files'[u].new = Tip'
    <3>1. u = v
      BY <1>1, <2>2, <2>3, <2>7
    <3> QED
      BY <1>1, <2>4, <3>1
  <2>8. ASSUME NEW m \in Machines
        PROVE  /\ \A w \in machine'[m].applied, u \in DOMAIN files' :
                    u < w => u \in machine'[m].applied
               /\ Pending(m)' = {} => machine'[m].at = Tip'
               /\ \A w \in DOMAIN files' : First(w, Pending(m)') => machine'[m].at = files'[w].old
    <3>1. Pending(m)' = Pending(m) \cup {v}
      BY <1>1 DEF Pending, IInv, Shapes
    <3>2. machine[m].applied \subseteq DOMAIN files
      BY DEF IInv, Shapes
    <3>3. \A w \in machine'[m].applied, u \in DOMAIN files' :
            u < w => u \in machine'[m].applied
      BY <1>1, <2>2, <2>3, <3>2 DEF Chain
    <3>4. ASSUME NEW w \in DOMAIN files', First(w, Pending(m)')
          PROVE  machine'[m].at = files'[w].old
      <4>1. CASE w = v
        <5>1. Pending(m) = {}
          BY <2>2, <2>3, <3>1, <3>4, <4>1 DEF First, Pending
        <5> QED
          BY <1>1, <2>2, <2>4, <4>1, <5>1 DEF Chain
      <4>2. CASE w # v
        BY <1>1, <2>2, <3>1, <3>4, <4>2 DEF Chain, First
      <4> QED
        BY <4>1, <4>2
    <3> QED
      BY <3>1, <3>3, <3>4
  <2> QED
    BY <2>5, <2>6, <2>7, <2>8 DEF Chain
<1> QED
  BY <1>2, <1>3, <1>4 DEF IInv

LEMMA GenerateKeeps == ASSUME IInv, Generate PROVE IInv'
<1> DEFINE sql == Diff(snapshot, NewSchema, TableOrder)
<1>1. pc = "idle"
  BY DEF Generate, Command
<1>2. CASE DOMAIN sql = {}
  <2>1. pc' = "apply" /\ UNCHANGED <<structs, modules, snapshot, files, cli, machine, edits, crashes>>
    BY <1>2 DEF Generate
  <2> QED
    BY <1>1, <2>1, NothingToGenerateKeeps
<1>3. CASE DOMAIN sql # {}
  <2>1. PICK now \in Clock :
          files' = WithFile(NextVersion(now),
            [sql |-> sql, todo |-> ManualEdit(sql),
             destructive |-> Destructive(snapshot, NewSchema),
             old |-> snapshot, new |-> NewSchema, after |-> DOMAIN files])
    BY <1>3 DEF Generate
  <2>2. NextVersion(now) \in Nat \ DOMAIN files
    BY MigrateAssumption, FreeVersion DEF IInv, Shapes
  <2>3. /\ pc' = "snapshot" /\ cli'.schema = NewSchema
        /\ UNCHANGED <<structs, modules, snapshot, machine, edits, crashes>>
    BY <1>3 DEF Generate
  <2> HIDE DEF sql
  <2> QED
    BY <1>1, <2>1, <2>2, <2>3, NewFileKeeps DEF FieldsOfFile
<1> QED
  BY <1>2, <1>3

LEMMA NextInv == IInv /\ [Next]_vars => IInv'
<1> SUFFICES ASSUME IInv, [Next]_vars PROVE IInv'
  OBVIOUS
<1>1. CASE Edit
  BY <1>1, EditKeeps
<1>2. CASE Generate
  BY <1>2, GenerateKeeps
<1>3. CASE WriteSnapshot
  BY <1>3, WriteSnapshotKeeps
<1>4. CASE Apply
  BY <1>4, ApplyNextKeeps DEF Apply, Machines
<1>5. CASE Done
  BY <1>5, DoneKeeps
<1>6. CASE Crash
  BY <1>6, CrashKeeps
<1>7. ASSUME NEW v \in DOMAIN files, FixTodo(v) PROVE IInv'
  BY <1>7, FixTodoKeeps
<1>8. ASSUME NEW m \in Servers, Boot(m) PROVE IInv'
  BY <1>8, ApplyNextKeeps DEF Boot, Machines
<1>9. CASE UNCHANGED vars
  BY <1>9, Elsewhere DEF vars, IInv, Shapes, Schemas, Announced, Tip
<1> QED
  BY <1>1, <1>2, <1>3, <1>4, <1>5, <1>6, <1>7, <1>8, <1>9 DEF Next

LEMMA Invariance == Spec => []IInv
BY InitInv, NextInv, PTL DEF Spec

\* While versions are in the order of generation and no run was stopped between
\* its two writes, every database applies every migration to the schema it was
\* diffed against (next_version, run, apply_pending, init_db).
THEOREM MigrationsMeetTheirSchema == Spec => []InStep
<1>1. IInv => InStep
  <2> SUFFICES ASSUME IInv, InOrder, NEW m \in Machines PROVE machine[m].at # Lost
    BY DEF InStep
  <2>1. Chain /\ Shapes /\ Schemas /\ Announced
    BY DEF IInv
  <2>2. CASE Pending(m) = {}
    <3>1. Tip # Lost
      BY <2>1 DEF Tip, Schemas, Announced
    <3> QED
      BY <2>1, <2>2, <3>1 DEF Chain
  <2>3. CASE Pending(m) # {}
    <3>1. First(Min(Pending(m)), Pending(m)) /\ Min(Pending(m)) \in DOMAIN files
      BY <2>1, <2>3, FirstFile DEF Pending, First
    <3> QED
      BY <2>1, <3>1 DEF Chain, Schemas
  <2> QED
    BY <2>2, <2>3
<1> QED
  BY <1>1, Invariance, PTL

-----------------------------------------------------------------------------
(***************************************************************************)
(* Files and databases stay what their readers expect.                     *)
(***************************************************************************)
\* What is parsed for the next migration is made of structs.
Sources ==
  /\ DOMAIN modules = Tables
  /\ \A t \in Tables : structs[t] # None => Written(structs[t])
  /\ \A t \in Tables : modules[t] # None => Distinct(modules[t].columns)

Typed == Sources /\ TypeOK

LEMMA InitTyped == Init => Typed
<1> SUFFICES ASSUME Init PROVE Typed
  OBVIOUS
<1>1. Sources
  BY ProjectsAssumption DEF Init, Sources, NoModules
<1>2. At(snapshot) # Refused
  BY ProjectsAssumption DEF Init
<1>3. files = <<>> /\ DOMAIN files = {}
  BY DEF Init
<1> QED
  BY <1>1, <1>2, <1>3, MigrateAssumption DEF Typed, TypeOK, Init

\* A schema that is parsed gives no column twice.
LEMMA ParsedIsDistinct ==
  ASSUME Sources, DOMAIN structs = Tables, NEW t \in Tables, NewSchema[t] # None
  PROVE  Distinct(NewSchema[t].columns)
<1>1. CASE structs[t] # None
  <2>1. Distinct(structs[t].fields)
    BY <1>1 DEF Sources, Written
  <2>2. NewSchema[t] = Table(structs[t])
    BY <1>1 DEF NewSchema, Parse
  <2> QED
    BY <2>1, <2>2, TableIsDistinct
<1>2. CASE structs[t] = None
  BY <1>2 DEF NewSchema, Parse, Sources
<1> QED
  BY <1>1, <1>2

LEMMA EditTypes == ASSUME IInv, Typed, Edit PROVE Typed'
<1>1. DOMAIN structs = Tables
  BY DEF IInv, Shapes
<1>2. Sources'
  <2>1. CASE \E t \in {u \in Tables : structs[u] # None} :
               \E s \in (Rewrites(structs[t]) \cup {None}) \ {structs[t]} :
                 structs' = [structs EXCEPT ![t] = s] /\ UNCHANGED modules
    <3>1. PICK t \in {u \in Tables : structs[u] # None} :
            \E s \in (Rewrites(structs[t]) \cup {None}) \ {structs[t]} :
              structs' = [structs EXCEPT ![t] = s] /\ UNCHANGED modules
      BY <2>1
    <3>2. PICK s \in Rewrites(structs[t]) \cup {None} :
            structs' = [structs EXCEPT ![t] = s] /\ UNCHANGED modules
      BY <3>1
    <3>3. s # None => Written(s)
      BY RewritesAreWritten DEF Typed, Sources
    <3> QED
      BY <1>1, <3>2, <3>3 DEF Typed, Sources
  <2>2. CASE \E t \in DOMAIN Shipped :
               /\ modules' = [modules EXCEPT ![t] = IF @ = None THEN Shipped[t] ELSE None]
               /\ UNCHANGED structs
    BY <2>2, ProjectsAssumption DEF Typed, Sources
  <2> QED
    BY <2>1, <2>2 DEF Edit
<1>3. edits' \in 0..MaxEdits
  BY MigrateAssumption DEF Edit, Typed, TypeOK
<1> QED
  BY <1>2, <1>3 DEF Edit, Typed, TypeOK

LEMMA GenerateTypes == ASSUME IInv, Typed, Generate PROVE Typed'
<1> DEFINE sql == Diff(snapshot, NewSchema, TableOrder)
<1>1. Sources' /\ pc' \in {"idle", "snapshot", "apply"}
  BY DEF Generate, Command, Typed, Sources
<1>2. UNCHANGED <<machine, edits, crashes>>
  BY DEF Generate
<1>3. CASE DOMAIN sql = {}
  <2>1. files' = files
    BY <1>3 DEF Generate
  <2> QED
    BY <1>1, <1>2, <2>1 DEF Typed, TypeOK
<1>4. CASE DOMAIN sql # {}
  <2>1. PICK now \in Clock :
          files' = WithFile(NextVersion(now),
            [sql |-> sql, todo |-> ManualEdit(sql),
             destructive |-> Destructive(snapshot, NewSchema),
             old |-> snapshot, new |-> NewSchema, after |-> DOMAIN files])
    BY <1>4 DEF Generate
  <2>2. snapshot # NewSchema
    <3>1. \A t \in Range(TableOrder) : NewSchema[t] # None => Distinct(NewSchema[t].columns)
      BY ParsedIsDistinct DEF IInv, Shapes, Typed, Tables
    <3>2. TableOrder \in Seq(Range(TableOrder))
      BY MigrateAssumption DEF Range
    <3>3. Diff(NewSchema, NewSchema, TableOrder) = <<>>
      BY <3>1, <3>2, NothingToDo
    <3> HIDE DEF sql
    <3>4. snapshot = NewSchema => sql = <<>>
      BY <3>3 DEF sql
    <3> QED
      BY <1>4, <3>4
  <2>3. NextVersion(now) \in Nat \ DOMAIN files
    BY MigrateAssumption, FreeVersion DEF IInv, Shapes
  <2> HIDE DEF sql
  <2>4. \A v \in DOMAIN files' : DOMAIN files'[v].sql # {} /\ files'[v].old # files'[v].new
    BY <1>4, <2>1, <2>2, <2>3 DEF WithFile, Typed, TypeOK
  <2>5. DOMAIN files \subseteq DOMAIN files'
    BY <2>1 DEF WithFile
  <2> QED
    BY <1>1, <1>2, <2>4, <2>5 DEF Typed, TypeOK
<1> QED
  BY <1>3, <1>4

LEMMA FixTodoTypes == ASSUME IInv, Typed, NEW v \in DOMAIN files, FixTodo(v) PROVE Typed'
<1> DEFINE sql == [i \in DOMAIN files[v].sql |-> WithoutTodo(files[v].sql[i])]
<1>1. files' = [files EXCEPT ![v].todo = FALSE, ![v].sql = sql]
  BY DEF FixTodo
<1>2. DOMAIN sql # {}
  BY DEF Typed, TypeOK
<1> HIDE DEF sql
<1>3. /\ DOMAIN files' = DOMAIN files
      /\ \A u \in DOMAIN files : /\ DOMAIN files'[u].sql # {}
                                /\ files'[u].old # files'[u].new
  BY <1>1, <1>2 DEF IInv, Shapes, FieldsOfFile, Typed, TypeOK
<1> QED
  BY <1>3 DEF FixTodo, Typed, Sources, TypeOK

\* A database takes a file whole or stays as it is.
LEMMA ApplyNextTypes ==
  ASSUME IInv, Typed, NEW m \in Machines, ApplyNext(m)
  PROVE  Typed'
<1> DEFINE v == Min(Pending(m))
<1>1. v \in DOMAIN files
  BY FirstFile DEF ApplyNext, Pending, First, IInv
<1>2. PICK db : db # Refused /\ machine' = [machine EXCEPT ![m] = Migrated(m, v, db)]
  BY DEF ApplyNext
<1> HIDE DEF v
<1>3. UNCHANGED <<structs, modules, snapshot, files, pc, cli, edits, crashes>>
  BY DEF ApplyNext
<1>4. /\ machine'[m].applied = machine[m].applied \cup {v} /\ machine'[m].db # Refused
      /\ \A o \in Machines \ {m} : machine'[o] = machine[o]
  BY <1>2 DEF IInv, Shapes, Migrated
<1> QED
  BY <1>1, <1>3, <1>4 DEF Typed, Sources, TypeOK

LEMMA NextTyped == IInv /\ Typed /\ [Next]_vars => Typed'
<1> SUFFICES ASSUME IInv, Typed, [Next]_vars PROVE Typed'
  OBVIOUS
<1>1. CASE Edit
  BY <1>1, EditTypes
<1>2. CASE Generate
  BY <1>2, GenerateTypes
<1>3. CASE WriteSnapshot
  BY <1>3 DEF WriteSnapshot, Typed, Sources, TypeOK
<1>4. CASE Apply
  BY <1>4, ApplyNextTypes DEF Apply, Machines
<1>5. CASE Done
  BY <1>5 DEF Done, Typed, Sources, TypeOK
<1>6. CASE Crash
  BY <1>6, MigrateAssumption DEF Crash, Typed, Sources, TypeOK
<1>7. ASSUME NEW v \in DOMAIN files, FixTodo(v) PROVE Typed'
  BY <1>7, FixTodoTypes
<1>8. ASSUME NEW m \in Servers, Boot(m) PROVE Typed'
  BY <1>8, ApplyNextTypes DEF Boot, Machines
<1>9. CASE UNCHANGED vars
  BY <1>9 DEF vars, Typed, Sources, TypeOK
<1> QED
  BY <1>1, <1>2, <1>3, <1>4, <1>5, <1>6, <1>7, <1>8, <1>9 DEF Next

\* Every file has statements and leads to a schema that is another one, a database
\* records files of the folder, and none is left half-migrated (run, save of a
\* migration, apply_pending).
THEOREM TypeCorrect == Spec => []TypeOK
<1>1. Typed => TypeOK
  BY DEF Typed
<1> QED
  BY <1>1, InitTyped, NextTyped, Invariance, PTL DEF Spec

-----------------------------------------------------------------------------
(***************************************************************************)
(* Every change is in one file.                                            *)
(***************************************************************************)
\* The file that was generated last.
Newest(v) == v \in DOMAIN files /\ files[v].after \cup {v} = DOMAIN files

\* Of two files one was generated first, and a snapshot that is still to be written
\* is the newest's.
Generated ==
  /\ \A v \in DOMAIN files : files[v].after \subseteq DOMAIN files
  /\ \A u, v \in DOMAIN files : ~(u \in files[v].after /\ v \in files[u].after)
  /\ pc = "snapshot" =>
       \E v : Newest(v) /\ files[v].old = snapshot /\ files[v].new = cli.schema

Strays == {v \in DOMAIN files : files[v].old \in NextFrom(v)}
Writing == IF pc = "snapshot" THEN 1 ELSE 0
OInv == Generated /\ EachChangeOnce

LEMMA InitOnce == Init => OInv
<1> SUFFICES ASSUME Init PROVE OInv
  OBVIOUS
<1>1. DOMAIN files = {} /\ pc = "idle" /\ crashes = 0
  BY DEF Init
<1>2. Cardinality({v \in DOMAIN files : files[v].old \in NextFrom(v)}) = 0
  <2>1. {v \in DOMAIN files : files[v].old \in NextFrom(v)} = {}
    BY <1>1
  <2> QED
    BY <2>1, FS_EmptySet
<1> QED
  BY <1>1, <1>2 DEF Init, OInv, Generated, EachChangeOnce, Machines

LEMMA StraysAreCounted ==
  ASSUME Shapes
  PROVE  IsFiniteSet(Strays) /\ Cardinality(Strays) \in Nat
<1>1. IsFiniteSet(Strays)
  BY FS_Subset DEF Shapes, Strays
<1> QED
  BY <1>1, FS_CardinalityType

\* Steps that generate nothing and leave the snapshot alone; a stopped run is counted.
LEMMA NothingNew ==
  ASSUME Shapes, OInv, snapshot' = snapshot, DOMAIN files' = DOMAIN files,
         \A v \in DOMAIN files :
           /\ files'[v].after = files[v].after
           /\ files'[v].old = files[v].old /\ files'[v].new = files[v].new,
         files' = <<>> => files = <<>> /\ machine'[Dev] = machine[Dev],
         pc' = "snapshot" => pc = "snapshot" /\ cli' = cli,
         \/ crashes' = crashes /\ (pc = "snapshot" => pc' = "snapshot")
         \/ crashes' = crashes + 1
  PROVE  OInv'
<1>1. Generated'
  BY DEF OInv, Generated, Newest
<1>2. \A v \in DOMAIN files : NextFrom(v)' = NextFrom(v)
  <2> SUFFICES ASSUME NEW v \in DOMAIN files PROVE NextFrom(v)' = NextFrom(v)
    OBVIOUS
  <2>1. /\ files'[v].after = files[v].after
        /\ {w \in DOMAIN files' : files'[w].after = files'[v].after \cup {v}}
             = {w \in DOMAIN files : files[w].after = files[v].after \cup {v}}
    OBVIOUS
  <2>2. {files'[u].old : u \in {w \in DOMAIN files' : files'[w].after = files'[v].after \cup {v}}}
          = {files[u].old : u \in {w \in DOMAIN files : files[w].after = files[v].after \cup {v}}}
    BY <2>1
  <2> QED
    BY <2>1, <2>2 DEF NextFrom
<1>3. Strays' = Strays
  BY <1>2 DEF Strays
<1>4. Cardinality(Strays) <= crashes + Writing /\ Cardinality(Strays) \in Nat
  BY StraysAreCounted DEF OInv, EachChangeOnce, Strays, Writing
<1>5. Cardinality(Strays') <= crashes' + Writing'
  <2>1. crashes + Writing <= crashes' + Writing'
    BY DEF Shapes, Writing
  <2>2. crashes + Writing \in Nat /\ crashes' + Writing' \in Nat
    BY DEF Shapes, Writing
  <2> QED
    BY <1>3, <1>4, <2>1, <2>2
<1>6. /\ files' = <<>> => snapshot' = machine'[Dev].at
      /\ \A v \in DOMAIN files' : NextFrom(v)' \subseteq {files'[v].old, files'[v].new}
  BY <1>2 DEF OInv, EachChangeOnce
<1> QED
  BY <1>1, <1>5, <1>6 DEF OInv, EachChangeOnce, Strays, Writing

\* A new file starts where the newest one was followed already, and is followed by
\* the snapshot it was diffed from until that is written.
LEMMA OneMore ==
  ASSUME Shapes, OInv, pc = "idle", pc' = "snapshot",
         NEW v \in Nat \ DOMAIN files, NEW file,
         files' = WithFile(v, file),
         file.old = snapshot, file.new = NewSchema, file.after = DOMAIN files,
         cli'.schema = NewSchema,
         UNCHANGED <<snapshot, machine, crashes>>
  PROVE  OInv'
<1>1. /\ DOMAIN files' = DOMAIN files \cup {v}
      /\ files'[v] = file
      /\ \A u \in DOMAIN files : files'[u] = files[u]
  BY DEF WithFile
<1>2. \A u \in DOMAIN files : files[u].after \subseteq DOMAIN files /\ u \notin files[u].after
  BY DEF OInv, Generated
<1>3. Generated'
  <2>1. \A u \in DOMAIN files' : files'[u].after \subseteq DOMAIN files'
    BY <1>1, <1>2
  <2>2. \A u, w \in DOMAIN files' : ~(u \in files'[w].after /\ w \in files'[u].after)
    BY <1>1, <1>2 DEF OInv, Generated
  <2>3. Newest(v)'
    BY <1>1 DEF Newest
  <2> QED
    BY <1>1, <2>1, <2>2, <2>3 DEF Generated
<1>4. ASSUME NEW u \in DOMAIN files PROVE NextFrom(u)' = NextFrom(u)
  <2>1. files'[u].after \cup {u} # DOMAIN files'
    BY <1>1, <1>2
  <2> DEFINE Then == {w \in DOMAIN files : files[w].after = files[u].after \cup {u}}
  <2>2. NextFrom(u)' = {files'[x].old : x \in {w \in DOMAIN files' : files'[w].after = files'[u].after \cup {u}}}
    BY <2>1 DEF NextFrom
  <2>3. CASE files[u].after \cup {u} = DOMAIN files
    <3>1. {w \in DOMAIN files' : files'[w].after = files'[u].after \cup {u}} = {v}
      BY <1>1, <1>2, <2>3
    <3>2. NextFrom(u)' = {snapshot}
      BY <2>2, <3>1, <1>1
    <3> QED
      BY <3>2, <2>3 DEF NextFrom
  <2>4. CASE files[u].after \cup {u} # DOMAIN files
    <3>1. {w \in DOMAIN files' : files'[w].after = files'[u].after \cup {u}} = Then
      BY <1>1, <2>4
    <3>2. \A x \in Then : files'[x].old = files[x].old
      BY <1>1
    <3>3. NextFrom(u)' = {files[x].old : x \in Then}
      BY <2>2, <3>1, <3>2
    <3> QED
      BY <3>3, <2>4 DEF NextFrom
  <2> QED
    BY <2>3, <2>4
<1>5. NextFrom(v)' = {snapshot}
  BY <1>1 DEF NextFrom
<1>6. Strays' = Strays \cup {v}
  BY <1>1, <1>4, <1>5 DEF Strays
<1>7. Cardinality(Strays') <= crashes' + Writing'
  <2>1. IsFiniteSet(Strays) /\ Cardinality(Strays) \in Nat
    BY StraysAreCounted
  <2>2. Cardinality(Strays \cup {v}) = Cardinality(Strays) + 1
    BY <2>1, FS_AddElement DEF Strays
  <2>3. Cardinality(Strays) <= crashes /\ crashes \in Nat
    BY DEF OInv, EachChangeOnce, Strays, Shapes
  <2>4. crashes' = crashes /\ Writing' = 1
    BY DEF Writing
  <2> QED
    BY <1>6, <2>1, <2>2, <2>3, <2>4
<1>8. /\ files' # <<>>
      /\ \A u \in DOMAIN files' : NextFrom(u)' \subseteq {files'[u].old, files'[u].new}
  <2>1. files' # <<>>
    BY <1>1
  <2> QED
    BY <2>1, <1>1, <1>4, <1>5 DEF OInv, EachChangeOnce
<1> QED
  BY <1>3, <1>7, <1>8 DEF OInv, EachChangeOnce, Strays, Writing

LEMMA GenerateOnce == ASSUME IInv, OInv, Generate PROVE OInv'
<1> DEFINE sql == Diff(snapshot, NewSchema, TableOrder)
<1>0. Shapes /\ pc = "idle"
  BY DEF IInv, Generate, Command
<1>1. CASE DOMAIN sql = {}
  <2>1. UNCHANGED <<files, cli, snapshot, machine, crashes>> /\ pc' = "apply"
    BY <1>1 DEF Generate
  <2> QED
    BY <1>0, <2>1, NothingNew
<1>2. CASE DOMAIN sql # {}
  <2>1. PICK now \in Clock :
          files' = WithFile(NextVersion(now),
            [sql |-> sql, todo |-> ManualEdit(sql),
             destructive |-> Destructive(snapshot, NewSchema),
             old |-> snapshot, new |-> NewSchema, after |-> DOMAIN files])
    BY <1>2 DEF Generate
  <2>2. NextVersion(now) \in Nat \ DOMAIN files
    BY <1>0, MigrateAssumption, FreeVersion DEF Shapes
  <2>3. UNCHANGED <<snapshot, machine, crashes>> /\ pc' = "snapshot" /\ cli'.schema = NewSchema
    BY <1>2 DEF Generate
  <2> DEFINE file == [sql |-> sql, todo |-> ManualEdit(sql),
                      destructive |-> Destructive(snapshot, NewSchema),
                      old |-> snapshot, new |-> NewSchema, after |-> DOMAIN files]
  <2>4. file.old = snapshot /\ file.new = NewSchema /\ file.after = DOMAIN files
    OBVIOUS
  <2>5. files' = WithFile(NextVersion(now), file)
    BY <2>1
  <2> HIDE DEF file
  <2> QED
    BY <1>0, <2>2, <2>3, <2>4, <2>5, OneMore
<1> QED
  BY <1>1, <1>2

\* The newest file is followed by the schema it leads to from now on.
LEMMA WriteSnapshotOnce == ASSUME IInv, Typed, OInv, WriteSnapshot PROVE OInv'
<1>1. PICK v : Newest(v) /\ files[v].old = snapshot /\ files[v].new = cli.schema
  BY DEF WriteSnapshot, OInv, Generated
<1>2. /\ snapshot' = files[v].new /\ pc' # "snapshot" /\ UNCHANGED <<files, machine, crashes>>
      /\ v \in DOMAIN files /\ files[v].old # files[v].new
  BY <1>1 DEF WriteSnapshot, Newest, Typed, TypeOK
<1>3. \A u \in DOMAIN files : files[u].after \cup {u} = DOMAIN files => u = v
  BY <1>1 DEF OInv, Generated, Newest
<1>4. \A u \in DOMAIN files \ {v} : NextFrom(u)' = NextFrom(u)
  BY <1>2, <1>3 DEF NextFrom
<1>5. NextFrom(v) = {files[v].old} /\ NextFrom(v)' = {files[v].new}
  BY <1>1, <1>2 DEF NextFrom, Newest
<1>6. v \in Strays /\ Strays' = Strays \ {v}
  BY <1>2, <1>4, <1>5 DEF Strays
<1>7. Cardinality(Strays') <= crashes' + Writing'
  <2>1. IsFiniteSet(Strays) /\ Cardinality(Strays) \in Nat
    BY StraysAreCounted DEF IInv
  <2>2. Cardinality(Strays \ {v}) = Cardinality(Strays) - 1
    BY <1>6, <2>1, FS_RemoveElement
  <2>3. Cardinality(Strays) <= crashes + 1 /\ crashes \in Nat
    BY DEF OInv, EachChangeOnce, Strays, IInv, Shapes, WriteSnapshot
  <2>4. crashes' = crashes /\ Writing' = 0
    BY <1>2 DEF Writing
  <2> QED
    BY <1>6, <2>1, <2>2, <2>3, <2>4
<1>8. /\ files' # <<>>
      /\ \A u \in DOMAIN files' : NextFrom(u)' \subseteq {files'[u].old, files'[u].new}
  <2>1. files' # <<>>
    BY <1>2
  <2> QED
    BY <2>1, <1>2, <1>4, <1>5 DEF OInv, EachChangeOnce
<1>9. Generated'
  BY <1>2 DEF OInv, Generated
<1> QED
  BY <1>7, <1>8, <1>9 DEF OInv, EachChangeOnce, Strays, Writing

LEMMA ApplyNextOnce ==
  ASSUME IInv, OInv, NEW m \in Machines, ApplyNext(m)
  PROVE  OInv'
<1>1. Pending(m) # {} /\ UNCHANGED <<snapshot, files, pc, cli, crashes>>
  BY DEF ApplyNext
<1>2. files # <<>>
  BY <1>1 DEF Pending
<1> QED
  BY <1>1, <1>2, NothingNew DEF IInv

LEMMA FixTodoOnce == ASSUME IInv, OInv, NEW v \in DOMAIN files, FixTodo(v) PROVE OInv'
<1>1. PICK sql : files' = [files EXCEPT ![v].todo = FALSE, ![v].sql = sql]
  BY DEF FixTodo
<1>2. /\ DOMAIN files' = DOMAIN files
      /\ \A u \in DOMAIN files :
           /\ files'[u].after = files[u].after
           /\ files'[u].old = files[u].old /\ files'[u].new = files[u].new
  BY <1>1 DEF IInv, Shapes, FieldsOfFile
<1>3. files' # <<>>
  BY <1>2
<1>4. UNCHANGED <<snapshot, pc, cli, crashes>>
  BY DEF FixTodo
<1> QED
  BY <1>2, <1>3, <1>4, NothingNew DEF IInv

LEMMA NextOnce == IInv /\ Typed /\ OInv /\ [Next]_vars => OInv'
<1> SUFFICES ASSUME IInv, Typed, OInv, [Next]_vars PROVE OInv'
  OBVIOUS
<1>0. Shapes
  BY DEF IInv
<1>1. CASE Edit
  BY <1>0, <1>1, NothingNew DEF Edit
<1>2. CASE Generate
  BY <1>2, GenerateOnce
<1>3. CASE WriteSnapshot
  BY <1>3, WriteSnapshotOnce
<1>4. CASE Apply
  BY <1>4, ApplyNextOnce DEF Apply, Machines
<1>5. CASE Done
  BY <1>0, <1>5, NothingNew DEF Done
<1>6. CASE Crash
  BY <1>0, <1>6, NothingNew DEF Crash
<1>7. ASSUME NEW v \in DOMAIN files, FixTodo(v) PROVE OInv'
  BY <1>7, FixTodoOnce
<1>8. ASSUME NEW m \in Servers, Boot(m) PROVE OInv'
  BY <1>8, ApplyNextOnce DEF Boot, Machines
<1>9. CASE UNCHANGED vars
  BY <1>0, <1>9, NothingNew DEF vars
<1> QED
  BY <1>1, <1>2, <1>3, <1>4, <1>5, <1>6, <1>7, <1>8, <1>9 DEF Next

\* What differs between the structs and the snapshot is in no file yet, and what
\* does not is in one, however often a run fails, is edited or repeated; each run
\* that is stopped between its two writes costs one file that is generated again
\* (run, write_snapshot).
THEOREM ChangesAreWrittenOnce == Spec => []EachChangeOnce
<1>1. OInv => EachChangeOnce
  BY DEF OInv
<1> QED
  BY <1>1, InitOnce, NextOnce, InitTyped, NextTyped, Invariance, PTL DEF Spec
=============================================================================
