---------------------------- MODULE SizesProofs ----------------------------
(***************************************************************************)
(* Proofs about the sizes that the page says, of Estimate and Placement:   *)
(* the header that a size is read from, the cache, the table that stays in *)
(* system memory, the lines of a report, and the GPUs that are recommended.*)
(* The loops are sums and folds, so most lemmas are about one term or one  *)
(* entry, and Folding makes them about all.                                *)
(***************************************************************************)
EXTENDS LaunchProofs

(* The tensors of a file, and the table measured by the offsets around it. *)
LEMMA MinIs ==
    ASSUME NEW S, NEW x \in S, S \in SUBSET Int, \A y \in S : x <= y
    PROVE  Min(S) = x
<1>1. \A z \in S : (\A y \in S : z <= y) => z = x
  OBVIOUS
<1> QED BY <1>1 DEF Min

LEMMA StartIs == \A a \in Nat, b \in Nat \ {0} : DataStart(a, b) \in Int
BY DEF DataStart

DataSize(f) == f.fileSize - DataStart(f.infoEnd, f.alignment)
OffsetsOf(f) == [i \in DOMAIN f.listed |-> f.offsets[f.listed[i]]]

LEMMA SizeIs ==
    ASSUME NEW f, TensorInput(f), f.table # 0
    PROVE  /\ f.table \in 1 .. Len(f.sizes) /\ f.alignment \in Nat \ {0}
           /\ f.sizes[f.table] \in Nat \ {0}
           /\ SizeAt(OffsetsOf(f), f.offsets[f.table], DataSize(f))
                \in f.sizes[f.table] .. f.sizes[f.table] + f.alignment - 1
<1> DEFINE n == Len(f.sizes)
           t == f.table
           off == OffsetsOf(f)
           D == DataStart(f.infoEnd, f.alignment)
           later == {o \in ToSet(off) : o > f.offsets[t]}
           S == {DataSize(f)} \union later
<1>1. /\ n \in Nat \ {0} /\ f.sizes \in [1 .. n -> Nat \ {0}] /\ f.offsets \in [1 .. n -> Nat]
      /\ f.alignment \in Nat \ {0} /\ f.infoEnd \in Nat /\ t \in 1 .. n
      /\ \A i, j \in 1 .. n : i < j => f.offsets[i] + f.sizes[i] <= f.offsets[j]
      /\ \A i \in 1 .. n - 1 : f.offsets[i + 1] < f.offsets[i] + f.sizes[i] + f.alignment
      /\ f.fileSize = D + (f.offsets[n] + f.sizes[n])
      /\ ToSet(f.listed) = 1 .. n
  BY DEF TensorInput
<1>t. \A i \in 1 .. n : f.sizes[i] \in Nat /\ f.sizes[i] > 0 /\ f.offsets[i] \in Nat
  <2> DEFINE s == f.sizes
             o == f.offsets
  <2>1. s \in [1 .. n -> Nat \ {0}] /\ o \in [1 .. n -> Nat]
    BY <1>1
  <2> HIDE DEF n, s, o
  <2>2. \A i \in 1 .. n : s[i] \in Nat /\ s[i] > 0
    BY <2>1
  <2>3. \A i \in 1 .. n : o[i] \in Nat
    BY <2>1
  <2> QED BY <2>2, <2>3 DEF s, o
<1>u. n \in Nat /\ n > 0 /\ t \in 1 .. n /\ f.alignment \in Nat /\ f.alignment > 0
  BY <1>1
<1> HIDE DEF n, t
<1>2. DataSize(f) = f.offsets[n] + f.sizes[n]
  <2>1. D \in Int
    BY <1>1, StartIs
  <2> DEFINE e == f.offsets[n] + f.sizes[n]
  <2>2. e \in Int
    BY <1>1, <1>t
  <2> HIDE DEF D, e
  <2>3. f.fileSize = D + e
    BY <1>1 DEF e
  <2> QED BY <2>1, <2>2, <2>3 DEF DataSize, D, e
<1>3. ToSet(off) = {f.offsets[i] : i \in 1 .. n}
  BY <1>1, Zenon DEF ToSet, OffsetsOf
<1> HIDE DEF off, D
<1>4. later \in SUBSET Nat /\ \A o \in later : \E i \in 1 .. n : o = f.offsets[i] /\ t < i
  <2>1. ASSUME NEW i \in 1 .. n, f.offsets[i] > f.offsets[t] PROVE t < i
    <3>1. CASE i < t
      <4>1. f.offsets[i] + f.sizes[i] <= f.offsets[t]
        BY <1>1, <3>1
      <4> QED BY <1>t, <1>u, <2>1, <4>1
    <3> QED BY <1>1, <2>1, <3>1
  <2> QED BY <1>1, <1>3, <2>1
<1>5. ASSUME t = n
      PROVE  SizeAt(off, f.offsets[t], DataSize(f)) \in f.sizes[t] .. f.sizes[t] + f.alignment - 1
  <2>1. later = {}
    BY <1>1, <1>4, <1>5
  <2>2. Min(S) = DataSize(f)
    <3>1. S = {DataSize(f)} /\ DataSize(f) \in Int
      BY <1>1, <1>2, <2>1
    <3> HIDE DEF S
    <3> QED BY <3>1, MinIs
  <2>3. SizeAt(off, f.offsets[t], DataSize(f)) = f.sizes[t]
    BY <1>1, <1>2, <1>5, <2>2 DEF SizeAt
  <2>4. f.sizes[t] \in f.sizes[t] .. f.sizes[t] + f.alignment - 1
    BY <1>t, <1>u
  <2> QED BY <2>3, <2>4
<1>6. ASSUME t < n
      PROVE  SizeAt(off, f.offsets[t], DataSize(f)) \in f.sizes[t] .. f.sizes[t] + f.alignment - 1
  <2>0. t + 1 \in 1 .. n /\ t \in 1 .. n - 1 /\ t \in 1 .. n /\ t < t + 1
    BY <1>u, <1>6
  <2>1. /\ f.offsets[t] + f.sizes[t] <= f.offsets[t + 1] /\ t + 1 \in 1 .. n
        /\ f.offsets[t + 1] < f.offsets[t] + f.sizes[t] + f.alignment
        /\ {f.offsets[t], f.offsets[t + 1], f.sizes[t]} \subseteq Nat /\ f.sizes[t] > 0
    <3>1. f.offsets[t] + f.sizes[t] <= f.offsets[t + 1]
      BY <1>1, <2>0
    <3>2. f.offsets[t + 1] < f.offsets[t] + f.sizes[t] + f.alignment
      BY <1>1, <2>0
    <3> QED BY <1>t, <2>0, <3>1, <3>2
  <2>2. \A i \in 1 .. n : t < i => f.offsets[t + 1] <= f.offsets[i]
    <3> SUFFICES ASSUME NEW i \in 1 .. n, t < i, i # t + 1 PROVE f.offsets[t + 1] <= f.offsets[i]
      BY <1>t, <2>1
    <3>1. t + 1 < i
      BY <1>1
    <3>2. f.offsets[t + 1] + f.sizes[t + 1] <= f.offsets[i]
      BY <1>1, <2>1, <3>1
    <3> QED BY <1>t, <2>1, <3>2
  <2>3. f.offsets[t + 1] <= DataSize(f)
    <3>1. f.offsets[t + 1] <= f.offsets[n] /\ f.offsets[n] \in Nat /\ f.sizes[n] \in Nat
      BY <1>1, <1>t, <1>6, <2>2
    <3> QED BY <1>2, <2>1, <3>1
  <2>4. f.offsets[t + 1] \in later
    BY <1>3, <2>1
  <2>5. Min(S) = f.offsets[t + 1]
    <3>1. \A y \in later : f.offsets[t + 1] <= y
      BY <1>4, <2>2
    <3>2. DataSize(f) \in Int /\ S \in SUBSET Int
      BY <1>1, <1>t, <1>2, <1>4
    <3>3. \A y \in S : f.offsets[t + 1] <= y
      BY <2>3, <3>1
    <3>4. f.offsets[t + 1] \in S
      BY <2>4
    <3> HIDE DEF S
    <3> QED BY <3>2, <3>3, <3>4, MinIs
  <2>6. SizeAt(off, f.offsets[t], DataSize(f)) = f.offsets[t + 1] - f.offsets[t]
    BY <2>1, <2>5 DEF SizeAt
  <2> HIDE DEF later, S
  <2>7. f.offsets[t + 1] - f.offsets[t] \in f.sizes[t] .. f.sizes[t] + f.alignment - 1
    BY <1>u, <2>1
  <2> QED BY <2>6, <2>7
<1>7. t = n \/ t < n
  BY <1>u
<1>8. SizeAt(off, f.offsets[t], DataSize(f)) \in f.sizes[t] .. f.sizes[t] + f.alignment - 1
  BY <1>5, <1>6, <1>7
<1>9. f.sizes[t] \in Nat \ {0}
  BY <1>t, <1>u
<1> QED BY <1>1, <1>8, <1>9 DEF n, t, off

LEMMA TableMeasured ==
    ASSUME NEW f, TensorInput(f)
    PROVE  /\ f.table = 0 => Measured(f) = 0
           /\ f.table # 0 => /\ Measured(f) \in TrueTable(f) .. TrueTable(f) + f.alignment - 1
                             /\ TrueTable(f) \in Nat \ {0} /\ f.alignment \in Nat
                             /\ Measured(f) \in Nat /\ Measured(f) > 0
<1>1. CASE f.table = 0
  BY <1>1 DEF Measured
<1>2. CASE f.table # 0
  <2> DEFINE d == DataStart(f.infoEnd, f.alignment)
             got == SizeAt(OffsetsOf(f), f.offsets[f.table], DataSize(f))
             z == f.sizes[f.table]
  <2>1. z \in Nat \ {0} /\ got \in z .. z + f.alignment - 1 /\ f.alignment \in Nat \ {0}
    BY <1>2, SizeIs
  <2>2. ~(f.fileSize <= d)
    <3>1. d \in Int
      BY StartIs DEF TensorInput
    <3>2. PICK e \in Nat : f.fileSize = d + e /\ e > 0
      <4> DEFINE n == Len(f.sizes)
                 e == f.offsets[n] + f.sizes[n]
      <4>1. /\ n \in Nat \ {0} /\ f.sizes \in [1 .. n -> Nat \ {0}] /\ f.offsets \in [1 .. n -> Nat]
            /\ f.fileSize = d + e
        BY DEF TensorInput
      <4> HIDE DEF n, d
      <4>2. e \in Nat /\ e > 0
        BY <4>1
      <4> HIDE DEF e
      <4> QED BY <4>1, <4>2
    <3> HIDE DEF d
    <3> QED BY <3>1, <3>2
  <2> HIDE DEF d, got, z
  <2>3. Measured(f) = got
    BY <1>2, <2>2 DEF Measured, TableBytes, OffsetsOf, DataSize, d, got
  <2>4. TrueTable(f) = z
    BY <1>2 DEF TrueTable, z
  <2> QED BY <1>2, <2>1, <2>3, <2>4
<1> QED BY <1>1, <1>2

LEMMA InputTableIsMeasured ==
    ASSUME input # None /\ input.kind = "tensors" =>
              IsList(input.shards) /\ \A i \in DOMAIN input.shards : TensorInput(input.shards[i])
    PROVE  TableIsMeasured
<1> SUFFICES ASSUME input # None, input.kind = "tensors" PROVE TableIsMeasured
  BY DEF TableIsMeasured
<1> DEFINE shards == input.shards
           present == input.present
           tables == [i \in DOMAIN shards |-> Measured(shards[i])]
           here == {i \in DOMAIN shards : shards[i].table # 0 /\ (i = 1 \/ i \in present)}
           found == {i \in {j \in DOMAIN tables : j = 1 \/ j \in present} : tables[i] > 0}
           got == ShardTable(tables, present)
<1>1. DOMAIN shards \in SUBSET Nat /\ DOMAIN tables = DOMAIN shards
  BY ListIs
<1>2. \A i \in DOMAIN shards : TensorInput(shards[i])
  OBVIOUS
<1>3. found = here
  <2>1. \A i \in DOMAIN shards : tables[i] > 0 <=> shards[i].table # 0
    BY <1>2, TableMeasured
  <2> QED BY <2>1
<1>4. CASE here = {}
  <2>1. got = 0
    BY <1>3, <1>4 DEF ShardTable
  <2> QED BY <1>4, <2>1 DEF TableIsMeasured
<1>5. CASE here # {}
  <2>1. PICK i \in here : \A j \in here : i <= j
    BY <1>1, <1>5, Smallest
  <2>2. Min(here) = i
    <3> HIDE DEF here
    <3> QED BY <1>1, <2>1, MinIs DEF here
  <2>3. got = tables[i]
    <3> HIDE DEF here, tables
    <3> QED BY <1>3, <1>5, <2>2 DEF ShardTable
  <2>4. got \in TrueTable(shards[i]) .. TrueTable(shards[i]) + shards[i].alignment - 1
    BY <1>2, <2>1, <2>3, TableMeasured
  <2> QED BY <1>5, <2>1, <2>4 DEF TableIsMeasured
<1> QED BY <1>4, <1>5

-----------------------------------------------------------------------------
(* The lines of a report, which are sums over sets of them.                *)
NoStep(env, a, x) == a
NoneKeep(env, i, a) == FALSE
MibTerm(report, i) == report[i].mib
Mib == INSTANCE Folding WITH Holds <- NoneHold, Step <- NoStep, Keeps <- NoneKeep, Term <- MibTerm

CardTerm(x, c) ==
    LET report == ScaleAggregates(x.report, x.cards)
    IN  MapThenSumSet(LAMBDA i : x.report[i].mib,
            {i \in DOMAIN report : OnGPU(report[i]) /\ (IsAggregate(report[i]) \/ report[i].card = c)})
OnCards == INSTANCE Folding WITH Holds <- NoneHold, Step <- NoStep, Keeps <- NoneKeep, Term <- CardTerm

LEMMA SumMiBIs ==
    ASSUME NEW report, NEW S
    PROVE  SumMiB(report, S) = Mib!Summed(report, S)
BY DEF SumMiB, MibTerm, MapThenSumSet, MapThenFoldSet,
       Mib!Summed, Mib!MapThenSumSet, Mib!MapThenFoldSet

LEMMA OnCardsIs ==
    ASSUME NEW x, NEW S
    PROVE  OnCards!Summed(x, S) = MapThenSumSet(LAMBDA c : CardTerm(x, c), S)
BY DEF MapThenSumSet, MapThenFoldSet,
       OnCards!Summed, OnCards!MapThenSumSet, OnCards!MapThenFoldSet

LEMMA Finite ==
    ASSUME NEW S
    PROVE  /\ IsFiniteSet(S) <=> Mib!IsFiniteSet(S)
           /\ IsFiniteSet(S) <=> OnCards!IsFiniteSet(S)
BY DEF IsFiniteSet, Mib!IsFiniteSet, OnCards!IsFiniteSet

LEMMA MibJoins ==
    ASSUME NEW report, NEW S, IsFiniteSet(S), NEW R, IsFiniteSet(R), S \cap R = {},
           \A i \in S \union R : report[i].mib \in Int
    PROVE  /\ SumMiB(report, S \union R) = SumMiB(report, S) + SumMiB(report, R)
           /\ {SumMiB(report, S \union R), SumMiB(report, S), SumMiB(report, R)} \subseteq Int
<1>1. \A i \in S \union R : MibTerm(report, i) \in Int
  BY DEF MibTerm
<1>2. Mib!Summed(report, S \union R) = Mib!Summed(report, S) + Mib!Summed(report, R)
  BY <1>1, Finite, Mib!SumJoins
<1>3. IsFiniteSet(S \union R)
  BY FS_Union
<1>4. /\ Mib!Summed(report, S) \in Int /\ Mib!Summed(report, R) \in Int
      /\ Mib!Summed(report, S \union R) \in Int
  BY <1>1, <1>3, Finite, Mib!SumRemoves
<1> QED BY <1>2, <1>4, SumMiBIs

LEMMA MibAdds ==
    ASSUME NEW report, NEW S, IsFiniteSet(S), NEW y \in S, \A i \in S : report[i].mib \in Int
    PROVE  /\ SumMiB(report, S) \in Int /\ SumMiB(report, S \ {y}) \in Int /\ SumMiB(report, {}) = 0
           /\ SumMiB(report, S) = report[y].mib + SumMiB(report, S \ {y})
<1>1. \A i \in S : MibTerm(report, i) \in Int
  BY DEF MibTerm
<1>2. IsFiniteSet(S \ {y}) /\ S \ {y} \in SUBSET S
  BY FS_RemoveElement
<1>3. Mib!Summed(report, S) \in Int /\ Mib!Summed(report, S) = MibTerm(report, y) + Mib!Summed(report, S \ {y})
  BY <1>1, Finite, Mib!SumRemoves
<1>4. Mib!Summed(report, S \ {y}) \in Int
  BY <1>1, <1>2, Finite, Mib!SumRemoves
<1>5. Mib!Summed(report, {}) = 0
  BY Finite, Mib!SumUnfolds
<1> QED BY <1>3, <1>4, <1>5, SumMiBIs DEF MibTerm

LEMMA MibScales ==
    ASSUME NEW report, NEW scaled, NEW c \in Nat, NEW S, IsFiniteSet(S),
           \A i \in S : report[i].mib \in Int /\ scaled[i].mib = report[i].mib * c
    PROVE  SumMiB(scaled, S) = SumMiB(report, S) * c
<1> DEFINE F == [T \in SUBSET S |-> SumMiB(report, T) * c]
<1>1. \A i \in S : MibTerm(scaled, i) \in Int
  BY DEF MibTerm
<1>2. SumMiB(report, {}) = 0
  BY Finite, Mib!SumUnfolds, SumMiBIs
<1>3. F[{}] = 0
  BY <1>2
<1>4. ASSUME NEW T \in SUBSET S, NEW x \in S \ T PROVE F[T \union {x}] = MibTerm(scaled, x) + F[T]
  <2> DEFINE U == T \union {x}
  <2>1. U \in SUBSET S /\ IsFiniteSet(U) /\ x \in U /\ U \ {x} = T /\ \A i \in U : report[i].mib \in Int
    BY FS_Subset
  <2> HIDE DEF U
  <2>2. SumMiB(report, U) = report[x].mib + SumMiB(report, T) /\ SumMiB(report, T) \in Int
    BY <2>1, MibAdds
  <2>3. F[U] = SumMiB(report, U) * c /\ F[T] = SumMiB(report, T) * c
    BY <2>1
  <2>4. MibTerm(scaled, x) = report[x].mib * c /\ report[x].mib \in Int
    BY DEF MibTerm
  <2> HIDE DEF F
  <2> DEFINE a == report[x].mib
             b == SumMiB(report, T)
  <2>5. a \in Int /\ b \in Int
    BY <2>2, <2>4
  <2> HIDE DEF a, b
  <2>6. (a + b) * c = a * c + b * c
    BY <2>5
  <2> QED BY <2>2, <2>3, <2>4, <2>6 DEF a, b, U
<1> HIDE DEF F
<1>5. Mib!Sums(scaled, S, F)
  BY <1>3, <1>4 DEF Mib!Sums
<1>6. Mib!Summed(scaled, S) = F[S]
  BY <1>1, <1>5, Finite, Mib!SumIs
<1> QED BY <1>6, SumMiBIs DEF F

Lines(report, n) ==
    /\ n \in Nat /\ DOMAIN report = 1 .. n
    /\ \A i \in 1 .. n : report[i].mib \in Nat /\ report[i].kind \in BufferKinds

LEMMA LinesSplit ==
    ASSUME NEW report, NEW n, Lines(report, n)
    PROVE  Weights(report) + Cache(report) + Working(report) = GPUMiB(report)
<1> DEFINE G(kind) == {i \in DOMAIN report : OnGPU(report[i]) /\ report[i].kind = kind}
           all == {i \in DOMAIN report : OnGPU(report[i])}
           m == G("model")
           k == G("kv")
           r == G("recurrent")
           w == G("compute")
           o == G("output")
           kr == k \union r
           wo == w \union o
           mkr == m \union kr
<1>1. n \in Nat /\ IsFiniteSet(DOMAIN report) /\ \A i \in DOMAIN report : report[i].mib \in Int
  BY FS_Interval DEF Lines
<1>2. \A S \in SUBSET DOMAIN report : IsFiniteSet(S) /\ \A i \in S : report[i].mib \in Int
  BY <1>1, FS_Subset
<1>3. {m, k, r, w, o, kr, wo, mkr, all} \subseteq SUBSET DOMAIN report
  OBVIOUS
<1>4. k \cap r = {} /\ w \cap o = {} /\ m \cap kr = {} /\ mkr \cap wo = {}
  OBVIOUS
<1>5. all = mkr \union wo
  BY DEF Lines, BufferKinds
<1> HIDE DEF G, all
<1>6. /\ Weights(report) = SumMiB(report, m)
      /\ Cache(report) = SumMiB(report, k) + SumMiB(report, r)
      /\ Working(report) = SumMiB(report, w) + SumMiB(report, o)
      /\ GPUMiB(report) = SumMiB(report, all)
  BY DEF Weights, Cache, Working, GPUMiB, GPUOf, G, all
<1> HIDE DEF m, k, r, w, o, kr, wo, mkr
<1>7. SumMiB(report, kr) = SumMiB(report, k) + SumMiB(report, r)
      /\ SumMiB(report, k) \in Int /\ SumMiB(report, r) \in Int
  BY <1>2, <1>3, <1>4, MibJoins DEF kr
<1>8. SumMiB(report, wo) = SumMiB(report, w) + SumMiB(report, o)
      /\ SumMiB(report, w) \in Int /\ SumMiB(report, o) \in Int
  BY <1>2, <1>3, <1>4, MibJoins DEF wo
<1>9. SumMiB(report, mkr) = SumMiB(report, m) + SumMiB(report, kr) /\ SumMiB(report, m) \in Int
  BY <1>2, <1>3, <1>4, MibJoins DEF mkr
<1>10. SumMiB(report, all) = SumMiB(report, mkr) + SumMiB(report, wo)
  BY <1>2, <1>3, <1>4, <1>5, MibJoins
<1> QED BY <1>6, <1>7, <1>8, <1>9, <1>10

ScaledLine(e, c, s) ==
    /\ s.kind = e.kind /\ s.card = e.card
    /\ OnGPU(s) <=> OnGPU(e)
    /\ IsAggregate(s) <=> IsAggregate(e)
    /\ s.mib = IF IsAggregate(e) THEN e.mib * c ELSE e.mib

LEMMA ScaledAre ==
    ASSUME NEW x, ReportInput(x)
    PROVE  LET report == x.report
               scaled == ScaleAggregates(report, x.cards)
               n == Len(report)
           IN  /\ x.cards \in Nat /\ x.cards > 0
               /\ Lines(report, n) /\ Lines(scaled, n)
               /\ \A i \in 1 .. n : ScaledLine(report[i], x.cards, scaled[i])
               /\ \A i \in 1 .. n : OnGPU(report[i]) /\ ~IsAggregate(report[i]) => report[i].card \in 1 .. x.cards
<1> DEFINE report == x.report
           c == x.cards
           scaled == ScaleAggregates(report, c)
           n == Len(report)
<1>1. n \in Nat /\ DOMAIN report = 1 .. n /\ c \in Nat /\ c > 0
  BY ListIs DEF ReportInput
<1>2. \A i \in 1 .. n :
        /\ report[i] = [device |-> report[i].device, kind |-> report[i].kind,
                        card |-> report[i].card, mib |-> report[i].mib]
        /\ report[i].kind \in BufferKinds /\ report[i].mib \in Nat
        /\ OnGPU(report[i]) /\ ~IsAggregate(report[i]) => report[i].card \in 1 .. c
  BY <1>1 DEF ReportInput
<1> HIDE DEF n, report, c
<1>3. DOMAIN scaled = 1 .. n
  BY <1>1 DEF ScaleAggregates
<1>4. ASSUME NEW i \in 1 .. n
      PROVE  ScaledLine(report[i], c, scaled[i]) /\ scaled[i].mib \in Nat
  <2> DEFINE e == report[i]
             s == [e EXCEPT !.mib = @ * c]
  <2>1. e = [device |-> e.device, kind |-> e.kind, card |-> e.card, mib |-> e.mib] /\ e.mib \in Nat
    BY <1>2
  <2>2. s.kind = e.kind /\ s.card = e.card /\ s.device = e.device /\ s.mib = e.mib * c
    <3> HIDE DEF e
    <3> QED BY <2>1
  <2>3. scaled[i] = IF c <= 1 THEN e ELSE IF IsAggregate(e) THEN s ELSE e
    BY <1>1 DEF ScaleAggregates
  <2>4. c <= 1 => e.mib * c = e.mib
    BY <1>1, <2>1
  <2>5. e.mib * c \in Nat
    BY <1>1, <2>1
  <2> HIDE DEF e, s, scaled
  <2>6. scaled[i].kind = e.kind /\ scaled[i].card = e.card /\ scaled[i].device = e.device
    BY <2>2, <2>3
  <2>7. scaled[i].mib = IF IsAggregate(e) THEN e.mib * c ELSE e.mib
    BY <2>2, <2>3, <2>4
  <2> QED BY <2>1, <2>5, <2>6, <2>7 DEF ScaledLine, OnGPU, IsAggregate, e
<1> HIDE DEF scaled
<1>5. Lines(report, n)
  BY <1>1, <1>2 DEF Lines
<1>6. Lines(scaled, n)
  BY <1>1, <1>2, <1>3, <1>4 DEF Lines, ScaledLine
<1> QED BY <1>1, <1>2, <1>4, <1>5, <1>6 DEF report, c, scaled, n

LEMMA CardsAddUp ==
    ASSUME NEW x, ReportInput(x)
    PROVE  LET scaled == ScaleAggregates(x.report, x.cards)
           IN  /\ GPUMiB(scaled) = OnCards!Summed(x, 1 .. x.cards)
               /\ HostMiB(scaled) = HostMiB(x.report)
<1> DEFINE report == x.report
           c == x.cards
           scaled == ScaleAggregates(report, c)
           n == Len(report)
           A == {i \in 1 .. n : OnGPU(report[i]) /\ IsAggregate(report[i])}
           B == {i \in 1 .. n : OnGPU(report[i]) /\ ~IsAggregate(report[i])}
           H == {i \in 1 .. n : ~OnGPU(report[i])}
           Bs(T) == {i \in B : report[i].card \in T}
           a == SumMiB(report, A)
           F == [T \in SUBSET (1 .. c) |-> Cardinality(T) * a + SumMiB(report, Bs(T))]
<1>1. /\ c \in Nat /\ c > 0
      /\ Lines(report, n) /\ Lines(scaled, n)
      /\ \A i \in 1 .. n : ScaledLine(report[i], c, scaled[i])
      /\ \A i \in 1 .. n : OnGPU(report[i]) /\ ~IsAggregate(report[i]) => report[i].card \in 1 .. c
  BY ScaledAre
<1> HIDE DEF report, c, scaled, n
<1>2. /\ n \in Nat /\ DOMAIN report = 1 .. n /\ DOMAIN scaled = 1 .. n /\ IsFiniteSet(1 .. n)
      /\ \A i \in 1 .. n : report[i].mib \in Int /\ scaled[i].mib \in Int
  <2>1. n \in Nat /\ DOMAIN report = 1 .. n /\ DOMAIN scaled = 1 .. n
    BY <1>1 DEF Lines
  <2>2. \A i \in 1 .. n : report[i].mib \in Int
    BY <1>1 DEF Lines
  <2>3. \A i \in 1 .. n : scaled[i].mib \in Int
    BY <1>1 DEF Lines
  <2>4. IsFiniteSet(1 .. n)
    BY <2>1, FS_Interval
  <2> QED BY <2>1, <2>2, <2>3, <2>4
<1>3. \A S \in SUBSET (1 .. n) : IsFiniteSet(S) /\ \A i \in S : report[i].mib \in Int /\ scaled[i].mib \in Int
  BY <1>2, FS_Subset
<1>4. {A, B, H} \subseteq SUBSET (1 .. n) /\ A \cap B = {}
  OBVIOUS
<1>5. {i \in DOMAIN scaled : OnGPU(scaled[i])} = A \union B
      /\ {i \in DOMAIN scaled : ~OnGPU(scaled[i])} = H
      /\ {i \in DOMAIN report : ~OnGPU(report[i])} = H
  BY <1>1, <1>2 DEF ScaledLine
<1>6. HostMiB(scaled) = HostMiB(report)
  <2>1. \A i \in H : ~IsAggregate(report[i])
    BY DEF OnGPU, IsAggregate, HostDevices
  <2>2. \A i \in H : report[i].mib \in Int /\ scaled[i].mib = report[i].mib * 1
    BY <1>1, <1>2, <2>1 DEF ScaledLine
  <2>3. SumMiB(report, H) \in Int
    BY <1>3, <1>4, MibJoins
  <2> HIDE DEF H
  <2>4. SumMiB(scaled, H) = SumMiB(report, H) * 1
    BY <1>3, <1>4, <2>2, MibScales
  <2>5. HostMiB(scaled) = SumMiB(scaled, H) /\ HostMiB(report) = SumMiB(report, H)
    BY <1>5, Zenon DEF HostMiB
  <2>6. \A v \in Int : v * 1 = v
    OBVIOUS
  <2> QED BY <2>3, <2>4, <2>5, <2>6
<1> HIDE DEF A, B, H
<1>7. SumMiB(scaled, A) = a * c
  <2>1. \A i \in A : report[i].mib \in Int /\ scaled[i].mib = report[i].mib * c
    BY <1>1, <1>2 DEF ScaledLine, A
  <2> QED BY <1>1, <1>3, <1>4, <2>1, MibScales
<1>8. SumMiB(scaled, B) = SumMiB(report, B) /\ SumMiB(report, B) \in Int /\ a \in Int
  <2>1. \A i \in B : report[i].mib \in Int /\ scaled[i].mib = report[i].mib * 1
    BY <1>1, <1>2 DEF ScaledLine, B
  <2>2. SumMiB(report, B) \in Int /\ a \in Int
    BY <1>3, <1>4, MibJoins
  <2>3. SumMiB(scaled, B) = SumMiB(report, B) * 1
    <3>1. IsFiniteSet(B) /\ 1 \in Nat
      BY <1>3, <1>4
    <3> QED BY <2>1, <3>1, MibScales
  <2>4. \A v \in Int : v * 1 = v
    OBVIOUS
  <2> QED BY <2>2, <2>3, <2>4
<1>9. GPUMiB(scaled) = a * c + SumMiB(report, B)
  <2>1. SumMiB(scaled, A \union B) = SumMiB(scaled, A) + SumMiB(scaled, B)
    <3>1. \A i \in A \union B : scaled[i].mib \in Int
      BY <1>3, <1>4
    <3> QED BY <1>3, <1>4, <3>1, MibJoins
  <2> QED BY <1>5, <1>7, <1>8, <2>1 DEF GPUMiB
<1>10. \A T : Bs(T) \in SUBSET (1 .. n) /\ Bs(T) \cap A = {}
  BY <1>4
<1>11. ASSUME NEW k \in 1 .. c PROVE CardTerm(x, k) = a + SumMiB(report, Bs({k})) /\ CardTerm(x, k) \in Int
  <2>1. {i \in DOMAIN scaled : OnGPU(scaled[i]) /\ (IsAggregate(scaled[i]) \/ scaled[i].card = k)} = A \union Bs({k})
    BY <1>1, <1>2 DEF ScaledLine, A, B
  <2>2. CardTerm(x, k) = SumMiB(report, A \union Bs({k}))
    BY <2>1 DEF CardTerm, SumMiB, scaled, report, c
  <2> DEFINE U == Bs({k})
  <2>3. U \in SUBSET (1 .. n) /\ A \cap U = {}
    BY <1>10
  <2> HIDE DEF Bs, U
  <2>4. SumMiB(report, A \union U) = a + SumMiB(report, U) /\ SumMiB(report, A \union U) \in Int
    <3>1. \A i \in A \union U : report[i].mib \in Int
      BY <1>3, <1>4, <2>3
    <3> QED BY <1>3, <1>4, <2>3, <3>1, MibJoins
  <2> QED BY <2>2, <2>4 DEF U
<1> HIDE DEF a
<1>12. F[{}] = 0
  <2>1. Bs({}) = {} /\ {} \in SUBSET (1 .. c) /\ Cardinality({}) = 0
    BY FS_EmptySet
  <2>2. SumMiB(report, {}) = 0
    <3>1. IsFiniteSet({})
      BY FS_EmptySet
    <3> QED BY <3>1, Finite, Mib!SumUnfolds, SumMiBIs
  <2>3. F[{}] = Cardinality({}) * a + SumMiB(report, Bs({}))
    BY <2>1
  <2> HIDE DEF Bs, F
  <2> QED BY <1>8, <2>1, <2>2, <2>3
<1>13. ASSUME NEW T \in SUBSET (1 .. c), NEW k \in (1 .. c) \ T
       PROVE  F[T \union {k}] = CardTerm(x, k) + F[T]
  <2> DEFINE U == Bs(T)
             V == Bs({k})
             t == Cardinality(T)
  <2>1. Bs(T \union {k}) = U \union V /\ U \cap V = {} /\ U \in SUBSET (1 .. n) /\ V \in SUBSET (1 .. n)
    BY <1>10
  <2>2. Cardinality(T \union {k}) = t + 1 /\ t \in Int
    <3>1. IsFiniteSet(T)
      <4>1. IsFiniteSet(1 .. c)
        BY <1>1, FS_Interval
      <4> QED BY <4>1, FS_Subset
    <3>2. k \notin T
      OBVIOUS
    <3>3. Cardinality(T \union {k}) = t + 1
      BY <3>1, <3>2, FS_AddElement, Zenon
    <3>4. t \in Nat
      BY <3>1, FS_CardinalityType, Zenon
    <3> QED BY <3>3, <3>4
  <2>3. CardTerm(x, k) = a + SumMiB(report, V)
    BY <1>11
  <2> DEFINE K == T \union {k}
  <2>4. K \in SUBSET (1 .. c) /\ T \in SUBSET (1 .. c)
    OBVIOUS
  <2>5. F[K] = Cardinality(K) * a + SumMiB(report, Bs(K)) /\ F[T] = t * a + SumMiB(report, U)
    <3> HIDE DEF Bs, K
    <3> QED BY <2>4 DEF U
  <2> HIDE DEF U, V, t, F, Bs
  <2>6. SumMiB(report, U \union V) = SumMiB(report, U) + SumMiB(report, V)
        /\ SumMiB(report, U) \in Int /\ SumMiB(report, V) \in Int
    <3>1. \A i \in U \union V : report[i].mib \in Int
      BY <1>3, <2>1
    <3> QED BY <1>3, <2>1, <3>1, MibJoins
  <2>7. (t + 1) * a = t * a + a /\ t * a \in Int
    BY <1>8, <2>2
  <2> DEFINE u == SumMiB(report, U)
             v == SumMiB(report, V)
             ta == t * a
  <2>8. F[K] = (ta + a) + (u + v) /\ CardTerm(x, k) = a + v /\ F[T] = ta + u
    BY <2>1, <2>2, <2>3, <2>5, <2>6, <2>7 DEF K
  <2>9. {ta, a, u, v} \subseteq Int
    BY <1>8, <2>6, <2>7
  <2> HIDE DEF u, v, ta
  <2> QED BY <2>8, <2>9 DEF K
<1>14. OnCards!Summed(x, 1 .. c) = F[1 .. c]
  <2> HIDE DEF F
  <2>1. OnCards!Sums(x, 1 .. c, F)
    BY <1>12, <1>13 DEF OnCards!Sums
  <2>2. IsFiniteSet(1 .. c)
    BY <1>1, FS_Interval
  <2>3. \A k \in 1 .. c : CardTerm(x, k) \in Int
    BY <1>11
  <2> QED BY <2>1, <2>2, <2>3, Finite, OnCards!SumIs
<1>15. Bs(1 .. c) = B
  BY <1>1 DEF B
<1>16. Cardinality(1 .. c) = c
  BY <1>1, FS_Interval
<1>17. F[1 .. c] = c * a + SumMiB(report, B)
  <2> HIDE DEF Bs
  <2> QED BY <1>15, <1>16
<1>18. c * a = a * c
  BY <1>1, <1>8
<1> QED BY <1>6, <1>9, <1>14, <1>17, <1>18 DEF report, c, scaled

LEMMA InputTermsAddUp ==
    ASSUME input # None /\ input.kind = "report" => ReportInput(input)
    PROVE  TermsAddUp
<1> SUFFICES ASSUME input # None, input.kind = "report" PROVE TermsAddUp
  BY DEF TermsAddUp
<1> DEFINE scaled == ScaleAggregates(input.report, input.cards)
           onCard(c) == MapThenSumSet(LAMBDA i : input.report[i].mib,
                            {i \in DOMAIN scaled : OnGPU(scaled[i])
                                /\ (IsAggregate(scaled[i]) \/ scaled[i].card = c)})
<1>1. Lines(scaled, Len(input.report))
  BY ScaledAre
<1>2. Weights(scaled) + Cache(scaled) + Working(scaled) = GPUMiB(scaled)
  BY <1>1, LinesSplit
<1>3. GPUMiB(scaled) = OnCards!Summed(input, 1 .. input.cards) /\ HostMiB(scaled) = HostMiB(input.report)
  BY CardsAddUp
<1>4. MapThenSumSet(onCard, 1 .. input.cards) = MapThenSumSet(LAMBDA c : CardTerm(input, c), 1 .. input.cards)
  BY Zenon DEF CardTerm
<1>5. GPUMiB(scaled) = MapThenSumSet(onCard, 1 .. input.cards)
  BY <1>3, <1>4, OnCardsIs
<1> QED BY <1>2, <1>3, <1>5 DEF TermsAddUp

-----------------------------------------------------------------------------
(* The cache of a context: one sum over the local layers and one over the  *)
(* others, against a sum over all of them.                                 *)
LayerTerm(x, i) == LayerCache(x.p, x.ctx, i)
LocalTerm(p, i) == KVHeads(p, i) * LocalDims(p)
FullTerm(p, i) == KVHeads(p, i) * (KeyDim(p) + ValueDim(p))

OfLayers == INSTANCE Folding WITH Holds <- NoneHold, Step <- NoStep, Keeps <- NoneKeep, Term <- LayerTerm
OfLocal == INSTANCE Folding WITH Holds <- NoneHold, Step <- NoStep, Keeps <- NoneKeep, Term <- LocalTerm
OfFull == INSTANCE Folding WITH Holds <- NoneHold, Step <- NoStep, Keeps <- NoneKeep, Term <- FullTerm

SumsAreCounts(p, S) == IsFiniteSet(S) => OfLocal!Summed(p, S) \in Nat /\ OfFull!Summed(p, S) \in Nat
Counted == INSTANCE Folding WITH Holds <- SumsAreCounts, Step <- NoStep, Keeps <- NoneKeep, Term <- NoTerm

LEMMA FiniteLayers ==
    ASSUME NEW S
    PROVE  /\ IsFiniteSet(S) <=> OfLayers!IsFiniteSet(S)
           /\ IsFiniteSet(S) <=> OfLocal!IsFiniteSet(S)
           /\ IsFiniteSet(S) <=> OfFull!IsFiniteSet(S)
           /\ IsFiniteSet(S) <=> Counted!IsFiniteSet(S)
BY DEF IsFiniteSet, OfLayers!IsFiniteSet, OfLocal!IsFiniteSet, OfFull!IsFiniteSet, Counted!IsFiniteSet

LEMMA LayersSum ==
    ASSUME NEW x, NEW S
    PROVE  MapThenSumSet(LAMBDA i : LayerCache(x.p, x.ctx, i), S) = OfLayers!Summed(x, S)
BY DEF LayerTerm, MapThenSumSet, MapThenFoldSet,
       OfLayers!Summed, OfLayers!MapThenSumSet, OfLayers!MapThenFoldSet

LEMMA LocalSum ==
    ASSUME NEW p, NEW S
    PROVE  PerToken(p, S, LocalDims(p)) = OfLocal!Summed(p, S)
BY DEF PerToken, LocalTerm, MapThenSumSet, MapThenFoldSet,
       OfLocal!Summed, OfLocal!MapThenSumSet, OfLocal!MapThenFoldSet

LEMMA FullSum ==
    ASSUME NEW p, NEW S
    PROVE  PerToken(p, S, KeyDim(p) + ValueDim(p)) = OfFull!Summed(p, S)
BY DEF PerToken, FullTerm, MapThenSumSet, MapThenFoldSet,
       OfFull!Summed, OfFull!MapThenSumSet, OfFull!MapThenFoldSet

LEMMA Products == \A a, b \in Nat : a * b \in Nat
OBVIOUS

LEMMA Quotients == \A a \in Nat, b \in Nat : b > 0 => a \div b \in Nat
OBVIOUS

LEMMA DimsAre ==
    ASSUME NEW x, ModelInput(x)
    PROVE  /\ x.ctx \in Nat /\ x.p.layers \in Nat /\ x.p.window \in Nat
           /\ LocalDims(x.p) \in Nat /\ KeyDim(x.p) + ValueDim(x.p) \in Nat
           /\ KeyDim(x.p) + ValueDim(x.p) > 0
           /\ \A i : KVHeads(x.p, i) \in Nat
           /\ \A i : LocalTerm(x.p, i) \in Nat /\ FullTerm(x.p, i) \in Nat
<1> DEFINE p == x.p
<1>1. /\ {x.ctx, p.layers, p.heads, p.kvHead, p.embd, p.keyLen, p.valLen, p.keySWA, p.valSWA, p.window} \subseteq Nat
      /\ \A i \in DOMAIN p.kvHeads : p.kvHeads[i] \in Nat
      /\ KeyDim(p) + ValueDim(p) > 0
  BY DEF ModelInput
<1> HIDE DEF p
<1>2. HeadDim(p) \in Nat
  BY <1>1, Quotients DEF HeadDim
<1>3. KeyDim(p) \in Nat /\ ValueDim(p) \in Nat
  BY <1>1, <1>2 DEF KeyDim, ValueDim
<1>4. LocalDims(p) \in Nat
  BY <1>1, <1>3 DEF LocalDims
<1>5. \A i : KVHeads(p, i) \in Nat
  BY <1>1 DEF KVHeads, At
<1>6. KeyDim(p) + ValueDim(p) \in Nat
  BY <1>3
<1>7. \A i : LocalTerm(p, i) \in Nat /\ FullTerm(p, i) \in Nat
  BY <1>4, <1>5, <1>6, Products DEF LocalTerm, FullTerm
<1> QED BY <1>1, <1>4, <1>5, <1>6, <1>7 DEF p

LEMMA CountsAre ==
    ASSUME NEW p, NEW S, IsFiniteSet(S), \A i : LocalTerm(p, i) \in Nat /\ FullTerm(p, i) \in Nat
    PROVE  OfLocal!Summed(p, S) \in Nat /\ OfFull!Summed(p, S) \in Nat
<1>1. SumsAreCounts(p, {})
  BY FiniteLayers, OfLocal!SumUnfolds, OfFull!SumUnfolds DEF SumsAreCounts
<1>2. ASSUME NEW T \in SUBSET S, NEW i \in S \ T, SumsAreCounts(p, T)
      PROVE  SumsAreCounts(p, T \union {i})
  <2>1. IsFiniteSet(T)
    BY FS_Subset
  <2>2. OfLocal!Summed(p, T) \in Nat /\ OfFull!Summed(p, T) \in Nat
    BY <1>2, <2>1 DEF SumsAreCounts
  <2>3. OfLocal!Summed(p, T \union {i}) = LocalTerm(p, i) + OfLocal!Summed(p, T)
    <3>1. i \notin T /\ \A j \in T \union {i} : LocalTerm(p, j) \in Int
      OBVIOUS
    <3> QED BY <2>1, <3>1, FiniteLayers, OfLocal!SumAdds
  <2>4. OfFull!Summed(p, T \union {i}) = FullTerm(p, i) + OfFull!Summed(p, T)
    <3>1. i \notin T /\ \A j \in T \union {i} : FullTerm(p, j) \in Int
      OBVIOUS
    <3> QED BY <2>1, <3>1, FiniteLayers, OfFull!SumAdds
  <2> QED BY <2>2, <2>3, <2>4 DEF SumsAreCounts
<1>3. SumsAreCounts(p, S)
  BY <1>1, <1>2, FiniteLayers, Counted!SetInduction
<1> QED BY <1>3 DEF SumsAreCounts

Cached(p, ctx) == Min({ctx, p.window})

LEMMA MinOfTwo == \A a, b \in Nat : Min({a, b}) = IF b < a THEN b ELSE a
<1> SUFFICES ASSUME NEW a \in Nat, NEW b \in Nat PROVE Min({a, b}) = IF b < a THEN b ELSE a
  OBVIOUS
<1>1. CASE b < a
  <2>1. b \in {a, b} /\ {a, b} \in SUBSET Int /\ \A y \in {a, b} : b <= y
    BY <1>1
  <2> QED BY <1>1, <2>1, MinIs
<1>2. CASE ~(b < a)
  <2>1. a \in {a, b} /\ {a, b} \in SUBSET Int /\ \A y \in {a, b} : a <= y
    BY <1>2
  <2> QED BY <1>2, <2>1, MinIs
<1> QED BY <1>1, <1>2

LEMMA LayersAre ==
    ASSUME NEW x, ModelInput(x)
    PROVE  LET p == x.p
               L == LocalLayers(p)
               F == AttentionLayers(p) \ LocalLayers(p)
           IN  /\ IsFiniteSet(L) /\ IsFiniteSet(F) /\ IsFiniteSet(1 .. p.layers)
               /\ L \subseteq 1 .. p.layers /\ F \subseteq 1 .. p.layers /\ L \cap F = {}
               /\ Cached(p, x.ctx) \in Nat
               /\ \A i \in L : LayerTerm(x, i) = LocalTerm(p, i) * Cached(p, x.ctx)
               /\ \A i \in F : LayerTerm(x, i) = FullTerm(p, i) * x.ctx
               /\ \A i \in (1 .. p.layers) \ (L \union F) : LayerTerm(x, i) = 0
<1> DEFINE p == x.p
           L == LocalLayers(p)
           F == AttentionLayers(p) \ LocalLayers(p)
           c == Cached(p, x.ctx)
<1>1. p.layers \in Nat /\ x.ctx \in Nat /\ p.window \in Nat
  BY DimsAre
<1>2. IsFiniteSet(1 .. p.layers)
  <2> DEFINE n == p.layers
  <2>1. n \in Nat
    BY <1>1
  <2> HIDE DEF n
  <2>2. IsFiniteSet(1 .. n)
    BY <2>1, FS_Interval
  <2> QED BY <2>2 DEF n
<1>3. L \subseteq 1 .. p.layers /\ F \subseteq 1 .. p.layers /\ L \cap F = {}
  BY DEF LocalLayers, AttentionLayers
<1>4. IsFiniteSet(L) /\ IsFiniteSet(F)
  BY <1>2, <1>3, FS_Subset
<1>5. c \in Nat
  BY <1>1, MinOfTwo DEF Cached
<1>6. ASSUME NEW i \in L PROVE LayerTerm(x, i) = LocalTerm(p, i) * c
  <2>1. ~IsRecurrentLayer(p, i) /\ p.window > 0 /\ At(p.pattern, i, 0) # 0
    BY DEF LocalLayers, AttentionLayers
  <2> HIDE DEF p, L, c
  <2> QED BY <2>1, Zenon DEF LayerTerm, LayerCache, LocalTerm, Cached, c, p
<1>7. ASSUME NEW i \in F PROVE LayerTerm(x, i) = FullTerm(p, i) * x.ctx
  <2>1. ~IsRecurrentLayer(p, i) /\ ~(p.window > 0 /\ At(p.pattern, i, 0) # 0)
    BY DEF LocalLayers, AttentionLayers
  <2> HIDE DEF p, F
  <2> QED BY <2>1, Zenon DEF LayerTerm, LayerCache, FullTerm, p
<1>8. ASSUME NEW i \in (1 .. p.layers) \ (L \union F) PROVE LayerTerm(x, i) = 0
  <2>1. IsRecurrentLayer(p, i)
    BY DEF LocalLayers, AttentionLayers
  <2> QED BY <2>1 DEF LayerTerm, LayerCache
<1> HIDE DEF p, L, F, c
<1> QED BY <1>2, <1>3, <1>4, <1>5, <1>6, <1>7, <1>8 DEF p, L, F, c

LEMMA CacheSplits ==
    ASSUME NEW x, ModelInput(x)
    PROVE  OfLayers!Summed(x, 1 .. x.p.layers)
             = OfLocal!Summed(x.p, LocalLayers(x.p)) * Cached(x.p, x.ctx)
               + OfFull!Summed(x.p, AttentionLayers(x.p) \ LocalLayers(x.p)) * x.ctx
<1> DEFINE p == x.p
           n == p.layers
           L == LocalLayers(p)
           F == AttentionLayers(p) \ LocalLayers(p)
           c == Cached(p, x.ctx)
           ctx == x.ctx
           G == [T \in SUBSET (1 .. n) |-> OfLocal!Summed(p, T \cap L) * c + OfFull!Summed(p, T \cap F) * ctx]
<1>1. /\ IsFiniteSet(L) /\ IsFiniteSet(F) /\ IsFiniteSet(1 .. n)
      /\ L \subseteq 1 .. n /\ F \subseteq 1 .. n /\ L \cap F = {}
      /\ c \in Nat
      /\ \A i \in L : LayerTerm(x, i) = LocalTerm(p, i) * c
      /\ \A i \in F : LayerTerm(x, i) = FullTerm(p, i) * ctx
      /\ \A i \in (1 .. n) \ (L \union F) : LayerTerm(x, i) = 0
  BY LayersAre
<1>2. ctx \in Nat /\ \A i : LocalTerm(p, i) \in Nat /\ FullTerm(p, i) \in Nat
  BY DimsAre
<1> HIDE DEF p, n, L, F, c, ctx
<1>3. \A i \in 1 .. n : LayerTerm(x, i) \in Int
  <2>1. ASSUME NEW i \in L PROVE LayerTerm(x, i) \in Int
    BY <1>1, <1>2, Products
  <2>2. ASSUME NEW i \in F PROVE LayerTerm(x, i) \in Int
    BY <1>1, <1>2, Products
  <2> QED BY <1>1, <2>1, <2>2
<1>4. \A S : IsFiniteSet(S) => OfLocal!Summed(p, S) \in Nat /\ OfFull!Summed(p, S) \in Nat
  BY <1>2, CountsAre
<1>5. OfLocal!Summed(p, {}) = 0 /\ OfFull!Summed(p, {}) = 0
  BY FS_EmptySet, FiniteLayers, OfLocal!SumUnfolds, OfFull!SumUnfolds
<1>6. G[{}] = 0
  <2>1. {} \in SUBSET (1 .. n) /\ {} \cap L = {} /\ {} \cap F = {}
    OBVIOUS
  <2>2. G[{}] = OfLocal!Summed(p, {}) * c + OfFull!Summed(p, {}) * ctx
    BY <2>1
  <2> HIDE DEF G
  <2> QED BY <1>1, <1>2, <1>5, <2>2
<1>7. ASSUME NEW T \in SUBSET (1 .. n), NEW i \in (1 .. n) \ T
      PROVE  G[T \union {i}] = LayerTerm(x, i) + G[T]
  <2> DEFINE U == T \union {i}
             l == OfLocal!Summed(p, T \cap L)
             f == OfFull!Summed(p, T \cap F)
  <2>1. /\ G[U] = OfLocal!Summed(p, U \cap L) * c + OfFull!Summed(p, U \cap F) * ctx
        /\ G[T] = l * c + f * ctx
    OBVIOUS
  <2>2. IsFiniteSet(T \cap L) /\ IsFiniteSet(T \cap F) /\ i \notin T \cap L /\ i \notin T \cap F
    BY <1>1, FS_Subset
  <2>3. l \in Nat /\ f \in Nat
    BY <1>4, <2>2
  <2> HIDE DEF G, l, f
  <2>4. CASE i \in L
    <3>1. U \cap L = (T \cap L) \union {i} /\ U \cap F = T \cap F
      BY <1>1, <2>4
    <3>2. OfLocal!Summed(p, U \cap L) = LocalTerm(p, i) + l
      <4>1. \A j \in (T \cap L) \union {i} : LocalTerm(p, j) \in Int
        BY <1>2
      <4>2. OfLocal!Summed(p, (T \cap L) \union {i}) = LocalTerm(p, i) + OfLocal!Summed(p, T \cap L)
        BY <2>2, <4>1, FiniteLayers, OfLocal!SumAdds
      <4> QED BY <3>1, <4>2 DEF l
    <3> DEFINE t == LocalTerm(p, i)
    <3>3. t \in Nat /\ LayerTerm(x, i) = t * c
      BY <1>1, <1>2, <2>4
    <3>4. G[U] = (t + l) * c + f * ctx
      BY <2>1, <3>1, <3>2 DEF f
    <3> HIDE DEF t, U
    <3>5. (t + l) * c = t * c + l * c /\ {t * c, l * c, f * ctx} \subseteq Int
      BY <1>1, <1>2, <2>3, <3>3
    <3> QED BY <2>1, <3>3, <3>4, <3>5 DEF U
  <2>5. CASE i \in F
    <3>1. U \cap F = (T \cap F) \union {i} /\ U \cap L = T \cap L
      BY <1>1, <2>5
    <3>2. OfFull!Summed(p, U \cap F) = FullTerm(p, i) + f
      <4>1. \A j \in (T \cap F) \union {i} : FullTerm(p, j) \in Int
        BY <1>2
      <4>2. OfFull!Summed(p, (T \cap F) \union {i}) = FullTerm(p, i) + OfFull!Summed(p, T \cap F)
        BY <2>2, <4>1, FiniteLayers, OfFull!SumAdds
      <4> QED BY <3>1, <4>2 DEF f
    <3> DEFINE t == FullTerm(p, i)
    <3>3. t \in Nat /\ LayerTerm(x, i) = t * ctx
      BY <1>1, <1>2, <2>5
    <3>4. G[U] = l * c + (t + f) * ctx
      BY <2>1, <3>1, <3>2 DEF l
    <3> HIDE DEF t, U
    <3>5. (t + f) * ctx = t * ctx + f * ctx /\ {t * ctx, l * c, f * ctx} \subseteq Int
      BY <1>1, <1>2, <2>3, <3>3
    <3> QED BY <2>1, <3>3, <3>4, <3>5 DEF U
  <2>6. CASE i \notin L \union F
    <3>1. U \cap F = T \cap F /\ U \cap L = T \cap L
      BY <2>6
    <3>2. LayerTerm(x, i) = 0
      BY <1>1, <2>6
    <3>3. G[U] = l * c + f * ctx
      BY <2>1, <3>1 DEF l, f
    <3>4. l * c + f * ctx \in Int
      BY <1>1, <1>2, <2>3
    <3> HIDE DEF U
    <3> QED BY <2>1, <3>2, <3>3, <3>4 DEF U
  <2> QED BY <2>4, <2>5, <2>6
<1>8. OfLayers!Summed(x, 1 .. n) = G[1 .. n]
  <2> HIDE DEF G
  <2>1. OfLayers!Sums(x, 1 .. n, G)
    BY <1>6, <1>7 DEF OfLayers!Sums
  <2> QED BY <1>1, <1>3, <2>1, FiniteLayers, OfLayers!SumIs
<1>9. G[1 .. n] = OfLocal!Summed(p, L) * c + OfFull!Summed(p, F) * ctx
  <2>1. (1 .. n) \cap L = L /\ (1 .. n) \cap F = F
    BY <1>1
  <2> QED BY <2>1
<1> HIDE DEF G
<1> QED BY <1>8, <1>9 DEF p, n, L, F, c, ctx

LEMMA SwaHasWindow ==
    ASSUME NEW p, OfLocal!Summed(p, LocalLayers(p)) # 0
    PROVE  p.window > 0
<1> SUFFICES ASSUME ~(p.window > 0) PROVE FALSE
  OBVIOUS
<1>1. LocalLayers(p) = {}
  BY DEF LocalLayers
<1>2. OfLocal!Summed(p, {}) = 0
  BY FS_EmptySet, FiniteLayers, OfLocal!SumUnfolds
<1> QED BY <1>1, <1>2

LEMMA CacheIsSum ==
    ASSUME NEW x, ModelInput(x), OfLayers!Summed(x, 1 .. x.p.layers) > 0
    PROVE  KVCache(x.p, x.ctx) = OfLayers!Summed(x, 1 .. x.p.layers)
<1> DEFINE p == x.p
           ctx == x.ctx
           sum == OfLayers!Summed(x, 1 .. p.layers)
           swa == OfLocal!Summed(p, LocalLayers(p))
           full == OfFull!Summed(p, AttentionLayers(p) \ LocalLayers(p))
           k == ComputeKVScaling(p)
<1>1. /\ ctx \in Nat /\ p.layers \in Nat /\ p.window \in Nat
      /\ KeyDim(p) + ValueDim(p) # 0
      /\ \A i : LocalTerm(p, i) \in Nat /\ FullTerm(p, i) \in Nat
  BY DimsAre
<1>2. sum = swa * Cached(p, ctx) + full * ctx
  BY CacheSplits
<1>3. swa \in Nat /\ full \in Nat
  BY <1>1, LayersAre, CountsAre
<1>4. p.layers # 0
  <2> SUFFICES ASSUME p.layers = 0 PROVE FALSE
    OBVIOUS
  <2>1. 1 .. p.layers = {}
    OBVIOUS
  <2>2. OfLayers!Summed(x, {}) = 0
    BY FS_EmptySet, FiniteLayers, OfLayers!SumUnfolds
  <2> QED BY <2>1, <2>2
<1>5. PerToken(p, LocalLayers(p), LocalDims(p)) = swa
      /\ PerToken(p, AttentionLayers(p) \ LocalLayers(p), KeyDim(p) + ValueDim(p)) = full
  BY LocalSum, FullSum
<1>6. sum > 0
  OBVIOUS
<1> HIDE DEF sum, swa, full, p, ctx
<1>7. k = [full |-> full, swa |-> swa, window |-> IF swa > 0 THEN p.window ELSE 0]
  BY <1>1, <1>4, <1>5 DEF ComputeKVScaling
<1>8. k.full = full /\ k.swa = swa /\ k.window = IF swa > 0 THEN p.window ELSE 0
  <2> HIDE DEF k
  <2> QED BY <1>7
<1> HIDE DEF k
<1>9. full > 0 \/ swa > 0
  <2> SUFFICES ASSUME full = 0, swa = 0 PROVE FALSE
    BY <1>3
  <2>1. Cached(p, ctx) \in Nat
    BY <1>1, MinOfTwo DEF Cached
  <2>2. swa * Cached(p, ctx) = 0 /\ full * ctx = 0
    BY <1>1, <2>1
  <2> QED BY <1>2, <1>6, <2>2
<1> DEFINE cached == IF k.window > 0 /\ k.window < ctx THEN k.window ELSE ctx
<1>10. KVCache(p, ctx) = ctx * full + cached * swa
  BY <1>8, <1>9 DEF KVCache, k
<1>11. cached * swa = swa * Cached(p, ctx)
  <2>1. CASE swa = 0
    <3>1. Cached(p, ctx) \in Nat /\ cached \in Nat
      BY <1>1, <1>8, MinOfTwo DEF Cached
    <3> HIDE DEF cached
    <3> QED BY <2>1, <3>1
  <2>2. CASE swa > 0
    <3>1. p.window > 0
      BY <2>2, SwaHasWindow DEF swa, p
    <3>2. cached = Cached(p, ctx) /\ cached \in Nat
      BY <1>1, <1>8, <2>2, <3>1, MinOfTwo DEF Cached
    <3> HIDE DEF cached
    <3> QED BY <1>3, <3>2
  <2> QED BY <1>3, <2>1, <2>2
<1>12. cached \in Nat
  BY <1>1, <1>8
<1> HIDE DEF cached
<1>13. ctx * full = full * ctx /\ ctx * full \in Nat /\ cached * swa \in Nat
  BY <1>1, <1>3, <1>12, Products
<1>14. KVCache(p, ctx) = sum
  BY <1>2, <1>10, <1>11, <1>13
<1> QED BY <1>14 DEF sum, p, ctx

LEMMA InputCacheIsPerLayer ==
    ASSUME input # None /\ input.kind = "model" => ModelInput(input)
    PROVE  KVCacheIsPerLayer
<1> SUFFICES ASSUME input # None, input.kind = "model" PROVE KVCacheIsPerLayer
  BY DEF KVCacheIsPerLayer
<1>1. OfLayers!Summed(input, 1 .. input.p.layers) > 0
        => KVCache(input.p, input.ctx) = OfLayers!Summed(input, 1 .. input.p.layers)
  BY CacheIsSum
<1>2. MapThenSumSet(LAMBDA i : LayerCache(input.p, input.ctx, i), 1 .. input.p.layers)
        = OfLayers!Summed(input, 1 .. input.p.layers)
  BY LayersSum
<1> QED BY <1>1, <1>2 DEF KVCacheIsPerLayer

-----------------------------------------------------------------------------
(* The recommended choice.  A page was shown for the machine that is here. *)
PageKnown ==
    /\ host \in Machines
    /\ input # None /\ input.kind = "page" =>
         input.need \in Needs /\ input.used \in [GPUs(host.n) -> Loads]

LEMMA PagesStayKnown == PageKnown /\ [SetupNext]_setupVars => PageKnown'
<1> SUFFICES ASSUME PageKnown, [SetupNext]_setupVars PROVE PageKnown'
  OBVIOUS
<1>1. CASE Recommend
  <2>1. PICK need \in Needs, used \in [GPUs(host.n) -> Loads] :
            input' = [kind |-> "page", need |-> need, used |-> used]
    BY <1>1 DEF Recommend
  <2>2. host' = host
    BY <1>1 DEF Recommend
  <2>3. input'.need = need /\ input'.used = used
    BY <2>1
  <2> QED BY <2>2, <2>3 DEF PageKnown
<1>2. CASE Estimated
  <2>1. host' = host /\ input' \in Inputs
    BY <1>2 DEF Estimated
  <2>2. input'.kind # "page"
    BY <2>1, InputsAssumption
  <2> QED BY <2>1, <2>2 DEF PageKnown
<1>3. CASE OpenPage \/ Save \/ SaveCustom \/ UNCHANGED setupVars
  BY <1>3 DEF OpenPage, Save, SaveCustom, setupVars, PageKnown
<1>4. CASE Restore
  BY <1>4 DEF Restore, PageKnown
<1> QED BY <1>1, <1>2, <1>3, <1>4 DEF SetupNext

FreeTerm(used, g) == PerGPU - used[g]
OfGPUs == INSTANCE Folding WITH Holds <- NoneHold, Step <- NoStep, Keeps <- NoneKeep, Term <- FreeTerm

LEMMA GPUsSum ==
    ASSUME NEW used, NEW S
    PROVE  MapThenSumSet(LAMBDA g : PerGPU - used[g], S) = OfGPUs!Summed(used, S)
BY DEF FreeTerm, MapThenSumSet, MapThenFoldSet,
       OfGPUs!Summed, OfGPUs!MapThenSumSet, OfGPUs!MapThenFoldSet

LEMMA FiniteGPUs ==
    ASSUME NEW S
    PROVE  /\ IsFiniteSet(S) <=> OfGPUs!IsFiniteSet(S)
           /\ Cardinality(S) = OfGPUs!Cardinality(S)
<1>1. IsFiniteSet(S) <=> OfGPUs!IsFiniteSet(S)
  BY DEF IsFiniteSet, OfGPUs!IsFiniteSet
<1>2. Cardinality(S) = OfGPUs!Cardinality(S)
  BY DEF Cardinality, OfGPUs!Cardinality
<1> QED BY <1>1, <1>2

(* A machine, its loads and a need.                                        *)
LoadsOf(used, n) == used \in [GPUs(n) -> Nat]

LEMMA OptionGPUs ==
    ASSUME NEW n \in Nat \ {0}, NEW igpu \in SUBSET GPUs(n),
           NEW o \in GPUAssignOptions(n, igpu), ~o.igpu
    PROVE  /\ o.gpus \subseteq Discrete(n, igpu) /\ o.gpus \subseteq GPUs(n)
           /\ o.gpus \intersect Warned(n, igpu) = {}
<1> DEFINE D == Discrete(n, igpu)
           W == Warned(n, igpu)
           Runs2(k) == {Option(Span(i, i + k), i .. i + k, W) : i \in 0 .. n - 1 - k}
<1>1. D \subseteq GPUs(n) /\ D \intersect W = {} /\ \A S \in SUBSET GPUs(n) : S \intersect W = {} => S \subseteq D
  BY DEF Discrete, Warned
<1>2. \/ \E g \in GPUs(n) : o = Option(Single(g), {g}, W)
      \/ \E k \in {1, 2} : o \in Runs2(k)
      \/ o = SpanAll(n, igpu)
      \/ \E k \in 2 .. Cardinality(D) : o = TensorOption(n, igpu, k)
      \/ o = CustomOption
  BY DEF GPUAssignOptions
<1> HIDE DEF D, W
<1> SUFFICES o.gpus \subseteq D
  BY <1>1 DEF D, W
<1>3. CASE \E g \in GPUs(n) : o = Option(Single(g), {g}, W)
  <2>1. PICK g \in GPUs(n) : o = Option(Single(g), {g}, W)
    BY <1>3
  <2>2. o.gpus = {g} /\ o.igpu = ({g} \intersect W # {})
    BY <2>1 DEF Option
  <2> QED BY <1>1, <2>2
<1>4. CASE \E k \in {1, 2} : o \in Runs2(k)
  <2>0. PICK k \in {1, 2} : o \in Runs2(k)
    BY <1>4
  <2>1. PICK i \in 0 .. n - 1 - k : o = Option(Span(i, i + k), i .. i + k, W)
    BY <2>0
  <2>2. o.gpus = i .. i + k /\ o.igpu = ((i .. i + k) \intersect W # {})
    BY <2>1 DEF Option
  <2>3. i .. i + k \subseteq GPUs(n)
    BY DEF GPUs
  <2> QED BY <1>1, <2>2, <2>3
<1>5. CASE o = SpanAll(n, igpu)
  BY <1>5 DEF SpanAll, Option, D
<1>6. CASE \E k \in 2 .. Cardinality(D) : o = TensorOption(n, igpu, k)
  BY <1>6 DEF TensorOption, Option, First, D
<1>7. CASE o = CustomOption
  BY <1>7 DEF CustomOption, Option
<1> QED BY <1>2, <1>3, <1>4, <1>5, <1>6, <1>7

(* Of a choice that fits, every GPU has a share of the need free, and the  *)
(* score is what is free on all of them less 100 for each.                 *)
LEMMA FreeIs ==
    ASSUME NEW n \in Nat \ {0}, NEW S \in SUBSET GPUs(n), S # {},
           NEW used \in [GPUs(n) -> Nat], NEW need \in Nat \ {0},
           NEW o, o.gpus = S, Fits(o, need, PerGPU, used)
    PROVE  /\ IsFiniteSet(S) /\ Cardinality(S) \in Nat /\ Cardinality(S) > 0
           /\ \A g \in S : FreeTerm(used, g) \in 1 .. PerGPU /\ FreeTerm(used, g) * Cardinality(S) >= need
           /\ OfGPUs!Summed(used, S) \in Int
           /\ Score(o, PerGPU, used) = OfGPUs!Summed(used, S) - Cardinality(S) * 100
           /\ Score(o, PerGPU, used) \in Int
<1> DEFINE c == Cardinality(S)
           sum == OfGPUs!Summed(used, S)
<1>1. IsFiniteSet(S) /\ c \in Nat /\ c > 0
  BY GPUsAre
<1>2. PerGPU \in Nat \ {0}
  BY SizesAssumption
<1>3. ASSUME NEW g \in S
      PROVE  FreeTerm(used, g) \in 1 .. PerGPU /\ FreeTerm(used, g) * c >= need
  <2> DEFINE f == PerGPU - used[g]
  <2>1. f * c >= need
    BY DEF Fits
  <2>2. used[g] \in Nat
    OBVIOUS
  <2>3. f \in Int /\ f <= PerGPU
    BY <1>2, <2>2
  <2> HIDE DEF f, c
  <2>4. f > 0
    <3> SUFFICES ASSUME f <= 0 PROVE FALSE
      BY <2>3
    <3>1. f * c <= 0
      BY <1>1, <2>3
    <3> QED BY <1>1, <2>1, <2>3, <3>1
  <2> QED BY <1>2, <2>1, <2>3, <2>4 DEF f, FreeTerm
<1>4. sum \in Int
  <2>1. OfGPUs!IsFiniteSet(S)
    BY <1>1, FiniteGPUs
  <2>2. \A g \in S : FreeTerm(used, g) \in Int
    BY <1>3
  <2> QED BY <2>1, <2>2, OfGPUs!SumRemoves
<1>5. Score(o, PerGPU, used) = sum - c * 100
  BY GPUsSum DEF Score
<1> HIDE DEF c, sum
<1>6. sum - c * 100 \in Int
  BY <1>1, <1>4
<1> QED BY <1>1, <1>3, <1>4, <1>5, <1>6 DEF c, sum

(* What is free on some of the GPUs, and on the others.                    *)
LEMMA Shares ==
    ASSUME NEW n \in Nat, NEW used, NEW S \in SUBSET GPUs(n), NEW T \in SUBSET S,
           \A g \in S : FreeTerm(used, g) \in Int,
           NEW lo \in Int, NEW hi \in Int, \A g \in S \ T : FreeTerm(used, g) \in lo .. hi
    PROVE  /\ Cardinality(S) \in Nat /\ Cardinality(T) \in Nat /\ Cardinality(S) >= Cardinality(T)
           /\ OfGPUs!Summed(used, S) \in Int /\ OfGPUs!Summed(used, T) \in Int
           /\ OfGPUs!Summed(used, S) - OfGPUs!Summed(used, T)
                \in (Cardinality(S) - Cardinality(T)) * lo .. (Cardinality(S) - Cardinality(T)) * hi
<1> DEFINE R == S \ T
           x == OfGPUs!Summed(used, S)
           y == OfGPUs!Summed(used, T)
           z == OfGPUs!Summed(used, R)
<1>1. T \in SUBSET GPUs(n) /\ R \in SUBSET GPUs(n) /\ T \union R = S /\ T \intersect R = {}
  OBVIOUS
<1>2. /\ IsFiniteSet(S) /\ Cardinality(S) \in Nat
      /\ IsFiniteSet(T) /\ Cardinality(T) \in Nat
      /\ IsFiniteSet(R) /\ Cardinality(R) \in Nat
  BY <1>1, GPUsAre
<1>3. Cardinality(S) = Cardinality(T) + Cardinality(R)
  <2>1. Cardinality(T \union R) = Cardinality(T) + Cardinality(R) - Cardinality({})
    BY <1>1, <1>2, FS_Union
  <2> QED BY <1>1, <1>2, <2>1, FS_EmptySet
<1>4. OfGPUs!IsFiniteSet(T) /\ OfGPUs!IsFiniteSet(R) /\ OfGPUs!Cardinality(R) = Cardinality(R)
  BY <1>2, FiniteGPUs
<1>5. \A g \in T \union R : FreeTerm(used, g) \in Int
  BY <1>1
<1>6. x = y + z
  <2>1. OfGPUs!Summed(used, T \union R) = y + z
    BY <1>1, <1>4, <1>5, OfGPUs!SumJoins
  <2> QED BY <1>1, <2>1
<1>7. y \in Int
  <2>1. \A g \in T : FreeTerm(used, g) \in Int
    OBVIOUS
  <2> QED BY <1>4, <2>1, OfGPUs!SumRemoves
<1>8. z \in Cardinality(R) * lo .. Cardinality(R) * hi
  <2>1. z \in OfGPUs!Cardinality(R) * lo .. OfGPUs!Cardinality(R) * hi
    BY <1>4, OfGPUs!SumBounded
  <2> QED BY <1>4, <2>1
<1> DEFINE a == Cardinality(S)
           b == Cardinality(T)
           r == Cardinality(R)
<1> HIDE DEF a, b, r, x, y, z
<1>9. a - b = r /\ a >= b /\ x - y = z /\ x \in Int
  <2>1. a \in Nat /\ b \in Nat /\ r \in Nat /\ a = b + r
    BY <1>2, <1>3 DEF a, b, r
  <2>2. z \in Int
    BY <1>8
  <2> QED BY <1>6, <1>7, <2>1, <2>2
<1>10. x - y \in (a - b) * lo .. (a - b) * hi
  BY <1>8, <1>9 DEF r
<1> QED BY <1>2, <1>7, <1>9, <1>10 DEF a, b, x, y

(* The choice that is recommended, and another that fits.                  *)
Fitting(o, n, igpu, need, used) ==
    /\ o \in GPUAssignOptions(n, igpu) /\ ~o.igpu /\ o.gpus # {}
    /\ Fits(o, need, PerGPU, used)

Best(n, igpu, need, used) == Recommended(GPUAssignOptions(n, igpu), need, PerGPU, used)

LEMMA BestIs ==
    ASSUME NEW n, NEW igpu, NEW need, NEW used, NEW o \in Best(n, igpu, need, used)
    PROVE  /\ Fitting(o, n, igpu, need, used)
           /\ \A p : Fitting(p, n, igpu, need, used) => Score(o, PerGPU, used) >= Score(p, PerGPU, used)
BY DEF Best, Recommended, Candidates, Fitting

LEMMA FittingIs ==
    ASSUME NEW n \in Nat \ {0}, NEW igpu \in SUBSET GPUs(n), NEW used \in [GPUs(n) -> Nat],
           NEW need \in Nat \ {0}, NEW o, Fitting(o, n, igpu, need, used)
    PROVE  /\ o.gpus \in SUBSET GPUs(n) /\ o.gpus \in SUBSET Discrete(n, igpu)
           /\ o.gpus \intersect Warned(n, igpu) = {} /\ o.gpus # {}
           /\ IsFiniteSet(o.gpus) /\ Cardinality(o.gpus) \in Nat /\ Cardinality(o.gpus) > 0
           /\ \A g \in o.gpus : /\ FreeTerm(used, g) \in 1 .. PerGPU
                                /\ FreeTerm(used, g) * Cardinality(o.gpus) >= need
           /\ OfGPUs!Summed(used, o.gpus) \in Int
           /\ Score(o, PerGPU, used) = OfGPUs!Summed(used, o.gpus) - Cardinality(o.gpus) * 100
           /\ Score(o, PerGPU, used) \in Int
<1> DEFINE S == o.gpus
<1>1. o \in GPUAssignOptions(n, igpu) /\ ~o.igpu /\ S # {} /\ Fits(o, need, PerGPU, used)
  BY DEF Fitting
<1>2. S \in SUBSET GPUs(n) /\ S \in SUBSET Discrete(n, igpu) /\ S \intersect Warned(n, igpu) = {}
  BY <1>1, OptionGPUs
<1> HIDE DEF S
<1>3. o.gpus = S
  BY DEF S
<1>4. /\ IsFiniteSet(S) /\ Cardinality(S) \in Nat /\ Cardinality(S) > 0
      /\ \A g \in S : FreeTerm(used, g) \in 1 .. PerGPU /\ FreeTerm(used, g) * Cardinality(S) >= need
      /\ OfGPUs!Summed(used, S) \in Int
      /\ Score(o, PerGPU, used) = OfGPUs!Summed(used, S) - Cardinality(S) * 100
      /\ Score(o, PerGPU, used) \in Int
  BY <1>1, <1>2, <1>3, FreeIs
<1> QED BY <1>1, <1>2, <1>4 DEF S

(* The same by name: so many GPUs, and so much free on them.               *)
Room(o, n, used, need, a, x) ==
    /\ o.gpus \in SUBSET GPUs(n) /\ o.gpus # {} /\ IsFiniteSet(o.gpus)
    /\ a = Cardinality(o.gpus) /\ a \in Nat /\ a > 0
    /\ x = OfGPUs!Summed(used, o.gpus) /\ x \in Int
    /\ Score(o, PerGPU, used) = x - a * 100
    /\ \A g \in o.gpus : FreeTerm(used, g) \in 1 .. PerGPU /\ FreeTerm(used, g) * a >= need

LEMMA FittingRoom ==
    ASSUME NEW n \in Nat \ {0}, NEW igpu \in SUBSET GPUs(n), NEW used \in [GPUs(n) -> Nat],
           NEW need \in Nat \ {0}, NEW o, Fitting(o, n, igpu, need, used)
    PROVE  Room(o, n, used, need, Cardinality(o.gpus), OfGPUs!Summed(used, o.gpus))
<1>1. /\ o.gpus \in SUBSET GPUs(n) /\ o.gpus \in SUBSET Discrete(n, igpu)
      /\ o.gpus \intersect Warned(n, igpu) = {} /\ o.gpus # {}
      /\ IsFiniteSet(o.gpus) /\ Cardinality(o.gpus) \in Nat /\ Cardinality(o.gpus) > 0
      /\ \A g \in o.gpus : /\ FreeTerm(used, g) \in 1 .. PerGPU
                           /\ FreeTerm(used, g) * Cardinality(o.gpus) >= need
      /\ OfGPUs!Summed(used, o.gpus) \in Int
      /\ Score(o, PerGPU, used) = OfGPUs!Summed(used, o.gpus) - Cardinality(o.gpus) * 100
      /\ Score(o, PerGPU, used) \in Int
  BY FittingIs, ZenonT(30)
<1> QED BY <1>1, ZenonT(30) DEF Room

(* Below 100 GB a GPU is worth less than the penalty: none is recommended  *)
(* beside some that are enough.                                            *)
LEMMA PartIsBetter ==
    ASSUME NEW n \in Nat \ {0}, NEW igpu \in SUBSET GPUs(n), NEW used \in [GPUs(n) -> Nat],
           NEW need \in Nat \ {0}, PerGPU < 100,
           NEW o, Fitting(o, n, igpu, need, used), NEW p, Fitting(p, n, igpu, need, used),
           Score(o, PerGPU, used) >= Score(p, PerGPU, used), p.gpus \subseteq o.gpus
    PROVE  Cardinality(o.gpus) <= Cardinality(p.gpus)
<1> DEFINE a == Cardinality(o.gpus)
           b == Cardinality(p.gpus)
           x == OfGPUs!Summed(used, o.gpus)
           y == OfGPUs!Summed(used, p.gpus)
<1>1. x - a * 100 >= y - b * 100 /\ x \in Int /\ y \in Int
  BY FittingIs
<1>2. /\ o.gpus \in SUBSET GPUs(n) /\ p.gpus \in SUBSET o.gpus
      /\ \A g \in o.gpus : FreeTerm(used, g) \in 1 .. PerGPU
  BY FittingIs
<1>3. PerGPU \in Nat \ {0}
  BY SizesAssumption
<1>4. a \in Nat /\ b \in Nat /\ x - y \in (a - b) * 1 .. (a - b) * PerGPU /\ a >= b
  <2> DEFINE S == o.gpus
             T == p.gpus
  <2>1. S \in SUBSET GPUs(n) /\ T \in SUBSET S /\ \A g \in S : FreeTerm(used, g) \in 1 .. PerGPU
    BY <1>2
  <2> HIDE DEF S, T
  <2>2. 1 \in Int /\ PerGPU \in Int /\ n \in Nat
    BY <1>3
  <2>3. \A g \in S : FreeTerm(used, g) \in Int
    BY <2>1, <2>2
  <2>4. \A g \in S \ T : FreeTerm(used, g) \in 1 .. PerGPU
    BY <2>1
  <2>5. /\ Cardinality(S) \in Nat /\ Cardinality(T) \in Nat /\ Cardinality(S) >= Cardinality(T)
        /\ OfGPUs!Summed(used, S) - OfGPUs!Summed(used, T)
             \in (Cardinality(S) - Cardinality(T)) * 1 .. (Cardinality(S) - Cardinality(T)) * PerGPU
    BY <2>1, <2>2, <2>3, <2>4, Shares
  <2> QED BY <2>5 DEF S, T
<1> DEFINE m == a - b
<1>5. m \in Nat /\ x - y <= m * PerGPU
  BY <1>3, <1>4
<1>6. m * PerGPU <= m * 99
  <2>1. PerGPU \in Nat /\ PerGPU <= 99
    BY <1>3
  <2> HIDE DEF m
  <2> QED BY <1>5, <2>1
<1> HIDE DEF a, b, x, y
<1>7. a <= b
  <2>1. x - y >= a * 100 - b * 100
    BY <1>1, <1>4
  <2>2. m * PerGPU \in Int
    BY <1>3, <1>5
  <2>3. x - y <= (a - b) * 99
    BY <1>1, <1>5, <1>6, <2>2
  <2> QED BY <1>1, <1>4, <2>1, <2>3
<1> QED BY <1>7 DEF a, b

(* So one GPU of a larger choice is not enough by itself,                  *)
LEMMA NoneIsEnough ==
    ASSUME NEW n \in Nat \ {0}, NEW igpu \in SUBSET GPUs(n), NEW used \in [GPUs(n) -> Nat],
           NEW need \in Nat \ {0}, PerGPU < 100,
           NEW o \in Best(n, igpu, need, used), Cardinality(o.gpus) > 1, NEW h \in o.gpus
    PROVE  FreeTerm(used, h) <= need - 1
<1>1. Fitting(o, n, igpu, need, used)
  BY BestIs
<1>2. h \in GPUs(n) /\ h \notin Warned(n, igpu) /\ FreeTerm(used, h) \in Int
  <2>1. Room(o, n, used, need, Cardinality(o.gpus), OfGPUs!Summed(used, o.gpus))
    BY <1>1, FittingRoom
  <2>2. h \in GPUs(n) /\ FreeTerm(used, h) \in 1 .. PerGPU
    BY <2>1 DEF Room
  <2>3. o.gpus \intersect Warned(n, igpu) = {}
    BY <1>1, FittingIs
  <2> QED BY <2>2, <2>3, SizesAssumption
<1> SUFFICES ASSUME FreeTerm(used, h) >= need PROVE FALSE
  BY <1>2
<1> DEFINE q == Option(Single(h), {h}, Warned(n, igpu))
<1>3. q \in GPUAssignOptions(n, igpu)
  BY <1>2 DEF GPUAssignOptions
<1>4. q.gpus = {h} /\ ~q.igpu
  BY <1>2 DEF Option
<1> HIDE DEF q
<1>5. Cardinality(q.gpus) = 1
  BY <1>4, FS_Singleton
<1>6. Fits(q, need, PerGPU, used)
  <2>1. PerGPU - used[h] >= need /\ PerGPU - used[h] \in Int
    BY <1>2 DEF FreeTerm
  <2>2. (PerGPU - used[h]) * 1 >= need
    BY <2>1
  <2> QED BY <1>4, <1>5, <2>2 DEF Fits
<1>7. Fitting(q, n, igpu, need, used)
  BY <1>3, <1>4, <1>6 DEF Fitting
<1>8. Score(o, PerGPU, used) >= Score(q, PerGPU, used)
  BY <1>7, BestIs
<1>9. q.gpus \subseteq o.gpus
  BY <1>4
<1>10. Cardinality(o.gpus) <= Cardinality(q.gpus)
  BY <1>1, <1>7, <1>8, <1>9, PartIsBetter
<1>11. Cardinality(o.gpus) \in Nat
  BY <1>1, FittingIs
<1> QED BY <1>5, <1>10, <1>11

(* and they have at most this free together.                               *)
LEMMA RoomIs ==
    ASSUME NEW n \in Nat \ {0}, NEW igpu \in SUBSET GPUs(n), NEW used \in [GPUs(n) -> Nat],
           NEW need \in Nat \ {0}, NEW o, Fitting(o, n, igpu, need, used), NEW h \in o.gpus,
           NEW hi \in Int, \A g \in o.gpus : FreeTerm(used, g) <= hi
    PROVE  OfGPUs!Summed(used, o.gpus) <= FreeTerm(used, h) + (Cardinality(o.gpus) - 1) * hi
<1> DEFINE S == o.gpus
           T == {h}
<1>1. /\ S \in SUBSET GPUs(n) /\ T \in SUBSET S /\ Cardinality(T) = 1
      /\ \A g \in S : FreeTerm(used, g) \in 1 .. PerGPU
  BY FittingIs, FS_Singleton
<1>2. \A g \in S : FreeTerm(used, g) \in Int /\ FreeTerm(used, g) \in 1 .. hi
  BY <1>1, SizesAssumption
<1> HIDE DEF S
<1>3. /\ OfGPUs!Summed(used, S) \in Int /\ OfGPUs!Summed(used, T) \in Int /\ Cardinality(S) \in Nat
      /\ OfGPUs!Summed(used, S) - OfGPUs!Summed(used, T) \in (Cardinality(S) - Cardinality(T)) * 1
                                         .. (Cardinality(S) - Cardinality(T)) * hi
  <2>1. 1 \in Int /\ n \in Nat
    OBVIOUS
  <2>2. \A g \in S : FreeTerm(used, g) \in Int
    BY <1>2
  <2>3. \A g \in S \ T : FreeTerm(used, g) \in 1 .. hi
    BY <1>2
  <2> HIDE DEF T
  <2> QED BY <1>1, <2>1, <2>2, <2>3, Shares
<1>4. OfGPUs!Summed(used, T) = FreeTerm(used, h)
  <2>1. OfGPUs!IsFiniteSet(T) /\ T \ {h} = {} /\ OfGPUs!IsFiniteSet({})
    <3>1. IsFiniteSet(T) /\ IsFiniteSet({})
      BY FS_Singleton, FS_EmptySet
    <3> QED BY <3>1, FiniteGPUs
  <2>2. \A g \in T : FreeTerm(used, g) \in Int
    BY <1>1, <1>2
  <2>3. OfGPUs!Summed(used, T) = FreeTerm(used, h) + OfGPUs!Summed(used, T \ {h})
    BY <2>1, <2>2, OfGPUs!SumRemoves
  <2>4. OfGPUs!Summed(used, {}) = 0
    BY <2>1, OfGPUs!SumUnfolds
  <2> QED BY <2>1, <2>2, <2>3, <2>4
<1> DEFINE a == Cardinality(S)
           x == OfGPUs!Summed(used, S)
           f == FreeTerm(used, h)
<1>5. a \in Nat /\ x \in Int /\ f \in Int /\ x - f <= (a - 1) * hi
  BY <1>1, <1>3, <1>4
<1> HIDE DEF a, x, f
<1>6. (a - 1) * hi \in Int
  BY <1>5
<1>7. x <= f + (a - 1) * hi
  BY <1>5, <1>6
<1> QED BY <1>7 DEF a, x, f, S

(* Where one GPU is enough, one is recommended.                            *)
LEMMA OneIsBetter ==
    ASSUME NEW n \in Nat \ {0}, NEW igpu \in SUBSET GPUs(n), NEW used \in [GPUs(n) -> Nat],
           NEW need \in Nat \ {0}, PerGPU < 100, NEW o \in Best(n, igpu, need, used),
           NEW p, Fitting(p, n, igpu, need, used), Cardinality(p.gpus) = 1
    PROVE  Cardinality(o.gpus) <= 1
<1> DEFINE a == Cardinality(o.gpus)
           x == OfGPUs!Summed(used, o.gpus)
           y == OfGPUs!Summed(used, p.gpus)
<1>1. Fitting(o, n, igpu, need, used) /\ Score(o, PerGPU, used) >= Score(p, PerGPU, used)
  BY BestIs
<1>2. /\ o.gpus # {} /\ a \in Nat /\ x \in Int /\ Score(o, PerGPU, used) = x - a * 100
      /\ \A g \in o.gpus : FreeTerm(used, g) \in 1 .. PerGPU
  <2>1. Room(o, n, used, need, a, x)
    BY <1>1, FittingRoom
  <2> HIDE DEF a, x
  <2> QED BY <2>1 DEF Room
<1>3. y \in Int /\ Score(p, PerGPU, used) = y - 100 /\ y >= need
  <2>1. /\ y \in Int /\ Score(p, PerGPU, used) = y - 1 * 100 /\ IsFiniteSet(p.gpus)
        /\ \A g \in p.gpus : FreeTerm(used, g) \in 1 .. PerGPU /\ FreeTerm(used, g) * 1 >= need
    <3>1. Room(p, n, used, need, 1, y)
      BY FittingRoom
    <3> HIDE DEF y
    <3> QED BY <3>1 DEF Room
  <2>2. PICK g : p.gpus = {g}
    BY <2>1, FS_Singleton
  <2>3. FreeTerm(used, g) \in Int /\ FreeTerm(used, g) >= need
    BY <2>1, <2>2, SizesAssumption
  <2>4. y = FreeTerm(used, g)
    <3>1. OfGPUs!IsFiniteSet(p.gpus) /\ p.gpus \ {g} = {} /\ OfGPUs!IsFiniteSet({})
      BY <2>1, <2>2, FiniteGPUs, FS_EmptySet
    <3>2. \A h \in p.gpus : FreeTerm(used, h) \in Int
      BY <2>2, <2>3
    <3>3. y = FreeTerm(used, g) + OfGPUs!Summed(used, p.gpus \ {g})
      BY <2>2, <3>1, <3>2, OfGPUs!SumRemoves
    <3>4. OfGPUs!Summed(used, {}) = 0
      BY <3>1, OfGPUs!SumUnfolds
    <3> QED BY <2>3, <3>1, <3>3, <3>4
  <2> QED BY <2>1, <2>3, <2>4
<1> SUFFICES ASSUME a > 1 PROVE FALSE
  BY <1>2
<1>4. PICK h \in o.gpus : TRUE
  BY <1>2
<1>5. FreeTerm(used, h) <= need - 1 /\ FreeTerm(used, h) \in Int
  BY <1>2, NoneIsEnough, SizesAssumption
<1>6. x <= FreeTerm(used, h) + (a - 1) * 99
  <2>1. \A g \in o.gpus : FreeTerm(used, g) <= 99
    BY <1>2, SizesAssumption
  <2>2. 99 \in Int
    OBVIOUS
  <2> QED BY <1>1, <2>1, <2>2, RoomIs
<1> DEFINE f == FreeTerm(used, h)
<1>7. x - a * 100 >= y - 100 /\ f \in Int /\ f <= need - 1 /\ x <= f + (a - 1) * 99
  BY <1>1, <1>2, <1>3, <1>5, <1>6
<1> HIDE DEF a, x, y, f
<1> QED BY <1>2, <1>3, <1>7

(* Where every GPU holds the same, the fewest are the best.                *)
LEMMA EvenIsBetter ==
    ASSUME NEW n \in Nat \ {0}, NEW igpu \in SUBSET GPUs(n), NEW used \in [GPUs(n) -> Nat],
           NEW need \in Nat \ {0}, PerGPU < 100, NEW o \in Best(n, igpu, need, used),
           NEW p, Fitting(p, n, igpu, need, used), \A g, h \in GPUs(n) : used[g] = used[h]
    PROVE  Cardinality(o.gpus) <= Cardinality(p.gpus)
<1> DEFINE a == Cardinality(o.gpus)
           b == Cardinality(p.gpus)
           x == OfGPUs!Summed(used, o.gpus)
           y == OfGPUs!Summed(used, p.gpus)
<1>1. Fitting(o, n, igpu, need, used) /\ Score(o, PerGPU, used) >= Score(p, PerGPU, used)
  BY BestIs
<1>2. /\ a \in Nat /\ x \in Int /\ Score(o, PerGPU, used) = x - a * 100
      /\ b \in Nat /\ y \in Int /\ Score(p, PerGPU, used) = y - b * 100
      /\ IsFiniteSet(o.gpus) /\ IsFiniteSet(p.gpus) /\ o.gpus # {}
      /\ o.gpus \in SUBSET GPUs(n) /\ p.gpus \in SUBSET GPUs(n)
      /\ \A g \in o.gpus : FreeTerm(used, g) \in 1 .. PerGPU
  <2>1. Room(o, n, used, need, a, x) /\ Room(p, n, used, need, b, y)
    BY <1>1, FittingRoom
  <2> HIDE DEF a, b, x, y
  <2> QED BY <2>1 DEF Room
<1>3. PICK h \in o.gpus : TRUE
  BY <1>2
<1> DEFINE v == FreeTerm(used, h)
<1>4. v \in Int /\ v <= 99
  BY <1>2, SizesAssumption
<1>5. \A g \in GPUs(n) : FreeTerm(used, g) = v
  BY <1>2 DEF FreeTerm
<1> HIDE DEF v
<1>6. x \in a * v .. a * v
  <2>1. OfGPUs!IsFiniteSet(o.gpus) /\ OfGPUs!Cardinality(o.gpus) = a
    BY <1>2, FiniteGPUs
  <2>2. \A g \in o.gpus : FreeTerm(used, g) \in v .. v
    BY <1>2, <1>4, <1>5
  <2>3. x \in OfGPUs!Cardinality(o.gpus) * v .. OfGPUs!Cardinality(o.gpus) * v
    BY <1>4, <2>1, <2>2, OfGPUs!SumBounded
  <2> QED BY <2>1, <2>3
<1>7. y \in b * v .. b * v
  <2>1. OfGPUs!IsFiniteSet(p.gpus) /\ OfGPUs!Cardinality(p.gpus) = b
    BY <1>2, FiniteGPUs
  <2>2. \A g \in p.gpus : FreeTerm(used, g) \in v .. v
    BY <1>2, <1>4, <1>5
  <2>3. y \in OfGPUs!Cardinality(p.gpus) * v .. OfGPUs!Cardinality(p.gpus) * v
    BY <1>4, <2>1, <2>2, OfGPUs!SumBounded
  <2> QED BY <2>1, <2>3
<1>8. x - a * 100 >= y - b * 100
  BY <1>1, <1>2
<1> HIDE DEF a, b, x, y
<1>9. a <= b
  <2> SUFFICES ASSUME a > b PROVE FALSE
    BY <1>2
  <2> DEFINE m == a - b
  <2>1. m \in Nat /\ m > 0
    BY <1>2
  <2>2. a * v = b * v + m * v /\ a * v \in Int /\ b * v \in Int /\ m * v \in Int
    BY <1>2, <1>4
  <2>3. m * v <= m * 99
    <3> HIDE DEF m
    <3> QED BY <1>4, <2>1
  <2>4. x = a * v /\ y = b * v
    BY <1>2, <1>6, <1>7, <2>2
  <2>5. a * 100 - b * 100 = m * 100
    BY <1>2
  <2> HIDE DEF m
  <2>6. m * v >= m * 100
    BY <1>2, <1>8, <2>1, <2>2, <2>4, <2>5
  <2> QED BY <2>1, <2>2, <2>3, <2>6
<1> QED BY <1>9 DEF a, b

(* The first so many of the GPUs are so many,                              *)
LEMMA FirstCount ==
    ASSUME NEW n \in Nat, NEW D \in SUBSET GPUs(n), NEW k \in Nat, k <= Cardinality(D)
    PROVE  First(D, k) \in SUBSET D /\ Cardinality(First(D, k)) = k
<1> DEFINE rank(g) == Cardinality({h \in D : h < g})
           N == {j \in Nat : j <= Cardinality(D) => Cardinality(First(D, j)) = j}
<1>1. ASSUME NEW g \in D PROVE {h \in D : h < g} \in SUBSET GPUs(n) /\ rank(g) \in Nat
  <2>1. {h \in D : h < g} \in SUBSET GPUs(n)
    OBVIOUS
  <2> QED BY <2>1, GPUsAre
<1>2. \A g \in D : g \in Nat
  BY DEF GPUs
<1>3. \A j \in Nat : First(D, j) \in SUBSET D /\ \A g \in D : g \in First(D, j) <=> rank(g) < j
  BY DEF First
<1>4. ASSUME NEW g \in D, NEW T \in SUBSET {h \in D : h < g} PROVE Cardinality(T) <= rank(g)
  <2>1. IsFiniteSet({h \in D : h < g})
    BY <1>1, GPUsAre
  <2> QED BY <2>1, FS_Subset
<1>5. 0 \in N
  <2>1. First(D, 0) = {}
    <3>1. ASSUME NEW g \in First(D, 0) PROVE FALSE
      <4>1. g \in D
        BY <1>3
      <4>2. rank(g) < 0 /\ rank(g) \in Nat
        BY <1>1, <1>3, <4>1
      <4> HIDE DEF rank
      <4> QED BY <4>2
    <3> QED BY <3>1
  <2> QED BY <2>1, FS_EmptySet
<1>6. ASSUME NEW j \in Nat, j \in N PROVE j + 1 \in N
  <2> SUFFICES ASSUME j + 1 <= Cardinality(D) PROVE Cardinality(First(D, j + 1)) = j + 1
    OBVIOUS
  <2> DEFINE F == First(D, j)
             U == D \ F
  <2>1. Cardinality(D) \in Nat
    BY GPUsAre
  <2>2. Cardinality(F) = j
    BY <1>6, <2>1
  <2>3. F \in SUBSET D /\ IsFiniteSet(F)
    <3>1. F \in SUBSET D /\ F \in SUBSET GPUs(n)
      BY <1>3
    <3> QED BY <3>1, GPUsAre
  <2> HIDE DEF F, N, rank
  <2>4. U \in SUBSET Nat /\ U # {}
    <3>1. F # D
      BY <2>1, <2>2
    <3> QED BY <1>2, <2>3, <3>1
  <2>5. PICK g \in U : \A h \in U : g <= h
    BY <2>4, Smallest
  <2>6. g \in D /\ g \notin F /\ ~(rank(g) < j)
    BY <1>3, <2>5 DEF F
  <2>7. ASSUME NEW h \in F PROVE h < g
    <3> SUFFICES ASSUME g < h PROVE FALSE
      BY <1>2, <2>3, <2>6
    <3>1. h \in D /\ rank(h) < j
      BY <1>3, <2>3 DEF F
    <3>2. {i \in D : i < g} \in SUBSET {i \in D : i < h}
      BY <1>2, <2>6, <3>1
    <3>3. rank(g) <= rank(h)
      BY <1>4, <3>1, <3>2 DEF rank
    <3> QED BY <1>1, <2>6, <3>1, <3>3
  <2>8. {h \in D : h < g} = F
    <3>1. ASSUME NEW h \in D, h < g PROVE h \in F
      BY <1>2, <2>5, <2>6, <3>1
    <3> QED BY <2>3, <2>7, <3>1
  <2>9. g \in First(D, j + 1)
    <3>1. rank(g) = j
      BY <2>2, <2>8 DEF rank
    <3> QED BY <1>3, <2>6, <3>1
  <2>10. First(D, j + 1) = F \union {g}
    <3>1. ASSUME NEW h \in F PROVE h \in First(D, j + 1)
      <4>1. h \in D /\ rank(h) < j /\ rank(h) \in Nat
        BY <1>1, <1>3, <2>3 DEF F
      <4> QED BY <1>3, <4>1
    <3>2. ASSUME NEW h \in First(D, j + 1), h \notin F, h # g PROVE FALSE
      <4>1. h \in D /\ rank(h) < j + 1 /\ rank(h) \in Nat
        BY <1>1, <1>3
      <4>2. g < h
        BY <1>2, <2>5, <2>6, <3>2, <4>1
      <4>3. F \union {g} \in SUBSET {i \in D : i < h}
        BY <1>2, <2>3, <2>6, <2>7, <4>1, <4>2
      <4>4. Cardinality(F \union {g}) <= rank(h)
        BY <1>4, <4>1, <4>3
      <4>5. Cardinality(F \union {g}) = j + 1
        BY <2>2, <2>3, <2>6, FS_AddElement
      <4> QED BY <4>1, <4>4, <4>5
    <3> QED BY <2>9, <3>1, <3>2
  <2> QED BY <2>2, <2>3, <2>6, <2>10, FS_AddElement
<1> HIDE DEF N
<1>7. \A j \in Nat : j \in N
  BY <1>5, <1>6, OfGPUs!AllNumbers
<1>8. Cardinality(First(D, k)) = k
  BY <1>7 DEF N
<1> QED BY <1>3, <1>8

(* and a choice of more than three GPUs is of the first ones.              *)
LEMMA LargeIsFirst ==
    ASSUME NEW n \in Nat \ {0}, NEW igpu \in SUBSET GPUs(n),
           NEW o \in GPUAssignOptions(n, igpu), Cardinality(o.gpus) > 3
    PROVE  o.gpus = First(Discrete(n, igpu), Cardinality(o.gpus))
<1> DEFINE D == Discrete(n, igpu)
           W == Warned(n, igpu)
           Runs2(k) == {Option(Span(i, i + k), i .. i + k, W) : i \in 0 .. n - 1 - k}
<1>0. D \in SUBSET GPUs(n) /\ n \in Nat
  BY DEF Discrete
<1>1. \/ \E g \in GPUs(n) : o = Option(Single(g), {g}, W)
      \/ \E k \in {1, 2} : o \in Runs2(k)
      \/ o = SpanAll(n, igpu)
      \/ \E k \in 2 .. Cardinality(D) : o = TensorOption(n, igpu, k)
      \/ o = CustomOption
  BY DEF GPUAssignOptions
<1> HIDE DEF D, W
<1>2. CASE \E g \in GPUs(n) : o = Option(Single(g), {g}, W)
  <2>1. PICK g \in GPUs(n) : o = Option(Single(g), {g}, W)
    BY <1>2
  <2>2. o.gpus = {g} /\ Cardinality({g}) = 1
    BY <2>1, FS_Singleton DEF Option
  <2> QED BY <2>2
<1>3. CASE \E k \in {1, 2} : o \in Runs2(k)
  <2>1. PICK k \in {1, 2} : o \in Runs2(k)
    BY <1>3
  <2>2. PICK i \in 0 .. n - 1 - k : o = Option(Span(i, i + k), i .. i + k, W)
    BY <2>1
  <2>3. o.gpus = i .. i + k /\ i \in Int /\ i + k \in Int /\ ~(i > i + k)
    BY <2>2 DEF Option
  <2>4. Cardinality(i .. i + k) = i + k - i + 1
    BY <2>3, FS_Interval
  <2> QED BY <2>3, <2>4
<1>4. CASE o = SpanAll(n, igpu)
  <2>1. o.gpus = D
    BY <1>4 DEF SpanAll, Option, D
  <2>2. ASSUME NEW g \in D PROVE Cardinality({h \in D : h < g}) < Cardinality(D)
    <3>1. Cardinality({h \in D : h < g}) \in 0 .. Cardinality(D) - 1 /\ Cardinality(D) \in Nat
      BY <1>0, RankIs, GPUsAre
    <3> QED BY <3>1
  <2>3. First(D, Cardinality(D)) = D
    BY <2>2 DEF First
  <2> QED BY <2>1, <2>3 DEF D
<1>5. CASE \E k \in 2 .. Cardinality(D) : o = TensorOption(n, igpu, k)
  <2>1. PICK k \in 2 .. Cardinality(D) : o = TensorOption(n, igpu, k)
    BY <1>5
  <2>2. o.gpus = First(D, k)
    BY <2>1 DEF TensorOption, Option, D
  <2>3. k \in Nat /\ k <= Cardinality(D)
    BY <1>0, GPUsAre
  <2>4. Cardinality(First(D, k)) = k
    BY <1>0, <2>3, FirstCount
  <2> QED BY <2>2, <2>4 DEF D
<1>6. CASE o = CustomOption
  <2>1. o.gpus = {} /\ Cardinality({}) = 0
    BY <1>6, FS_EmptySet DEF CustomOption, Option
  <2> QED BY <2>1
<1> QED BY <1>1, <1>2, <1>3, <1>4, <1>5, <1>6

LEMMA FirstAreFirst ==
    ASSUME NEW n \in Nat, NEW D \in SUBSET GPUs(n), NEW j \in Nat, NEW k \in Nat, j <= k
    PROVE  First(D, j) \subseteq First(D, k)
<1>1. ASSUME NEW g \in First(D, j) PROVE g \in First(D, k)
  <2>1. g \in D /\ Cardinality({h \in D : h < g}) < j
    BY DEF First
  <2>2. {h \in D : h < g} \in SUBSET GPUs(n)
    OBVIOUS
  <2>3. Cardinality({h \in D : h < g}) \in Nat
    BY <2>2, GPUsAre
  <2> QED BY <2>1, <2>3 DEF First
<1> QED BY <1>1

(* A choice has what it needs.                                             *)
LEMMA FitHasNeed ==
    ASSUME NEW n \in Nat \ {0}, NEW igpu \in SUBSET GPUs(n), NEW used \in [GPUs(n) -> Nat],
           NEW need \in Nat \ {0}, NEW p, Fitting(p, n, igpu, need, used)
    PROVE  OfGPUs!Summed(used, p.gpus) >= need
<1> DEFINE P == p.gpus
           b == Cardinality(P)
           y == OfGPUs!Summed(used, P)
           F == {FreeTerm(used, g) : g \in P}
<1>1. /\ P # {} /\ IsFiniteSet(P) /\ b \in Nat /\ y \in Int
      /\ \A g \in P : FreeTerm(used, g) \in 1 .. PerGPU /\ FreeTerm(used, g) * b >= need
  BY FittingIs
<1>2. PerGPU \in Nat
  BY SizesAssumption
<1> HIDE DEF P, b, y
<1>3. F \in SUBSET Nat /\ F # {}
  BY <1>1, <1>2
<1>4. PICK v \in F : \A w \in F : v <= w
  BY <1>3, Smallest
<1>5. v \in Int /\ v * b >= need
  BY <1>1, <1>2, <1>4
<1>6. \A g \in P : FreeTerm(used, g) \in v .. PerGPU
  <2> SUFFICES ASSUME NEW g \in P PROVE FreeTerm(used, g) \in v .. PerGPU
    OBVIOUS
  <2>1. FreeTerm(used, g) \in 1 .. PerGPU /\ v <= FreeTerm(used, g)
    BY <1>1, <1>4
  <2> QED BY <1>2, <1>5, <2>1
<1>7. OfGPUs!IsFiniteSet(P) /\ OfGPUs!Cardinality(P) = b
  BY <1>1, FiniteGPUs DEF b
<1>8. y \in OfGPUs!Cardinality(P) * v .. OfGPUs!Cardinality(P) * PerGPU
  BY <1>2, <1>5, <1>6, <1>7, OfGPUs!SumBounded DEF y
<1>9. b * v >= need /\ b * v \in Int
  BY <1>1, <1>5
<1>10. y >= need
  BY <1>1, <1>7, <1>8, <1>9
<1> QED BY <1>10 DEF y, P

(* Where a GPU holds up to 42 GB, no choice that fits is smaller: of two   *)
(* of more than three GPUs one is a part of the other, and two or three    *)
(* that are enough leave none of those so much more that it outweighs one. *)
LEMMA ModestIsBetter ==
    ASSUME NEW n \in Nat \ {0}, NEW igpu \in SUBSET GPUs(n), NEW used \in [GPUs(n) -> Nat],
           NEW need \in Nat \ {0}, PerGPU <= 42, NEW o \in Best(n, igpu, need, used),
           NEW p, Fitting(p, n, igpu, need, used)
    PROVE  Cardinality(o.gpus) <= Cardinality(p.gpus)
<1> DEFINE a == Cardinality(o.gpus)
           b == Cardinality(p.gpus)
           x == OfGPUs!Summed(used, o.gpus)
           y == OfGPUs!Summed(used, p.gpus)
           D == Discrete(n, igpu)
<1>0. PerGPU \in Nat /\ PerGPU < 100 /\ n \in Nat
  BY SizesAssumption
<1>1. Fitting(o, n, igpu, need, used) /\ Score(o, PerGPU, used) >= Score(p, PerGPU, used)
  BY BestIs
<1>2. /\ a \in Nat /\ x \in Int /\ Score(o, PerGPU, used) = x - a * 100
      /\ b \in Nat /\ b > 0 /\ y \in Int /\ Score(p, PerGPU, used) = y - b * 100
      /\ o.gpus # {} /\ o.gpus \in SUBSET D
      /\ \A g \in o.gpus : FreeTerm(used, g) \in 1 .. PerGPU
  <2>1. Room(o, n, used, need, a, x) /\ Room(p, n, used, need, b, y)
    BY <1>1, FittingRoom
  <2>2. o.gpus \in SUBSET D
    BY <1>1, FittingIs
  <2> HIDE DEF a, b, x, y, D
  <2> QED BY <2>1, <2>2 DEF Room
<1>3. y >= need
  BY FitHasNeed
<1>4. D \in SUBSET GPUs(n)
  BY DEF Discrete
<1>5. a <= Cardinality(D) /\ Cardinality(D) \in Nat
  <2>1. IsFiniteSet(D) /\ Cardinality(D) \in Nat
    BY <1>4, GPUsAre
  <2> QED BY <1>2, <2>1, FS_Subset
<1> SUFFICES ASSUME a > b PROVE FALSE
  BY <1>2
<1>6. \A h \in o.gpus : FreeTerm(used, h) \in Int /\ FreeTerm(used, h) <= need - 1 /\ FreeTerm(used, h) <= 42
  <2> SUFFICES ASSUME NEW h \in o.gpus
               PROVE  FreeTerm(used, h) \in Int /\ FreeTerm(used, h) <= need - 1 /\ FreeTerm(used, h) <= 42
    OBVIOUS
  <2>1. FreeTerm(used, h) \in 1 .. PerGPU
    BY <1>2
  <2>2. FreeTerm(used, h) <= need - 1
    BY <1>0, <1>2, NoneIsEnough
  <2> QED BY <1>0, <2>1, <2>2
<1>7. x >= need + 100 * a - 100 * b
  <2>1. x - a * 100 >= y - b * 100
    BY <1>1, <1>2
  <2> HIDE DEF a, b, x, y
  <2> QED BY <1>2, <1>3, <2>1
<1>8. ASSUME NEW h \in o.gpus
      PROVE  /\ x <= FreeTerm(used, h) + (a - 1) * 42
             /\ x <= FreeTerm(used, h) + (a - 1) * (need - 1)
  <2>1. \A g \in o.gpus : FreeTerm(used, g) <= 42
    BY <1>6
  <2>2. \A g \in o.gpus : FreeTerm(used, g) <= need - 1
    BY <1>6
  <2>3. 42 \in Int /\ need - 1 \in Int
    OBVIOUS
  <2>4. x <= FreeTerm(used, h) + (a - 1) * 42
    BY <1>1, <2>1, <2>3, RoomIs
  <2>5. x <= FreeTerm(used, h) + (a - 1) * (need - 1)
    BY <1>1, <2>2, <2>3, RoomIs
  <2> QED BY <2>4, <2>5
<1>9. 58 * a <= 100 * b - 43
  <2>1. PICK h \in o.gpus : TRUE
    BY <1>2
  <2> DEFINE f == FreeTerm(used, h)
  <2>2. f \in Int /\ f <= need - 1 /\ x <= f + (a - 1) * 42
    BY <1>6, <1>8
  <2> HIDE DEF f, x, a, b
  <2> QED BY <1>2, <1>7, <2>2
<1>10. CASE b = 1
  <2>1. a <= 1
    BY <1>0, <1>10, OneIsBetter
  <2> QED BY <1>2, <1>10, <2>1
<1>11. CASE b = 2
  <2> HIDE DEF a, b
  <2> QED BY <1>2, <1>9, <1>11
<1>12. CASE b = 3
  <2>1. a = 4
    <3> HIDE DEF a, b
    <3> QED BY <1>2, <1>9, <1>12
  <2> DEFINE q == TensorOption(n, igpu, 3)
  <2>2. q \in GPUAssignOptions(n, igpu)
    <3>1. 3 \in 2 .. Cardinality(D)
      BY <1>5, <2>1
    <3> QED BY <3>1 DEF GPUAssignOptions
  <2>3. q.gpus = First(D, 3) /\ ~q.igpu
    BY DEF TensorOption, Option
  <2> HIDE DEF q
  <2>4. Cardinality(q.gpus) = 3
    <3>1. 3 \in Nat /\ 3 <= Cardinality(D)
      BY <1>5, <2>1
    <3> HIDE DEF D
    <3> QED BY <1>0, <1>4, <2>3, <3>1, FirstCount
  <2>5. q.gpus \subseteq o.gpus
    <3>1. o.gpus = First(D, 4)
      <4>1. o \in GPUAssignOptions(n, igpu) /\ Cardinality(o.gpus) > 3
        BY <1>1, <2>1 DEF Fitting
      <4> QED BY <2>1, <4>1, LargeIsFirst
    <3>2. First(D, 3) \subseteq First(D, 4)
      <4> HIDE DEF D
      <4> QED BY <1>0, <1>4, FirstAreFirst
    <3> QED BY <2>3, <3>1, <3>2
  <2>6. ~Fits(q, need, PerGPU, used)
    <3> SUFFICES ASSUME Fits(q, need, PerGPU, used) PROVE FALSE
      OBVIOUS
    <3>1. q.gpus # {}
      BY <2>4, FS_EmptySet
    <3>2. Fitting(q, n, igpu, need, used)
      BY <2>2, <2>3, <3>1 DEF Fitting
    <3>3. Score(o, PerGPU, used) >= Score(q, PerGPU, used)
      BY <3>2, BestIs
    <3>4. a <= Cardinality(q.gpus)
      BY <1>0, <1>1, <2>5, <3>2, <3>3, PartIsBetter
    <3> QED BY <2>1, <2>4, <3>4
  <2>7. PICK g \in q.gpus : ~((PerGPU - used[g]) * 3 >= need)
    BY <2>4, <2>6 DEF Fits
  <2> DEFINE f == FreeTerm(used, g)
  <2>8. /\ f \in Int /\ 3 * f <= need - 1
        /\ x <= f + (a - 1) * 42 /\ x <= f + (a - 1) * (need - 1)
    <3>1. g \in o.gpus /\ f = PerGPU - used[g]
      BY <2>5 DEF FreeTerm
    <3>2. f \in Int
      BY <1>6, <3>1
    <3>3. ~(f * 3 >= need)
      BY <2>7, <3>1
    <3>4. x <= f + (a - 1) * 42 /\ x <= f + (a - 1) * (need - 1)
      BY <1>8, <3>1
    <3> HIDE DEF f
    <3>5. 3 * f <= need - 1
      BY <3>2, <3>3
    <3> QED BY <3>2, <3>4, <3>5
  <2> HIDE DEF f, x, a, b
  <2>9. x <= f + 126 /\ x <= f + 3 * need - 3 /\ x >= need + 100
    BY <1>2, <1>7, <1>12, <2>1, <2>8
  <2> QED BY <1>2, <2>8, <2>9
<1>13. CASE b > 3
  <2>1. o.gpus = First(D, a) /\ p.gpus = First(D, b)
    <3>1. o \in GPUAssignOptions(n, igpu) /\ p \in GPUAssignOptions(n, igpu) /\ a > 3
      BY <1>1, <1>2, <1>13 DEF Fitting
    <3> QED BY <1>13, <3>1, LargeIsFirst
  <2>2. First(D, b) \subseteq First(D, a)
    <3>1. a \in Nat /\ b \in Nat /\ b <= a
      BY <1>2
    <3> HIDE DEF a, b, D
    <3> QED BY <1>0, <1>4, <3>1, FirstAreFirst
  <2>3. p.gpus \subseteq o.gpus
    BY <2>1, <2>2
  <2>4. a <= b
    BY <1>0, <1>1, <2>3, PartIsBetter
  <2> QED BY <1>2, <2>4
<1>14. b = 1 \/ b = 2 \/ b = 3 \/ b > 3
  BY <1>2
<1> QED BY <1>10, <1>11, <1>12, <1>13, <1>14

LEMMA PageIsFewest ==
    ASSUME PageKnown
    PROVE  RecommendedIsFewest
<1> SUFFICES ASSUME input # None, input.kind = "page",
                    NEW o \in Recommended(Offered, input.need, PerGPU, input.used)
             PROVE  /\ o.gpus \cap Warned(host.n, host.igpu) = {}
                    /\ \A p \in Offered :
                        (~p.igpu /\ p.gpus # {} /\ Fits(p, input.need, PerGPU, input.used)
                            /\ SurelyFewer(o, p)) => Cardinality(o.gpus) <= Cardinality(p.gpus)
  BY DEF RecommendedIsFewest
<1> DEFINE n == host.n
           igpu == host.igpu
           need == input.need
           used == input.used
<1>1. n \in Nat \ {0} /\ igpu \in SUBSET GPUs(n)
  BY MachinesAssumption DEF PageKnown
<1>2. need \in Nat \ {0} /\ used \in [GPUs(n) -> Nat]
  BY SizesAssumption DEF PageKnown
<1>3. Offered = GPUAssignOptions(n, igpu)
  BY DEF Offered
<1>4. \A p : SurelyFewer(o, p) <=>
          \/ PerGPU <= 42
          \/ /\ PerGPU < 100
             /\ \/ Cardinality(p.gpus) = 1
                \/ p.gpus \subseteq o.gpus
                \/ \A g, h \in GPUs(n) : used[g] = used[h]
  BY DEF SurelyFewer
<1>5. o \in Best(n, igpu, need, used)
  BY <1>3 DEF Best
<1> HIDE DEF n, igpu, need, used
<1>6. Fitting(o, n, igpu, need, used)
  BY <1>5, BestIs
<1>7. o.gpus \cap Warned(n, igpu) = {} /\ Cardinality(o.gpus) \in Nat /\ Cardinality(o.gpus) > 0
  BY <1>1, <1>2, <1>6, FittingIs
<1>8. ASSUME NEW p \in Offered, ~p.igpu, p.gpus # {}, Fits(p, need, PerGPU, used), SurelyFewer(o, p)
      PROVE  Cardinality(o.gpus) <= Cardinality(p.gpus)
  <2>1. Fitting(p, n, igpu, need, used)
    BY <1>3, <1>8 DEF Fitting
  <2>2. Score(o, PerGPU, used) >= Score(p, PerGPU, used)
    BY <1>5, <2>1, BestIs
  <2>3. CASE PerGPU <= 42
    BY <1>1, <1>2, <1>5, <2>1, <2>3, ModestIsBetter
  <2>4. CASE PerGPU < 100 /\ Cardinality(p.gpus) = 1
    BY <1>1, <1>2, <1>5, <2>1, <2>4, OneIsBetter
  <2>5. CASE PerGPU < 100 /\ p.gpus \subseteq o.gpus
    BY <1>1, <1>2, <1>6, <2>1, <2>2, <2>5, PartIsBetter
  <2>6. CASE PerGPU < 100 /\ \A g, h \in GPUs(n) : used[g] = used[h]
    BY <1>1, <1>2, <1>5, <2>1, <2>6, EvenIsBetter
  <2> QED BY <1>4, <1>8, <2>3, <2>4, <2>5, <2>6
<1> QED BY <1>7, <1>8 DEF n, igpu, need, used

(* With nothing else on the GPUs, what fits is what has enough of them.    *)
LEMMA FitsIs ==
    ASSUME NEW n \in Nat \ {0}, NEW used \in [GPUs(n) -> Nat], \A g \in GPUs(n) : used[g] = 0,
           NEW o, o.gpus \in SUBSET GPUs(n), NEW need \in Nat
    PROVE  PerGPU * Cardinality(o.gpus) >= need => Fits(o, need, PerGPU, used)
<1>1. PerGPU \in Nat
  BY SizesAssumption
<1>2. \A g \in o.gpus : PerGPU - used[g] = PerGPU
  BY <1>1
<1> QED BY <1>2 DEF Fits

LEMMA FirstGPUs ==
    ASSUME NEW n \in Nat \ {0}, NEW k \in 1 .. n
    PROVE  \E o \in GPUAssignOptions(n, {}) :
              ~o.igpu /\ o.gpus = GPUs(k) /\ o.gpus # {} /\ Cardinality(o.gpus) = k
<1>0. Discrete(n, {}) = GPUs(n) /\ Warned(n, {}) = {} /\ Cardinality(GPUs(n)) = n
  <2>1. 0 \in GPUs(n)
    BY DEF GPUs
  <2> QED BY <2>1, GPUsAre DEF Discrete, Warned
<1>1. GPUs(k) \subseteq GPUs(n) /\ Cardinality(GPUs(k)) = k /\ 0 \in GPUs(k)
  <2>1. GPUs(k) \subseteq GPUs(n) /\ 0 \in GPUs(k) /\ k \in Nat
    BY DEF GPUs
  <2> QED BY <2>1, GPUsAre
<1>2. CASE k = 1
  <2> DEFINE o == Option(Single(0), {0}, {})
  <2>1. GPUs(k) = {0} /\ 0 \in GPUs(n)
    BY <1>2 DEF GPUs
  <2>2. o.gpus = {0} /\ ~o.igpu
    BY DEF Option
  <2>3. o \in GPUAssignOptions(n, {})
    BY <1>0, <2>1 DEF GPUAssignOptions
  <2> HIDE DEF o
  <2> QED BY <1>1, <2>1, <2>2, <2>3
<1>3. CASE k # 1
  <2> DEFINE o == TensorOption(n, {}, k)
  <2>1. First(GPUs(n), k) = GPUs(k)
    <3>1. ASSUME NEW g \in GPUs(n) PROVE Cardinality({h \in GPUs(n) : h < g}) = g
      BY RankIs
    <3>2. ASSUME NEW g \in GPUs(n) PROVE g < k <=> g \in GPUs(k)
      BY DEF GPUs
    <3>3. ASSUME NEW g \in GPUs(n) PROVE g \in First(GPUs(n), k) <=> g \in GPUs(k)
      BY <3>1, <3>2 DEF First
    <3>4. \A g \in First(GPUs(n), k) : g \in GPUs(n)
      BY DEF First
    <3> QED BY <1>1, <3>3, <3>4
  <2>2. o.gpus = GPUs(k) /\ ~o.igpu
    BY <1>0, <2>1 DEF TensorOption, Option
  <2>3. k \in 2 .. n
    BY <1>3
  <2>4. o \in GPUAssignOptions(n, {})
    BY <1>0, <2>3 DEF GPUAssignOptions
  <2> HIDE DEF o
  <2> QED BY <1>1, <2>2, <2>4
<1> QED BY <1>2, <1>3

(* The highest of scores that are bounded: below 100 GB none is above 0.   *)
LEMMA HasBest ==
    ASSUME NEW n \in Nat \ {0}, NEW igpu \in SUBSET GPUs(n), PerGPU < 100,
           NEW used \in [GPUs(n) -> Nat], NEW need \in Nat \ {0},
           NEW q, Fitting(q, n, igpu, need, used)
    PROVE  Best(n, igpu, need, used) # {}
<1> DEFINE C == Candidates(GPUAssignOptions(n, igpu), need, PerGPU, used)
           S == {0 - Score(o, PerGPU, used) : o \in C}
<1>1. ASSUME NEW o \in C PROVE Score(o, PerGPU, used) \in Int /\ Score(o, PerGPU, used) <= 0
  <2>1. Fitting(o, n, igpu, need, used)
    BY DEF Candidates, Fitting
  <2> DEFINE a == Cardinality(o.gpus)
             x == OfGPUs!Summed(used, o.gpus)
  <2>2. /\ a \in Nat /\ x \in Int /\ Score(o, PerGPU, used) = x - a * 100 /\ IsFiniteSet(o.gpus)
        /\ \A g \in o.gpus : FreeTerm(used, g) \in 1 .. PerGPU
    BY <2>1, FittingIs
  <2>3. OfGPUs!IsFiniteSet(o.gpus) /\ OfGPUs!Cardinality(o.gpus) = a
    BY <2>2, FiniteGPUs
  <2>4. \A g \in o.gpus : FreeTerm(used, g) \in 1 .. 99
    BY <2>2, SizesAssumption
  <2>5. x \in OfGPUs!Cardinality(o.gpus) * 1 .. OfGPUs!Cardinality(o.gpus) * 99
    <3>1. 1 \in Int /\ 99 \in Int
      OBVIOUS
    <3> QED BY <2>3, <2>4, <3>1, OfGPUs!SumBounded
  <2>6. x <= a * 99
    BY <2>2, <2>3, <2>5
  <2> HIDE DEF a, x
  <2> QED BY <2>2, <2>6
<1>2. q \in C
  BY DEF Candidates, Fitting
<1> HIDE DEF C
<1>3. S \in SUBSET Nat /\ S # {}
  <2>1. \A o \in C : 0 - Score(o, PerGPU, used) \in Nat
    BY <1>1
  <2> QED BY <1>2, <2>1
<1>4. PICK v \in S : \A w \in S : v <= w
  BY <1>3, Smallest
<1>5. PICK o \in C : v = 0 - Score(o, PerGPU, used)
  OBVIOUS
<1>6. ASSUME NEW p \in C PROVE Score(o, PerGPU, used) >= Score(p, PerGPU, used)
  <2>1. 0 - Score(o, PerGPU, used) <= 0 - Score(p, PerGPU, used)
    BY <1>4, <1>5
  <2> QED BY <1>1, <2>1
<1>7. o \in Best(n, igpu, need, used)
  BY <1>5, <1>6 DEF Best, Recommended, C
<1> QED BY <1>7

(* How many GPUs a need takes.                                             *)
LEMMA LabelIs ==
    ASSUME NEW n \in Nat \ {0}, NEW need \in Nat \ {0}
    PROVE  LET label == VRAMFitLabel(need, PerGPU, n)
           IN  IF need > PerGPU * n THEN label = "too_large"
               ELSE /\ label \in 1 .. n
                    /\ PerGPU * label >= need
                    /\ \A m \in Nat : PerGPU * m >= need => label <= m
<1> DEFINE P == PerGPU
           q == (need + P - 1) \div P
           label == VRAMFitLabel(need, P, n)
<1>1. P \in Nat /\ P > 0
  BY SizesAssumption
<1> HIDE DEF P
<1>2. q \in Int /\ P * q <= need + P - 1 /\ need + P - 1 < P * q + P
  BY <1>1
<1> HIDE DEF q
<1>3. CASE need > P * n
  <2>1. label = "too_large"
    BY <1>1, <1>3 DEF VRAMFitLabel
  <2> QED BY <1>3, <2>1 DEF P
<1>4. CASE ~(need > P * n)
  <2>1. P * q >= need
    BY <1>1, <1>2
  <2>2. ASSUME NEW m \in Nat, P * m >= need PROVE q <= m
    <3> SUFFICES ASSUME m <= q - 1 PROVE FALSE
      BY <1>2
    <3>1. P * m <= P * (q - 1)
      BY <1>1, <1>2
    <3>2. P * (q - 1) = P * q - P
      BY <1>1, <1>2
    <3>3. P * m \in Int /\ P * q \in Int
      BY <1>1, <1>2
    <3> QED BY <1>1, <1>2, <2>2, <3>1, <3>2, <3>3
  <2>3. q >= 1
    <3> SUFFICES ASSUME q <= 0 PROVE FALSE
      BY <1>2
    <3>1. P * q <= 0 /\ P * q \in Int
      BY <1>1, <1>2
    <3>2. need > 0
      OBVIOUS
    <3> QED BY <2>1, <3>1, <3>2
  <2>4. P * n >= need
    BY <1>1, <1>4
  <2>5. q <= n
    BY <2>2, <2>4
  <2>6. Max({1, q}) = q
    <3>1. \A y \in {1, q} : y <= q
      BY <1>2, <2>3
    <3>2. \A z \in {1, q} : (\A y \in {1, q} : y <= z) => z = q
      BY <1>2, <2>3
    <3> QED BY <3>1, <3>2 DEF Max
  <2>7. label = q
    BY <1>1, <1>4, <2>6 DEF VRAMFitLabel, q
  <2>8. label \in 1 .. n /\ P * label >= need /\ \A m \in Nat : P * m >= need => label <= m
    BY <1>2, <2>1, <2>2, <2>3, <2>5, <2>7
  <2> HIDE DEF label
  <2> QED BY <1>4, <2>8 DEF P, label
<1> QED BY <1>3, <1>4

LEMMA PageLabelIsRecommended ==
    ASSUME PageKnown
    PROVE  LabelIsRecommendation
<1> SUFFICES ASSUME input # None, input.kind = "page", host.igpu = {}, PerGPU < 100,
                    \A g \in GPUs(host.n) : input.used[g] = 0
             PROVE  LET best == Recommended(Offered, input.need, PerGPU, input.used)
                        label == VRAMFitLabel(input.need, PerGPU, host.n)
                    IN  IF best = {} THEN label = "too_large"
                        ELSE \A o \in best : label = Cardinality(o.gpus)
  BY DEF LabelIsRecommendation
<1> DEFINE n == host.n
           need == input.need
           used == input.used
           opts == GPUAssignOptions(n, {})
           best == Recommended(opts, need, PerGPU, used)
           label == VRAMFitLabel(need, PerGPU, n)
<1>1. n \in Nat \ {0} /\ {} \in SUBSET GPUs(n)
  BY MachinesAssumption DEF PageKnown
<1>2. need \in Nat \ {0} /\ used \in [GPUs(n) -> Nat] /\ \A g \in GPUs(n) : used[g] = 0
  BY SizesAssumption DEF PageKnown
<1>3. Offered = opts
  BY DEF Offered
<1>4. IF need > PerGPU * n THEN label = "too_large"
      ELSE label \in 1 .. n /\ PerGPU * label >= need /\ \A m \in Nat : PerGPU * m >= need => label <= m
  <2> HIDE DEF n, need
  <2> QED BY <1>1, <1>2, LabelIs
<1>0. PerGPU \in Nat
  BY SizesAssumption
<1> HIDE DEF n, need, used, label
<1>5. ASSUME NEW o \in best
      PROVE  /\ Fitting(o, n, {}, need, used)
             /\ Cardinality(o.gpus) \in 0 .. n /\ need <= PerGPU * Cardinality(o.gpus)
  <2> DEFINE c == Cardinality(o.gpus)
  <2>1. Fitting(o, n, {}, need, used)
    BY BestIs DEF Best
  <2>2. /\ o.gpus \in SUBSET GPUs(n) /\ o.gpus # {}
        /\ \A g \in o.gpus : FreeTerm(used, g) \in 1 .. PerGPU /\ FreeTerm(used, g) * c >= need
    <3> DEFINE x == OfGPUs!Summed(used, o.gpus)
    <3>1. Room(o, n, used, need, c, x)
      BY <1>1, <1>2, <2>1, FittingRoom
    <3> HIDE DEF c, x
    <3> QED BY <3>1 DEF Room
  <2>3. c \in 0 .. n
    BY <1>1, <2>2, GPUsAre
  <2>4. PICK g \in o.gpus : TRUE
    BY <2>2
  <2> DEFINE f == FreeTerm(used, g)
  <2>5. f \in 1 .. PerGPU /\ f * c >= need
    BY <2>2
  <2> HIDE DEF c, f
  <2>6. f * c <= PerGPU * c /\ f * c \in Int /\ PerGPU * c \in Int
    BY <1>0, <1>1, <2>3, <2>5
  <2>7. need <= PerGPU * c
    BY <1>2, <2>5, <2>6
  <2> QED BY <2>1, <2>3, <2>7 DEF c
<1>6. CASE need > PerGPU * n
  <2> SUFFICES ASSUME NEW o \in best PROVE FALSE
    BY <1>3, <1>4, <1>6 DEF label, need, used, n
  <2> DEFINE c == Cardinality(o.gpus)
  <2>1. c \in 0 .. n /\ need <= PerGPU * c
    BY <1>5
  <2> HIDE DEF c
  <2>2. PerGPU * c <= PerGPU * n /\ PerGPU * c \in Int /\ PerGPU * n \in Int
    BY <1>0, <1>1, <2>1
  <2> QED BY <1>2, <1>6, <2>1, <2>2
<1>7. CASE ~(need > PerGPU * n)
  <2>1. label \in 1 .. n /\ PerGPU * label >= need /\ \A m \in Nat : PerGPU * m >= need => label <= m
    BY <1>4, <1>7
  <2>2. PICK p \in opts : ~p.igpu /\ p.gpus = GPUs(label) /\ p.gpus # {} /\ Cardinality(p.gpus) = label
    BY <1>1, <2>1, FirstGPUs
  <2>3. GPUs(label) \in SUBSET GPUs(n)
    BY <1>1, <2>1 DEF GPUs
  <2>4. Fits(p, need, PerGPU, used)
    BY <1>1, <1>2, <2>1, <2>2, <2>3, FitsIs
  <2>5. Fitting(p, n, {}, need, used)
    BY <2>2, <2>4 DEF Fitting
  <2>6. best # {}
    <3>1. Best(n, {}, need, used) # {}
      BY <1>1, <1>2, <2>5, HasBest
    <3> QED BY <3>1 DEF Best
  <2>7. ASSUME NEW o \in best PROVE label = Cardinality(o.gpus)
    <3> DEFINE c == Cardinality(o.gpus)
    <3>1. c \in Nat /\ PerGPU * c >= need
      <4>1. c \in 0 .. n /\ need <= PerGPU * c
        BY <1>5, <2>7
      <4> HIDE DEF c
      <4> QED BY <1>0, <1>1, <1>2, <4>1
    <3>2. o \in Best(n, {}, need, used)
      BY <2>7 DEF Best
    <3>3. \A g, h \in GPUs(n) : used[g] = used[h]
      BY <1>2
    <3>4. c <= label
      BY <1>1, <1>2, <2>2, <2>5, <3>2, <3>3, EvenIsBetter
    <3> HIDE DEF c
    <3>5. label = c
      BY <1>1, <2>1, <3>1, <3>4
    <3> QED BY <3>5 DEF c
  <2> QED BY <1>3, <2>6, <2>7 DEF label, need, used, n
<1> QED BY <1>6, <1>7

-----------------------------------------------------------------------------
(* The reader of headers is a fold: of the entries read so far, it has     *)
(* found the usable ones and lost nothing.                                 *)
Meta(a, f) == [arch |-> a, found |-> f, lost |-> FALSE]
With(f, name, v) == [x \in DOMAIN f \union {name} |-> IF x = name THEN v ELSE f[x]]

LEMMA FieldsAre ==
    ASSUME NEW a, NEW f, NEW b, NEW g
    PROVE  /\ [[arch |-> a, found |-> f, lost |-> b] EXCEPT !.found = g] = [arch |-> a, found |-> g, lost |-> b]
           /\ [[arch |-> a, found |-> f, lost |-> b] EXCEPT !.lost = g] = [arch |-> a, found |-> f, lost |-> g]
OBVIOUS

LEMMA SetIs ==
    ASSUME NEW a, NEW f, NEW name, NEW v
    PROVE  /\ Set(Meta(a, f), name, v) = Meta(a, With(f, name, v))
           /\ [Meta(a, f) EXCEPT !.lost = FALSE] = Meta(a, f)
<1>1. Meta(a, f).found = f
  BY DEF Meta
<1>2. Set(Meta(a, f), name, v) = [Meta(a, f) EXCEPT !.found = With(f, name, v)]
  BY <1>1 DEF Set, With, Meta
<1> DEFINE g == With(f, name, v)
<1>0. PICK b : b = FALSE
  OBVIOUS
<1>5. \A x : Meta(a, x) = [arch |-> a, found |-> x, lost |-> b]
  BY <1>0, Zenon DEF Meta
<1>3. [Meta(a, f) EXCEPT !.found = g] = Meta(a, g)
  <2> HIDE DEF g
  <2> QED BY <1>5, FieldsAre
<1>4. [Meta(a, f) EXCEPT !.lost = b] = Meta(a, f)
  BY <1>5, FieldsAre
<1>6. [Meta(a, f) EXCEPT !.lost = FALSE] = Meta(a, f)
  BY <1>0, <1>4, Zenon
<1> QED BY <1>2, <1>3, <1>6

LEMMA NumberIs ==
    ASSUME NEW type, NEW v, Unsigned(type, v)
    PROVE  ReadScalarInt(type, v) = v
BY DEF Unsigned, ReadScalarInt

LEMMA SkipIs ==
    ASSUME NEW a, NEW f, NEW e, EntryInput(e)
    PROVE  Skip(Meta(a, f), e) = Meta(a, f)
<1>1. Skippable(e)
  BY DEF Skippable, EntryInput
<1> QED BY <1>1, SetIs DEF Skip

LEMMA ListIsWhole ==
    ASSUME NEW e, EntryInput(e), e.name \in ArchArrays, e.type = "array"
    PROVE  ReadArrayInts(e) = e.value /\ ArrayConsumed(e)
<1> DEFINE v == e.value
           n == Len(v)
<1>1. /\ IsList(v) /\ n <= Limit /\ e.elem \in IntTypes
      /\ \A i \in DOMAIN v : Unsigned(e.elem, v[i])
  BY DEF EntryInput
<1>2. v = [i \in 1 .. n |-> v[i]] /\ DOMAIN v = 1 .. n
  BY <1>1, ListIs
<1>3. ~(n > Limit) => ReadArrayInts(e) = [i \in 1 .. n |-> ReadScalarInt(e.elem, v[i])]
  BY <1>1, <1>2 DEF ReadArrayInts
<1>4. e.elem \in FixedTypes
  BY <1>1 DEF FixedTypes
<1>5. ArrayConsumed(e)
  BY <1>1, <1>4 DEF ArrayConsumed
<1>6. \A i \in 1 .. n : ReadScalarInt(e.elem, v[i]) = v[i]
  BY <1>1, <1>2, NumberIs
<1>7. n \in Nat /\ ~(n > Limit)
  BY <1>1, SizesAssumption DEF IsList
<1> HIDE DEF n, v
<1>8. [i \in 1 .. n |-> ReadScalarInt(e.elem, v[i])] = [i \in 1 .. n |-> v[i]]
  BY <1>6
<1> QED BY <1>2, <1>3, <1>5, <1>7, <1>8 DEF v

Read(a, f, e) == Meta(a, IF Usable(e, a) THEN With(f, e.name, Worth(e)) ELSE f)

LEMMA EntryIsRead ==
    ASSUME NEW a, Filled(a), NEW f, NEW e, EntryInput(e), e.name # "architecture"
    PROVE  ReadEntry(Meta(a, f), e) = Read(a, f, e)
<1> DEFINE m == Meta(a, f)
<1>1. ~m.lost /\ m.arch = a
  BY DEF Meta
<1>2. Skip(m, e) = m
  BY SkipIs
<1>3. \A name, v : Set(m, name, v) = Meta(a, With(f, name, v))
  BY SetIs
<1>4. ~Usable(e, a) => Read(a, f, e) = m
  BY DEF Read
<1>5. Usable(e, a) => Read(a, f, e) = Set(m, e.name, Worth(e))
  BY <1>3 DEF Read
<1> SUFFICES ReadEntry(m, e) = Read(a, f, e)
  OBVIOUS
<1> HIDE DEF m
<1>6. CASE e.name = "alignment"
  <2>1. e.type \in IntTypes /\ Unsigned(e.type, e.value)
    BY <1>6 DEF EntryInput
  <2>2. ReadEntry(m, e) = ReadAlignment(m, e)
    BY <1>1, <1>6 DEF ReadEntry, SamplingMax, ArchArrays, ArchScalars
  <2>3. ReadAlignment(m, e) = IF e.value > 0 THEN Set(m, "alignment", e.value) ELSE m
    BY <2>1, NumberIs DEF ReadAlignment
  <2>4. (Usable(e, a) <=> e.value > 0) /\ Worth(e) = e.value
    BY <1>6 DEF Usable, Worth, SamplingMax, ArchArrays, ArchScalars
  <2> QED BY <1>4, <1>5, <1>6, <2>2, <2>3, <2>4
<1>7. CASE e.name = "chat_template"
  <2>1. (Usable(e, a) <=> e.type = "string") /\ Worth(e) = e.value
    BY <1>7 DEF Usable, Worth, SamplingMax, ArchArrays, ArchScalars
  <2>2. CASE e.type = "string"
    <3>1. ReadEntry(m, e) = ReadString(m, e, "chat_template")
      BY <1>1, <1>7, <2>2 DEF ReadEntry, SamplingMax, ArchArrays, ArchScalars
    <3>2. e.value \in Nat /\ e.value <= Limit
      BY <1>7, <2>2 DEF EntryInput
    <3>3. ~(e.value > Limit)
      BY <3>2, SizesAssumption
    <3> QED BY <1>5, <1>7, <2>1, <2>2, <3>1, <3>3 DEF ReadString
  <2>3. CASE e.type # "string"
    <3>1. ReadEntry(m, e) = Skip(m, e)
      BY <1>1, <1>7, <2>3 DEF ReadEntry, SamplingMax, ArchArrays, ArchScalars
    <3> QED BY <1>2, <1>4, <2>1, <2>3, <3>1
  <2> QED BY <2>2, <2>3
<1>8. CASE e.name = "tokens"
  <2>1. (Usable(e, a) <=> e.type = "array") /\ Worth(e) = Len(e.value)
    BY <1>8 DEF Usable, Worth, SamplingMax, ArchArrays, ArchScalars
  <2>2. CASE e.type = "array"
    <3>1. ReadEntry(m, e) = ReadTokens(m, e)
      BY <1>1, <1>8, <2>2 DEF ReadEntry, SamplingMax, ArchArrays, ArchScalars
    <3>2. Skippable(e)
      BY DEF EntryInput, Skippable
    <3>3. ReadTokens(m, e) = Set(m, "tokens", Len(e.value))
      <4> DEFINE g == With(f, "tokens", Len(e.value))
      <4>1. Set(m, "tokens", Len(e.value)) = Meta(a, g)
        BY <1>3
      <4>2. (~Skippable(e)) = FALSE
        BY <3>2
      <4>3. [Meta(a, g) EXCEPT !.lost = ~Skippable(e)] = Meta(a, g)
        BY <4>2, SetIs, Zenon
      <4> QED BY <4>1, <4>3, Zenon DEF ReadTokens
    <3> QED BY <1>5, <1>8, <2>1, <2>2, <3>1, <3>3
  <2>3. CASE e.type # "array"
    <3>1. ReadEntry(m, e) = Skip(m, e)
      BY <1>1, <1>8, <2>3 DEF ReadEntry, SamplingMax, ArchArrays, ArchScalars
    <3> QED BY <1>2, <1>4, <2>1, <2>3, <3>1
  <2> QED BY <2>2, <2>3
<1>9. CASE e.name \in DOMAIN SamplingMax
  <2>1. e.name \notin {"alignment", "chat_template", "tokens"}
    BY <1>9 DEF SamplingMax
  <2>2. ReadEntry(m, e) = ReadSampling(m, e)
    BY <1>1, <1>9, <2>1 DEF ReadEntry, SamplingMax, ArchArrays, ArchScalars
  <2>3. (Usable(e, a) <=> /\ e.type \in SamplingTypes(e.name)
                          /\ e.value \in SamplingMin[e.name] .. SamplingMax[e.name])
        /\ Worth(e) = e.value
    BY <1>9, <2>1 DEF Usable, Worth, SamplingMax, ArchArrays, ArchScalars
  <2>4. e.type \in SamplingTypes(e.name) => e.value \in Int
    BY DEF SamplingTypes, FixedTypes, EntryInput, Unsigned
  <2>5. SamplingMin[e.name] \in Int /\ SamplingMax[e.name] \in Int
    BY <1>9 DEF SamplingMin, SamplingMax
  <2>6. ReadSampling(m, e) = IF Usable(e, a) THEN Set(m, e.name, Worth(e)) ELSE m
    <3>1. CASE e.type \notin SamplingTypes(e.name)
      BY <1>2, <2>3, <3>1 DEF ReadSampling
    <3>2. CASE e.type \in SamplingTypes(e.name)
      <4> DEFINE lo == SamplingMin[e.name]
                 hi == SamplingMax[e.name]
                 v == e.value
      <4>1. v \in lo .. hi <=> ~(v < lo \/ v > hi)
        <5> HIDE DEF lo, hi, v
        <5>1. v \in Int /\ lo \in Int /\ hi \in Int
          BY <2>4, <2>5, <3>2 DEF lo, hi, v
        <5> QED BY <5>1
      <4> QED BY <2>3, <3>2, <4>1 DEF ReadSampling
    <3> QED BY <3>1, <3>2
  <2> QED BY <1>4, <1>5, <2>2, <2>6
<1>10. CASE e.name \notin {"alignment", "chat_template", "tokens"} \union DOMAIN SamplingMax
  <2> DEFINE listed == e.name \in ArchArrays /\ e.type = "array"
             counted == e.name \in ArchScalars /\ e.type \in IntTypes
  <2>1. (Usable(e, a) <=> e.arch = a /\ (counted \/ listed)) /\ Worth(e) = e.value
    BY <1>10 DEF Usable, Worth, SamplingMax, ArchArrays, ArchScalars
  <2>2. CASE e.arch = a /\ listed
    <3>1. ReadEntry(m, e) = ReadArchArray(m, e)
      BY <1>1, <1>10, <2>2 DEF ReadEntry, SamplingMax, ArchArrays, ArchScalars
    <3>2. ReadArchArray(m, e) = Set(m, e.name, e.value)
      <4> DEFINE g == With(f, e.name, e.value)
      <4>1. Set(m, e.name, e.value) = Meta(a, g)
        BY <1>3
      <4>2. ReadArrayInts(e) = e.value /\ (~ArrayConsumed(e)) = FALSE
        BY <2>2, ListIsWhole
      <4>3. [Meta(a, g) EXCEPT !.lost = ~ArrayConsumed(e)] = Meta(a, g)
        BY <4>2, SetIs, Zenon
      <4> QED BY <4>1, <4>2, <4>3, Zenon DEF ReadArchArray
    <3> QED BY <1>5, <2>1, <2>2, <3>1, <3>2
  <2>3. CASE e.arch = a /\ e.name \in ArchScalars /\ e.type # "array"
    <3>1. ReadEntry(m, e) = ReadArchScalar(m, e)
      BY <1>1, <1>10, <2>3 DEF ReadEntry, SamplingMax, ArchArrays, ArchScalars
    <3>2. e.type \in IntTypes => ReadScalarInt(e.type, e.value) = e.value
      BY NumberIs DEF EntryInput
    <3>3. ReadArchScalar(m, e) = IF e.type \in IntTypes THEN Set(m, e.name, e.value) ELSE m
      BY <1>2, <3>2 DEF ReadArchScalar
    <3> QED BY <1>4, <1>5, <2>1, <2>3, <3>1, <3>3
  <2>4. CASE ~(e.arch = a /\ listed) /\ ~(e.arch = a /\ e.name \in ArchScalars /\ e.type # "array")
    <3>1. ReadEntry(m, e) = Skip(m, e)
      BY <1>1, <1>10, <2>4 DEF ReadEntry, SamplingMax, ArchArrays, ArchScalars
    <3>2. "array" \notin IntTypes
      BY DEF IntTypes
    <3> QED BY <1>2, <1>4, <2>1, <2>4, <3>1, <3>2
  <2> QED BY <2>2, <2>3, <2>4
<1> QED BY <1>6, <1>7, <1>8, <1>9, <1>10

Usables(file, i) == {j \in 2 .. i : Usable(file[j], file[1].value)}

LEMMA NamesDiffer ==
    ASSUME NEW file, HeaderInput(file), NEW j \in Usables(file, Len(file)), NEW k \in Usables(file, Len(file)),
           file[j].name = file[k].name
    PROVE  j = k
<1> DEFINE a == file[1].value
<1>1. Len(file) \in Nat /\ DOMAIN file = 1 .. Len(file)
  BY ListIs DEF HeaderInput
<1>2. j \in DOMAIN file /\ k \in DOMAIN file /\ Usable(file[j], a) /\ Usable(file[k], a)
  BY <1>1 DEF Usables
<1>3. \A i \in DOMAIN file : file[i].name \in Generals => file[i].arch = ""
  BY Zenon DEF HeaderInput, EntryInput, Filled
<1>4. \A i \in DOMAIN file : Usable(file[i], a) => file[i].name \in Generals \/ file[i].arch = a
  BY DEF Usable, Generals
<1>5. file[j].arch = file[k].arch
  BY <1>2, <1>3, <1>4, Zenon
<1> QED BY <1>2, <1>5, Zenon DEF HeaderInput

HeadStep(env, m, e) == ReadEntry(m, e)
HasFound(file, i, f) ==
    /\ DOMAIN f = {file[j].name : j \in Usables(file, i)}
    /\ \A j \in Usables(file, i) : f[file[j].name] = Worth(file[j])
HeadKeeps(file, i, m) ==
    /\ i = 0 => m = NoMeta
    /\ i > 0 => \E f : m = Meta(file[1].value, f) /\ HasFound(file, i, f)
HeadFold == INSTANCE Folding WITH
    Holds <- NoneHold, Step <- HeadStep, Keeps <- HeadKeeps, Term <- NoTerm

LEMMA ParseIsFold ==
    ASSUME NEW file, NEW env
    PROVE  ParseGGUFMeta(file) = HeadFold!Folded(env, NoMeta, file)
BY DEF ParseGGUFMeta, HeadStep, FoldLeft, MapThenFoldSet, Max,
       HeadFold!Folded, HeadFold!FoldLeft, HeadFold!MapThenFoldSet, HeadFold!Max

LEMMA ArchIsRead ==
    ASSUME NEW e, e.name = "architecture", e.type = "string"
    PROVE  ReadEntry(NoMeta, e) = Meta(e.value, <<>>)
<1>1. PICK x : x = ""
  OBVIOUS
<1>2. NoMeta = [arch |-> x, found |-> <<>>, lost |-> FALSE]
  BY <1>1, Zenon DEF NoMeta
<1>3. ~NoMeta.lost
  BY <1>2
<1>4. ReadEntry(NoMeta, e) = [NoMeta EXCEPT !.arch = e.value]
  BY <1>3 DEF ReadEntry, SamplingMax, ArchArrays, ArchScalars
<1>5. PICK b : b = FALSE
  OBVIOUS
<1>6. NoMeta = [arch |-> x, found |-> <<>>, lost |-> b] /\ Meta(e.value, <<>>) = [arch |-> e.value, found |-> <<>>, lost |-> b]
  BY <1>2, <1>5, Zenon DEF Meta
<1>7. [NoMeta EXCEPT !.arch = e.value] = Meta(e.value, <<>>)
  BY <1>6
<1> QED BY <1>4, <1>7

LEMMA HeaderIsRead ==
    ASSUME NEW file, HeaderInput(file)
    PROVE  HeadKeeps(file, Len(file), ParseGGUFMeta(file))
<1> DEFINE n == Len(file)
           a == file[1].value
<1>1. n \in Nat /\ DOMAIN file = 1 .. n /\ n > 0
  BY ListIs DEF HeaderInput
<1>2. HeadKeeps(file, 0, NoMeta)
  BY DEF HeadKeeps
<1>3. ASSUME NEW i \in 1 .. n, NEW m, HeadKeeps(file, i - 1, m)
      PROVE  HeadKeeps(file, i, ReadEntry(m, file[i]))
  <2> DEFINE e == file[i]
  <2>1. CASE i = 1
    <3>1. m = NoMeta
      BY <1>3, <2>1 DEF HeadKeeps
    <3>2. ReadEntry(m, e) = Meta(a, <<>>)
      BY <2>1, <3>1, ArchIsRead DEF HeaderInput
    <3>3. Usables(file, i) = {}
      BY <2>1 DEF Usables
    <3>4. HasFound(file, i, <<>>)
      BY <3>3 DEF HasFound
    <3>5. i # 0
      BY <2>1
    <3> QED BY <3>2, <3>4, <3>5, Zenon DEF HeadKeeps
  <2>2. CASE i > 1
    <3>0. i - 1 > 0 /\ i # 0
      BY <2>2
    <3>1. PICK f : m = Meta(a, f) /\ HasFound(file, i - 1, f)
      BY <1>3, <3>0, Zenon DEF HeadKeeps
    <3>2. e.name # "architecture"
      <4>1. 1 \in DOMAIN file /\ i \in DOMAIN file /\ i # 1
        BY <1>1, <2>2
      <4>2. \A k \in DOMAIN file : file[k].name = "architecture" => file[k].arch = ""
        BY Zenon DEF HeaderInput, EntryInput, Generals, Filled
      <4>3. file[1].name = "architecture"
        BY DEF HeaderInput
      <4> QED BY <4>1, <4>2, <4>3, Zenon DEF HeaderInput
    <3>3. EntryInput(e) /\ Filled(a)
      BY <1>1, Zenon DEF HeaderInput
    <3>4. ReadEntry(m, e) = Read(a, f, e)
      BY <3>1, <3>2, <3>3, EntryIsRead
    <3> DEFINE g == IF Usable(e, a) THEN With(f, e.name, Worth(e)) ELSE f
               U == Usables(file, i - 1)
    <3>5. ReadEntry(m, e) = Meta(a, g)
      BY <3>4 DEF Read
    <3>6. Usables(file, i) = IF Usable(e, a) THEN U \union {i} ELSE U
      BY <1>1, <2>2 DEF Usables
    <3>7. HasFound(file, i, g)
      <4>1. CASE Usable(e, a)
        <5>1. g = With(f, e.name, Worth(e))
          BY <4>1
        <5>2. \A j \in U : file[j].name # e.name
          <6> SUFFICES ASSUME NEW j \in U, file[j].name = file[i].name PROVE FALSE
            OBVIOUS
          <6>1. j \in Usables(file, n) /\ i \in Usables(file, n) /\ j # i
            BY <1>1, <2>2, <4>1 DEF Usables
          <6> QED BY <6>1, NamesDiffer
        <5> HIDE DEF U, e, g
        <5>3. DOMAIN g = DOMAIN f \union {e.name} /\ g[e.name] = Worth(e)
              /\ \A x \in DOMAIN f : x # e.name => g[x] = f[x]
          BY <5>1 DEF With
        <5>4. Usables(file, i) = U \union {i}
          BY <3>6, <4>1
        <5>5. e = file[i]
          BY DEF e
        <5>6. DOMAIN f = {file[j].name : j \in U} /\ \A j \in U : f[file[j].name] = Worth(file[j])
          BY <3>1 DEF U, HasFound
        <5> QED BY <5>2, <5>3, <5>4, <5>5, <5>6 DEF HasFound
      <4>2. CASE ~Usable(e, a)
        BY <3>1, <3>6, <4>2 DEF HasFound
      <4> QED BY <4>1, <4>2
    <3> HIDE DEF g
    <3> QED BY <3>0, <3>5, <3>7, Zenon DEF HeadKeeps
  <2> QED BY <2>1, <2>2
<1>4. \A i \in 1 .. n : \A m : HeadKeeps(file, i - 1, m) => HeadKeeps(file, i, HeadStep(file, m, file[i]))
  BY <1>3 DEF HeadStep
<1>5. HeadKeeps(file, n, HeadFold!Folded(file, NoMeta, file))
  <2> HIDE DEF n
  <2> QED BY <1>1, <1>2, <1>4, HeadFold!FoldInduction, Zenon
<1> QED BY <1>5, ParseIsFold

LEMMA InputIsRead ==
    InputKnown => ReadsWhatIsThere
<1> SUFFICES ASSUME InputKnown, input # None, input.kind = "header"
             PROVE  /\ ~ParseGGUFMeta(input.file).lost
                    /\ ParseGGUFMeta(input.file).arch = input.file[1].value
                    /\ LET wanted == {e \in ToSet(Tail(input.file)) : Usable(e, input.file[1].value)}
                       IN  /\ DOMAIN ParseGGUFMeta(input.file).found = {e.name : e \in wanted}
                           /\ \A e \in wanted : ParseGGUFMeta(input.file).found[e.name] = Worth(e)
  BY DEF ReadsWhatIsThere
<1> DEFINE file == input.file
           n == Len(file)
           a == file[1].value
           wanted == {e \in ToSet(Tail(file)) : Usable(e, a)}
<1>1. HeaderInput(file)
  BY InputsAssumption DEF InputKnown
<1>2. n \in Nat /\ n > 0 /\ DOMAIN file = 1 .. n /\ file \in Seq({file[i] : i \in 1 .. n})
  BY <1>1, ListIs DEF HeaderInput
<1>3. PICK f : ParseGGUFMeta(file) = Meta(a, f) /\ HasFound(file, n, f)
  BY <1>1, <1>2, HeaderIsRead, Zenon DEF HeadKeeps
<1>4. wanted = {file[j] : j \in Usables(file, n)}
  <2> DEFINE T == {file[i] : i \in 1 .. n}
             r == Tail(file)
  <2> HIDE DEF T, n, file, a
  <2>1. file \in Seq(T) /\ file # <<>> /\ n = Len(file)
    BY <1>2 DEF T, n
  <2>2. Len(r) = n - 1 /\ DOMAIN r = 1 .. n - 1 /\ \A i \in 1 .. n - 1 : r[i] = file[i + 1]
    BY <1>2, <2>1
  <2>3. ToSet(r) = {file[j] : j \in 2 .. n}
    <3>1. ToSet(r) = {r[i] : i \in 1 .. n - 1}
      BY <2>2 DEF ToSet
    <3>2. \A j \in 2 .. n : j - 1 \in 1 .. n - 1 /\ r[j - 1] = file[j]
      BY <1>2, <2>2
    <3>3. \A i \in 1 .. n - 1 : i + 1 \in 2 .. n
      BY <1>2
    <3> QED BY <2>2, <3>1, <3>2, <3>3
  <2>4. Usables(file, n) = {j \in 2 .. n : Usable(file[j], a)}
    BY DEF Usables, a
  <2> QED BY <2>3, <2>4
<1> HIDE DEF file, n, a
<1>5. DOMAIN f = {e.name : e \in wanted} /\ \A e \in wanted : f[e.name] = Worth(e)
  <2> HIDE DEF wanted
  <2> QED BY <1>3, <1>4 DEF HasFound
<1> DEFINE m == ParseGGUFMeta(file)
<1>6. ~m.lost /\ m.arch = a /\ m.found = f
  <2>1. m = Meta(a, f)
    BY <1>3
  <2> HIDE DEF m
  <2> QED BY <2>1 DEF Meta
<1> HIDE DEF m, wanted
<1>7. /\ ~m.lost
      /\ m.arch = a
      /\ DOMAIN m.found = {e.name : e \in wanted}
      /\ \A e \in wanted : m.found[e.name] = Worth(e)
  BY <1>5, <1>6
<1> QED BY <1>7 DEF m, wanted, a, file

(* What the page says of sizes is what they are: the header it was read    *)
(* from, the cache of every layer, the table that stays in system memory,  *)
(* the lines of a report, and the GPUs a load needs, on any machine, with  *)
(* any number of GPUs of any size and whatever else they hold.             *)
THEOREM SizesRight == SetupSpec => []SizesAreRight
<1>1. SetupInit => InputKnown /\ PageKnown
  BY DEF SetupInit, InputKnown, PageKnown
<1>2. (InputKnown /\ PageKnown) /\ [SetupNext]_setupVars => (InputKnown /\ PageKnown)'
  BY InputsStayKnown, PagesStayKnown
<1>3. ASSUME InputKnown, PageKnown PROVE SizesAreRight
  <2>1. /\ input # None /\ input.kind = "model" => ModelInput(input)
        /\ input # None /\ input.kind = "report" => ReportInput(input)
        /\ input # None /\ input.kind = "tensors" =>
             IsList(input.shards) /\ \A i \in DOMAIN input.shards : TensorInput(input.shards[i])
    BY <1>3, InputsAssumption DEF InputKnown
  <2>2. KVCacheIsPerLayer /\ TableIsMeasured /\ TermsAddUp
    BY <2>1, InputCacheIsPerLayer, InputTableIsMeasured, InputTermsAddUp
  <2>3. RecommendedIsFewest /\ LabelIsRecommendation /\ ReadsWhatIsThere
    BY <1>3, PageIsFewest, PageLabelIsRecommended, InputIsRead
  <2> QED BY <2>2, <2>3 DEF SizesAreRight
<1> QED BY <1>1, <1>2, <1>3, PTL DEF SetupSpec
=============================================================================
