------------------------------ MODULE Folding ------------------------------
(***************************************************************************)
(* Induction, for the proofs about what a loop computes: over the natural  *)
(* numbers, over a finite set, over the steps of a fold of a sequence, and *)
(* over the terms of a sum.  A proof takes an instance of this module for  *)
(* the operators it is about; env is whatever else they depend on.         *)
(***************************************************************************)
EXTENDS Integers, Sequences, FiniteSets, FiniteSetsExt, SequencesExt,
        FiniteSetTheorems, WellFoundedInduction, TLAPS

CONSTANTS
    Holds(_, _),    \* env and a number, or a set
    Step(_, _, _),  \* env, what was accumulated, and an element of the sequence
    Keeps(_, _, _), \* env, how many elements were taken, and what they make
    Term(_, _)      \* env and a member of the set that is summed

Folded(env, base, seq) == FoldLeft(LAMBDA a, x : Step(env, a, x), base, seq)
Summed(env, S) == MapThenSumSet(LAMBDA x : Term(env, x), S)

-----------------------------------------------------------------------------
(* A set that holds 0 and, with a number, the next one, holds them all.    *)
LEMMA AllNumbers ==
    ASSUME NEW T, 0 \in T, \A n \in Nat : n \in T => n + 1 \in T
    PROVE  \A n \in Nat : n \in T
<1> DEFINE Less == {p \in Nat \X Nat : p[1] < p[2]}
           U == {n \in Nat : n \notin T}
<1> SUFFICES ASSUME U # {} PROVE FALSE
  OBVIOUS
<1>1. IsWellFoundedOn(Less, Nat)
  BY NatLessThanWellFounded, Zenon DEF OpToRel
<1>2. PICK n \in U : \A m \in U : ~(<<m, n>> \in Less)
  BY <1>1, WFMin, Zenon
<1>3. n \in Nat /\ n # 0 /\ n - 1 \in Nat /\ n - 1 < n
  OBVIOUS
<1>4. n - 1 \notin U
  BY <1>2, <1>3
<1> QED BY <1>3, <1>4

THEOREM Induction ==
    ASSUME NEW env, Holds(env, 0), \A n \in Nat : Holds(env, n) => Holds(env, n + 1)
    PROVE  \A n \in Nat : Holds(env, n)
<1> DEFINE T == {n \in Nat : Holds(env, n)}
<1>1. 0 \in T /\ \A n \in Nat : n \in T => n + 1 \in T
  OBVIOUS
<1> HIDE DEF T
<1>2. \A n \in Nat : n \in T
  BY <1>1, AllNumbers
<1> QED BY <1>2 DEF T

THEOREM SetInduction ==
    ASSUME NEW env, NEW S, IsFiniteSet(S), Holds(env, {}),
           \A T \in SUBSET S : \A x \in S \ T : Holds(env, T) => Holds(env, T \union {x})
    PROVE  Holds(env, S)
<1> DEFINE N == {n \in Nat : \A T \in SUBSET S : Cardinality(T) = n => Holds(env, T)}
<1>1. 0 \in N
  BY FS_Subset, FS_EmptySet
<1>2. ASSUME NEW n \in Nat, n \in N PROVE n + 1 \in N
  <2> SUFFICES ASSUME NEW T \in SUBSET S, Cardinality(T) = n + 1 PROVE Holds(env, T)
    OBVIOUS
  <2>1. IsFiniteSet(T) /\ T # {}
    BY FS_Subset, FS_EmptySet
  <2>2. PICK x \in T : TRUE
    BY <2>1
  <2>3. Cardinality(T \ {x}) = n
    <3>1. Cardinality(T \ {x}) = Cardinality(T) - 1
      BY <2>1, <2>2, FS_RemoveElement
    <3> QED BY <3>1
  <2>4. Holds(env, T \ {x}) /\ T \ {x} \in SUBSET S /\ x \in S \ (T \ {x})
    BY <1>2, <2>2, <2>3
  <2>5. T = (T \ {x}) \union {x}
    BY <2>2
  <2> HIDE DEF N
  <2> QED BY <2>4, <2>5
<1> HIDE DEF N
<1>3. \A n \in Nat : n \in N
  BY <1>1, <1>2, AllNumbers
<1>4. Cardinality(S) \in Nat
  BY FS_CardinalityType
<1> QED BY <1>3, <1>4 DEF N

-----------------------------------------------------------------------------
(* A fold of a sequence goes through its elements in their order: there    *)
(* are states between them, from the base to the result.                   *)
LEMMA LargestIs ==
    ASSUME NEW n \in Nat, NEW T \in SUBSET (1 .. n + 1), n + 1 \in T
    PROVE  Max(T) = n + 1
<1>1. \A y \in T : n + 1 >= y
  OBVIOUS
<1>2. Max(T) \in T /\ \A y \in T : Max(T) >= y
  BY <1>1, Zenon DEF Max
<1>3. ASSUME NEW m \in T, m >= n + 1 PROVE m = n + 1
  BY <1>3
<1> QED BY <1>2, <1>3

FoldsTo(env, base, seq, T, g) ==
    g = [s \in SUBSET T |->
            IF s = {} THEN base ELSE Step(env, g[s \ {Max(s)}], seq[Max(s)])]

LEMMA FoldExists ==
    ASSUME NEW env, NEW base, NEW seq, NEW n \in Nat
    PROVE  \E g : FoldsTo(env, base, seq, 1 .. n, g)
<1> DEFINE N == {k \in Nat : \E g : FoldsTo(env, base, seq, 1 .. k, g)}
<1>1. 0 \in N
  <2> DEFINE g == [s \in SUBSET {} |-> base]
  <2>1. 1 .. 0 = {} /\ \A s \in SUBSET {} : s = {}
    OBVIOUS
  <2>2. FoldsTo(env, base, seq, {}, g)
    BY <2>1 DEF FoldsTo
  <2> QED BY <2>1, <2>2
<1>2. ASSUME NEW k \in Nat, k \in N PROVE k + 1 \in N
  <2>1. PICK g : FoldsTo(env, base, seq, 1 .. k, g)
    BY <1>2
  <2> DEFINE h == [s \in SUBSET (1 .. k + 1) |->
                    IF k + 1 \in s THEN Step(env, g[s \ {k + 1}], seq[k + 1]) ELSE g[s]]
             r == [s \in SUBSET (1 .. k + 1) |->
                    IF s = {} THEN base ELSE Step(env, h[s \ {Max(s)}], seq[Max(s)])]
  <2>2. ASSUME NEW s \in SUBSET (1 .. k + 1) PROVE h[s] = r[s]
    <3>1. CASE k + 1 \in s
      <4>1. Max(s) = k + 1 /\ s # {}
        BY <3>1, LargestIs
      <4>2. /\ s \ {k + 1} \in SUBSET (1 .. k) /\ s \ {k + 1} \in SUBSET (1 .. k + 1)
            /\ k + 1 \notin s \ {k + 1}
        OBVIOUS
      <4> QED BY <3>1, <4>1, <4>2
    <3>2. CASE k + 1 \notin s
      <4>1. s \in SUBSET (1 .. k)
        BY <3>2
      <4>2. CASE s = {}
        BY <2>1, <3>2, <4>1, <4>2 DEF FoldsTo
      <4>3. CASE s # {}
        <5>1. h[s] = Step(env, g[s \ {Max(s)}], seq[Max(s)])
          BY <2>1, <3>2, <4>1, <4>3 DEF FoldsTo
        <5>2. s \ {Max(s)} \in SUBSET (1 .. k + 1) /\ k + 1 \notin s \ {Max(s)}
          BY <3>2
        <5>3. h[s \ {Max(s)}] = g[s \ {Max(s)}]
          BY <5>2
        <5> QED BY <4>3, <5>1, <5>3
      <4> QED BY <4>2, <4>3
    <3> QED BY <3>1, <3>2
  <2>3. FoldsTo(env, base, seq, 1 .. k + 1, h)
    BY <2>2 DEF FoldsTo
  <2> QED BY <2>3
<1> HIDE DEF N
<1>3. n \in N
  BY <1>1, <1>2, AllNumbers
<1> QED BY <1>3 DEF N

States(env, base, seq, n, s) ==
    /\ s[0] = base
    /\ \A i \in 1 .. n : s[i] = Step(env, s[i - 1], seq[i])
    /\ s[n] = Folded(env, base, seq)

LEMMA FoldStates ==
    ASSUME NEW env, NEW base, NEW seq, NEW n \in Nat, DOMAIN seq = 1 .. n
    PROVE  \E s : States(env, base, seq, n, s)
<1> DEFINE iter == CHOOSE g : FoldsTo(env, base, seq, 1 .. n, g)
           s == [i \in 0 .. n |-> iter[1 .. i]]
<1>1. FoldsTo(env, base, seq, 1 .. n, iter)
  BY FoldExists
<1>2. Folded(env, base, seq) = iter[1 .. n]
  BY DEF Folded, FoldLeft, MapThenFoldSet, FoldsTo
<1> HIDE DEF iter
<1>3. s[0] = base
  <2>1. 1 .. 0 = {} /\ {} \in SUBSET (1 .. n)
    OBVIOUS
  <2> QED BY <1>1, <2>1 DEF FoldsTo
<1>4. ASSUME NEW i \in 1 .. n PROVE s[i] = Step(env, s[i - 1], seq[i])
  <2>1. i - 1 \in Nat /\ (i - 1) + 1 = i
    OBVIOUS
  <2>2. 1 .. i \in SUBSET (1 .. n) /\ i \in 1 .. i /\ (1 .. i) \ {i} = 1 .. i - 1
    <3>1. ASSUME NEW k \in 1 .. i PROVE k \in 1 .. n
      BY <3>1
    <3>2. ASSUME NEW k \in (1 .. i) \ {i} PROVE k \in 1 .. i - 1
      BY <3>2
    <3>3. ASSUME NEW k \in 1 .. i - 1 PROVE k \in (1 .. i) \ {i}
      BY <3>3
    <3>4. i \in 1 .. i
      OBVIOUS
    <3> QED BY <3>1, <3>2, <3>3, <3>4
  <2>3. Max(1 .. i) = i
    <3>1. ASSUME NEW k \in Nat PROVE Max(1 .. k + 1) = k + 1
      BY LargestIs, k + 1 \in 1 .. k + 1
    <3> QED BY <2>1, <3>1
  <2>4. iter[1 .. i] = Step(env, iter[1 .. i - 1], seq[i])
    BY <1>1, <2>2, <2>3 DEF FoldsTo
  <2> QED BY <2>4
<1>5. s[n] = iter[1 .. n]
  OBVIOUS
<1> HIDE DEF s
<1>6. States(env, base, seq, n, s)
  BY <1>2, <1>3, <1>4, <1>5 DEF States
<1> QED BY <1>6

(* What holds of the base, and is kept by each step, holds of the result.  *)
THEOREM FoldInduction ==
    ASSUME NEW env, NEW base, NEW seq, NEW n \in Nat, DOMAIN seq = 1 .. n,
           Keeps(env, 0, base),
           \A i \in 1 .. n : \A a : Keeps(env, i - 1, a) => Keeps(env, i, Step(env, a, seq[i]))
    PROVE  Keeps(env, n, Folded(env, base, seq))
<1>0. PICK s : States(env, base, seq, n, s)
  BY FoldStates
<1>1. /\ s[0] = base
      /\ \A i \in 1 .. n : s[i] = Step(env, s[i - 1], seq[i])
      /\ Folded(env, base, seq) = s[n]
  BY <1>0 DEF States
<1> DEFINE N == {i \in Nat : i <= n => Keeps(env, i, s[i])}
<1>2. 0 \in N
  BY <1>1
<1>3. ASSUME NEW i \in Nat, i \in N PROVE i + 1 \in N
  <2> SUFFICES ASSUME i + 1 <= n PROVE Keeps(env, i + 1, s[i + 1])
    OBVIOUS
  <2>1. i + 1 \in 1 .. n /\ (i + 1) - 1 = i /\ Keeps(env, i, s[i])
    BY <1>3
  <2> HIDE DEF N
  <2>2. s[i + 1] = Step(env, s[i], seq[i + 1])
    BY <1>1, <2>1
  <2>3. \A j \in 1 .. n : Keeps(env, j - 1, s[i]) => Keeps(env, j, Step(env, s[i], seq[j]))
    OBVIOUS
  <2> QED BY <2>1, <2>2, <2>3
<1> HIDE DEF N
<1>4. n \in N
  BY <1>2, <1>3, AllNumbers
<1> QED BY <1>1, <1>4 DEF N

-----------------------------------------------------------------------------
(* A sum over a finite set does not depend on the order of its terms.      *)
SumsTo(env, S, g) ==
    g = [s \in SUBSET S |->
            IF s = {} THEN 0 ELSE Term(env, CHOOSE x \in s : TRUE) + g[s \ {CHOOSE x \in s : TRUE}]]

LEMMA SumExists ==
    ASSUME NEW env, NEW S, IsFiniteSet(S)
    PROVE  \E g : SumsTo(env, S, g)
<1> DEFINE Sized(k) == {s \in SUBSET S : Cardinality(s) <= k}
           SumsUpTo(k, g) == g = [s \in Sized(k) |->
              IF s = {} THEN 0 ELSE Term(env, CHOOSE x \in s : TRUE) + g[s \ {CHOOSE x \in s : TRUE}]]
           N == {k \in Nat : \E g : SumsUpTo(k, g)}
<1>1. \A s \in SUBSET S : IsFiniteSet(s) /\ Cardinality(s) \in Nat /\ (Cardinality(s) = 0 <=> s = {})
  BY FS_Subset, FS_EmptySet, FS_CardinalityType
<1>2. ASSUME NEW s \in SUBSET S, s # {}
      PROVE  LET x == CHOOSE x \in s : TRUE
             IN  /\ x \in s /\ s \ {x} \in SUBSET S
                 /\ Cardinality(s \ {x}) = Cardinality(s) - 1
  <2>1. (CHOOSE x \in s : TRUE) \in s
    BY <1>2
  <2> QED BY <1>1, <2>1, FS_RemoveElement
<1>3. 0 \in N
  <2> DEFINE g == [s \in Sized(0) |-> 0]
  <2>1. \A s \in Sized(0) : s = {}
    BY <1>1
  <2>2. SumsUpTo(0, g)
    BY <2>1
  <2> QED BY <2>2
<1>4. ASSUME NEW k \in Nat, k \in N PROVE k + 1 \in N
  <2>1. PICK g : SumsUpTo(k, g)
    BY <1>4
  <2> DEFINE pick(s) == CHOOSE x \in s : TRUE
             h == [s \in Sized(k + 1) |->
                    IF s = {} THEN 0 ELSE Term(env, pick(s)) + g[s \ {pick(s)}]]
             r == [s \in Sized(k + 1) |->
                    IF s = {} THEN 0 ELSE Term(env, pick(s)) + h[s \ {pick(s)}]]
  <2>2. ASSUME NEW s \in Sized(k + 1) PROVE h[s] = r[s]
    <3>1. CASE s = {}
      BY <3>1
    <3>2. CASE s # {}
      <4> DEFINE t == s \ {pick(s)}
      <4>1. t \in Sized(k)
        BY <1>1, <1>2, <3>2
      <4>2. t \in Sized(k + 1)
        BY <1>1, <4>1
      <4>3. g[t] = IF t = {} THEN 0 ELSE Term(env, pick(t)) + g[t \ {pick(t)}]
        BY <2>1, <4>1
      <4>4. h[t] = IF t = {} THEN 0 ELSE Term(env, pick(t)) + g[t \ {pick(t)}]
        BY <4>2
      <4> QED BY <3>2, <4>3, <4>4
    <3> QED BY <3>1, <3>2
  <2>3. SumsUpTo(k + 1, h)
    BY <2>2
  <2> HIDE DEF h, SumsUpTo
  <2> QED BY <2>3
<1> HIDE DEF N
<1>5. Cardinality(S) \in N
  BY <1>1, <1>3, <1>4, AllNumbers
<1>6. Sized(Cardinality(S)) = SUBSET S
  BY FS_Subset
<1> QED BY <1>5, <1>6 DEF N, SumsTo

LEMMA SumUnique ==
    ASSUME NEW env, NEW S, IsFiniteSet(S), NEW T \in SUBSET S,
           NEW g, SumsTo(env, S, g), NEW h, SumsTo(env, T, h)
    PROVE  g[T] = h[T]
<1> DEFINE N == {k \in Nat : \A s \in SUBSET T : Cardinality(s) = k => g[s] = h[s]}
<1>1. \A s \in SUBSET T : IsFiniteSet(s) /\ Cardinality(s) \in Nat /\ (Cardinality(s) = 0 <=> s = {})
  BY FS_Subset, FS_EmptySet, FS_CardinalityType
<1>2. 0 \in N
  BY <1>1 DEF SumsTo
<1>3. ASSUME NEW k \in Nat, k \in N PROVE k + 1 \in N
  <2> SUFFICES ASSUME NEW s \in SUBSET T, Cardinality(s) = k + 1 PROVE g[s] = h[s]
    OBVIOUS
  <2> DEFINE x == CHOOSE x \in s : TRUE
  <2>1. s # {} /\ x \in s
    BY <1>1
  <2>2. s \ {x} \in SUBSET T /\ Cardinality(s \ {x}) = k
    <3>1. Cardinality(s \ {x}) = Cardinality(s) - 1
      BY <1>1, <2>1, FS_RemoveElement
    <3> QED BY <3>1
  <2>3. g[s \ {x}] = h[s \ {x}]
    BY <1>3, <2>2
  <2>4. g[s] = Term(env, x) + g[s \ {x}] /\ h[s] = Term(env, x) + h[s \ {x}]
    BY <2>1, s \in SUBSET S DEF SumsTo
  <2> QED BY <2>3, <2>4
<1> HIDE DEF N
<1>4. Cardinality(T) \in N
  BY <1>1, <1>2, <1>3, AllNumbers
<1> QED BY <1>4 DEF N

LEMMA SumUnfolds ==
    ASSUME NEW env, NEW S, IsFiniteSet(S)
    PROVE  /\ Summed(env, {}) = 0
           /\ S # {} => \E x \in S : Summed(env, S) = Term(env, x) + Summed(env, S \ {x})
<1> DEFINE iter(T) == CHOOSE g : SumsTo(env, T, g)
<1>1. \A T : IsFiniteSet(T) => SumsTo(env, T, iter(T))
  BY SumExists
<1>2. ASSUME NEW T PROVE Summed(env, T) = iter(T)[T]
  BY DEF Summed, MapThenSumSet, MapThenFoldSet, SumsTo
<1> HIDE DEF iter
<1>3. Summed(env, {}) = 0
  BY <1>1, <1>2, FS_EmptySet DEF SumsTo
<1>4. ASSUME S # {}
      PROVE  \E x \in S : Summed(env, S) = Term(env, x) + Summed(env, S \ {x})
  <2> DEFINE x == CHOOSE x \in S : TRUE
  <2>1. x \in S /\ IsFiniteSet(S \ {x}) /\ S \ {x} \in SUBSET S
    BY <1>4, FS_RemoveElement
  <2>2. iter(S)[S] = Term(env, x) + iter(S)[S \ {x}]
    BY <1>1, <1>4 DEF SumsTo
  <2>3. iter(S)[S \ {x}] = iter(S \ {x})[S \ {x}]
    BY <1>1, <2>1, SumUnique
  <2> HIDE DEF x
  <2> QED BY <1>2, <2>1, <2>2, <2>3
<1> QED BY <1>3, <1>4

(* Any term may be taken out of a sum.                                     *)
THEOREM SumRemoves ==
    ASSUME NEW env, NEW S, IsFiniteSet(S), \A x \in S : Term(env, x) \in Int
    PROVE  /\ Summed(env, S) \in Int
           /\ \A y \in S : Summed(env, S) = Term(env, y) + Summed(env, S \ {y})
<1> DEFINE Free(T) == /\ Summed(env, T) \in Int
                      /\ \A y \in T : Summed(env, T) = Term(env, y) + Summed(env, T \ {y})
           N == {k \in Nat : \A T \in SUBSET S : Cardinality(T) <= k => Free(T)}
<1>1. \A s \in SUBSET S : IsFiniteSet(s) /\ Cardinality(s) \in Nat /\ (Cardinality(s) = 0 <=> s = {})
  BY FS_Subset, FS_EmptySet, FS_CardinalityType
<1>2. ASSUME NEW T \in SUBSET S, NEW x \in T PROVE Cardinality(T \ {x}) = Cardinality(T) - 1
  BY <1>1, FS_RemoveElement
<1>3. 0 \in N
  <2>1. Free({})
    BY SumUnfolds, FS_EmptySet
  <2> HIDE DEF Free
  <2> QED BY <1>1, <2>1
<1>4. ASSUME NEW k \in Nat, k \in N PROVE k + 1 \in N
  <2> SUFFICES ASSUME NEW T \in SUBSET S, Cardinality(T) <= k + 1, T # {} PROVE Free(T)
    <3>1. Free({})
      BY <1>1, <1>4
    <3> HIDE DEF Free
    <3> QED BY <3>1
  <2>1. \A x \in T : T \ {x} \in SUBSET S /\ Free(T \ {x})
    <3> HIDE DEF Free
    <3> QED BY <1>1, <1>2, <1>4
  <2>2. PICK x \in T : Summed(env, T) = Term(env, x) + Summed(env, T \ {x})
    BY <1>1, SumUnfolds
  <2>3. Summed(env, T) \in Int
    BY <2>1, <2>2
  <2>4. ASSUME NEW y \in T, y # x PROVE Summed(env, T) = Term(env, y) + Summed(env, T \ {y})
    <3>1. (T \ {x}) \ {y} = (T \ {y}) \ {x} /\ y \in T \ {x} /\ x \in T \ {y}
      BY <2>4
    <3> DEFINE U == (T \ {x}) \ {y}
               r == Summed(env, U)
    <3>2. Summed(env, T \ {x}) = Term(env, y) + r /\ Summed(env, T \ {y}) = Term(env, x) + r
      BY <2>1, <3>1
    <3>3. r \in Int
      <4>1. U \in SUBSET S /\ Cardinality(U) <= k
        <5>1. T \ {x} \in SUBSET S /\ U \in SUBSET S
          OBVIOUS
        <5>2. Cardinality(T \ {x}) = Cardinality(T) - 1
          BY <1>2
        <5>3. Cardinality(U) = Cardinality(T \ {x}) - 1
          BY <1>2, <3>1, <5>1
        <5> HIDE DEF U
        <5> QED BY <1>1, <5>1, <5>2, <5>3
      <4> HIDE DEF Free, U
      <4>2. Free(U)
        BY <1>4, <4>1
      <4> QED BY <4>2 DEF Free, U
    <3> QED BY <2>2, <3>2, <3>3
  <2> QED BY <2>2, <2>3, <2>4
<1> HIDE DEF N
<1>5. Cardinality(S) \in N
  BY <1>1, <1>3, <1>4, AllNumbers
<1> QED BY <1>5 DEF N

LEMMA SumAdds ==
    ASSUME NEW env, NEW S, IsFiniteSet(S), NEW y, y \notin S,
           \A x \in S \union {y} : Term(env, x) \in Int
    PROVE  Summed(env, S \union {y}) = Term(env, y) + Summed(env, S)
<1>1. IsFiniteSet(S \union {y}) /\ (S \union {y}) \ {y} = S
  BY FS_AddElement
<1> QED BY <1>1, SumRemoves

(* What starts at 0 and grows by each term is the sum.                     *)
Sums(env, S, F) ==
    /\ F[{}] = 0
    /\ \A T \in SUBSET S : \A x \in S \ T : F[T \union {x}] = Term(env, x) + F[T]

THEOREM SumIs ==
    ASSUME NEW env, NEW S, IsFiniteSet(S), \A x \in S : Term(env, x) \in Int,
           NEW F, Sums(env, S, F)
    PROVE  Summed(env, S) = F[S]
<1>0. /\ F[{}] = 0
      /\ \A T \in SUBSET S : \A x \in S \ T : F[T \union {x}] = Term(env, x) + F[T]
  BY DEF Sums
<1> DEFINE N == {k \in Nat : \A T \in SUBSET S : Cardinality(T) = k => Summed(env, T) = F[T]}
<1>1. \A s \in SUBSET S : IsFiniteSet(s) /\ Cardinality(s) \in Nat /\ (Cardinality(s) = 0 <=> s = {})
  BY FS_Subset, FS_EmptySet, FS_CardinalityType
<1>2. 0 \in N
  BY <1>0, <1>1, SumUnfolds
<1>3. ASSUME NEW k \in Nat, k \in N PROVE k + 1 \in N
  <2> SUFFICES ASSUME NEW T \in SUBSET S, Cardinality(T) = k + 1 PROVE Summed(env, T) = F[T]
    OBVIOUS
  <2>1. PICK x \in T : TRUE
    BY <1>1
  <2>2. Cardinality(T \ {x}) = Cardinality(T) - 1
    BY <1>1, <2>1, FS_RemoveElement
  <2>3. Summed(env, T \ {x}) = F[T \ {x}]
    BY <1>3, <2>2
  <2>4. Summed(env, T) = Term(env, x) + Summed(env, T \ {x})
    BY <1>1, SumRemoves
  <2>5. T \ {x} \in SUBSET S /\ x \in S \ (T \ {x}) /\ (T \ {x}) \union {x} = T
    BY <2>1
  <2>6. F[T] = Term(env, x) + F[T \ {x}]
    BY <1>0, <2>5
  <2> QED BY <2>3, <2>4, <2>6
<1> HIDE DEF N
<1>4. Cardinality(S) \in N
  BY <1>1, <1>2, <1>3, AllNumbers
<1> QED BY <1>4 DEF N

(* Two disjoint sets.                                                      *)
THEOREM SumJoins ==
    ASSUME NEW env, NEW S, IsFiniteSet(S), NEW R, IsFiniteSet(R), S \cap R = {},
           \A x \in S \union R : Term(env, x) \in Int
    PROVE  Summed(env, S \union R) = Summed(env, S) + Summed(env, R)
<1> DEFINE F == [T \in SUBSET S |-> Summed(env, T \union R) - Summed(env, R)]
<1>1. \A T \in SUBSET S : IsFiniteSet(T \union R) /\ Summed(env, T \union R) \in Int
  BY FS_Subset, FS_Union, SumRemoves
<1>2. {} \union R = R /\ {} \in SUBSET S /\ S \in SUBSET S
  OBVIOUS
<1>3. F[{}] = 0
  <2>1. F[{}] = Summed(env, {} \union R) - Summed(env, R)
    BY <1>2
  <2> HIDE DEF F
  <2> QED BY <1>1, <1>2, <2>1
<1>4. ASSUME NEW T \in SUBSET S, NEW x \in S \ T
      PROVE  F[T \union {x}] = Term(env, x) + F[T]
  <2>1. (T \union {x}) \union R = (T \union R) \union {x} /\ x \notin T \union R
    OBVIOUS
  <2>2. Summed(env, (T \union R) \union {x}) = Term(env, x) + Summed(env, T \union R)
    BY <1>1, <2>1, SumAdds
  <2>3. Summed(env, T \union R) \in Int /\ Summed(env, R) \in Int /\ Term(env, x) \in Int
    BY <1>1, <1>2
  <2>4. F[T \union {x}] = Summed(env, (T \union {x}) \union R) - Summed(env, R)
    OBVIOUS
  <2>5. F[T] = Summed(env, T \union R) - Summed(env, R)
    OBVIOUS
  <2> HIDE DEF F
  <2>6. Summed(env, (T \union {x}) \union R) = Term(env, x) + Summed(env, T \union R)
    BY <2>1, <2>2
  <2> QED BY <2>3, <2>4, <2>5, <2>6
<1> HIDE DEF F
<1>5. Summed(env, S) = F[S]
  <2>1. \A x \in S : Term(env, x) \in Int
    OBVIOUS
  <2>2. Sums(env, S, F)
    BY <1>3, <1>4 DEF Sums
  <2> QED BY <2>1, <2>2, SumIs
<1>6. Summed(env, S) \in Int /\ Summed(env, R) \in Int /\ Summed(env, S \union R) \in Int
  BY <1>1, <1>2, SumRemoves
<1> QED BY <1>5, <1>6 DEF F

(* Bounds of the terms bound the sum.                                      *)
THEOREM SumBounded ==
    ASSUME NEW env, NEW S, IsFiniteSet(S), NEW lo \in Int, NEW hi \in Int,
           \A x \in S : Term(env, x) \in lo .. hi
    PROVE  Summed(env, S) \in Cardinality(S) * lo .. Cardinality(S) * hi
<1> DEFINE N == {k \in Nat : \A T \in SUBSET S : Cardinality(T) = k =>
                                Summed(env, T) \in k * lo .. k * hi}
<1>1. \A s \in SUBSET S : IsFiniteSet(s) /\ Cardinality(s) \in Nat /\ (Cardinality(s) = 0 <=> s = {})
  BY FS_Subset, FS_EmptySet, FS_CardinalityType
<1>2. 0 \in N
  BY <1>1, SumUnfolds
<1>3. ASSUME NEW k \in Nat, k \in N PROVE k + 1 \in N
  <2> SUFFICES ASSUME NEW T \in SUBSET S, Cardinality(T) = k + 1
               PROVE  Summed(env, T) \in (k + 1) * lo .. (k + 1) * hi
    OBVIOUS
  <2>1. PICK x \in T : TRUE
    BY <1>1
  <2>2. Cardinality(T \ {x}) = Cardinality(T) - 1
    BY <1>1, <2>1, FS_RemoveElement
  <2>3. Summed(env, T \ {x}) \in k * lo .. k * hi
    BY <1>3, <2>2
  <2>4. Summed(env, T) = Term(env, x) + Summed(env, T \ {x})
    BY <1>1, SumRemoves
  <2>5. Term(env, x) \in lo .. hi
    BY <2>1
  <2>6. (k + 1) * lo = k * lo + lo /\ (k + 1) * hi = k * hi + hi /\ k * lo \in Int /\ k * hi \in Int
    OBVIOUS
  <2> QED BY <2>3, <2>4, <2>5, <2>6
<1> HIDE DEF N
<1>4. Cardinality(S) \in N
  BY <1>1, <1>2, <1>3, AllNumbers
<1> QED BY <1>4 DEF N
=============================================================================
