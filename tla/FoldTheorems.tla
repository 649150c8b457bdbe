---------------------------- MODULE FoldTheorems ----------------------------
(***************************************************************************)
(* Induction over numbers and finite sets, stated with sets in place of    *)
(* predicates, and what follows for operators of the community modules     *)
(* that recurse: FlattenSeq, the folds, whose values exist and are unique, *)
(* and sums: SumFunctionOnSet adds up its values in an order that CHOOSE   *)
(* makes up, and the order does not matter.                                *)
(***************************************************************************)
EXTENDS Integers, SequencesExt, FiniteSetTheorems, WellFoundedInduction, TLAPS

-----------------------------------------------------------------------------
(* Products and quotients.                                                 *)

LEMMA DivRange ==
    ASSUME NEW a \in Nat, NEW b \in Nat \ {0}
    PROVE  a \div b \in Nat /\ (a \div b) * b <= a /\ a < (a \div b + 1) * b
OBVIOUS

LEMMA TimesMonotone ==
    ASSUME NEW a \in Int, NEW b \in Int, a <= b, NEW c \in Nat
    PROVE  a * c <= b * c
OBVIOUS

LEMMA TimesSum ==
    ASSUME NEW a \in Int, NEW b \in Int, NEW c \in Int
    PROVE  (a + b) * c = a * c + b * c
OBVIOUS

LEMMA TimesCancel ==
    ASSUME NEW a \in Int, NEW b \in Int, NEW c \in Nat \ {0}, a * c < b * c
    PROVE  a < b
OBVIOUS

-----------------------------------------------------------------------------
(* Induction.                                                              *)

(* Every nonempty set of numbers has a least one. *)
LEMMA NatLeast ==
    ASSUME NEW T, T \subseteq Nat, T # {}
    PROVE  \E x \in T : \A y \in T : x <= y
<1> DEFINE R == {p \in Nat \X Nat : p[1] < p[2]}
<1>1. IsWellFoundedOn(R, Nat)
    BY NatLessThanWellFounded DEF OpToRel
<1>2. PICK x \in T : \A y \in T : ~(<<y, x>> \in R)
    BY <1>1, WFMin
<1>3. \A y \in T : ~(y < x)
    BY <1>2
<1> QED BY <1>3

(* A set that has 0 and with every number the next one has all of them. *)
LEMMA NatClosure ==
    ASSUME NEW D, 0 \in D, \A n \in Nat : n \in D => n + 1 \in D
    PROVE  Nat \subseteq D
<1> SUFFICES ASSUME Nat \ D # {} PROVE FALSE
    OBVIOUS
<1>1. PICK x \in Nat \ D : \A y \in Nat \ D : x <= y
    BY NatLeast
<1>2. x # 0 /\ x - 1 \in Nat /\ x - 1 \in D
    BY <1>1
<1> QED BY <1>1, <1>2

(* A set has every subset of the finite set S if it has each one whose     *)
(* smaller subsets it has.                                                 *)
LEMMA SubsetClosure ==
    ASSUME NEW S, IsFiniteSet(S), NEW D,
           \A s \in SUBSET S :
               (\A x \in s : \A t \in SUBSET (s \ {x}) : t \in D) => s \in D
    PROVE  SUBSET S \subseteq D
<1> SUFFICES ASSUME (SUBSET S) \ D # {} PROVE FALSE
    OBVIOUS
<1> DEFINE Sizes == {Cardinality(s) : s \in (SUBSET S) \ D}
<1>1. \A s \in SUBSET S : IsFiniteSet(s) /\ Cardinality(s) \in Nat
    BY FS_Subset, FS_CardinalityType
<1>2. PICK n \in Sizes : \A m \in Sizes : n <= m
  <2>1. Sizes \subseteq Nat /\ Sizes # {}
      BY <1>1
  <2> QED BY <2>1, NatLeast
<1>3. PICK s \in (SUBSET S) \ D : Cardinality(s) = n
    OBVIOUS
<1>4. ASSUME NEW x \in s, NEW t \in SUBSET (s \ {x}) PROVE t \in D
  <2>1. t \in SUBSET S /\ t \subseteq s /\ t # s
      OBVIOUS
  <2>2. Cardinality(t) < Cardinality(s)
      BY <1>1, <2>1, FS_Subset
  <2>3. Cardinality(t) \in Nat /\ Cardinality(s) \in Nat /\ Cardinality(s) = n
      BY <1>1, <1>3, <2>1
  <2>4. t \notin D => Cardinality(t) \in Sizes
      BY <2>1
  <2> HIDE DEF Sizes
  <2>5. t \notin D => n <= Cardinality(t)
      BY <1>2, <2>4
  <2> QED BY <2>2, <2>3, <2>5
<1> QED BY <1>3, <1>4

-----------------------------------------------------------------------------
(* Functions on 0..n that are built up from the number before.             *)

InStep(F, G, n) ==
    /\ F[0] = G[0]
    /\ \A i \in 1..n : F[i - 1] = G[i - 1] => F[i] = G[i]

SameUpTo(F, G, n) == \A i \in 0..n : F[i] = G[i]

LEMMA IterateUnique ==
    ASSUME NEW n \in Nat, NEW F, NEW G, InStep(F, G, n)
    PROVE  SameUpTo(F, G, n)
<1> DEFINE D == {i \in Nat : i <= n => F[i] = G[i]}
<1>1. 0 \in D
    BY DEF InStep
<1>2. ASSUME NEW i \in Nat, i \in D PROVE i + 1 \in D
  <2>1. i + 1 <= n /\ F[(i + 1) - 1] = G[(i + 1) - 1] => F[i + 1] = G[i + 1]
      BY DEF InStep
  <2> QED BY <1>2, <2>1
<1> HIDE DEF D
<1>3. Nat \subseteq D
    BY <1>1, <1>2, NatClosure
<1> QED BY <1>3 DEF D, SameUpTo

Iterates(F, n, base, step) ==
    /\ F[0] = base
    /\ \A i \in 1..n : F[i] = step[<<i, F[i - 1]>>]

StaysIn(step, n, X) == \A i \in 1..n, v \in X : step[<<i, v>>] \in X

LEMMA IterateExists ==
    ASSUME NEW X, NEW n \in Nat, NEW base \in X, NEW step, StaysIn(step, n, X)
    PROVE  \E F \in [0..n -> X] : Iterates(F, n, base, step)
<1> DEFINE Solves(F, m) == Iterates(F, m, base, step)
           D == {m \in Nat : m <= n => \E F \in [0..m -> X] : Solves(F, m)}
<1> USE DEF Iterates, StaysIn
<1>1. 0 \in D
  <2>1. [i \in 0..0 |-> base] \in [0..0 -> X] /\ Solves([i \in 0..0 |-> base], 0)
      OBVIOUS
  <2> QED BY <2>1
<1>2. ASSUME NEW m \in Nat, m \in D PROVE m + 1 \in D
  <2> SUFFICES ASSUME m + 1 <= n PROVE \E F \in [0..(m + 1) -> X] : Solves(F, m + 1)
      OBVIOUS
  <2>1. PICK F \in [0..m -> X] : Solves(F, m)
      BY <1>2
  <2> DEFINE G == [i \in 0..(m + 1) |-> IF i = m + 1 THEN step[<<m + 1, F[m]>>] ELSE F[i]]
  <2>2. step[<<m + 1, F[m]>>] \in X
      BY <2>1
  <2>3. G \in [0..(m + 1) -> X]
      BY <2>1, <2>2
  <2>4. \A i \in 0..m : G[i] = F[i]
      OBVIOUS
  <2>5. G[0] = base
      BY <2>1, <2>4
  <2>6. G[m + 1] = step[<<m + 1, F[m]>>]
      OBVIOUS
  <2> HIDE DEF G
  <2>7. ASSUME NEW i \in 1..(m + 1) PROVE G[i] = step[<<i, G[i - 1]>>]
    <3>1. CASE i = m + 1
        BY <2>4, <2>6, <3>1
    <3>2. CASE i # m + 1
        BY <2>1, <2>4, <3>2
    <3> QED BY <3>1, <3>2
  <2> QED BY <2>3, <2>5, <2>7
<1> HIDE DEF D
<1>3. n \in D
    BY <1>1, <1>2, NatClosure
<1> QED BY <1>3 DEF D

-----------------------------------------------------------------------------
(* Sequences.                                                              *)

(* One more element.                                                       *)
LEMMA OneIndexMore ==
    ASSUME NEW T, NEW f \in Seq(T), NEW l
    PROVE  /\ Len(f) \in Nat /\ DOMAIN f = 1..Len(f)
           /\ Len(Append(f, l)) = Len(f) + 1
           /\ DOMAIN Append(f, l) = (1..Len(f)) \cup {Len(f) + 1}
           /\ Append(f, l)[Len(f) + 1] = l
           /\ \A i \in 1..Len(f) : Append(f, l)[i] = f[i]
OBVIOUS

(* The sequences of which FlattenSeq makes one, joined so far. *)
Joins(F, s) ==
    /\ DOMAIN F = 0..Len(s)
    /\ F[0] = <<>>
    /\ \A i \in 1..Len(s) : F[i] = F[i - 1] \o s[i]

LEMMA FlattenJoins ==
    ASSUME NEW T, NEW s \in Seq(Seq(T))
    PROVE  \E F \in [0..Len(s) -> Seq(T)] : Joins(F, s) /\ FlattenSeq(s) = F[Len(s)]
<1> DEFINE n == Len(s)
           step == [p \in (1..n) \X Seq(T) |-> p[2] \o s[p[1]]]
<1>1. n \in Nat /\ \A i \in 1..n : s[i] \in Seq(T)
    OBVIOUS
<1>2. \A i \in 1..n, v \in Seq(T) : step[<<i, v>>] = v \o s[i] /\ step[<<i, v>>] \in Seq(T)
  <2> TAKE i \in 1..n, v \in Seq(T)
  <2>1. v \o s[i] \in Seq(T)
      BY <1>1
  <2>2. step[<<i, v>>] = v \o s[i]
    <3> HIDE DEF n
    <3> QED OBVIOUS
  <2> QED BY <2>1, <2>2
<1>3. <<>> \in Seq(T)
    OBVIOUS
<1> HIDE DEF step
<1>4. PICK F \in [0..n -> Seq(T)] : Iterates(F, n, <<>>, step)
  <2>1. StaysIn(step, n, Seq(T))
      BY <1>2 DEF StaysIn
  <2> HIDE DEF n
  <2> QED BY <1>1, <1>3, <2>1, IterateExists
<1>5. \A i \in 1..n : i - 1 \in 0..n
    BY <1>1
<1>6. Joins(F, s)
    BY <1>2, <1>4, <1>5 DEF Joins, Iterates
<1>7. CASE n = 0
    BY <1>4, <1>6, <1>7 DEF FlattenSeq
<1>8. CASE n # 0
  <2> DEFINE IsFlat(G) == G = [i \in 1..n |-> IF i = 1 THEN s[i] ELSE G[i - 1] \o s[i]]
             P == [i \in 1..n |-> F[i]]
             Q == CHOOSE G : IsFlat(G)
  <2>1. FlattenSeq(s) = Q[n]
      BY <1>8 DEF FlattenSeq
  <2>2. F[1] = s[1]
    <3>1. 1 \in 1..n /\ 1 - 1 = 0
        BY <1>1, <1>8
    <3>2. s[1] \in Seq(T) /\ <<>> \o s[1] = s[1]
        BY <1>1, <3>1
    <3>3. F[1] = F[1 - 1] \o s[1] /\ F[0] = <<>>
        BY <1>6, <3>1 DEF Joins
    <3> HIDE DEF n
    <3> QED BY <3>1, <3>2, <3>3
  <2>3. IsFlat(P)
    <3>1. ASSUME NEW i \in 1..n PROVE P[i] = IF i = 1 THEN s[i] ELSE P[i - 1] \o s[i]
      <4>1. F[i] = F[i - 1] \o s[i]
          BY <1>6 DEF Joins
      <4>2. P[i] = F[i] /\ (i # 1 => P[i - 1] = F[i - 1])
          BY <1>1
      <4> HIDE DEF P
      <4> QED BY <2>2, <4>1, <4>2
    <3> QED BY <3>1
  <2>4. IsFlat(Q)
      BY <2>3
  <2> HIDE DEF P, Q
  <2>5. \A i \in 1..n : Q[i] = IF i = 1 THEN s[i] ELSE Q[i - 1] \o s[i]
      BY <2>4
  <2> DEFINE R == [i \in 0..n |-> IF i = 0 THEN <<>> ELSE Q[i]]
  <2>6. \A i \in 1..n : R[i - 1] = F[i - 1] => R[i] = F[i]
    <3>1. \A i \in 1..n : i \in 0..n /\ i # 0 /\ (i # 1 => i - 1 \in 0..n /\ i - 1 # 0)
        BY <1>1
    <3>2. \A i \in 1..n : R[i] = Q[i] /\ (i # 1 => R[i - 1] = Q[i - 1])
        BY <3>1
    <3> HIDE DEF R
    <3> SUFFICES ASSUME NEW i \in 1..n, R[i - 1] = F[i - 1] PROVE Q[i] = F[i]
        BY <3>2
    <3>3. CASE i = 1
        BY <2>2, <2>5, <3>3
    <3>4. CASE i # 1
      <4>1. Q[i - 1] = F[i - 1]
          BY <3>2, <3>4
      <4> QED BY <1>6, <2>5, <3>4, <4>1 DEF Joins
    <3> QED BY <3>3, <3>4
  <2>7. R[0] = F[0] /\ R[n] = Q[n]
    <3>1. F[0] = <<>>
        BY <1>6 DEF Joins
    <3>2. 0 \in 0..n /\ n \in 0..n
        BY <1>1
    <3> HIDE DEF n
    <3> QED BY <1>8, <3>1, <3>2
  <2> HIDE DEF R
  <2>8. InStep(R, F, n)
      BY <2>6, <2>7 DEF InStep
  <2> HIDE DEF n
  <2>9. n \in 0..n /\ SameUpTo(R, F, n)
      BY <1>1, <2>8, IterateUnique
  <2>10. Q[n] = F[n]
      BY <2>7, <2>9 DEF SameUpTo
  <2> QED BY <1>6, <2>1, <2>10 DEF n
<1> QED BY <1>7, <1>8

LEMMA FlattenEmpty == FlattenSeq(<<>>) = <<>>
BY DEF FlattenSeq

LEMMA FlattenType == ASSUME NEW T, NEW s \in Seq(Seq(T)) PROVE FlattenSeq(s) \in Seq(T)
<1>1. PICK F \in [0..Len(s) -> Seq(T)] : FlattenSeq(s) = F[Len(s)]
    BY FlattenJoins
<1> QED BY <1>1

LEMMA FlattenAppend ==
    ASSUME NEW T, NEW s \in Seq(Seq(T)), NEW x \in Seq(T)
    PROVE  FlattenSeq(Append(s, x)) = FlattenSeq(s) \o x
<1> DEFINE t == Append(s, x)
           n == Len(s)
<1>1. /\ n \in Nat /\ t \in Seq(Seq(T)) /\ Len(t) = n + 1
      /\ t[n + 1] = x /\ \A i \in 1..n : t[i] = s[i]
    OBVIOUS
<1>2. PICK F : Joins(F, s) /\ FlattenSeq(s) = F[n]
    BY FlattenJoins
<1> HIDE DEF t
<1>3. PICK G : Joins(G, t) /\ FlattenSeq(t) = G[n + 1]
    BY <1>1, FlattenJoins
<1>4. SameUpTo(F, G, n)
  <2>1. \A i \in 1..n : F[i - 1] = G[i - 1] => F[i] = G[i]
    <3> TAKE i \in 1..n
    <3>1. F[i] = F[i - 1] \o s[i]
        BY <1>2 DEF Joins
    <3>2. i \in 1..Len(t) /\ t[i] = s[i]
        BY <1>1
    <3>3. G[i] = G[i - 1] \o t[i]
        BY <1>3, <3>2 DEF Joins
    <3> QED BY <3>1, <3>2, <3>3
  <2>2. F[0] = G[0]
      BY <1>2, <1>3 DEF Joins
  <2> HIDE DEF n
  <2> QED BY <1>1, <2>1, <2>2, IterateUnique DEF InStep
<1>5. G[n + 1] = G[n] \o x
  <2>1. n + 1 \in 1..(n + 1) /\ (n + 1) - 1 = n
      BY <1>1
  <2> QED BY <1>1, <1>3, <2>1 DEF Joins
<1>6. F[n] = G[n]
    BY <1>1, <1>4 DEF SameUpTo
<1> QED BY <1>2, <1>3, <1>5, <1>6 DEF t

(* What a sequence joined to another has.                                  *)
LEMMA RangeJoined ==
    ASSUME NEW T, NEW s \in Seq(T), NEW t \in Seq(T)
    PROVE  Range(s \o t) = Range(s) \cup Range(t)
<1> DEFINE u == s \o t
           m == Len(s)
           n == Len(t)
<1>1. /\ m \in Nat /\ n \in Nat /\ DOMAIN s = 1..m /\ DOMAIN t = 1..n /\ DOMAIN u = 1..(m + n)
      /\ \A i \in 1..m : u[i] = s[i]
      /\ \A i \in 1..n : u[m + i] = t[i]
    OBVIOUS
<1>2. \A i \in 1..(m + n) : i \in 1..m \/ (i - m \in 1..n /\ i = m + (i - m))
    BY <1>1
<1>3. /\ \A i \in 1..m : i \in 1..(m + n)
      /\ \A i \in 1..n : m + i \in 1..(m + n)
    BY <1>1
<1> HIDE DEF u, m, n
<1>4. Range(u) \subseteq Range(s) \cup Range(t)
  <2> SUFFICES ASSUME NEW i \in 1..(m + n) PROVE u[i] \in Range(s) \cup Range(t)
      BY <1>1 DEF Range
  <2>1. CASE i \in 1..m
      BY <1>1, <2>1 DEF Range
  <2>2. CASE i - m \in 1..n /\ i = m + (i - m)
    <3>1. u[i] = t[i - m]
        BY <1>1, <2>2
    <3> QED BY <1>1, <2>2, <3>1 DEF Range
  <2> QED BY <1>2, <2>1, <2>2
<1>5. Range(s) \subseteq Range(u)
    BY <1>1, <1>3 DEF Range
<1>6. Range(t) \subseteq Range(u)
    BY <1>1, <1>3 DEF Range
<1> QED BY <1>4, <1>5, <1>6 DEF u

(* What a sequence made of sequences has.                                  *)
RangesUpTo(s, i) == UNION {Range(s[j]) : j \in 1..i}

LEMMA FlattenRange ==
    ASSUME NEW T, NEW s \in Seq(Seq(T))
    PROVE  Range(FlattenSeq(s)) = RangesUpTo(s, Len(s))
<1> DEFINE n == Len(s)
<1>1. n \in Nat /\ \A i \in 1..n : s[i] \in Seq(T)
    OBVIOUS
<1>2. PICK F \in [0..n -> Seq(T)] : Joins(F, s) /\ FlattenSeq(s) = F[n]
    BY FlattenJoins
<1> HIDE DEF n
<1> DEFINE D == {i \in Nat : i <= n => Range(F[i]) = RangesUpTo(s, i)}
<1>3. 0 \in D
  <2>1. F[0] = <<>> /\ Range(<<>>) = {}
      BY <1>2 DEF Joins, Range
  <2>2. RangesUpTo(s, 0) = {}
      BY DEF RangesUpTo
  <2> QED BY <2>1, <2>2
<1>4. ASSUME NEW i \in Nat, i \in D PROVE i + 1 \in D
  <2>1. SUFFICES ASSUME i + 1 <= n PROVE Range(F[i + 1]) = RangesUpTo(s, i + 1)
      OBVIOUS
  <2>2. i + 1 \in 1..n /\ (i + 1) - 1 = i /\ i \in 0..n /\ i <= n
      BY <1>1, <2>1
  <2>3. F[i + 1] = F[i] \o s[i + 1]
    <3>1. F[i + 1] = F[(i + 1) - 1] \o s[i + 1]
        BY <1>2, <2>2 DEF Joins, n
    <3> QED BY <2>2, <3>1
  <2>4. Range(F[i + 1]) = Range(F[i]) \cup Range(s[i + 1])
      BY <1>1, <1>2, <2>2, <2>3, RangeJoined
  <2>5. Range(F[i]) = RangesUpTo(s, i)
      BY <1>4, <2>2
  <2>6. 1..(i + 1) = (1..i) \cup {i + 1}
      OBVIOUS
  <2>7. RangesUpTo(s, i + 1) = RangesUpTo(s, i) \cup Range(s[i + 1])
      BY <2>6 DEF RangesUpTo
  <2> QED BY <2>4, <2>5, <2>7
<1> HIDE DEF D
<1>5. n \in D
    BY <1>1, <1>3, <1>4, NatClosure
<1> QED BY <1>1, <1>2, <1>5 DEF D, n

(* A fold from the left takes the indices in their order.                  *)
LEMMA GreatestIndex ==
    ASSUME NEW i \in Nat, i # 0
    PROVE  Max(1..i) = i /\ (1..i) \ {i} = 1..(i - 1)
<1>1. i \in 1..i /\ \A y \in 1..i : i >= y
    OBVIOUS
<1>2. \A x \in 1..i : (\A y \in 1..i : x >= y) => x = i
    OBVIOUS
<1>3. (1..i) \ {i} = 1..(i - 1)
    OBVIOUS
<1> QED BY <1>1, <1>2, <1>3 DEF Max

-----------------------------------------------------------------------------
(* Folds.                                                                  *)

(* A fold over the subsets of S: the base for the empty set, else what the *)
(* step makes of a chosen element and the fold without it.                 *)
IsFold(iter, S, base, chosen, step) ==
    iter = [s \in SUBSET S |->
               IF s = {} THEN base ELSE step[<<chosen[s], iter[s \ {chosen[s]}]>>]]

IsChoice(chosen, S) == \A s \in SUBSET S : s # {} => chosen[s] \in s

(* There is at most one. *)
LEMMA FoldUnique ==
    ASSUME NEW S, IsFiniteSet(S), NEW base, NEW chosen, IsChoice(chosen, S), NEW step,
           NEW g, NEW h, IsFold(g, S, base, chosen, step), IsFold(h, S, base, chosen, step)
    PROVE  g = h
<1> DEFINE D == {s \in SUBSET S : g[s] = h[s]}
<1>1. ASSUME NEW s \in SUBSET S, \A x \in s : \A t \in SUBSET (s \ {x}) : t \in D
      PROVE  s \in D
  <2>1. CASE s = {}
      BY <2>1 DEF IsFold
  <2>2. CASE s # {}
    <3>1. chosen[s] \in s
        BY <2>2 DEF IsChoice
    <3>2. g[s \ {chosen[s]}] = h[s \ {chosen[s]}]
        BY <1>1, <3>1
    <3> QED BY <2>2, <3>2 DEF IsFold
  <2> QED BY <2>1, <2>2
<1> HIDE DEF D
<1>2. SUBSET S \subseteq D
    BY <1>1, SubsetClosure
<1> QED BY <1>2 DEF IsFold, D

(* There is one, and its values are in X if the step stays in X. *)
LEMMA FoldExists ==
    ASSUME NEW S, IsFiniteSet(S), NEW X, NEW base \in X, NEW chosen, IsChoice(chosen, S),
           NEW step, \A x \in S, v \in X : step[<<x, v>>] \in X
    PROVE  \E iter \in [SUBSET S -> X] : IsFold(iter, S, base, chosen, step)
<1> DEFINE Small(n) == {s \in SUBSET S : Cardinality(s) <= n}
           Solves(g, n) ==
               \A s \in Small(n) :
                   g[s] = IF s = {} THEN base ELSE step[<<chosen[s], g[s \ {chosen[s]}]>>]
           D == {n \in Nat : \E g \in [Small(n) -> X] : Solves(g, n)}
<1>1. \A s \in SUBSET S : IsFiniteSet(s) /\ Cardinality(s) \in Nat
                          /\ Cardinality(s) <= Cardinality(S)
    BY FS_Subset, FS_CardinalityType
<1>2. ASSUME NEW s \in SUBSET S, s # {}
      PROVE  /\ chosen[s] \in s
             /\ s \ {chosen[s]} \in SUBSET S
             /\ Cardinality(s \ {chosen[s]}) = Cardinality(s) - 1
  <2>1. chosen[s] \in s
      BY <1>2 DEF IsChoice
  <2> QED BY <1>1, <2>1, FS_RemoveElement
<1>3. 0 \in D
  <2>1. \A s \in SUBSET S : Cardinality(s) <= 0 => s = {}
      BY <1>1, FS_EmptySet
  <2>2. [s \in Small(0) |-> base] \in [Small(0) -> X]
      OBVIOUS
  <2>3. Solves([s \in Small(0) |-> base], 0)
      BY <2>1
  <2> QED BY <2>2, <2>3
<1>4. ASSUME NEW n \in Nat, n \in D PROVE n + 1 \in D
  <2>1. PICK g \in [Small(n) -> X] : Solves(g, n)
      BY <1>4
  <2> DEFINE h == [s \in Small(n + 1) |->
                      IF s = {} THEN base ELSE step[<<chosen[s], g[s \ {chosen[s]}]>>]]
  <2>2. ASSUME NEW s \in Small(n + 1), s # {}
        PROVE  /\ s \ {chosen[s]} \in Small(n)
               /\ step[<<chosen[s], g[s \ {chosen[s]}]>>] \in X
    <3>1. s \in SUBSET S /\ Cardinality(s) <= n + 1 /\ Cardinality(s) \in Nat
        BY <1>1
    <3>2. s \ {chosen[s]} \in Small(n) /\ chosen[s] \in S
        BY <1>2, <2>2, <3>1
    <3> QED BY <3>2
  <2>3. h \in [Small(n + 1) -> X]
      BY <2>2
  <2>4. ASSUME NEW s \in Small(n) PROVE h[s] = g[s]
    <3>1. s \in Small(n + 1)
        BY <1>1
    <3> QED BY <2>1, <3>1
  <2>5. Solves(h, n + 1)
    <3> SUFFICES ASSUME NEW s \in Small(n + 1)
                 PROVE  h[s] = IF s = {} THEN base ELSE step[<<chosen[s], h[s \ {chosen[s]}]>>]
        OBVIOUS
    <3> QED BY <2>2, <2>4
  <2> HIDE DEF h, Small, Solves
  <2> QED BY <2>3, <2>5
<1>5. PICK g \in [Small(Cardinality(S)) -> X] : Solves(g, Cardinality(S))
  <2>1. Nat \subseteq D
      BY <1>3, <1>4, NatClosure
  <2>2. Cardinality(S) \in Nat
      BY FS_CardinalityType
  <2> QED BY <2>1, <2>2
<1>6. Small(Cardinality(S)) = SUBSET S
    BY <1>1
<1>7. g \in [SUBSET S -> X] /\ IsFold(g, S, base, chosen, step)
    BY <1>5, <1>6 DEF IsFold
<1> QED BY <1>7

-----------------------------------------------------------------------------
(* Sums.                                                                   *)

Chosen(s) == CHOOSE x \in s : TRUE

(* What the recursive function inside SumFunctionOnSet is defined by. *)
IsSum(iter, f, S) ==
    iter = [s \in SUBSET S |->
               IF s = {} THEN 0 ELSE f[Chosen(s)] + iter[s \ {Chosen(s)}]]

NatValued(f, S) == \A x \in S : f[x] \in Nat

(* Such a function whose values are the sums over the subsets of S. *)
Sums(iter, f, S) ==
    /\ iter \in [SUBSET S -> Nat]
    /\ IsSum(iter, f, S)
    /\ \A s \in SUBSET S : SumFunctionOnSet(f, s) = iter[s]

LEMMA SumByIter ==
    ASSUME NEW f, NEW S
    PROVE  SumFunctionOnSet(f, S) = (CHOOSE iter : IsSum(iter, f, S))[S]
BY DEF SumFunctionOnSet, FoldFunctionOnSet, MapThenFoldSet, IsSum, Chosen

(* There is one such function, and one only; its values are numbers. *)
LEMMA IterUnique ==
    ASSUME NEW S, IsFiniteSet(S), NEW f, NEW g, NEW h,
           IsSum(g, f, S), IsSum(h, f, S)
    PROVE  g = h
<1> DEFINE D == {s \in SUBSET S : g[s] = h[s]}
<1>1. ASSUME NEW s \in SUBSET S, \A x \in s : \A t \in SUBSET (s \ {x}) : t \in D
      PROVE  s \in D
  <2>1. CASE s = {}
      BY <2>1 DEF IsSum
  <2>2. CASE s # {}
    <3>1. Chosen(s) \in s
        BY <2>2 DEF Chosen
    <3>2. g[s \ {Chosen(s)}] = h[s \ {Chosen(s)}]
        BY <1>1, <3>1
    <3> QED BY <2>2, <3>2 DEF IsSum
  <2> QED BY <2>1, <2>2
<1> HIDE DEF D
<1>2. SUBSET S \subseteq D
    BY <1>1, SubsetClosure
<1> QED BY <1>2 DEF IsSum, D

LEMMA IterExists ==
    ASSUME NEW S, IsFiniteSet(S), NEW f, NatValued(f, S)
    PROVE  \E iter \in [SUBSET S -> Nat] : IsSum(iter, f, S)
<1> DEFINE chosen == [s \in SUBSET S |-> Chosen(s)]
           step == [p \in S \X Nat |-> f[p[1]] + p[2]]
<1>1. IsChoice(chosen, S)
    BY DEF IsChoice, Chosen
<1>2. \A x \in S, v \in Nat : step[<<x, v>>] = f[x] + v /\ step[<<x, v>>] \in Nat
    BY DEF NatValued
<1> HIDE DEF step
<1>3. PICK iter \in [SUBSET S -> Nat] : IsFold(iter, S, 0, chosen, step)
  <2> HIDE DEF chosen
  <2> QED BY <1>1, <1>2, FoldExists
<1>4. ASSUME NEW s \in SUBSET S
      PROVE  iter[s] = IF s = {} THEN 0 ELSE f[Chosen(s)] + iter[s \ {Chosen(s)}]
  <2>1. iter[s] = IF s = {} THEN 0 ELSE step[<<chosen[s], iter[s \ {chosen[s]}]>>]
      BY <1>3 DEF IsFold
  <2>2. s # {} => Chosen(s) \in S
      BY <1>1 DEF IsChoice
  <2>3. chosen[s] = Chosen(s)
      OBVIOUS
  <2> HIDE DEF chosen
  <2> QED BY <1>2, <2>1, <2>2, <2>3
<1>5. IsSum(iter, f, S)
    BY <1>4 DEF IsSum
<1> QED BY <1>5

(* The function that SumFunctionOnSet chooses for a set gives the sums     *)
(* over its subsets as well.                                               *)
LEMMA IterGivesSums ==
    ASSUME NEW S, IsFiniteSet(S), NEW f, NatValued(f, S)
    PROVE  \E iter : Sums(iter, f, S)
<1>1. PICK iter \in [SUBSET S -> Nat] : IsSum(iter, f, S)
    BY IterExists
<1>2. ASSUME NEW s \in SUBSET S PROVE SumFunctionOnSet(f, s) = iter[s]
  <2> DEFINE part == [t \in SUBSET s |-> iter[t]]
             chosen == CHOOSE it : IsSum(it, f, s)
  <2>1. IsFiniteSet(s)
      BY FS_Subset
  <2>2. IsSum(part, f, s)
    <3>1. ASSUME NEW t \in SUBSET s
          PROVE  part[t] = IF t = {} THEN 0 ELSE f[Chosen(t)] + part[t \ {Chosen(t)}]
        BY <1>1 DEF IsSum
    <3> QED BY <3>1 DEF IsSum
  <2>3. IsSum(chosen, f, s)
      BY <2>2
  <2>4. chosen = part
      BY <2>1, <2>2, <2>3, IterUnique
  <2> QED BY <2>4, SumByIter
<1> QED BY <1>1, <1>2 DEF Sums

(* Any element may be added last. *)
LEMMA SumRemove ==
    ASSUME NEW S, IsFiniteSet(S), NEW f, NatValued(f, S), NEW x \in S
    PROVE  SumFunctionOnSet(f, S) = f[x] + SumFunctionOnSet(f, S \ {x})
<1>1. PICK iter : Sums(iter, f, S)
    BY IterGivesSums
<1> DEFINE D == {s \in SUBSET S : \A y \in s : iter[s] = f[y] + iter[s \ {y}]}
<1>2. ASSUME NEW s \in SUBSET S, \A z \in s : \A t \in SUBSET (s \ {z}) : t \in D
      PROVE  s \in D
  <2> SUFFICES ASSUME NEW y \in s PROVE iter[s] = f[y] + iter[s \ {y}]
      OBVIOUS
  <2> DEFINE c == Chosen(s)
  <2>1. c \in s /\ iter[s] = f[c] + iter[s \ {c}] /\ iter \in [SUBSET S -> Nat]
      BY <1>1 DEF Sums, IsSum, Chosen
  <2>2. CASE y = c
      BY <2>1, <2>2
  <2>3. CASE y # c
    <3>1. s \ {c} \in D /\ s \ {y} \in D
        BY <1>2, <2>1
    <3>2. iter[s \ {c}] = f[y] + iter[(s \ {c}) \ {y}]
        BY <2>3, <3>1
    <3>3. iter[s \ {y}] = f[c] + iter[(s \ {y}) \ {c}]
        BY <2>1, <2>3, <3>1
    <3>4. (s \ {c}) \ {y} = (s \ {y}) \ {c}
        OBVIOUS
    <3>5. f[c] \in Nat /\ f[y] \in Nat /\ iter[(s \ {c}) \ {y}] \in Nat
        BY <2>1 DEF NatValued
    <3>6. iter[s \ {y}] = f[c] + iter[(s \ {c}) \ {y}]
        BY <3>3, <3>4
    <3>7. \A a, b, r \in Nat : a + (b + r) = b + (a + r)
        OBVIOUS
    <3> HIDE DEF c
    <3> QED BY <2>1, <3>2, <3>5, <3>6, <3>7
  <2> QED BY <2>2, <2>3
<1> HIDE DEF D
<1>3. S \in D
    BY <1>2, SubsetClosure
<1> QED BY <1>1, <1>3 DEF D, Sums

(* What is needed of sums: nothing adds up to 0, a new index adds its      *)
(* value, and all sums are numbers.                                        *)
LEMMA SumEmpty == ASSUME NEW f PROVE SumFunctionOnSet(f, {}) = 0
<1>1. IsFiniteSet({}) /\ NatValued(f, {})
    BY FS_EmptySet DEF NatValued
<1>2. PICK iter : Sums(iter, f, {})
    BY <1>1, IterGivesSums
<1> QED BY <1>2 DEF Sums, IsSum

LEMMA SumType ==
    ASSUME NEW S, IsFiniteSet(S), NEW f, NatValued(f, S)
    PROVE  SumFunctionOnSet(f, S) \in Nat
<1>1. PICK iter : Sums(iter, f, S)
    BY IterGivesSums
<1> QED BY <1>1 DEF Sums

LEMMA SumInsert ==
    ASSUME NEW S, IsFiniteSet(S), NEW x, x \notin S, NEW f, NatValued(f, S \cup {x})
    PROVE  SumFunctionOnSet(f, S \cup {x}) = SumFunctionOnSet(f, S) + f[x]
<1>1. IsFiniteSet(S \cup {x}) /\ x \in S \cup {x} /\ (S \cup {x}) \ {x} = S
    BY FS_AddElement
<1>2. SumFunctionOnSet(f, S) \in Nat /\ f[x] \in Nat
    BY SumType DEF NatValued
<1> QED BY <1>1, <1>2, SumRemove

(* The sum depends on the values at the indices only. *)
LEMMA SumSame ==
    ASSUME NEW S, IsFiniteSet(S), NEW f, NEW g, NatValued(f, S),
           \A x \in S : f[x] = g[x]
    PROVE  SumFunctionOnSet(f, S) = SumFunctionOnSet(g, S)
<1>1. NatValued(g, S)
    BY DEF NatValued
<1>2. PICK it : Sums(it, f, S)
    BY IterGivesSums
<1>3. PICK jt : Sums(jt, g, S)
    BY <1>1, IterGivesSums
<1>4. IsSum(jt, f, S)
  <2>1. \A s \in SUBSET S : s # {} => Chosen(s) \in S
      BY DEF Chosen
  <2> QED BY <1>3, <2>1 DEF IsSum, Sums
<1>5. it = jt
    BY <1>2, <1>4, IterUnique DEF Sums
<1> QED BY <1>2, <1>3, <1>5 DEF Sums

(* A sum of values that do not exceed b.                                   *)
LEMMA SumBound ==
    ASSUME NEW S, IsFiniteSet(S), NEW f, NatValued(f, S), NEW b \in Nat,
           \A x \in S : f[x] <= b
    PROVE  SumFunctionOnSet(f, S) <= Cardinality(S) * b
<1> DEFINE D == {s \in SUBSET S : SumFunctionOnSet(f, s) <= Cardinality(s) * b}
<1>1. ASSUME NEW s \in SUBSET S, \A x \in s : \A t \in SUBSET (s \ {x}) : t \in D
      PROVE  s \in D
  <2>1. IsFiniteSet(s) /\ Cardinality(s) \in Nat /\ NatValued(f, s)
      BY FS_Subset, FS_CardinalityType DEF NatValued
  <2>2. CASE s = {}
    <3>1. Cardinality(s) = 0 /\ SumFunctionOnSet(f, s) = 0
        BY <2>2, FS_EmptySet, SumEmpty
    <3> QED BY <3>1
  <2>3. CASE s # {}
    <3>1. PICK x \in s : TRUE
        BY <2>3
    <3> DEFINE t == s \ {x}
    <3>2. IsFiniteSet(t) /\ Cardinality(t) = Cardinality(s) - 1 /\ Cardinality(t) \in Nat
        BY <2>1, FS_RemoveElement, FS_CardinalityType
    <3>3. NatValued(f, t)
        BY <2>1 DEF NatValued
    <3>4. SumFunctionOnSet(f, s) = f[x] + SumFunctionOnSet(f, t)
        BY <2>1, SumRemove
    <3>5. SumFunctionOnSet(f, t) \in Nat
        BY <3>2, <3>3, SumType
    <3>6. SumFunctionOnSet(f, t) <= Cardinality(t) * b
        BY <1>1
    <3>7. f[x] \in Nat /\ f[x] <= b
        BY DEF NatValued
    <3>8. Cardinality(s) * b = Cardinality(t) * b + 1 * b
        BY <2>1, <3>2, TimesSum
    <3>9. Cardinality(t) * b \in Nat
        BY <3>2
    <3> HIDE DEF t
    <3> QED BY <3>4, <3>5, <3>6, <3>7, <3>8, <3>9
  <2> QED BY <2>2, <2>3
<1> HIDE DEF D
<1>2. S \in D
    BY <1>1, SubsetClosure
<1> QED BY <1>2 DEF D

(* A sum whose values are bounded by as many of another sum.               *)
LEMMA SumInjected ==
    ASSUME NEW S, IsFiniteSet(S), NEW f, NatValued(f, S),
           NEW I, IsFiniteSet(I), NEW g, NatValued(g, I),
           NEW h, \A x \in S : h[x] \in I /\ f[x] <= g[h[x]],
           \A x, y \in S : h[x] = h[y] => x = y
    PROVE  SumFunctionOnSet(f, S) <= SumFunctionOnSet(g, I)
<1> DEFINE Takes(s, J) == \A x \in s : h[x] \in J
           D == {s \in SUBSET S : \A J \in SUBSET I :
                    Takes(s, J) => SumFunctionOnSet(f, s) <= SumFunctionOnSet(g, J)}
<1>1. \A J \in SUBSET I : IsFiniteSet(J) /\ NatValued(g, J) /\ SumFunctionOnSet(g, J) \in Nat
    BY FS_Subset, SumType DEF NatValued
<1>2. \A s \in SUBSET S : IsFiniteSet(s) /\ NatValued(f, s) /\ SumFunctionOnSet(f, s) \in Nat
    BY FS_Subset, SumType DEF NatValued
<1>3. ASSUME NEW s \in SUBSET S, \A x \in s : \A t \in SUBSET (s \ {x}) : t \in D
      PROVE  s \in D
  <2> SUFFICES ASSUME NEW J \in SUBSET I, Takes(s, J)
               PROVE  SumFunctionOnSet(f, s) <= SumFunctionOnSet(g, J)
      OBVIOUS
  <2>1. CASE s = {}
    <3>1. SumFunctionOnSet(f, s) = 0
        BY <2>1, SumEmpty
    <3> QED BY <1>1, <3>1
  <2>2. CASE s # {}
    <3>1. PICK x \in s : TRUE
        BY <2>2
    <3> DEFINE t == s \ {x}
               y == h[x]
               K == J \ {y}
    <3>2. y \in J /\ f[x] <= g[y] /\ x \in S /\ K \in SUBSET I /\ t \in SUBSET S
        BY <3>1
    <3>3. t \in D /\ Takes(t, K)
        BY <1>3, <3>1
    <3>4. SumFunctionOnSet(f, t) <= SumFunctionOnSet(g, K)
        BY <3>2, <3>3
    <3>5. SumFunctionOnSet(f, s) = f[x] + SumFunctionOnSet(f, t)
        BY <1>2, <3>1, SumRemove
    <3>6. SumFunctionOnSet(g, J) = g[y] + SumFunctionOnSet(g, K)
        BY <1>1, <3>2, SumRemove
    <3>7. f[x] \in Nat /\ g[y] \in Nat
        BY <3>2 DEF NatValued
    <3>8. SumFunctionOnSet(f, t) \in Nat /\ SumFunctionOnSet(g, K) \in Nat
        BY <1>1, <1>2, <3>2
    <3> HIDE DEF t, y, K
    <3> QED BY <3>2, <3>4, <3>5, <3>6, <3>7, <3>8
  <2> QED BY <2>1, <2>2
<1> HIDE DEF D
<1>4. S \in D
    BY <1>3, SubsetClosure
<1> QED BY <1>4 DEF D

(* Sums of the same values, by other names.                                *)
LEMMA SumBijected ==
    ASSUME NEW S, IsFiniteSet(S), NEW f, NatValued(f, S),
           NEW I, IsFiniteSet(I), NEW g, NatValued(g, I),
           NEW b \in Bijection(S, I), \A x \in S : f[x] = g[b[x]]
    PROVE  SumFunctionOnSet(f, S) = SumFunctionOnSet(g, I)
<1>1. /\ \A x \in S : b[x] \in I /\ f[x] = g[b[x]] /\ f[x] \in Nat
      /\ \A x, y \in S : b[x] = b[y] => x = y
      /\ \A k \in I : \E x \in S : b[x] = k
    BY DEF Bijection, Injection, Surjection, IsInjective, NatValued
<1>2. SumFunctionOnSet(f, S) <= SumFunctionOnSet(g, I)
  <2>1. \A x \in S : b[x] \in I /\ f[x] <= g[b[x]]
      BY <1>1
  <2> QED BY <1>1, <2>1, SumInjected
<1> DEFINE h == [k \in I |-> CHOOSE x \in S : b[x] = k]
<1>3. \A k \in I : h[k] \in S /\ b[h[k]] = k
    BY <1>1
<1> HIDE DEF h
<1>4. SumFunctionOnSet(g, I) <= SumFunctionOnSet(f, S)
  <2>1. \A k \in I : h[k] \in S /\ g[k] <= f[h[k]]
    <3> TAKE k \in I
    <3>1. h[k] \in S /\ f[h[k]] = g[k] /\ f[h[k]] \in Nat
        BY <1>1, <1>3
    <3> QED BY <3>1
  <2>2. \A k, l \in I : h[k] = h[l] => k = l
      BY <1>3
  <2> QED BY <2>1, <2>2, SumInjected
<1>5. SumFunctionOnSet(f, S) \in Nat /\ SumFunctionOnSet(g, I) \in Nat
    BY SumType
<1> QED BY <1>2, <1>4, <1>5
=============================================================================
