--------------------------- MODULE ReplicaProofs ---------------------------
(***************************************************************************)
(* Proofs about Replica, for any files, versions, workers and scenarios:   *)
(* any number of runs, in any mode, with any failures, kills, lost writes  *)
(* and edits between them or meanwhile.  First about the plan: whatever    *)
(* the trees and the size of batches, every copy and deletion that the     *)
(* scan decides on is in one task, once, and the tasks have nothing else.  *)
(***************************************************************************)
EXTENDS Replica, FoldTheorems, SequenceTheorems

-----------------------------------------------------------------------------
(* Sorted sets.                                                            *)

Increasing(s) == \A i, j \in DOMAIN s : i < j => s[i] < s[j]

(* A list of the members of S, each once. *)
Lists(s, S) ==
    /\ s \in Seq(S)
    /\ \A i, j \in 1..Len(s) : s[i] = s[j] => i = j
    /\ \A x \in S : \E i \in 1..Len(s) : s[i] = x

(* A finite set of numbers can be sorted: the least one, then the others.  *)
LEMMA CanSort ==
    ASSUME NEW S, IsFiniteSet(S), S \subseteq Nat
    PROVE  \E s \in [1..Cardinality(S) -> S] : Increasing(s)
<1> DEFINE Sortable(T) == \E s \in [1..Cardinality(T) -> T] : Increasing(s)
           D == {T \in SUBSET S : Sortable(T)}
<1>1. ASSUME NEW T \in SUBSET S, \A x \in T : \A t \in SUBSET (T \ {x}) : t \in D
      PROVE  T \in D
  <2>1. IsFiniteSet(T) /\ Cardinality(T) \in Nat
      BY FS_Subset, FS_CardinalityType
  <2>2. CASE T = {}
    <3> DEFINE e == [i \in 1..0 |-> 0]
    <3>1. Cardinality(T) = 0
        BY <2>2, FS_EmptySet
    <3>2. e \in [1..Cardinality(T) -> T] /\ Increasing(e)
        BY <3>1 DEF Increasing
    <3> QED BY <3>2
  <2>3. CASE T # {}
    <3> DEFINE n == Cardinality(T)
    <3>1. PICK m \in T : \A y \in T : m <= y
        BY <2>3, NatLeast
    <3>2. Sortable(T \ {m})
        BY <1>1
    <3>3. Cardinality(T \ {m}) = n - 1 /\ n \in Nat
        BY <2>1, FS_RemoveElement
    <3>4. PICK r \in [1..(n - 1) -> T \ {m}] : Increasing(r)
        BY <3>2, <3>3
    <3> DEFINE s == [i \in 1..n |-> IF i = 1 THEN m ELSE r[i - 1]]
    <3>5. ASSUME NEW i \in 1..n, i # 1
          PROVE  i - 1 \in 1..(n - 1) /\ s[i] = r[i - 1] /\ s[i] \in T /\ m < s[i]
      <4>1. i - 1 \in 1..(n - 1)
          BY <3>3, <3>5
      <4>2. s[i] = r[i - 1] /\ s[i] \in T \ {m}
          BY <3>4, <3>5, <4>1
      <4>3. m \in Nat /\ s[i] \in Nat /\ m <= s[i] /\ m # s[i]
          BY <3>1, <4>2
      <4> QED BY <4>1, <4>2, <4>3
    <3>6. s \in [1..n -> T]
        BY <3>5
    <3>7. ASSUME NEW i \in 1..n, NEW j \in 1..n, i < j PROVE s[i] < s[j]
      <4>1. j # 1
          BY <3>3, <3>7
      <4>2. CASE i = 1
          BY <3>5, <4>1, <4>2
      <4>3. CASE i # 1
        <5>1. s[i] = r[i - 1] /\ s[j] = r[j - 1] /\ i - 1 \in 1..(n - 1) /\ j - 1 \in 1..(n - 1)
            BY <3>5, <4>1, <4>3
        <5>2. i - 1 < j - 1
            BY <3>3, <3>7
        <5> QED BY <3>4, <5>1, <5>2 DEF Increasing
      <4> QED BY <4>2, <4>3
    <3>8. Increasing(s)
        BY <3>7 DEF Increasing
    <3> QED BY <3>6, <3>8
  <2> QED BY <2>2, <2>3
<1> HIDE DEF D
<1>2. S \in D
    BY <1>1, SubsetClosure
<1> QED BY <1>2 DEF D

LEMMA SortedLists ==
    ASSUME NEW S, IsFiniteSet(S), S \subseteq Nat
    PROVE  Lists(Sorted(S), S) /\ Len(Sorted(S)) = Cardinality(S)
<1> DEFINE s == Sorted(S)
           n == Cardinality(S)
<1>1. n \in Nat /\ \A x \in S : x \in Int
    BY FS_CardinalityType
<1>2. s \in [1..n -> S] /\ Increasing(s)
  <2>1. PICK r \in [1..n -> S] : Increasing(r)
      BY CanSort
  <2> QED BY <2>1 DEF Sorted, Increasing
<1> HIDE DEF s
<1>3. s \in Seq(S) /\ Len(s) = n
    BY <1>1, <1>2
<1>4. ASSUME NEW i \in 1..n, NEW j \in 1..n, s[i] = s[j] PROVE i = j
  <2>1. i \in Nat /\ j \in Nat /\ s[i] \in S /\ s[j] \in S
      BY <1>1, <1>2
  <2>2. s[i] \in Int /\ s[j] \in Int
      BY <1>1, <2>1
  <2>3. i < j => s[i] < s[j]
      BY <1>2 DEF Increasing
  <2>4. j < i => s[j] < s[i]
      BY <1>2 DEF Increasing
  <2> QED BY <1>4, <2>1, <2>2, <2>3, <2>4
<1>5. s \in Surjection(1..n, S)
  <2>1. s \in Injection(1..n, S)
      BY <1>2, <1>4 DEF Injection, IsInjective
  <2>2. Cardinality(1..n) = n
      BY <1>1, FS_Interval
  <2> QED BY <2>1, <2>2, FS_Injection
<1> QED BY <1>3, <1>4, <1>5 DEF Lists, Surjection, s

LEMMA ListsConcat ==
    ASSUME NEW S, NEW T, S \cap T = {}, NEW s, NEW t, Lists(s, S), Lists(t, T)
    PROVE  Lists(s \o t, S \cup T)
<1> DEFINE n == Len(s)
           m == Len(t)
           c == s \o t
<1>1. s \in Seq(S \cup T) /\ t \in Seq(S \cup T) /\ n \in Nat /\ m \in Nat
    BY SeqMonotonic, LenProperties DEF Lists
<1>2. /\ c \in Seq(S \cup T) /\ Len(c) = n + m
      /\ \A i \in 1..(n + m) : c[i] = IF i <= n THEN s[i] ELSE t[i - n]
    BY <1>1, ConcatProperties
<1>3. ASSUME NEW i \in 1..(n + m)
      PROVE  IF i <= n THEN i \in 1..n /\ c[i] = s[i] /\ c[i] \in S
             ELSE i - n \in 1..m /\ c[i] = t[i - n] /\ c[i] \in T
  <2>1. CASE i <= n
      BY <1>1, <1>2, <2>1, ElementOfSeq DEF Lists
  <2>2. CASE ~(i <= n)
      BY <1>1, <1>2, <2>2, ElementOfSeq DEF Lists
  <2> QED BY <2>1, <2>2
<1>4. ASSUME NEW i \in 1..(n + m), NEW j \in 1..(n + m), c[i] = c[j] PROVE i = j
  <2>1. CASE i <= n
      BY <1>3, <1>4, <2>1 DEF Lists
  <2>2. CASE ~(i <= n)
    <3>1. ~(j <= n)
        BY <1>3, <1>4, <2>2
    <3>2. i - n = j - n
        BY <1>3, <1>4, <2>2, <3>1 DEF Lists
    <3> QED BY <1>1, <3>2
  <2> QED BY <2>1, <2>2
<1>5. ASSUME NEW x \in S \cup T PROVE \E i \in 1..(n + m) : c[i] = x
  <2>1. CASE x \in S
    <3>1. PICK i \in 1..n : s[i] = x
        BY <2>1 DEF Lists
    <3>2. i \in 1..(n + m) /\ i <= n
        BY <1>1
    <3> QED BY <1>2, <3>1, <3>2
  <2>2. CASE x \in T
    <3>1. PICK i \in 1..m : t[i] = x
        BY <2>2 DEF Lists
    <3>2. i + n \in 1..(n + m) /\ ~(i + n <= n) /\ (i + n) - n = i
        BY <1>1
    <3> QED BY <1>2, <3>1, <3>2
  <2> QED BY <2>1, <2>2
<1> QED BY <1>2, <1>4, <1>5 DEF Lists

-----------------------------------------------------------------------------
(* Tasks and jobs.                                                         *)

Blocks == Seq(Versions)

Ops == [kind : {"copy", "batch", "delete"}, from : Sides, keys : Seq(Keys),
        members : Seq(Blocks)]

IsOp(op) ==
    /\ op \in Ops
    /\ Len(op.keys) >= 1 /\ Len(op.members) <= Len(op.keys)
    /\ op.kind # "batch" => Len(op.keys) = 1
    /\ op.kind = "delete" => op.from = "src"

(* The copies and deletions of a run that finds these trees, each known by *)
(* the side of the source and the key; a deletion belongs to the source    *)
(* that lacks the file.                                                    *)
JobsOf(tree) ==
    LET s == SnapshotOf(tree["src"])
        d == SnapshotOf(tree["dst"])
    IN  {"src"} \X (Forward(s, d) \cup IF Mode = "mirror" THEN Extras(s, d) ELSE {})
        \cup {"dst"} \X IF Mode = "sync" THEN Extras(s, d) \cup Newer(s, d) ELSE {}

(* The jobs of a task, which has each of them once. *)
JobsIn(op)   == {<<op.from, op.keys[i]>> : i \in 1..Len(op.keys)}
KeysOnce(op) == \A i, j \in 1..Len(op.keys) : op.keys[i] = op.keys[j] => i = j

Apart(op, other) == JobsIn(op) \cap JobsIn(other) = {}

(* Tasks that nobody has begun, which are deletions or not, for these jobs *)
(* and no others.                                                          *)
FreshOp(op, deletes, jobs) ==
    /\ IsOp(op) /\ KeysOnce(op) /\ op.members = <<>>
    /\ JobsIn(op) \subseteq jobs
    /\ op.kind = "delete" <=> deletes

Covers(tasks, jobs) ==
    /\ tasks \in Seq(Ops)
    /\ \A i, j \in 1..Len(tasks) : i # j => Apart(tasks[i], tasks[j])
    /\ \A job \in jobs : \E i \in 1..Len(tasks) : job \in JobsIn(tasks[i])

TasksFor(tasks, deletes, jobs) ==
    /\ Covers(tasks, jobs)
    /\ \A i \in 1..Len(tasks) : FreshOp(tasks[i], deletes, jobs)

LEMMA ThisScenario ==
    ASSUME scenario \in DOMAIN Scenarios
    PROVE  /\ Mode \in {"update", "mirror", "sync"} /\ This.batch \in Nat
           /\ This.edits \subseteq Sides \X Versions
           /\ \A tree \in This.trees : IsTrees(tree, 10)
BY ReplicaAssumption DEF ReplicaAssumption, Mode, This, Sides

(* One task for each key. *)
LEMMA SingleTasks ==
    ASSUME NEW S, S \subseteq Keys, NEW s, Lists(s, S), NEW kind \in {"copy", "delete"},
           NEW from \in Sides, kind = "delete" => from = "src"
    PROVE  TasksFor([i \in DOMAIN s |-> Op(kind, from, <<s[i]>>)], kind = "delete", {from} \X S)
<1> DEFINE n == Len(s)
           T == [i \in DOMAIN s |-> Op(kind, from, <<s[i]>>)]
<1>1. n \in Nat /\ DOMAIN s = 1..n /\ \A i \in 1..n : s[i] \in S
    BY LenProperties, ElementOfSeq DEF Lists
<1>2. ASSUME NEW i \in 1..n
      PROVE  /\ T[i] \in Ops /\ FreshOp(T[i], kind = "delete", {from} \X S)
             /\ JobsIn(T[i]) = {<<from, s[i]>>}
  <2> DEFINE op == [kind |-> kind, from |-> from, keys |-> <<s[i]>>, members |-> <<>>]
  <2>1. T[i] = op
      BY <1>1 DEF Op
  <2>2. <<s[i]>> \in Seq(Keys) /\ Len(<<s[i]>>) = 1 /\ <<s[i]>>[1] = s[i] /\ s[i] \in S
      BY <1>1
  <2>3. <<>> \in Seq(Blocks) /\ Len(<<>>) = 0
      BY EmptySeq
  <2>4. op \in Ops /\ IsOp(op)
      BY <2>2, <2>3 DEF Ops, IsOp
  <2>5. JobsIn(op) = {<<from, s[i]>>} /\ KeysOnce(op)
      BY <2>2 DEF JobsIn, KeysOnce
  <2> QED BY <2>1, <2>2, <2>4, <2>5 DEF FreshOp
<1>3. T \in Seq(Ops) /\ Len(T) = n
    BY <1>1, <1>2
<1> HIDE DEF T
<1>4. ASSUME NEW i \in 1..n, NEW j \in 1..n, i # j PROVE Apart(T[i], T[j])
  <2>1. s[i] # s[j]
      BY <1>4 DEF Lists
  <2> QED BY <1>2, <2>1 DEF Apart
<1>5. ASSUME NEW job \in {from} \X S PROVE \E i \in 1..n : job \in JobsIn(T[i])
  <2>1. PICK x \in S : job = <<from, x>>
      OBVIOUS
  <2>2. PICK i \in 1..n : s[i] = x
      BY DEF Lists
  <2> QED BY <1>2, <2>1, <2>2
<1>6. TasksFor(T, kind = "delete", {from} \X S)
    BY <1>2, <1>3, <1>4, <1>5 DEF TasksFor, Covers
<1> QED BY <1>6 DEF T

(* The keys are cut into batches: the i-th one has those from lo(i) to     *)
(* hi(i).                                                                  *)
LEMMA BatchTasks ==
    ASSUME NEW S, S \subseteq Keys, NEW s, Lists(s, S), NEW from \in Sides,
           NEW b \in Nat \ {0}
    PROVE  LET T == [i \in 1..((Len(s) + b - 1) \div b) |->
                        Op("batch", from, SubSeq(s, b * (i - 1) + 1,
                                                 IF b * i < Len(s) THEN b * i ELSE Len(s)))]
           IN  TasksFor(T, FALSE, {from} \X S)
<1> DEFINE n == Len(s)
           q == (n + b - 1) \div b
           lo(i) == b * (i - 1) + 1
           hi(i) == IF b * i < n THEN b * i ELSE n
           T == [i \in 1..q |-> Op("batch", from, SubSeq(s, lo(i), hi(i)))]
<1>1. n \in Nat /\ \A i \in 1..n : s[i] \in S
    BY LenProperties, ElementOfSeq DEF Lists
<1>2. q \in Nat /\ q * b <= n + b - 1 /\ n + b - 1 < (q + 1) * b
    BY <1>1, DivRange
<1> HIDE DEF n, q
<1>3. ASSUME NEW i \in 1..q
      PROVE  /\ lo(i) \in Nat /\ hi(i) \in Nat /\ 1 <= lo(i) /\ lo(i) <= hi(i) /\ hi(i) <= n
             /\ hi(i) <= b * i /\ b * i \in Nat /\ b * (i - 1) \in Nat
  <2>1. i * b <= q * b
      BY <1>2, TimesMonotone
  <2>2. b * i = i * b /\ b * (i - 1) = i * b - b /\ i * b \in Nat /\ q * b \in Nat
      BY <1>2
  <2>3. i * b - b \in Nat
      BY <2>2, i - 1 \in Nat
  <2> QED BY <1>1, <1>2, <2>1, <2>2, <2>3
<1>4. ASSUME NEW i \in 1..q
      PROVE  LET keys == SubSeq(s, lo(i), hi(i))
             IN  /\ keys \in Seq(S) /\ Len(keys) = hi(i) - lo(i) + 1
                 /\ \A j \in 1..Len(keys) :
                       keys[j] = s[lo(i) + j - 1] /\ lo(i) + j - 1 \in lo(i)..hi(i)
  <2>1. lo(i) \in Int /\ hi(i) \in Int /\ \A j \in lo(i)..hi(i) : s[j] \in S
      BY <1>1, <1>3
  <2>2. 1 <= lo(i) /\ lo(i) <= hi(i) /\ hi(i) <= n
      BY <1>3
  <2> HIDE DEF lo, hi
  <2> QED BY <2>1, <2>2, SubSeqProperties
<1>5. ASSUME NEW i \in 1..q
      PROVE  /\ T[i] \in Ops /\ FreshOp(T[i], FALSE, {from} \X S)
             /\ JobsIn(T[i]) = {<<from, s[j]>> : j \in lo(i)..hi(i)}
  <2> DEFINE keys == SubSeq(s, lo(i), hi(i))
             op == [kind |-> "batch", from |-> from, keys |-> keys, members |-> <<>>]
  <2>1. T[i] = op
      BY DEF Op
  <2>2. /\ keys \in Seq(S) /\ Len(keys) = hi(i) - lo(i) + 1
        /\ \A j \in 1..Len(keys) :
              keys[j] = s[lo(i) + j - 1] /\ lo(i) + j - 1 \in lo(i)..hi(i)
      BY <1>4
  <2>3. /\ lo(i) \in Nat /\ hi(i) \in Nat /\ 1 <= lo(i) /\ lo(i) <= hi(i) /\ hi(i) <= n
      BY <1>3
  <2> HIDE DEF lo, hi, keys, T
  <2>10. Len(keys) >= 1
      BY <2>2, <2>3
  <2>4. keys \in Seq(Keys)
      BY <2>2, SeqMonotonic
  <2>5. <<>> \in Seq(Blocks) /\ Len(<<>>) = 0
      BY EmptySeq
  <2>6. op \in Ops /\ IsOp(op)
      BY <2>4, <2>5, <2>10 DEF Ops, IsOp
  <2>7. KeysOnce(op)
    <3>1. ASSUME NEW j \in 1..Len(keys), NEW k \in 1..Len(keys), keys[j] = keys[k]
          PROVE  j = k
      <4>1. lo(i) + j - 1 \in 1..n /\ lo(i) + k - 1 \in 1..n
          BY <1>1, <2>2, <2>3
      <4>2. s[lo(i) + j - 1] = s[lo(i) + k - 1]
          BY <2>2, <3>1
      <4>3. lo(i) + j - 1 = lo(i) + k - 1
          BY <4>1, <4>2 DEF Lists, n
      <4> QED BY <2>3, <4>3
    <3> QED BY <3>1 DEF KeysOnce
  <2>8. JobsIn(op) = {<<from, s[j]>> : j \in lo(i)..hi(i)}
    <3>1. ASSUME NEW j \in lo(i)..hi(i)
          PROVE  j - lo(i) + 1 \in 1..Len(keys) /\ keys[j - lo(i) + 1] = s[j]
      <4>1. j - lo(i) + 1 \in 1..Len(keys) /\ lo(i) + (j - lo(i) + 1) - 1 = j
          BY <2>2, <2>3
      <4> QED BY <2>2, <4>1
    <3> QED BY <2>2, <3>1 DEF JobsIn
  <2>9. JobsIn(op) \subseteq {from} \X S
      BY <2>2, <2>4, ElementOfSeq DEF JobsIn
  <2> QED BY <2>1, <2>6, <2>7, <2>8, <2>9 DEF FreshOp
<1>6. T \in [1..q -> Ops]
    BY <1>5
<1> HIDE DEF T
<1>11. T \in Seq(Ops) /\ Len(T) = q
    BY <1>2, <1>6
<1>7. ASSUME NEW i \in 1..q, NEW j \in 1..q, i < j PROVE Apart(T[i], T[j])
  <2>1. hi(i) < lo(j)
    <3>1. i * b <= (j - 1) * b
        BY <1>2, <1>7, TimesMonotone
    <3>2. i * b = b * i /\ (j - 1) * b = b * (j - 1)
        BY <1>2
    <3>3. /\ hi(i) <= b * i /\ lo(j) = b * (j - 1) + 1
          /\ hi(i) \in Nat /\ b * i \in Nat /\ b * (j - 1) \in Nat
        BY <1>3
    <3> HIDE DEF lo, hi
    <3> QED BY <3>1, <3>2, <3>3
  <2>2. /\ lo(i) \in Nat /\ hi(i) \in Nat /\ lo(j) \in Nat /\ hi(j) \in Nat
        /\ 1 <= lo(i) /\ hi(i) <= n /\ 1 <= lo(j) /\ hi(j) <= n
      BY <1>3
  <2> HIDE DEF lo, hi
  <2>3. ASSUME NEW k \in lo(i)..hi(i), NEW l \in lo(j)..hi(j) PROVE s[k] # s[l]
    <3>1. k \in 1..n /\ l \in 1..n /\ k # l
        BY <1>1, <2>1, <2>2
    <3> QED BY <3>1 DEF Lists, n
  <2>4. /\ JobsIn(T[i]) = {<<from, s[k]>> : k \in lo(i)..hi(i)}
        /\ JobsIn(T[j]) = {<<from, s[k]>> : k \in lo(j)..hi(j)}
      BY <1>5
  <2> QED BY <2>3, <2>4 DEF Apart
<1>8. ASSUME NEW i \in 1..q, NEW j \in 1..q, i # j PROVE Apart(T[i], T[j])
  <2>1. CASE i < j
      BY <1>7, <2>1
  <2>2. CASE ~(i < j)
    <3>1. j < i
        BY <1>2, <1>8, <2>2
    <3> QED BY <1>7, <3>1 DEF Apart
  <2> QED BY <2>1, <2>2
<1>9. ASSUME NEW job \in {from} \X S PROVE \E i \in 1..q : job \in JobsIn(T[i])
  <2>1. PICK x \in S : job = <<from, x>>
      OBVIOUS
  <2>2. PICK p \in 1..n : s[p] = x
      BY DEF Lists, n
  <2> DEFINE d == (p - 1) \div b
  <2>3. p - 1 \in Nat /\ d \in Nat /\ d * b <= p - 1 /\ p - 1 < (d + 1) * b
      BY <1>1, DivRange
  <2> HIDE DEF d
  <2>4. (d + 1) * b = d * b + b /\ (q + 1) * b = q * b + b
        /\ d * b \in Nat /\ q * b \in Nat
      BY <1>2, <2>3
  <2>5. d < q
    <3>1. d * b < q * b
        BY <1>1, <1>2, <2>3, <2>4
    <3> QED BY <1>2, <2>3, <3>1, TimesCancel
  <2>6. d + 1 \in 1..q
      BY <1>2, <2>3, <2>5
  <2>7. b * ((d + 1) - 1) = d * b /\ b * (d + 1) = d * b + b
      BY <2>3, <2>4
  <2>8. p \in lo(d + 1)..hi(d + 1)
      BY <1>1, <2>3, <2>4, <2>7
  <2> QED BY <1>5, <2>1, <2>2, <2>6, <2>8
<1>10. TasksFor(T, FALSE, {from} \X S)
    BY <1>5, <1>8, <1>9, <1>11 DEF TasksFor, Covers
<1> QED BY <1>10 DEF T, q, n

LEMMA TasksCover ==
    ASSUME scenario \in DOMAIN Scenarios, NEW S, S \subseteq Keys, NEW s, Lists(s, S),
           NEW kind \in {"copy", "delete"}, NEW from \in Sides,
           kind = "delete" => from = "src"
    PROVE  TasksFor(Tasks(kind, from, s), kind = "delete", {from} \X S)
<1>1. This.batch \in Nat
    BY ThisScenario
<1>2. CASE kind = "delete" \/ This.batch = 0
    BY <1>2, SingleTasks DEF Tasks
<1>3. CASE ~(kind = "delete" \/ This.batch = 0)
    BY <1>1, <1>3, BatchTasks DEF Tasks
<1> QED BY <1>2, <1>3

(* The tasks of two lists one after the other. *)
LEMMA CoversConcat ==
    ASSUME NEW p, NEW q, NEW J, NEW K, Covers(p, J), Covers(q, K), J \cap K = {},
           \A i \in 1..Len(p) : JobsIn(p[i]) \subseteq J,
           \A i \in 1..Len(q) : JobsIn(q[i]) \subseteq K
    PROVE  /\ Covers(p \o q, J \cup K)
           /\ \A i \in 1..Len(p \o q) :
                 \/ \E j \in 1..Len(p) : (p \o q)[i] = p[j]
                 \/ \E j \in 1..Len(q) : (p \o q)[i] = q[j]
<1> DEFINE n == Len(p)
           m == Len(q)
           c == p \o q
<1>1. p \in Seq(Ops) /\ q \in Seq(Ops) /\ n \in Nat /\ m \in Nat
    BY LenProperties DEF Covers
<1>2. /\ c \in Seq(Ops) /\ Len(c) = n + m
      /\ \A i \in 1..(n + m) : c[i] = IF i <= n THEN p[i] ELSE q[i - n]
    BY <1>1, ConcatProperties
<1> HIDE DEF c
<1>3. ASSUME NEW i \in 1..(n + m)
      PROVE  IF i <= n THEN i \in 1..n /\ c[i] = p[i] /\ JobsIn(c[i]) \subseteq J
             ELSE i - n \in 1..m /\ c[i] = q[i - n] /\ JobsIn(c[i]) \subseteq K
  <2>1. CASE i <= n
    <3>1. i \in 1..n /\ c[i] = p[i]
        BY <1>1, <1>2, <2>1
    <3> QED BY <2>1, <3>1
  <2>2. CASE ~(i <= n)
    <3>1. i - n \in 1..m /\ c[i] = q[i - n]
        BY <1>1, <1>2, <2>2
    <3> QED BY <2>2, <3>1
  <2> QED BY <2>1, <2>2
<1>4. ASSUME NEW i \in 1..(n + m), NEW j \in 1..(n + m), i # j PROVE Apart(c[i], c[j])
  <2>1. CASE i <= n /\ j <= n
      BY <1>3, <1>4, <2>1 DEF Covers
  <2>2. CASE ~(i <= n) /\ ~(j <= n)
    <3>1. i - n # j - n
        BY <1>1, <1>4
    <3>2. /\ i - n \in 1..m /\ c[i] = q[i - n]
          /\ j - n \in 1..m /\ c[j] = q[j - n]
        BY <1>3, <2>2
    <3> QED BY <3>1, <3>2 DEF Covers
  <2>3. CASE i <= n /\ ~(j <= n)
      BY <1>3, <2>3 DEF Apart
  <2>4. CASE ~(i <= n) /\ j <= n
      BY <1>3, <2>4 DEF Apart
  <2> QED BY <2>1, <2>2, <2>3, <2>4
<1>5. ASSUME NEW job \in J \cup K PROVE \E i \in 1..(n + m) : job \in JobsIn(c[i])
  <2>1. CASE job \in J
    <3>1. PICK i \in 1..n : job \in JobsIn(p[i])
        BY <2>1 DEF Covers
    <3>2. i \in 1..(n + m) /\ c[i] = p[i]
        BY <1>1, <1>2
    <3> QED BY <3>1, <3>2
  <2>2. CASE job \in K
    <3>1. PICK i \in 1..m : job \in JobsIn(q[i])
        BY <2>2 DEF Covers
    <3>2. i + n \in 1..(n + m) /\ ~(i + n <= n) /\ (i + n) - n = i
        BY <1>1
    <3>3. c[i + n] = q[i]
        BY <1>2, <3>2
    <3> QED BY <3>1, <3>2, <3>3
  <2> QED BY <2>1, <2>2
<1>6. \A i \in 1..(n + m) : \/ \E j \in 1..n : c[i] = p[j]
                            \/ \E j \in 1..m : c[i] = q[j]
    BY <1>3
<1> QED BY <1>2, <1>4, <1>5, <1>6 DEF Covers, c

(* A task of the plan that finds these trees. *)
Planned(op, tree) ==
    \E deletes \in BOOLEAN :
        /\ FreshOp(op, deletes, JobsOf(tree))
        /\ deletes => tree["src"][op.keys[1]] = Absent

(* The plan covers the jobs and has nothing else.                          *)
LEMMA PlanCovers ==
    ASSUME scenario \in DOMAIN Scenarios
    PROVE  Covers(Plan, JobsOf(fs)) /\ \A i \in 1..Len(Plan) : Planned(Plan[i], fs)
<1> DEFINE s == SnapshotOf(fs["src"])
           d == SnapshotOf(fs["dst"])
           F == Forward(s, d)
           E == Extras(s, d)
           N == Newer(s, d)
           first == Tasks("copy", "src", Sorted(F))
           J == {"src"} \X F
<1>1. /\ DOMAIN s = FilesOf(fs["src"]) /\ DOMAIN d = FilesOf(fs["dst"])
      /\ DOMAIN s \subseteq Keys /\ DOMAIN d \subseteq Keys
    BY DEF SnapshotOf, FilesOf
<1>2. F \subseteq Keys /\ E \subseteq Keys /\ N \subseteq Keys /\ E \cap N = {} /\ F \cap E = {}
    BY <1>1 DEF Forward, Extras, Newer
<1>3. \A k \in E : fs["src"][k] = Absent
    BY <1>1 DEF Extras, FilesOf
<1> HIDE DEF s, d, F, E, N
<1>4. Keys \subseteq Nat /\ IsFiniteSet(F) /\ IsFiniteSet(E) /\ IsFiniteSet(N)
    BY <1>2, ReplicaAssumption, FS_Subset DEF ReplicaAssumption
<1>5. Lists(Sorted(F), F) /\ Lists(Sorted(E), E) /\ Lists(Sorted(N), N)
  <2>1. F \subseteq Nat /\ E \subseteq Nat /\ N \subseteq Nat
      BY <1>2, <1>4
  <2> QED BY <1>4, <2>1, SortedLists
<1>6. TasksFor(first, FALSE, J)
  <2>1. TasksFor(first, "copy" = "delete", J)
      BY <1>2, <1>5, TasksCover DEF Sides
  <2>2. ("copy" = "delete") = FALSE
      OBVIOUS
  <2> QED BY <2>1, <2>2
<1> HIDE DEF first
<1>7. Mode \in {"update", "mirror", "sync"}
    BY ThisScenario
<1>8. CASE Mode = "update"
  <2>1. JobsOf(fs) = J
      BY <1>8 DEF JobsOf, s, d, F
  <2>2. Plan = first \o <<>>
      BY <1>8 DEF Plan, first, s, d, F
  <2>3. Plan = first
      BY <1>6, <2>2, ConcatEmptySeq DEF TasksFor, Covers
  <2>4. \A i \in 1..Len(Plan) : FreshOp(Plan[i], FALSE, JobsOf(fs))
      BY <1>6, <2>1, <2>3 DEF TasksFor
  <2> QED BY <1>6, <2>1, <2>3, <2>4 DEF TasksFor, Planned
<1>9. CASE Mode = "mirror"
  <2> DEFINE rest == Tasks("delete", "src", Sorted(E))
             K == {"src"} \X E
  <2>1. JobsOf(fs) = J \cup K
      BY <1>9 DEF JobsOf, s, d, F, E
  <2>2. Plan = first \o rest
      BY <1>9 DEF Plan, first, s, d, F, E
  <2>3. TasksFor(rest, TRUE, K)
    <3>1. TasksFor(rest, "delete" = "delete", K)
        BY <1>2, <1>5, TasksCover DEF Sides
    <3>2. ("delete" = "delete") = TRUE
        OBVIOUS
    <3> QED BY <3>1, <3>2
  <2> HIDE DEF rest
  <2>4. J \cap K = {}
      BY <1>2
  <2>5. /\ Covers(Plan, J \cup K)
        /\ \A i \in 1..Len(Plan) : \/ \E j \in 1..Len(first) : Plan[i] = first[j]
                                  \/ \E j \in 1..Len(rest) : Plan[i] = rest[j]
    <3>1. /\ Covers(first, J) /\ Covers(rest, K)
          /\ \A i \in 1..Len(first) : JobsIn(first[i]) \subseteq J
          /\ \A i \in 1..Len(rest) : JobsIn(rest[i]) \subseteq K
        BY <1>6, <2>3 DEF TasksFor, FreshOp
    <3> HIDE DEF J, K
    <3> QED BY <2>2, <2>4, <3>1, CoversConcat
  <2>6. \A j \in 1..Len(first) : FreshOp(first[j], FALSE, J \cup K)
      BY <1>6 DEF TasksFor, FreshOp
  <2>7. \A j \in 1..Len(rest) :
            FreshOp(rest[j], TRUE, J \cup K) /\ fs["src"][rest[j].keys[1]] = Absent
    <3>1. ASSUME NEW j \in 1..Len(rest)
          PROVE  FreshOp(rest[j], TRUE, J \cup K) /\ fs["src"][rest[j].keys[1]] = Absent
      <4>1. FreshOp(rest[j], TRUE, K)
          BY <2>3 DEF TasksFor
      <4>2. <<rest[j].from, rest[j].keys[1]>> \in JobsIn(rest[j])
          BY <4>1, LenProperties DEF FreshOp, IsOp, JobsIn, Ops
      <4>3. rest[j].keys[1] \in E
          BY <4>1, <4>2 DEF FreshOp
      <4> QED BY <1>3, <4>1, <4>3 DEF FreshOp
    <3> QED BY <3>1
  <2> HIDE DEF J, K
  <2> QED BY <2>1, <2>5, <2>6, <2>7 DEF Planned
<1>10. CASE Mode = "sync"
  <2> DEFINE list == Sorted(E) \o Sorted(N)
             rest == Tasks("copy", "dst", list)
             K == {"dst"} \X (E \cup N)
  <2>1. JobsOf(fs) = J \cup K
      BY <1>10 DEF JobsOf, s, d, F, E, N
  <2>2. Plan = first \o rest
      BY <1>10 DEF Plan, first, s, d, F, E, N
  <2>3. TasksFor(rest, FALSE, K)
    <3>1. Lists(list, E \cup N)
        BY <1>2, <1>5, ListsConcat
    <3> HIDE DEF list
    <3>2. TasksFor(rest, "copy" = "delete", K)
        BY <1>2, <3>1, TasksCover DEF Sides
    <3>3. ("copy" = "delete") = FALSE
        OBVIOUS
    <3> QED BY <3>2, <3>3
  <2> HIDE DEF rest
  <2>4. J \cap K = {}
      OBVIOUS
  <2>5. /\ Covers(Plan, J \cup K)
        /\ \A i \in 1..Len(Plan) : \/ \E j \in 1..Len(first) : Plan[i] = first[j]
                                  \/ \E j \in 1..Len(rest) : Plan[i] = rest[j]
    <3>1. /\ Covers(first, J) /\ Covers(rest, K)
          /\ \A i \in 1..Len(first) : JobsIn(first[i]) \subseteq J
          /\ \A i \in 1..Len(rest) : JobsIn(rest[i]) \subseteq K
        BY <1>6, <2>3 DEF TasksFor, FreshOp
    <3> HIDE DEF J, K
    <3> QED BY <2>2, <2>4, <3>1, CoversConcat
  <2>6. /\ \A j \in 1..Len(first) : FreshOp(first[j], FALSE, J \cup K)
        /\ \A j \in 1..Len(rest) : FreshOp(rest[j], FALSE, J \cup K)
      BY <1>6, <2>3 DEF TasksFor, FreshOp
  <2> HIDE DEF J, K
  <2> QED BY <2>1, <2>5, <2>6 DEF Planned
<1> QED BY <1>7, <1>8, <1>9, <1>10

-----------------------------------------------------------------------------
(* The inductive invariant.                                                *)

Jobs == JobsOf(snap)

WorkerStates ==
    [pc : {"idle", "open", "create", "copy", "delete"}, op : Ops \cup {NoOp}, entry : Nat,
     size : Nat, written : Nat, hashed : Blocks, plain : BOOLEAN]

Hashes == [side : Sides, key : Keys, hash : Blocks, reread : BOOLEAN]

TypeOK ==
    /\ scenario \in DOMAIN Scenarios /\ now \in Nat
    /\ IsTrees(fs, now) /\ IsTrees(snap, now)
    /\ plan \in Seq(Ops) /\ wk \in [Workers -> WorkerStates]
    /\ {running, ignored, edited} \subseteq BOOLEAN
    /\ failures \in Nat /\ outcome \in {"none", "ok", "failed", "killed"}
    /\ reported \subseteq Hashes

Busy(w) == wk[w].pc # "idle"

(* What a worker at a step has for a task. *)
AtWork(w) ==
    LET op == wk[w].op
    IN  /\ running /\ IsOp(op) /\ wk[w].entry \in 1..Len(op.keys)
        /\ wk[w].pc = "delete" <=> op.kind = "delete"
        /\ wk[w].pc = "open" => op.kind = "copy"
        /\ op.kind = "batch" => wk[w].plain /\ Len(op.members) = Len(op.keys)

Shape ==
    /\ \A i \in 1..Len(plan) : IsOp(plan[i])
    /\ \A w \in Workers : Busy(w) => AtWork(w)
    /\ ~running => plan = <<>>
    /\ running /\ edited => This.duringRun

(* No job is in two places: not twice in the plan, with two workers, or    *)
(* with one of those and reported already.                                 *)
JobOf(r) == <<Other(r.side), r.key>>

OpIsOurs(op) == KeysOnce(op) /\ JobsIn(op) \subseteq Jobs

Once ==
    /\ \A i \in 1..Len(plan) : OpIsOurs(plan[i])
    /\ \A i, j \in 1..Len(plan) : i # j => Apart(plan[i], plan[j])
    /\ \A w \in Workers : Busy(w) => OpIsOurs(wk[w].op)
    /\ \A w, v \in Workers : Busy(w) /\ Busy(v) /\ w # v => Apart(wk[w].op, wk[v].op)
    /\ \A w \in Workers, i \in 1..Len(plan) : Busy(w) => Apart(wk[w].op, plan[i])
    /\ \A r \in reported :
          /\ JobOf(r) \in Jobs
          /\ \A i \in 1..Len(plan) : JobOf(r) \notin JobsIn(plan[i])
          /\ \A w \in Workers : Busy(w) => JobOf(r) \notin JobsIn(wk[w].op)

(* The file is not touched in the run, by the user or by a task. *)
Calm(side, k) == ~edited /\ <<Other(side), k>> \notin Jobs

(* The user has not written to the side since the run began. *)
Ours(side) == edited => side \notin EditedSides

Kept == \A side \in Sides, k \in Keys : Calm(side, k) => fs[side][k] = snap[side][k]

Prefix(s, t) == Len(s) <= Len(t) /\ \A i \in 1..Len(s) : s[i] = t[i]

(* What the scanner read into an archive is what was there at first, and a *)
(* file that is to be deleted has no source.                               *)
FromSnap(op) ==
    /\ op.kind = "delete" => snap["src"][op.keys[1]] = Absent
    /\ \A i \in 1..Len(op.members) : Calm(op.from, op.keys[i]) =>
          /\ snap[op.from][op.keys[i]] # Absent
          /\ op.members[i] = snap[op.from][op.keys[i]].blocks

(* A file with these contents that is not older than its source was. *)
HasCopy(from, k, blocks) ==
    LET file == fs[Other(from)][k]
    IN  /\ file # Absent /\ file.blocks = blocks
        /\ snap[from][k] # Absent => file.mtime >= snap[from][k].mtime

(* The files of a batch before the one at hand are done. *)
EntriesDone(w) ==
    wk[w].op.kind = "batch" /\ Ours(DstSide(w)) =>
        \A i \in 1..(wk[w].entry - 1) :
            HasCopy(wk[w].op.from, wk[w].op.keys[i], wk[w].op.members[i])

(* A copy that has been opened has a source, whose size the zero-copy path *)
(* knows.                                                                  *)
Opened(w) ==
    LET file == snap[wk[w].op.from][Key(w)]
    IN  wk[w].op.kind = "copy" /\ wk[w].pc \in {"create", "copy"}
           /\ Calm(wk[w].op.from, Key(w)) =>
              file # Absent /\ (~wk[w].plain => wk[w].size = Len(file.blocks))

(* The file has the blocks that have passed by, on either path the first   *)
(* ones of the source.                                                     *)
Copying(w) ==
    LET source == snap[wk[w].op.from][Key(w)]
    IN  wk[w].pc = "copy" =>
        /\ wk[w].plain => Len(wk[w].hashed) = wk[w].written
        /\ wk[w].op.kind = "batch" =>
              Prefix(wk[w].hashed, wk[w].op.members[wk[w].entry])
        /\ Ours(DstSide(w)) =>
              /\ HasCopy(wk[w].op.from, Key(w), DstFile(w).blocks)
              /\ Len(DstFile(w).blocks) = wk[w].written
              /\ wk[w].plain => DstFile(w).blocks = wk[w].hashed
        /\ wk[w].op.kind = "copy" /\ Calm(wk[w].op.from, Key(w)) =>
              Prefix(DstFile(w).blocks, source.blocks)

OnCourse(w) == FromSnap(wk[w].op) /\ EntriesDone(w) /\ Opened(w) /\ Copying(w)

Progress ==
    /\ \A i \in 1..Len(plan) : FromSnap(plan[i])
    /\ \A w \in Workers : Busy(w) => OnCourse(w)

TrueHash(r) ==
    Ours(r.side) /\ (r.reread => Calm(Other(r.side), r.key)) =>
        /\ fs[r.side][r.key] # Absent
        /\ fs[r.side][r.key].blocks = r.hash

Truthful == ~ignored => \A r \in reported : TrueHash(r)

(* A job that is done, whose source was not touched. *)
Settled(from, k) ==
    IF snap[from][k] = Absent THEN fs[Other(from)][k] = Absent
    ELSE HasCopy(from, k, snap[from][k].blocks)

(* The run has lost nothing so far. *)
Sound ==
    /\ ~edited /\ ~ignored
    /\ IF running THEN failures = 0 ELSE outcome = "ok"

Waiting(job) ==
    \/ \E i \in 1..Len(plan) : job \in JobsIn(plan[i])
    \/ \E w \in Workers : Busy(w) /\ job \in JobsIn(wk[w].op)

Accounted ==
    Sound => \A from \in Sides, k \in Keys :
        <<from, k>> \in Jobs /\ Calm(from, k) => Waiting(<<from, k>>) \/ Settled(from, k)

IInv ==
    TypeOK /\ Shape /\ Once /\ Kept /\ Progress /\ Truthful /\ Accounted

-----------------------------------------------------------------------------
(* What steps leave alone.                                                 *)

LEMMA OtherSide ==
    ASSUME NEW side \in Sides
    PROVE  Other(side) \in Sides /\ Other(Other(side)) = side /\ Other(side) # side
BY DEF Sides, Other

LEMMA PrefixAppend ==
    ASSUME NEW S, NEW s \in Seq(S), NEW t \in Seq(S), Prefix(s, t), Len(s) < Len(t)
    PROVE  Prefix(Append(s, t[Len(s) + 1]), t)
<1>1. t[Len(s) + 1] \in S
    BY LenProperties, ElementOfSeq
<1> QED BY <1>1, LenProperties, AppendProperties DEF Prefix

LEMMA PrefixFull ==
    ASSUME NEW S, NEW s \in Seq(S), NEW t \in Seq(S), Prefix(s, t), Len(s) >= Len(t)
    PROVE  s = t
BY LenProperties, SeqEqual DEF Prefix

(* The task, the key and the file of a worker are what they look like. *)
LEMMA AtWorkTypes ==
    ASSUME TypeOK, NEW w \in Workers, AtWork(w)
    PROVE  /\ wk[w] \in WorkerStates /\ wk[w].op \in Ops /\ wk[w].op.from \in Sides
           /\ wk[w].op.keys \in Seq(Keys) /\ wk[w].op.members \in Seq(Blocks)
           /\ wk[w].entry \in 1..Len(wk[w].op.keys)
           /\ Len(wk[w].op.keys) \in Nat /\ Len(wk[w].op.members) \in Nat
           /\ Key(w) \in Keys /\ DstSide(w) \in Sides
           /\ <<wk[w].op.from, Key(w)>> \in JobsIn(wk[w].op)
<1>1. wk[w] \in WorkerStates /\ IsOp(wk[w].op) /\ wk[w].entry \in 1..Len(wk[w].op.keys)
    BY DEF TypeOK, AtWork
<1>2. wk[w].op \in Ops
    BY <1>1 DEF IsOp
<1>3. /\ wk[w].op.from \in Sides /\ wk[w].op.keys \in Seq(Keys)
      /\ wk[w].op.members \in Seq(Blocks)
    BY <1>2 DEF Ops
<1>4. Key(w) \in Keys
    BY <1>1, <1>3, ElementOfSeq DEF Key
<1>5. Len(wk[w].op.keys) \in Nat /\ Len(wk[w].op.members) \in Nat
    BY <1>3, LenProperties
<1> QED BY <1>1, <1>2, <1>3, <1>4, <1>5, OtherSide DEF DstSide, Key, JobsIn

(* A step writes to no other file than the target of the job. *)
WritesOnly(job) ==
    \A side \in Sides, k \in Keys :
        <<Other(side), k>> # job => fs'[side][k] = fs[side][k]

(* A step leaves the targets of a task alone. *)
LeavesAlone(op) ==
    \A i \in 1..Len(op.keys) :
        fs'[Other(op.from)][op.keys[i]] = fs[Other(op.from)][op.keys[i]]

LEMMA WritesElsewhere ==
    ASSUME NEW op, IsOp(op), NEW job, job \notin JobsIn(op), WritesOnly(job)
    PROVE  LeavesAlone(op)
<1>1. op.from \in Sides /\ op.keys \in Seq(Keys)
    BY DEF IsOp, Ops
<1>2. ASSUME NEW i \in 1..Len(op.keys)
      PROVE  fs'[Other(op.from)][op.keys[i]] = fs[Other(op.from)][op.keys[i]]
  <2>1. op.keys[i] \in Keys
      BY <1>1, ElementOfSeq
  <2>2. <<op.from, op.keys[i]>> \in JobsIn(op)
      BY DEF JobsIn
  <2> QED BY <1>1, <2>1, <2>2, OtherSide DEF WritesOnly
<1> QED BY <1>2 DEF LeavesAlone

(* A worker that does nothing, and whose files nobody writes to. *)
LEMMA OthersOnCourse ==
    ASSUME NEW v \in Workers, AtWork(v), OnCourse(v), wk'[v] = wk[v],
           LeavesAlone(wk[v].op), UNCHANGED <<scenario, snap, edited>>
    PROVE  OnCourse(v)'
<1> DEFINE op == wk[v].op
<1>1. UNCHANGED <<Jobs, This, EditedSides>>
    BY DEF Jobs, JobsOf, Mode, This, EditedSides
<1>2. (\A side, k : Calm(side, k)' = Calm(side, k)) /\ \A side : Ours(side)' = Ours(side)
    BY <1>1 DEF Calm, Ours
<1>3. FromSnap(op)'
    BY <1>2 DEF FromSnap, OnCourse
<1>4. EntriesDone(v)'
  <2>1. Len(op.keys) \in Nat /\ wk[v].entry \in 1..Len(op.keys)
      BY LenProperties DEF AtWork, IsOp, Ops
  <2>2. \A i \in 1..(wk[v].entry - 1) : i \in 1..Len(op.keys)
      BY <2>1
  <2>3. Ours(DstSide(v))' = Ours(DstSide(v))
      BY <1>2 DEF DstSide
  <2>4. SUFFICES ASSUME op.kind = "batch", Ours(DstSide(v)),
                        NEW i \in 1..(wk[v].entry - 1)
                 PROVE  HasCopy(op.from, op.keys[i], op.members[i])'
      BY <2>3 DEF EntriesDone
  <2>5. HasCopy(op.from, op.keys[i], op.members[i])
      BY <2>4 DEF EntriesDone, OnCourse
  <2> QED BY <2>2, <2>5 DEF LeavesAlone, HasCopy
<1>5. Key(v)' = Key(v) /\ DstSide(v)' = DstSide(v) /\ DstFile(v)' = DstFile(v)
  <2>1. wk[v].entry \in 1..Len(op.keys)
      BY DEF AtWork
  <2> QED BY <2>1 DEF Key, DstSide, DstFile, LeavesAlone
<1>6. Opened(v)'
    BY <1>2, <1>5 DEF Opened, OnCourse
<1>7. Copying(v)'
    BY <1>2, <1>5 DEF Copying, OnCourse, HasCopy, DstFile, DstSide
<1> QED BY <1>3, <1>4, <1>6, <1>7 DEF OnCourse

WritesOwn(w) == \E job \in JobsIn(wk[w].op) : WritesOnly(job)

(* What a step of a worker may do: write to the target of one of its jobs, *)
(* give its task up, done or not, and report hashes for its jobs.          *)
StepOf(w) ==
    /\ UNCHANGED <<scenario, plan, running, snap, edited, outcome>>
    /\ Busy(w) /\ \A v \in Workers \ {w} : wk'[v] = wk[v]
    /\ WritesOwn(w)
    /\ Busy(w)' => wk'[w].op = wk[w].op
    /\ ignored => ignored'
    /\ failures' = 0 => failures = 0
    /\ \A r \in reported' :
          r \in reported \/ (~Busy(w)' /\ JobOf(r) \in JobsIn(wk[w].op))

(* A step that loses no job: the worker goes on or has done all of them.   *)
LosesNothing(w) ==
    Sound' => Busy(w)' \/ \A from \in Sides, k \in Keys :
        <<from, k>> \in JobsIn(wk[w].op) /\ Calm(from, k) => Settled(from, k)'

LEMMA WorkerOnce ==
    ASSUME IInv, NEW w \in Workers, StepOf(w)
    PROVE  Once'
<1>1. UNCHANGED <<plan, Jobs>>
    BY DEF StepOf, Jobs, JobsOf, Mode, This
<1>2. \A v \in Workers : Busy(v)' => Busy(v) /\ wk'[v].op = wk[v].op
    BY DEF StepOf, Busy
<1>3. /\ \A i \in 1..Len(plan) : OpIsOurs(plan[i])'
      /\ \A v \in Workers : Busy(v)' => OpIsOurs(wk[v].op)'
    BY <1>1, <1>2 DEF IInv, Once, OpIsOurs
<1>4. ASSUME NEW r \in reported'
      PROVE  /\ JobOf(r) \in Jobs
             /\ \A i \in 1..Len(plan) : JobOf(r) \notin JobsIn(plan[i])
             /\ \A v \in Workers : Busy(v)' => JobOf(r) \notin JobsIn(wk[v].op)
  <2>1. CASE r \in reported
      BY <1>2, <2>1 DEF IInv, Once
  <2>2. CASE ~Busy(w)' /\ JobOf(r) \in JobsIn(wk[w].op)
    <3>1. Busy(w)
        BY DEF StepOf
    <3>2. JobOf(r) \in Jobs
        BY <2>2, <3>1 DEF IInv, Once, OpIsOurs
    <3>3. \A i \in 1..Len(plan) : Apart(wk[w].op, plan[i])
        BY <3>1 DEF IInv, Once
    <3>4. \A v \in Workers : Busy(v)' => v # w /\ Apart(wk[w].op, wk[v].op)
        BY <1>2, <2>2, <3>1 DEF IInv, Once
    <3> QED BY <2>2, <3>2, <3>3, <3>4 DEF Apart
  <2> QED BY <2>1, <2>2 DEF StepOf
<1>5. /\ \A i, j \in 1..Len(plan) : i # j => Apart(plan[i], plan[j])
      /\ \A v, u \in Workers :
            Busy(v)' /\ Busy(u)' /\ v # u => Apart(wk'[v].op, wk'[u].op)
      /\ \A v \in Workers, i \in 1..Len(plan) : Busy(v)' => Apart(wk'[v].op, plan[i])
    BY <1>2 DEF IInv, Once
<1>6. \A r \in reported' : \A v \in Workers : Busy(v)' => JobOf(r) \notin JobsIn(wk'[v].op)
    BY <1>2, <1>4
<1> QED BY <1>1, <1>3, <1>4, <1>5, <1>6 DEF Once

LEMMA WorkerKept ==
    ASSUME IInv, NEW w \in Workers, StepOf(w)
    PROVE  Kept'
<1>1. UNCHANGED <<Jobs, snap, edited>>
    BY DEF StepOf, Jobs, JobsOf, Mode, This
<1>2. PICK job \in JobsIn(wk[w].op) : WritesOnly(job)
    BY DEF StepOf, WritesOwn
<1>3. job \in Jobs
    BY DEF StepOf, IInv, Once, OpIsOurs
<1>4. ASSUME NEW side \in Sides, NEW k \in Keys, Calm(side, k)'
      PROVE  fs'[side][k] = snap'[side][k]
  <2>1. Calm(side, k) /\ <<Other(side), k>> # job
      BY <1>1, <1>3, <1>4 DEF Calm
  <2> QED BY <1>1, <1>2, <2>1 DEF IInv, Kept, WritesOnly
<1> QED BY <1>4 DEF Kept

LEMMA WorkerProgress ==
    ASSUME IInv, NEW w \in Workers, StepOf(w), Busy(w)' => OnCourse(w)'
    PROVE  Progress'
<1>1. UNCHANGED <<plan, scenario, Jobs, snap, edited>>
    BY DEF StepOf, Jobs, JobsOf, Mode, This
<1>2. PICK job \in JobsIn(wk[w].op) : WritesOnly(job)
    BY DEF StepOf, WritesOwn
<1>3. \A i \in 1..Len(plan) : FromSnap(plan[i])'
    BY <1>1 DEF IInv, Progress, FromSnap, Calm
<1>4. ASSUME NEW v \in Workers \ {w}, Busy(v)' PROVE OnCourse(v)'
  <2>1. wk'[v] = wk[v] /\ Busy(v)
      BY <1>4 DEF StepOf, Busy
  <2>2. AtWork(v) /\ OnCourse(v)
      BY <2>1 DEF IInv, Shape, Progress
  <2>3. IsOp(wk[v].op) /\ job \notin JobsIn(wk[v].op)
      BY <1>2, <2>1, <2>2 DEF AtWork, IInv, Once, StepOf, Apart
  <2>4. LeavesAlone(wk[v].op)
      BY <1>2, <2>3, WritesElsewhere
  <2> QED BY <1>1, <2>1, <2>2, <2>4, OthersOnCourse
<1> QED BY <1>1, <1>3, <1>4 DEF Progress

LEMMA WorkerTruthful ==
    ASSUME IInv, NEW w \in Workers, StepOf(w),
           ~ignored' => \A r \in reported' : r \in reported \/ TrueHash(r)'
    PROVE  Truthful'
<1>1. UNCHANGED <<scenario, Jobs, snap, edited, EditedSides>>
    BY DEF StepOf, Jobs, JobsOf, Mode, This, EditedSides
<1>2. PICK job \in JobsIn(wk[w].op) : WritesOnly(job)
    BY DEF StepOf, WritesOwn
<1>3. ASSUME ~ignored', NEW r \in reported PROVE TrueHash(r)'
  <2>1. r \in Hashes /\ r.side \in Sides /\ r.key \in Keys
      BY DEF IInv, TypeOK, Hashes
  <2>2. JobOf(r) # job
      BY <1>2 DEF IInv, Once, StepOf
  <2>3. fs'[r.side][r.key] = fs[r.side][r.key]
      BY <1>2, <2>1, <2>2 DEF WritesOnly, JobOf
  <2>4. TrueHash(r)
      BY <1>3 DEF StepOf, IInv, Truthful
  <2> QED BY <1>1, <2>3, <2>4 DEF TrueHash, Ours, Calm
<1> QED BY <1>3 DEF Truthful

LEMMA WorkerAccounted ==
    ASSUME IInv, NEW w \in Workers, StepOf(w), LosesNothing(w),
           failures' \in Nat, {ignored, ignored'} \subseteq BOOLEAN
    PROVE  Accounted'
<1>1. UNCHANGED <<scenario, plan, running, Jobs, snap, edited, outcome>>
    BY DEF StepOf, Jobs, JobsOf, Mode, This
<1>2. PICK job \in JobsIn(wk[w].op) : WritesOnly(job)
    BY DEF StepOf, WritesOwn
<1>3. Sound' => Sound
    BY <1>1 DEF StepOf, Sound
<1>4. ASSUME Sound', NEW from \in Sides, NEW k \in Keys, <<from, k>> \in Jobs, Calm(from, k)
      PROVE  Waiting(<<from, k>>)' \/ Settled(from, k)'
  <2>1. CASE <<from, k>> \in JobsIn(wk[w].op)
      BY <1>4, <2>1 DEF LosesNothing, Waiting, StepOf
  <2>2. CASE <<from, k>> \notin JobsIn(wk[w].op) /\ Waiting(<<from, k>>)
    <3>1. CASE \E i \in 1..Len(plan) : <<from, k>> \in JobsIn(plan[i])
        BY <1>1, <3>1 DEF Waiting
    <3>2. CASE \E v \in Workers : Busy(v) /\ <<from, k>> \in JobsIn(wk[v].op)
      <4>1. PICK v \in Workers : Busy(v) /\ <<from, k>> \in JobsIn(wk[v].op)
          BY <3>2
      <4>2. wk'[v] = wk[v]
          BY <2>2, <4>1 DEF StepOf
      <4> QED BY <4>1, <4>2 DEF Waiting, Busy
    <3> QED BY <2>2, <3>1, <3>2 DEF Waiting
  <2>3. CASE <<from, k>> \notin JobsIn(wk[w].op) /\ Settled(from, k)
    <3>1. Other(Other(from)) = from /\ Other(from) \in Sides
        BY OtherSide
    <3>2. fs'[Other(from)][k] = fs[Other(from)][k]
        BY <1>2, <2>3, <3>1 DEF WritesOnly
    <3> QED BY <1>1, <2>3, <3>2 DEF Settled, HasCopy
  <2> QED BY <1>3, <1>4, <2>1, <2>2, <2>3 DEF IInv, Accounted
<1>5. \A from, k : Calm(from, k)' = Calm(from, k)
    BY <1>1 DEF Calm
<1> QED BY <1>1, <1>4, <1>5 DEF Accounted

(* All that a step of a worker has to show.                                *)
LEMMA WorkerStep ==
    ASSUME IInv, NEW w \in Workers, StepOf(w), TypeOK',
           Busy(w)' => AtWork(w)' /\ OnCourse(w)', LosesNothing(w),
           ~ignored' => \A r \in reported' : r \in reported \/ TrueHash(r)'
    PROVE  IInv'
<1>1. Shape'
  <2>1. /\ \A i \in 1..Len(plan) : IsOp(plan[i])
        /\ ~running => plan = <<>>
        /\ running /\ edited => This.duringRun
      BY DEF IInv, Shape
  <2>2. UNCHANGED <<plan, running, edited, This>>
      BY DEF StepOf, This
  <2>3. ASSUME NEW v \in Workers \ {w}, Busy(v)' PROVE AtWork(v)'
    <3>1. wk'[v] = wk[v] /\ Busy(v)
        BY <2>3 DEF StepOf, Busy
    <3> QED BY <2>2, <3>1 DEF IInv, Shape, AtWork
  <2> QED BY <2>1, <2>2, <2>3 DEF Shape
<1>2. failures' \in Nat /\ {ignored, ignored'} \subseteq BOOLEAN
    BY DEF IInv, TypeOK
<1> QED BY <1>1, <1>2, WorkerOnce, WorkerKept, WorkerProgress, WorkerTruthful,
           WorkerAccounted DEF IInv

-----------------------------------------------------------------------------
(* The steps of a worker.                                                  *)

LEMMA NewState ==
    ASSUME TypeOK, NEW w \in Workers, NEW st \in WorkerStates, wk' = [wk EXCEPT ![w] = st]
    PROVE  /\ wk' \in [Workers -> WorkerStates]
           /\ wk'[w] = st /\ \A v \in Workers \ {w} : wk'[v] = wk[v]
BY DEF TypeOK

LEMMA FileTypes ==
    ASSUME NEW tree, NEW t, IsTrees(tree, t), NEW side \in Sides, NEW k \in Keys,
           tree[side][k] # Absent
    PROVE  /\ tree[side][k] \in Files /\ tree[side][k].blocks \in Blocks
           /\ tree[side][k].mtime \in Nat /\ tree[side][k].mtime <= t
           /\ Len(tree[side][k].blocks) \in Nat
<1>1. tree[side][k] \in Files /\ tree[side][k].mtime <= t
    BY DEF IsTrees
<1>2. tree[side][k].blocks \in Blocks /\ tree[side][k].mtime \in Nat
    BY <1>1 DEF Files, Blocks
<1> QED BY <1>1, <1>2, LenProperties DEF Blocks

LEMMA FileIsNotAbsent ==
    ASSUME NEW blocks \in Blocks, NEW t \in Nat
    PROVE  /\ [blocks |-> blocks, mtime |-> t] \in Files
           /\ [blocks |-> blocks, mtime |-> t] # Absent
BY ReplicaAssumption DEF ReplicaAssumption, Files, Blocks

LEMMA WriteEffect ==
    ASSUME TypeOK, NEW w \in Workers, AtWork(w), NEW file \in Files \cup {Absent},
           file # Absent => file.mtime <= now + 1, Write(w, file)
    PROVE  /\ now' = now + 1 /\ now' \in Nat /\ IsTrees(fs', now') /\ IsTrees(snap, now')
           /\ fs'[DstSide(w)][Key(w)] = file
           /\ WritesOnly(<<wk[w].op.from, Key(w)>>)
<1> DEFINE side == DstSide(w)
           k == Key(w)
<1>1. /\ side \in Sides /\ k \in Keys /\ wk[w].op.from \in Sides
      /\ Other(side) = wk[w].op.from
    BY AtWorkTypes, OtherSide DEF DstSide
<1>2. now' = now + 1 /\ now \in Nat /\ fs' = [fs EXCEPT ![side][k] = file]
    BY DEF Write, TypeOK
<1>3. fs \in [Sides -> [Keys -> Files \cup {Absent}]]
    BY DEF TypeOK, IsTrees
<1> HIDE DEF side, k
<1>4. /\ fs' \in [Sides -> [Keys -> Files \cup {Absent}]]
      /\ \A s \in Sides, j \in Keys :
            fs'[s][j] = IF s = side /\ j = k THEN file ELSE fs[s][j]
    BY <1>1, <1>2, <1>3
<1>5. ASSUME NEW s \in Sides, NEW j \in Keys, fs'[s][j] # Absent
      PROVE  fs'[s][j].mtime <= now + 1
  <2>1. CASE s = side /\ j = k
      BY <1>4, <1>5, <2>1
  <2>2. CASE ~(s = side /\ j = k)
    <3>1. fs'[s][j] = fs[s][j]
        BY <1>4, <2>2
    <3>2. fs[s][j].mtime \in Nat /\ fs[s][j].mtime <= now
        BY <1>5, <3>1, FileTypes DEF TypeOK
    <3> QED BY <1>2, <3>1, <3>2
  <2> QED BY <2>1, <2>2
<1>6. IsTrees(fs', now')
    BY <1>2, <1>4, <1>5 DEF IsTrees
<1>7. IsTrees(snap, now')
  <2>1. IsTrees(snap, now)
      BY DEF TypeOK
  <2>2. ASSUME NEW s \in Sides, NEW j \in Keys, snap[s][j] # Absent
        PROVE  snap[s][j].mtime <= now + 1
    <3>1. snap[s][j].mtime \in Nat /\ snap[s][j].mtime <= now
        BY <2>1, <2>2, FileTypes
    <3> QED BY <1>2, <3>1
  <2> QED BY <1>2, <2>1, <2>2 DEF IsTrees
<1>8. ASSUME NEW s \in Sides, NEW j \in Keys, <<Other(s), j>> # <<wk[w].op.from, k>>
      PROVE  fs'[s][j] = fs[s][j]
    BY <1>1, <1>4, <1>8
<1> QED BY <1>1, <1>2, <1>4, <1>6, <1>7, <1>8 DEF WritesOnly, side, k

LEMMA NothingWritten ==
    ASSUME TypeOK, NEW w \in Workers, AtWork(w), UNCHANGED fs
    PROVE  WritesOwn(w)
BY AtWorkTypes DEF WritesOnly, WritesOwn

(* A source that nothing touches is as the run found it.                   *)
LEMMA CalmSource ==
    ASSUME IInv, NEW w \in Workers, AtWork(w), Calm(wk[w].op.from, Key(w))
    PROVE  SrcFile(w) = snap[wk[w].op.from][Key(w)]
BY AtWorkTypes DEF IInv, Kept, SrcFile

(* What worker w is at before a step. *)
LEMMA WorkerFacts ==
    ASSUME IInv, NEW w \in Workers, Busy(w)
    PROVE  /\ TypeOK /\ AtWork(w) /\ OnCourse(w) /\ OpIsOurs(wk[w].op)
           /\ IsOp(wk[w].op)
           /\ wk[w].op.kind \in {"copy", "batch", "delete"} /\ wk[w].plain \in BOOLEAN
           /\ wk[w].size \in Nat /\ wk[w].written \in Nat /\ wk[w].hashed \in Blocks
           /\ wk[w].pc \in {"open", "create", "copy", "delete"}
<1>1. TypeOK /\ AtWork(w) /\ OnCourse(w) /\ OpIsOurs(wk[w].op)
    BY DEF IInv, Shape, Progress, Once
<1>2. wk[w] \in WorkerStates /\ wk[w].op \in Ops
    BY <1>1, AtWorkTypes
<1> QED BY <1>1, <1>2 DEF AtWork, WorkerStates, Ops, Busy

LEMMA OpenInv == ASSUME IInv, NEW w \in Workers, Open(w) PROVE IInv'
<1> DEFINE st == [wk[w] EXCEPT !.pc = "create", !.size = Len(SrcFile(w).blocks)]
<1>1. /\ running /\ wk[w].pc = "open" /\ SrcFile(w) # Absent
      /\ wk' = [wk EXCEPT ![w] = st]
      /\ UNCHANGED <<scenario, fs, now, plan, running, failures, outcome, snap, reported,
                     ignored, edited>>
    BY DEF Open, At, runVars
<1>2. TypeOK /\ AtWork(w) /\ OnCourse(w) /\ Busy(w)
    BY <1>1, WorkerFacts DEF Busy
<1>3. wk[w].op.from \in Sides /\ Key(w) \in Keys /\ wk[w] \in WorkerStates
    BY <1>2, AtWorkTypes
<1>4. Len(SrcFile(w).blocks) \in Nat
    BY <1>1, <1>2, <1>3, FileTypes DEF SrcFile, TypeOK
<1>5. st \in WorkerStates
    BY <1>3, <1>4 DEF WorkerStates
<1>6. /\ wk' \in [Workers -> WorkerStates] /\ wk'[w] = st
      /\ \A v \in Workers \ {w} : wk'[v] = wk[v]
    BY <1>1, <1>2, <1>5, NewState
<1>7. /\ wk'[w].pc = "create" /\ wk'[w].op = wk[w].op /\ wk'[w].entry = wk[w].entry
      /\ wk'[w].size = Len(SrcFile(w).blocks) /\ wk'[w].plain = wk[w].plain
    BY <1>3, <1>6 DEF WorkerStates
<1> HIDE DEF st
<1>8. TypeOK'
    BY <1>1, <1>2, <1>6 DEF TypeOK
<1>9. StepOf(w) /\ LosesNothing(w)
  <2>1. Busy(w) /\ Busy(w)'
      BY <1>2, <1>7 DEF Busy
  <2>2. WritesOwn(w)
      BY <1>1, <1>2, NothingWritten
  <2>3. StepOf(w)
      BY <1>1, <1>6, <1>7, <2>1, <2>2 DEF StepOf
  <2> QED BY <2>1, <2>3 DEF LosesNothing
<1>10. AtWork(w)'
    BY <1>1, <1>2, <1>7 DEF AtWork
<1>11. OnCourse(w)'
  <2>1. wk[w].op.kind = "copy" /\ Key(w)' = Key(w)
      BY <1>1, <1>2, <1>7 DEF AtWork, Key
  <2>2. UNCHANGED Jobs
      BY <1>1 DEF Jobs, JobsOf, Mode, This
  <2>3. FromSnap(wk[w].op)'
    <3>1. FromSnap(wk[w].op)
        BY <1>2 DEF OnCourse
    <3>2. wk'[w].op = wk[w].op /\ UNCHANGED <<snap, edited, Jobs>>
        BY <1>1, <1>7, <2>2
    <3> QED BY <3>1, <3>2 DEF FromSnap, Calm
  <2>4. EntriesDone(w)' /\ Copying(w)'
      BY <1>7, <2>1 DEF EntriesDone, Copying
  <2>5. Opened(w)'
    <3>1. Calm(wk[w].op.from, Key(w))' = Calm(wk[w].op.from, Key(w))
        BY <1>1, <1>7, <2>1, <2>2 DEF Calm
    <3>2. Calm(wk[w].op.from, Key(w)) => SrcFile(w) = snap[wk[w].op.from][Key(w)]
        BY <1>2, CalmSource
    <3> QED BY <1>1, <1>7, <2>1, <3>1, <3>2 DEF Opened
  <2> QED BY <2>3, <2>4, <2>5 DEF OnCourse
<1> QED BY <1>1, <1>8, <1>9, <1>10, <1>11, WorkerStep

(* Neither the archive nor the files that are done change while a worker   *)
(* is at a later one.                                                      *)
LEMMA EntriesKept ==
    ASSUME IInv, NEW w \in Workers, Busy(w), WritesOnly(<<wk[w].op.from, Key(w)>>),
           wk'[w].op = wk[w].op, wk'[w].entry = wk[w].entry,
           UNCHANGED <<scenario, snap, edited>>
    PROVE  EntriesDone(w)' /\ FromSnap(wk[w].op)'
<1> DEFINE op == wk[w].op
<1>1. UNCHANGED <<Jobs, This, EditedSides>>
    BY DEF Jobs, JobsOf, Mode, This, EditedSides
<1>2. AtWork(w) /\ OnCourse(w) /\ TypeOK /\ KeysOnce(op)
    BY WorkerFacts DEF OpIsOurs
<1>3. /\ op.from \in Sides /\ op.keys \in Seq(Keys) /\ Len(op.keys) \in Nat
      /\ wk[w].entry \in 1..Len(op.keys)
    BY <1>2, AtWorkTypes
<1>4. FromSnap(op)'
    BY <1>1, <1>2 DEF FromSnap, OnCourse, Calm
<1>5. ASSUME op.kind = "batch", Ours(DstSide(w)), NEW i \in 1..(wk[w].entry - 1)
      PROVE  HasCopy(op.from, op.keys[i], op.members[i])'
  <2>1. HasCopy(op.from, op.keys[i], op.members[i])
      BY <1>2, <1>5 DEF EntriesDone, OnCourse
  <2>2. i \in 1..Len(op.keys) /\ i # wk[w].entry
      BY <1>3
  <2>3. op.keys[i] \in Keys /\ op.keys[i] # Key(w)
      BY <1>2, <1>3, <2>2, ElementOfSeq DEF KeysOnce, Key
  <2>4. fs'[Other(op.from)][op.keys[i]] = fs[Other(op.from)][op.keys[i]]
      BY <1>3, <2>3, OtherSide DEF WritesOnly
  <2> QED BY <2>1, <2>4 DEF HasCopy
<1>6. EntriesDone(w)'
    BY <1>1, <1>5 DEF EntriesDone, Ours, DstSide
<1> QED BY <1>4, <1>6

LEMMA CreateInv == ASSUME IInv, NEW w \in Workers, Create(w) PROVE IInv'
<1> DEFINE st == [wk[w] EXCEPT !.pc = "copy", !.written = 0, !.hashed = <<>>]
           file == [blocks |-> <<>>, mtime |-> now + 1]
           from == wk[w].op.from
<1>1. /\ running /\ wk[w].pc = "create" /\ Write(w, file) /\ wk' = [wk EXCEPT ![w] = st]
      /\ UNCHANGED <<scenario, plan, running, failures, outcome, snap, reported, ignored,
                     edited>>
    BY DEF Create, At, runVars
<1>2. TypeOK /\ AtWork(w) /\ OnCourse(w) /\ Busy(w) /\ wk[w].plain \in BOOLEAN
      /\ wk[w].op.kind \in {"copy", "batch", "delete"}
    BY <1>1, WorkerFacts DEF Busy
<1>3. /\ from \in Sides /\ Key(w) \in Keys /\ wk[w] \in WorkerStates
      /\ <<from, Key(w)>> \in JobsIn(wk[w].op)
      /\ wk[w].op.members \in Seq(Blocks) /\ wk[w].entry \in 1..Len(wk[w].op.keys)
    BY <1>2, AtWorkTypes
<1>4. <<>> \in Blocks /\ Len(<<>>) = 0 /\ file \in Files /\ file # Absent
  <2>1. <<>> \in Blocks /\ now + 1 \in Nat
      BY <1>2, EmptySeq DEF Blocks, TypeOK
  <2> QED BY <2>1, FileIsNotAbsent
<1>5. /\ now' = now + 1 /\ now' \in Nat /\ now \in Nat /\ IsTrees(fs', now') /\ IsTrees(snap, now')
      /\ fs'[DstSide(w)][Key(w)] = file /\ WritesOnly(<<from, Key(w)>>)
  <2>1. file.mtime <= now + 1
      BY <1>2 DEF TypeOK
  <2> QED BY <1>1, <1>2, <1>4, <2>1, WriteEffect DEF TypeOK
<1>6. st \in WorkerStates
    BY <1>3, <1>4 DEF WorkerStates
<1>7. /\ wk' \in [Workers -> WorkerStates] /\ wk'[w] = st
      /\ \A v \in Workers \ {w} : wk'[v] = wk[v]
    BY <1>1, <1>2, <1>6, NewState
<1>8. /\ wk'[w].pc = "copy" /\ wk'[w].op = wk[w].op /\ wk'[w].entry = wk[w].entry
      /\ wk'[w].size = wk[w].size /\ wk'[w].plain = wk[w].plain
      /\ wk'[w].written = 0 /\ wk'[w].hashed = <<>>
    BY <1>3, <1>7 DEF WorkerStates
<1>9. file.blocks = <<>> /\ file.mtime = now + 1
    OBVIOUS
<1> HIDE DEF st, file
<1>10. TypeOK'
    BY <1>1, <1>2, <1>5, <1>7 DEF TypeOK
<1>11. StepOf(w) /\ LosesNothing(w)
  <2>1. Busy(w) /\ Busy(w)'
      BY <1>2, <1>8 DEF Busy
  <2>2. WritesOwn(w)
      BY <1>3, <1>5 DEF WritesOwn
  <2>3. StepOf(w)
      BY <1>1, <1>7, <1>8, <2>1, <2>2 DEF StepOf
  <2> QED BY <2>1, <2>3 DEF LosesNothing
<1>12. AtWork(w)'
    BY <1>1, <1>2, <1>8 DEF AtWork
<1>13. OnCourse(w)'
  <2>1. Key(w)' = Key(w) /\ DstSide(w)' = DstSide(w) /\ UNCHANGED Jobs
      BY <1>1, <1>8 DEF Key, DstSide, Jobs, JobsOf, Mode, This
  <2>2. EntriesDone(w)' /\ FromSnap(wk[w].op)'
      BY <1>1, <1>2, <1>5, <1>8, EntriesKept
  <2>3. Calm(from, Key(w))' = Calm(from, Key(w))
      BY <1>1, <1>8, <2>1 DEF Calm
  <2>4. Opened(w)
      BY <1>2 DEF OnCourse
  <2>5. Opened(w)'
      BY <1>1, <1>8, <2>1, <2>3, <2>4 DEF Opened
  <2>6. snap[from][Key(w)] # Absent =>
            snap[from][Key(w)].blocks \in Blocks /\ Len(snap[from][Key(w)].blocks) \in Nat
            /\ snap[from][Key(w)].mtime \in Nat /\ snap[from][Key(w)].mtime <= now
      BY <1>2, <1>3, FileTypes DEF TypeOK
  <2>7. HasCopy(from, Key(w), <<>>)'
      BY <1>1, <1>4, <1>5, <1>8, <1>9, <2>1, <2>6 DEF HasCopy, DstSide
  <2>8. \A s : Len(s) \in Nat => Prefix(<<>>, s)
      BY <1>4 DEF Prefix
  <2>9. wk[w].op.kind = "batch" => Prefix(<<>>, wk[w].op.members[wk[w].entry])
    <3>1. SUFFICES ASSUME wk[w].op.kind = "batch"
                   PROVE  Len(wk[w].op.members[wk[w].entry]) \in Nat
        BY <2>8
    <3>2. wk[w].op.members[wk[w].entry] \in Blocks
        BY <1>2, <1>3, <3>1, ElementOfSeq DEF AtWork
    <3> QED BY <3>2, LenProperties DEF Blocks
  <2>10. wk[w].op.kind = "copy" /\ Calm(from, Key(w)) =>
             Prefix(<<>>, snap[from][Key(w)].blocks)
      BY <1>1, <2>4, <2>6, <2>8 DEF Opened
  <2>11. Copying(w)'
    <3>1. DstFile(w)' = file
        BY <1>5, <2>1 DEF DstFile
    <3> QED BY <1>1, <1>4, <1>8, <1>9, <2>1, <2>3, <2>7, <2>9, <2>10, <3>1 DEF Copying
  <2> QED BY <1>8, <2>2, <2>5, <2>11 DEF OnCourse
<1> QED BY <1>1, <1>10, <1>11, <1>12, <1>13, WorkerStep

LEMMA CopyBlockInv == ASSUME IInv, NEW w \in Workers, CopyBlock(w) PROVE IInv'
<1> DEFINE block == Source(w)[wk[w].written + 1]
           hashed == IF wk[w].plain THEN Append(wk[w].hashed, block) ELSE wk[w].hashed
           st == [wk[w] EXCEPT !.written = wk[w].written + 1, !.hashed = hashed]
           blocks == Append(DstFile(w).blocks, block)
           file == [blocks |-> blocks, mtime |-> now + 1]
           from == wk[w].op.from
           member == wk[w].op.members[wk[w].entry]
           source == snap[from][Key(w)]
<1>1. /\ running /\ wk[w].pc = "copy" /\ WantsMore(w) /\ MoreToRead(w) /\ DstFile(w) # Absent
      /\ Write(w, file) /\ wk' = [wk EXCEPT ![w] = st]
      /\ UNCHANGED <<scenario, plan, running, failures, outcome, snap, reported, ignored,
                     edited>>
    BY DEF CopyBlock, At, runVars
<1>2. /\ TypeOK /\ AtWork(w) /\ OnCourse(w) /\ Busy(w) /\ wk[w].plain \in BOOLEAN
      /\ wk[w].op.kind \in {"copy", "batch", "delete"}
      /\ wk[w].written \in Nat /\ wk[w].hashed \in Blocks
    BY <1>1, WorkerFacts DEF Busy
<1>3. /\ from \in Sides /\ Key(w) \in Keys /\ wk[w] \in WorkerStates /\ DstSide(w) \in Sides
      /\ <<from, Key(w)>> \in JobsIn(wk[w].op)
      /\ wk[w].op.members \in Seq(Blocks) /\ wk[w].entry \in 1..Len(wk[w].op.keys)
    BY <1>2, AtWorkTypes
<1>4. wk[w].op.kind = "batch" => Source(w) = member /\ wk[w].plain
    BY <1>2 DEF Source, AtWork
<1>5. Source(w) \in Blocks /\ Len(Source(w)) \in Nat
  <2>1. CASE wk[w].op.kind = "batch"
    <3>1. member \in Blocks
        BY <1>2, <1>3, <2>1, ElementOfSeq DEF AtWork
    <3> QED BY <1>4, <2>1, <3>1, LenProperties DEF Blocks
  <2>2. CASE wk[w].op.kind # "batch" /\ SrcFile(w) = Absent
      BY <2>2, EmptySeq DEF Source, Blocks
  <2>3. CASE wk[w].op.kind # "batch" /\ SrcFile(w) # Absent
      BY <1>2, <1>3, <2>3, FileTypes DEF Source, SrcFile, TypeOK
  <2> QED BY <2>1, <2>2, <2>3
<1>6. wk[w].written < Len(Source(w)) /\ block \in Versions
  <2>1. wk[w].written < Len(Source(w))
      BY <1>1 DEF MoreToRead
  <2> QED BY <1>2, <1>5, <2>1, ElementOfSeq DEF Blocks
<1>7. /\ DstFile(w).blocks \in Blocks /\ Len(DstFile(w).blocks) \in Nat
    BY <1>1, <1>2, <1>3, FileTypes DEF DstFile, TypeOK
<1>8. /\ blocks \in Blocks /\ Len(blocks) = Len(DstFile(w).blocks) + 1
      /\ Append(wk[w].hashed, block) \in Blocks
      /\ Len(Append(wk[w].hashed, block)) = Len(wk[w].hashed) + 1
      /\ Len(wk[w].hashed) \in Nat
    BY <1>2, <1>6, <1>7, AppendProperties, LenProperties DEF Blocks
<1>9. /\ file \in Files /\ file # Absent /\ file.blocks = blocks /\ file.mtime = now + 1
      /\ now \in Nat
  <2>1. now + 1 \in Nat /\ now \in Nat
      BY <1>2 DEF TypeOK
  <2> HIDE DEF blocks
  <2> QED BY <1>8, <2>1, FileIsNotAbsent
<1> HIDE DEF block, blocks
<1>10. st \in WorkerStates
  <2>1. hashed \in Blocks /\ wk[w].written + 1 \in Nat
      BY <1>2, <1>8
  <2> HIDE DEF hashed
  <2> QED BY <1>3, <2>1 DEF WorkerStates
<1> HIDE DEF file
<1>11. /\ now' = now + 1 /\ now' \in Nat /\ IsTrees(fs', now') /\ IsTrees(snap, now')
       /\ fs'[DstSide(w)][Key(w)] = file /\ WritesOnly(<<from, Key(w)>>)
    BY <1>1, <1>2, <1>9, WriteEffect
<1>12. /\ wk' \in [Workers -> WorkerStates] /\ wk'[w] = st
       /\ \A v \in Workers \ {w} : wk'[v] = wk[v]
    BY <1>1, <1>2, <1>10, NewState
<1>13. /\ wk'[w].pc = "copy" /\ wk'[w].op = wk[w].op /\ wk'[w].entry = wk[w].entry
       /\ wk'[w].size = wk[w].size /\ wk'[w].plain = wk[w].plain
       /\ wk'[w].written = wk[w].written + 1
       /\ wk'[w].hashed = IF wk[w].plain THEN Append(wk[w].hashed, block) ELSE wk[w].hashed
    BY <1>1, <1>3, <1>12 DEF WorkerStates
<1> HIDE DEF st, hashed
<1>14. TypeOK'
    BY <1>1, <1>2, <1>11, <1>12 DEF TypeOK
<1>15. StepOf(w) /\ LosesNothing(w)
  <2>1. Busy(w) /\ Busy(w)'
      BY <1>2, <1>13 DEF Busy
  <2>2. WritesOwn(w)
      BY <1>3, <1>11 DEF WritesOwn
  <2>3. StepOf(w)
      BY <1>1, <1>12, <1>13, <2>1, <2>2 DEF StepOf
  <2> QED BY <2>1, <2>3 DEF LosesNothing
<1>16. AtWork(w)'
    BY <1>1, <1>2, <1>13 DEF AtWork
<1>17. OnCourse(w)'
  <2>1. Key(w)' = Key(w) /\ DstSide(w)' = DstSide(w) /\ UNCHANGED <<Jobs, EditedSides>>
      BY <1>1, <1>13 DEF Key, DstSide, Jobs, JobsOf, Mode, This, EditedSides
  <2>2. EntriesDone(w)' /\ FromSnap(wk[w].op)'
      BY <1>1, <1>2, <1>11, <1>13, EntriesKept
  <2>3. /\ Calm(from, Key(w))' = Calm(from, Key(w))
        /\ Ours(DstSide(w))' = Ours(DstSide(w))
        /\ Calm(from, Key(w)) => Ours(DstSide(w))
      BY <1>1, <1>13, <2>1 DEF Calm, Ours
  <2>4. Opened(w) /\ Copying(w)
      BY <1>2 DEF OnCourse
  <2>5. Opened(w)'
      BY <1>1, <1>13, <2>1, <2>3, <2>4 DEF Opened
  <2>6. source # Absent => source.blocks \in Blocks /\ Len(source.blocks) \in Nat
                           /\ source.mtime \in Nat /\ source.mtime <= now
      BY <1>2, <1>3, FileTypes DEF TypeOK
  <2>7. DstFile(w)' = file
      BY <1>11, <2>1 DEF DstFile
  <2>8. fs'[Other(from)][Key(w)] = file /\ (source # Absent => file.mtime >= source.mtime)
      BY <1>9, <1>11, <2>6 DEF DstSide
  <2>9. wk[w].plain => Len(wk'[w].hashed) = wk'[w].written
      BY <1>1, <1>8, <1>13, <2>4 DEF Copying
  <2>10. wk[w].op.kind = "batch" => Prefix(wk'[w].hashed, member)
    <3>1. SUFFICES ASSUME wk[w].op.kind = "batch" PROVE Prefix(wk'[w].hashed, member)
        OBVIOUS
    <3>2. /\ Prefix(wk[w].hashed, member) /\ Len(wk[w].hashed) = wk[w].written
          /\ member = Source(w) /\ wk[w].plain
        BY <1>1, <1>4, <2>4, <3>1 DEF Copying
    <3>3. Prefix(Append(wk[w].hashed, member[Len(wk[w].hashed) + 1]), member)
        BY <1>2, <1>5, <1>6, <3>2, PrefixAppend DEF Blocks
    <3> QED BY <1>13, <3>2, <3>3 DEF block
  <2>11. Ours(DstSide(w)) =>
            /\ Len(blocks) = wk'[w].written
            /\ wk[w].plain => blocks = wk'[w].hashed
    <3>1. SUFFICES ASSUME Ours(DstSide(w))
                   PROVE  /\ Len(blocks) = wk'[w].written
                          /\ wk[w].plain => blocks = wk'[w].hashed
        OBVIOUS
    <3>2. /\ Len(DstFile(w).blocks) = wk[w].written
          /\ wk[w].plain => DstFile(w).blocks = wk[w].hashed
        BY <1>1, <2>4, <3>1 DEF Copying
    <3> QED BY <1>8, <1>13, <3>2 DEF blocks
  <2>12. wk[w].op.kind = "copy" /\ Calm(from, Key(w)) => Prefix(blocks, source.blocks)
    <3>1. SUFFICES ASSUME wk[w].op.kind = "copy", Calm(from, Key(w))
                   PROVE  Prefix(blocks, source.blocks)
        OBVIOUS
    <3>2. SrcFile(w) = source /\ source # Absent
        BY <1>1, <1>2, <2>4, <3>1, CalmSource DEF Opened
    <3>3. Source(w) = source.blocks
        BY <3>1, <3>2 DEF Source
    <3>4. Prefix(DstFile(w).blocks, source.blocks) /\ Len(DstFile(w).blocks) = wk[w].written
        BY <1>1, <2>3, <2>4, <3>1 DEF Copying
    <3>5. Prefix(Append(DstFile(w).blocks, source.blocks[Len(DstFile(w).blocks) + 1]),
                 source.blocks)
        BY <1>5, <1>6, <1>7, <3>3, <3>4, PrefixAppend DEF Blocks
    <3> QED BY <3>3, <3>4, <3>5 DEF block, blocks
  <2>13. HasCopy(wk[w].op.from, Key(w), DstFile(w).blocks)'
      BY <1>1, <1>9, <1>13, <2>1, <2>7, <2>8 DEF HasCopy
  <2>14. Copying(w)'
      BY <1>1, <1>9, <1>13, <2>1, <2>3, <2>7, <2>9, <2>10, <2>11, <2>12, <2>13 DEF Copying
  <2> QED BY <1>13, <2>2, <2>5, <2>14 DEF OnCourse
<1> QED BY <1>1, <1>14, <1>15, <1>16, <1>17, WorkerStep

LEMMA FallBackInv == ASSUME IInv, NEW w \in Workers, FallBack(w) PROVE IInv'
<1> DEFINE st == [wk[w] EXCEPT !.pc = "open", !.plain = TRUE]
           from == wk[w].op.from
<1>1. /\ running /\ wk[w].pc = "copy" /\ ~wk[w].plain
      /\ Write(w, Absent) /\ wk' = [wk EXCEPT ![w] = st]
      /\ UNCHANGED <<scenario, plan, running, failures, outcome, snap, reported, ignored,
                     edited>>
    BY DEF FallBack, At, runVars
<1>2. /\ TypeOK /\ AtWork(w) /\ OnCourse(w) /\ Busy(w)
      /\ wk[w].op.kind \in {"copy", "batch", "delete"}
    BY <1>1, WorkerFacts DEF Busy
<1>3. wk[w].op.kind = "copy"
    BY <1>1, <1>2 DEF AtWork
<1>4. wk[w] \in WorkerStates /\ <<from, Key(w)>> \in JobsIn(wk[w].op)
    BY <1>2, AtWorkTypes
<1>5. /\ now' = now + 1 /\ now' \in Nat /\ IsTrees(fs', now') /\ IsTrees(snap, now')
      /\ WritesOnly(<<from, Key(w)>>)
    BY <1>1, <1>2, WriteEffect
<1>6. st \in WorkerStates
    BY <1>4 DEF WorkerStates
<1>7. /\ wk' \in [Workers -> WorkerStates] /\ wk'[w] = st
      /\ \A v \in Workers \ {w} : wk'[v] = wk[v]
    BY <1>1, <1>2, <1>6, NewState
<1>8. /\ wk'[w].pc = "open" /\ wk'[w].op = wk[w].op /\ wk'[w].entry = wk[w].entry
    BY <1>4, <1>7 DEF WorkerStates
<1> HIDE DEF st
<1>9. TypeOK'
    BY <1>1, <1>2, <1>5, <1>7 DEF TypeOK
<1>10. StepOf(w) /\ LosesNothing(w)
  <2>1. Busy(w) /\ Busy(w)'
      BY <1>2, <1>8 DEF Busy
  <2>2. WritesOwn(w)
      BY <1>4, <1>5 DEF WritesOwn
  <2>3. StepOf(w)
      BY <1>1, <1>7, <1>8, <2>1, <2>2 DEF StepOf
  <2> QED BY <2>1, <2>3 DEF LosesNothing
<1>11. AtWork(w)'
    BY <1>1, <1>2, <1>3, <1>8 DEF AtWork
<1>12. OnCourse(w)'
  <2>1. EntriesDone(w)' /\ FromSnap(wk[w].op)'
      BY <1>1, <1>2, <1>5, <1>8, EntriesKept
  <2>2. Opened(w)' /\ Copying(w)'
      BY <1>8 DEF Opened, Copying
  <2> QED BY <1>8, <2>1, <2>2 DEF OnCourse
<1> QED BY <1>1, <1>9, <1>10, <1>11, <1>12, WorkerStep

-----------------------------------------------------------------------------
(* The ends of tasks.                                                      *)

LEMMA IdleState ==
    ASSUME TypeOK, NEW w \in Workers, Finish(w)
    PROVE  /\ wk' \in [Workers -> WorkerStates] /\ ~Busy(w)'
           /\ \A v \in Workers \ {w} : wk'[v] = wk[v]
<1>1. Idle \in WorkerStates
  <2>1. <<>> \in Blocks
      BY EmptySeq DEF Blocks
  <2> QED BY <2>1 DEF Idle, WorkerStates
<1>2. wk' = [wk EXCEPT ![w] = Idle] /\ Idle.pc = "idle"
    BY DEF Finish, Idle
<1> QED BY <1>1, <1>2, NewState DEF Busy

(* A one-way run changes nothing at the source.                            *)
LEMMA OneWayCalm ==
    ASSUME OneWay, ~edited, NEW k
    PROVE  Calm("src", k)
BY DEF OneWay, Calm, Jobs, JobsOf, Other

(* The file that has just been written to its end.                         *)
LEMMA EntryDone ==
    ASSUME IInv, NEW w \in Workers, AllWritten(w), Ours(DstSide(w))
    PROVE  LET op     == wk[w].op
               source == snap[op.from][Key(w)]
           IN  /\ DstFile(w) # Absent
               /\ op.kind = "batch" => HasCopy(op.from, Key(w), op.members[wk[w].entry])
               /\ op.kind = "copy" /\ Calm(op.from, Key(w)) =>
                     source # Absent /\ HasCopy(op.from, Key(w), source.blocks)
               /\ op.kind = "copy" /\ (wk[w].plain \/ Calm(op.from, Key(w))) =>
                     DstFile(w).blocks = HashOf(w)
<1> DEFINE op == wk[w].op
           source == snap[op.from][Key(w)]
           member == op.members[wk[w].entry]
<1>1. wk[w].pc = "copy" /\ Busy(w)
    BY DEF AllWritten, At, Busy
<1>2. /\ TypeOK /\ AtWork(w) /\ Opened(w) /\ Copying(w)
      /\ wk[w].written \in Nat /\ wk[w].hashed \in Blocks /\ Len(wk[w].hashed) \in Nat
      /\ wk[w].plain \in BOOLEAN /\ wk[w].size \in Nat
  <2>1. wk[w].hashed \in Blocks => Len(wk[w].hashed) \in Nat
      BY LenProperties DEF Blocks
  <2> QED BY <1>1, <2>1, WorkerFacts DEF OnCourse
<1>3. /\ op.from \in Sides /\ Key(w) \in Keys /\ DstSide(w) \in Sides
      /\ op.members \in Seq(Blocks) /\ wk[w].entry \in 1..Len(op.keys)
    BY <1>2, AtWorkTypes
<1>4. /\ HasCopy(op.from, Key(w), DstFile(w).blocks)
      /\ Len(DstFile(w).blocks) = wk[w].written
      /\ wk[w].plain => DstFile(w).blocks = wk[w].hashed
    BY <1>1, <1>2 DEF Copying
<1>5. DstFile(w) # Absent /\ DstFile(w).blocks \in Blocks
  <2>1. DstFile(w) # Absent
      BY <1>4 DEF HasCopy, DstFile, DstSide
  <2> QED BY <1>2, <1>3, <2>1, FileTypes DEF DstFile, TypeOK
<1>6. ASSUME op.kind = "batch" PROVE HasCopy(op.from, Key(w), member)
  <2>1. wk[w].plain /\ member \in Blocks
      BY <1>2, <1>3, <1>6, ElementOfSeq DEF AtWork
  <2>2. Len(member) \in Nat /\ ~(wk[w].written < Len(member))
      BY <1>6, <2>1, LenProperties DEF AllWritten, MoreToRead, Source, Blocks
  <2>3. Prefix(wk[w].hashed, member) /\ Len(wk[w].hashed) = wk[w].written
      BY <1>1, <1>2, <1>6, <2>1 DEF Copying
  <2>4. wk[w].hashed = member
      BY <1>2, <2>1, <2>2, <2>3, PrefixFull DEF Blocks
  <2> QED BY <1>4, <2>1, <2>4
<1>7. ASSUME op.kind = "copy", Calm(op.from, Key(w))
      PROVE  /\ source # Absent /\ DstFile(w).blocks = source.blocks
             /\ Source(w) = source.blocks
  <2>1. source # Absent /\ (~wk[w].plain => wk[w].size = Len(source.blocks))
      BY <1>1, <1>2, <1>7 DEF Opened
  <2>2. source.blocks \in Blocks /\ Len(source.blocks) \in Nat
      BY <1>2, <1>3, <2>1, FileTypes DEF TypeOK
  <2>3. Source(w) = source.blocks
      BY <1>2, <1>7, <2>1, CalmSource DEF Source
  <2>4. wk[w].written >= Len(source.blocks)
      BY <1>2, <2>1, <2>2, <2>3 DEF AllWritten, MoreToRead
  <2>5. Prefix(DstFile(w).blocks, source.blocks)
      BY <1>1, <1>2, <1>7 DEF Copying
  <2>6. DstFile(w).blocks = source.blocks
      BY <1>4, <1>5, <2>2, <2>4, <2>5, PrefixFull DEF Blocks
  <2> QED BY <2>1, <2>3, <2>6
<1> QED BY <1>4, <1>5, <1>6, <1>7 DEF HashOf

(* A finished batch, all of it.                                            *)
LEMMA BatchDone ==
    ASSUME IInv, NEW w \in Workers, AllWritten(w), Ours(DstSide(w)),
           wk[w].op.kind = "batch", NEW i \in 1..wk[w].entry
    PROVE  HasCopy(wk[w].op.from, wk[w].op.keys[i], wk[w].op.members[i])
<1>1. Busy(w)
    BY DEF AllWritten, At, Busy
<1>2. EntriesDone(w) /\ wk[w].entry \in 1..Len(wk[w].op.keys) /\ Len(wk[w].op.keys) \in Nat
    BY <1>1, WorkerFacts, AtWorkTypes DEF OnCourse
<1>3. CASE i = wk[w].entry
    BY <1>3, EntryDone DEF Key
<1>4. CASE i # wk[w].entry
  <2>1. i \in 1..(wk[w].entry - 1)
      BY <1>2, <1>4
  <2> QED BY <1>2, <2>1 DEF EntriesDone
<1> QED BY <1>3, <1>4

LEMMA SourceTypes ==
    ASSUME IInv, NEW w \in Workers, Busy(w), wk[w].op.kind = "copy"
    PROVE  HashOf(w) \in Blocks
<1>1. TypeOK /\ AtWork(w) /\ wk[w].hashed \in Blocks
    BY WorkerFacts
<1>2. wk[w].op.from \in Sides /\ Key(w) \in Keys
    BY <1>1, AtWorkTypes
<1>3. <<>> \in Blocks
    BY EmptySeq DEF Blocks
<1>4. SrcFile(w) # Absent => SrcFile(w).blocks \in Blocks
    BY <1>1, <1>2, FileTypes DEF SrcFile, TypeOK
<1> QED BY <1>1, <1>3, <1>4 DEF HashOf, Source

LEMMA ReportsOwn ==
    ASSUME IInv, NEW w \in Workers, Busy(w), wk[w].op.kind \in {"copy", "batch"}
    PROVE  /\ Reports(w) \subseteq Hashes
           /\ \A r \in Reports(w) : JobOf(r) \in JobsIn(wk[w].op)
<1> DEFINE op == wk[w].op
<1>1. AtWork(w) /\ TypeOK /\ wk[w].plain \in BOOLEAN
    BY WorkerFacts
<1>2. /\ op.from \in Sides /\ Key(w) \in Keys /\ DstSide(w) \in Sides
      /\ op.members \in Seq(Blocks) /\ wk[w].entry \in 1..Len(op.keys)
      /\ op.keys \in Seq(Keys) /\ <<op.from, Key(w)>> \in JobsIn(op)
      /\ Other(DstSide(w)) = op.from
    BY <1>1, AtWorkTypes, OtherSide DEF DstSide
<1>3. CASE op.kind = "batch"
  <2> DEFINE report(i) == [side |-> DstSide(w), key |-> op.keys[i],
                           hash |-> op.members[i], reread |-> FALSE]
  <2>1. Reports(w) = {report(i) : i \in 1..Len(op.keys)}
      BY <1>2, <1>3 DEF Reports
  <2>2. ASSUME NEW i \in 1..Len(op.keys)
        PROVE  report(i) \in Hashes /\ JobOf(report(i)) \in JobsIn(op)
    <3>1. op.keys[i] \in Keys
        BY <1>2, ElementOfSeq
    <3>2. op.members[i] \in Blocks
        BY <1>1, <1>2, <1>3, ElementOfSeq DEF AtWork
    <3>3. JobOf(report(i)) = <<op.from, op.keys[i]>>
        BY <1>2 DEF JobOf
    <3> QED BY <1>2, <3>1, <3>2, <3>3 DEF Hashes, JobsIn
  <2> HIDE DEF report
  <2> QED BY <2>1, <2>2
<1>4. CASE op.kind = "copy"
  <2>1. HashOf(w) \in Blocks
      BY <1>4, SourceTypes
  <2> QED BY <1>1, <1>2, <1>4, <2>1 DEF Reports, JobOf, Hashes
<1> QED BY <1>3, <1>4

(* The hashes are true, and a run without failures has done the task.      *)
LEMMA TaskDone ==
    ASSUME IInv, NEW w \in Workers, AllWritten(w), LastEntry(w), UNCHANGED <<scenario, fs, snap, edited>>
    PROVE  /\ \A r \in Reports(w) : TrueHash(r)'
           /\ \A from \in Sides, k \in Keys :
                 <<from, k>> \in JobsIn(wk[w].op) /\ Calm(from, k) => Settled(from, k)'
<1> DEFINE op == wk[w].op
<1>1. Busy(w) /\ wk[w].pc = "copy"
    BY DEF AllWritten, At, Busy
<1>2. /\ TypeOK /\ AtWork(w) /\ OnCourse(w) /\ op.kind \in {"copy", "batch"} /\ IsOp(op)
      /\ wk[w].plain \in BOOLEAN
    BY <1>1, WorkerFacts DEF AtWork
<1>3. /\ op.from \in Sides /\ Key(w) \in Keys /\ DstSide(w) \in Sides
      /\ wk[w].entry = Len(op.keys) /\ Len(op.keys) \in Nat /\ op.keys \in Seq(Keys)
      /\ Other(DstSide(w)) = op.from /\ DstSide(w) = Other(op.from)
    BY <1>2, AtWorkTypes, OtherSide DEF DstSide, LastEntry
<1>4. UNCHANGED <<Jobs, EditedSides>>
    BY DEF Jobs, JobsOf, Mode, This, EditedSides
<1>5. ASSUME Ours(DstSide(w)), op.kind = "batch", NEW i \in 1..Len(op.keys)
      PROVE  HasCopy(op.from, op.keys[i], op.members[i])
    BY <1>3, <1>5, BatchDone
<1>6. ASSUME NEW r \in Reports(w), Ours(r.side), r.reread => Calm(Other(r.side), r.key)
      PROVE  fs[r.side][r.key] # Absent /\ fs[r.side][r.key].blocks = r.hash
  <2>1. CASE op.kind = "batch"
    <3>1. PICK i \in DOMAIN op.keys :
              r = [side |-> DstSide(w), key |-> op.keys[i], hash |-> op.members[i],
                   reread |-> FALSE]
        BY <2>1 DEF Reports
    <3>2. i \in 1..Len(op.keys) /\ r.side = DstSide(w) /\ r.key = op.keys[i]
          /\ r.hash = op.members[i]
        BY <1>3, <3>1
    <3>3. HasCopy(op.from, op.keys[i], op.members[i])
        BY <1>5, <1>6, <2>1, <3>2
    <3> QED BY <1>3, <3>2, <3>3 DEF HasCopy
  <2>2. CASE op.kind = "copy"
    <3>1. r = [side |-> DstSide(w), key |-> Key(w), hash |-> HashOf(w),
               reread |-> ~wk[w].plain]
        BY <2>2 DEF Reports
    <3>2. r.side = DstSide(w) /\ r.key = Key(w) /\ r.hash = HashOf(w)
          /\ r.reread = ~wk[w].plain
        BY <3>1
    <3>3. wk[w].plain \/ Calm(op.from, Key(w))
        BY <1>2, <1>3, <1>6, <3>2
    <3> QED BY <1>6, <2>2, <3>2, <3>3, EntryDone DEF DstFile
  <2> QED BY <1>2, <2>1, <2>2
<1>7. \A r \in Reports(w) : TrueHash(r)'
    BY <1>4, <1>6 DEF TrueHash, Ours, Calm
<1>8. ASSUME NEW from \in Sides, NEW k \in Keys, <<from, k>> \in JobsIn(op), Calm(from, k)
      PROVE  Settled(from, k)
  <2>1. Ours(DstSide(w))
      BY <1>8 DEF Ours, Calm
  <2>2. PICK i \in 1..Len(op.keys) : op.from = from /\ op.keys[i] = k
      BY <1>8 DEF JobsIn
  <2>3. CASE op.kind = "batch"
    <3>1. HasCopy(from, k, op.members[i])
        BY <1>5, <2>1, <2>2, <2>3
    <3>2. snap[from][k] # Absent /\ op.members[i] = snap[from][k].blocks
        BY <1>2, <1>8, <2>2, <2>3 DEF OnCourse, FromSnap, AtWork
    <3> QED BY <3>1, <3>2 DEF Settled
  <2>4. CASE op.kind = "copy"
    <3>1. Key(w) = k
        BY <1>2, <1>3, <2>2, <2>4 DEF IsOp, Key
    <3> QED BY <1>8, <2>1, <2>2, <2>4, <3>1, EntryDone DEF Settled
  <2> QED BY <1>2, <2>3, <2>4
<1>9. \A from, k : Settled(from, k)' = Settled(from, k)
    BY DEF Settled, HasCopy
<1> QED BY <1>7, <1>8, <1>9

LEMMA CopyDoneInv == ASSUME IInv, NEW w \in Workers, CopyDone(w) PROVE IInv'
<1> DEFINE op == wk[w].op
           st == [wk[w] EXCEPT !.pc = "create", !.entry = wk[w].entry + 1]
<1>1. /\ AllWritten(w) /\ running /\ wk[w].pc = "copy" /\ Busy(w)
      /\ UNCHANGED <<scenario, fs, now, plan, running, failures, outcome, snap, ignored,
                     edited>>
    BY DEF CopyDone, AllWritten, At, Busy
<1>2. /\ TypeOK /\ AtWork(w) /\ OnCourse(w) /\ IsOp(op) /\ op.kind \in {"copy", "batch"}
    BY <1>1, WorkerFacts DEF AtWork
<1>3. /\ wk[w] \in WorkerStates /\ wk[w].entry \in 1..Len(op.keys) /\ Len(op.keys) \in Nat
      /\ wk[w].entry + 1 \in Nat
  <2>1. /\ wk[w] \in WorkerStates /\ wk[w].entry \in 1..Len(op.keys)
        /\ Len(op.keys) \in Nat
      BY <1>2, AtWorkTypes
  <2> QED BY <2>1
<1>4. WritesOwn(w) /\ UNCHANGED <<Jobs, EditedSides>>
    BY <1>1, <1>2, NothingWritten DEF Jobs, JobsOf, Mode, This, EditedSides
<1>5. CASE LastEntry(w)
  <2>1. Finish(w) /\ reported' = reported \cup Reports(w)
      BY <1>5 DEF CopyDone
  <2>2. /\ wk' \in [Workers -> WorkerStates] /\ ~Busy(w)'
        /\ \A v \in Workers \ {w} : wk'[v] = wk[v]
      BY <1>2, <2>1, IdleState
  <2>3. /\ Reports(w) \subseteq Hashes
        /\ \A r \in Reports(w) : JobOf(r) \in JobsIn(wk[w].op)
      BY <1>1, <1>2, ReportsOwn
  <2>4. TypeOK'
      BY <1>1, <1>2, <2>1, <2>2, <2>3 DEF TypeOK
  <2>5. StepOf(w)
      BY <1>1, <1>4, <2>1, <2>2, <2>3 DEF StepOf
  <2>6. /\ \A r \in Reports(w) : TrueHash(r)'
        /\ \A from \in Sides, k \in Keys :
              <<from, k>> \in JobsIn(wk[w].op) /\ Calm(from, k) => Settled(from, k)'
      BY <1>1, <1>5, TaskDone
  <2>7. LosesNothing(w)
      BY <2>6 DEF LosesNothing
  <2> QED BY <2>1, <2>2, <2>4, <2>5, <2>6, <2>7, WorkerStep
<1>6. CASE ~LastEntry(w)
  <2>1. wk' = [wk EXCEPT ![w] = st] /\ reported' = reported
      BY <1>6 DEF CopyDone
  <2>2. st \in WorkerStates
      BY <1>3 DEF WorkerStates
  <2>3. /\ wk' \in [Workers -> WorkerStates] /\ wk'[w] = st
        /\ \A v \in Workers \ {w} : wk'[v] = wk[v]
      BY <1>2, <2>1, <2>2, NewState
  <2>4. /\ wk'[w].pc = "create" /\ wk'[w].op = wk[w].op /\ wk'[w].plain = wk[w].plain
        /\ wk'[w].entry = wk[w].entry + 1
      BY <1>3, <2>3 DEF WorkerStates
  <2> HIDE DEF st
  <2>5. TypeOK'
      BY <1>1, <1>2, <2>1, <2>3 DEF TypeOK
  <2>6. Busy(w)'
      BY <2>4 DEF Busy
  <2>7. StepOf(w)
      BY <1>1, <1>4, <2>1, <2>3, <2>4, <2>6 DEF StepOf
  <2>8. op.kind = "batch" /\ wk[w].entry + 1 \in 1..Len(op.keys)
    <3>1. wk[w].entry # Len(op.keys)
        BY <1>6 DEF LastEntry
    <3>2. \A n \in Nat : \A e \in 1..n : e # n => n # 1 /\ e + 1 \in 1..n
        OBVIOUS
    <3>3. Len(op.keys) # 1 /\ wk[w].entry + 1 \in 1..Len(op.keys)
        BY <1>3, <3>1, <3>2
    <3> QED BY <1>2, <3>3 DEF IsOp
  <2>9. AtWork(w)'
      BY <1>1, <1>2, <2>4, <2>8 DEF AtWork
  <2>10. OnCourse(w)'
    <3>1. FromSnap(op)'
        BY <1>1, <1>2, <1>4, <2>4 DEF OnCourse, FromSnap, Calm
    <3>2. EntriesDone(w)'
      <4>1. Ours(DstSide(w))' = Ours(DstSide(w))
          BY <1>1, <1>4, <2>4 DEF Ours, DstSide
      <4>2. ASSUME Ours(DstSide(w)), NEW i \in 1..((wk[w].entry + 1) - 1)
            PROVE  HasCopy(op.from, op.keys[i], op.members[i])'
        <5>1. i \in 1..wk[w].entry
            BY <1>3
        <5>2. HasCopy(op.from, op.keys[i], op.members[i])
            BY <1>1, <2>8, <4>2, <5>1, BatchDone
        <5> QED BY <1>1, <2>4, <5>2 DEF HasCopy
      <4> QED BY <2>4, <4>1, <4>2 DEF EntriesDone
    <3>3. Opened(w)' /\ Copying(w)'
        BY <2>4, <2>8 DEF Opened, Copying
    <3> QED BY <2>4, <3>1, <3>2, <3>3 DEF OnCourse
  <2>11. LosesNothing(w)
      BY <2>6 DEF LosesNothing
  <2> QED BY <2>1, <2>5, <2>7, <2>9, <2>10, <2>11, <1>1, WorkerStep
<1> QED BY <1>5, <1>6

LEMMA DeleteInv == ASSUME IInv, NEW w \in Workers, Delete(w) PROVE IInv'
<1> DEFINE op == wk[w].op
<1>1. /\ running /\ wk[w].pc = "delete" /\ Busy(w) /\ Write(w, Absent) /\ Finish(w)
      /\ UNCHANGED <<scenario, plan, running, failures, outcome, snap, reported, ignored,
                     edited>>
    BY DEF Delete, At, runVars, Busy
<1>2. /\ TypeOK /\ AtWork(w) /\ IsOp(op) /\ op.kind = "delete" /\ FromSnap(op)
    BY <1>1, WorkerFacts DEF AtWork, OnCourse
<1>3. /\ wk[w].entry \in 1..Len(op.keys) /\ op.from = "src" /\ Len(op.keys) = 1
      /\ <<op.from, Key(w)>> \in JobsIn(op)
    BY <1>2, AtWorkTypes DEF IsOp
<1>4. Key(w) = op.keys[1] /\ DstSide(w) = "dst"
    BY <1>3 DEF Key, DstSide, Other
<1>5. /\ now' \in Nat /\ IsTrees(fs', now') /\ IsTrees(snap, now')
      /\ fs'["dst"][Key(w)] = Absent /\ WritesOnly(<<op.from, Key(w)>>)
    BY <1>1, <1>2, <1>4, WriteEffect
<1>6. /\ wk' \in [Workers -> WorkerStates] /\ ~Busy(w)'
      /\ \A v \in Workers \ {w} : wk'[v] = wk[v]
    BY <1>1, <1>2, IdleState
<1>7. TypeOK'
    BY <1>1, <1>2, <1>5, <1>6 DEF TypeOK
<1>8. StepOf(w)
  <2>1. WritesOwn(w)
      BY <1>3, <1>5 DEF WritesOwn
  <2> QED BY <1>1, <1>6, <2>1 DEF StepOf
<1>9. ASSUME NEW from \in Sides, NEW k \in Keys, <<from, k>> \in JobsIn(op)
      PROVE  Settled(from, k)'
  <2>1. k = Key(w) /\ from = "src"
      BY <1>3, <1>4, <1>9 DEF JobsIn
  <2>2. snap["src"][k] = Absent /\ Other("src") = "dst"
      BY <1>2, <1>4, <2>1 DEF FromSnap, Other
  <2> QED BY <1>1, <1>5, <2>1, <2>2 DEF Settled
<1>10. LosesNothing(w)
    BY <1>9 DEF LosesNothing
<1> QED BY <1>1, <1>6, <1>7, <1>8, <1>10, WorkerStep

LEMMA TaskFailsInv == ASSUME IInv, NEW w \in Workers, TaskFails(w) PROVE IInv'
<1>1. /\ running /\ Busy(w) /\ Finish(w) /\ failures' = failures + 1
      /\ UNCHANGED <<scenario, fs, now, plan, running, outcome, snap, reported, ignored,
                     edited>>
    BY DEF TaskFails, Busy
<1>2. TypeOK /\ AtWork(w) /\ failures \in Nat
    BY <1>1, WorkerFacts DEF TypeOK
<1>3. /\ wk' \in [Workers -> WorkerStates] /\ ~Busy(w)'
      /\ \A v \in Workers \ {w} : wk'[v] = wk[v]
    BY <1>1, <1>2, IdleState
<1>4. failures' \in Nat /\ failures' # 0
    BY <1>1, <1>2
<1>5. TypeOK'
    BY <1>1, <1>2, <1>3, <1>4 DEF TypeOK
<1>6. StepOf(w)
  <2>1. WritesOwn(w)
      BY <1>1, <1>2, NothingWritten
  <2> QED BY <1>1, <1>3, <1>4, <2>1 DEF StepOf
<1>7. LosesNothing(w)
    BY <1>1, <1>4 DEF LosesNothing, Sound
<1> QED BY <1>1, <1>3, <1>5, <1>6, <1>7, WorkerStep

(* A lost write is a failure or an ignored error, so no more is promised.  *)
LEMMA WriteLostInv == ASSUME IInv, NEW w \in Workers, WriteLost(w) PROVE IInv'
<1> DEFINE op == wk[w].op
           blocks == Front(DstFile(w).blocks)
           file == [blocks |-> blocks, mtime |-> now + 1]
<1>1. /\ running /\ wk[w].pc = "copy" /\ Busy(w) /\ AllWritten(w) /\ Finish(w)
      /\ DstFile(w) # Absent /\ DstFile(w).blocks # <<>> /\ Write(w, file)
      /\ UNCHANGED <<scenario, plan, running, outcome, snap, edited>>
      /\ IF CloseReported(w)
         THEN failures' = failures + 1 /\ UNCHANGED <<reported, ignored>>
         ELSE /\ ignored' = wk[w].plain
              /\ reported' = reported \cup Reports(w)
              /\ UNCHANGED failures
    BY DEF WriteLost, AllWritten, At, Busy
<1>2. /\ TypeOK /\ AtWork(w) /\ op.kind \in {"copy", "batch"} /\ wk[w].plain \in BOOLEAN
      /\ failures \in Nat /\ now \in Nat
    BY <1>1, WorkerFacts DEF AtWork, TypeOK
<1>3. /\ <<op.from, Key(w)>> \in JobsIn(op) /\ DstSide(w) \in Sides /\ Key(w) \in Keys
    BY <1>2, AtWorkTypes
<1>4. file \in Files /\ file # Absent /\ file.mtime = now + 1
  <2>1. DstFile(w).blocks \in Blocks /\ Len(DstFile(w).blocks) \in Nat
      BY <1>1, <1>2, <1>3, FileTypes DEF DstFile, TypeOK
  <2>2. blocks \in Blocks
    <3>1. \A i \in 1..(Len(DstFile(w).blocks) - 1) : DstFile(w).blocks[i] \in Versions
        BY <2>1, ElementOfSeq DEF Blocks
    <3> QED BY <2>1, <3>1, SubSeqProperties DEF Blocks, Front
  <2>3. now + 1 \in Nat
      BY <1>2
  <2> HIDE DEF blocks
  <2> QED BY <2>2, <2>3, FileIsNotAbsent
<1> HIDE DEF file
<1>5. /\ now' \in Nat /\ IsTrees(fs', now') /\ IsTrees(snap, now')
      /\ WritesOnly(<<op.from, Key(w)>>)
    BY <1>1, <1>2, <1>4, WriteEffect
<1>6. /\ wk' \in [Workers -> WorkerStates] /\ ~Busy(w)'
      /\ \A v \in Workers \ {w} : wk'[v] = wk[v]
    BY <1>1, <1>2, IdleState
<1>7. /\ Reports(w) \subseteq Hashes
      /\ \A r \in Reports(w) : JobOf(r) \in JobsIn(wk[w].op)
    BY <1>1, <1>2, ReportsOwn
<1>8. WritesOwn(w)
    BY <1>3, <1>5 DEF WritesOwn
<1>9. CASE CloseReported(w)
  <2>1. failures' \in Nat /\ failures' # 0 /\ reported' = reported /\ ignored' = ignored
      BY <1>1, <1>2, <1>9
  <2>2. TypeOK'
      BY <1>1, <1>2, <1>5, <1>6, <2>1 DEF TypeOK
  <2>3. StepOf(w)
      BY <1>1, <1>6, <1>8, <2>1 DEF StepOf
  <2>4. LosesNothing(w)
      BY <1>1, <2>1 DEF LosesNothing, Sound
  <2> QED BY <1>6, <2>1, <2>2, <2>3, <2>4, WorkerStep
<1>10. CASE ~CloseReported(w)
  <2>1. ignored' = TRUE /\ failures' = failures /\ reported' = reported \cup Reports(w)
      BY <1>1, <1>2, <1>10 DEF CloseReported
  <2>2. TypeOK'
      BY <1>1, <1>2, <1>5, <1>6, <1>7, <2>1 DEF TypeOK
  <2>3. StepOf(w)
      BY <1>1, <1>6, <1>7, <1>8, <2>1 DEF StepOf
  <2>4. LosesNothing(w)
      BY <2>1 DEF LosesNothing, Sound
  <2> QED BY <1>6, <2>1, <2>2, <2>3, <2>4, WorkerStep
<1> QED BY <1>9, <1>10

-----------------------------------------------------------------------------
(* The steps that leave the files alone.                                   *)

LEMMA FilesAlone ==
    ASSUME IInv, UNCHANGED <<scenario, fs, snap, reported, ignored, edited>>
    PROVE  /\ Kept' /\ Truthful' /\ UNCHANGED <<Jobs, This>>
           /\ \A side, k : Calm(side, k)' = Calm(side, k)
           /\ \A op : FromSnap(op) => FromSnap(op)'
<1>1. UNCHANGED <<Jobs, This, EditedSides>>
    BY DEF Jobs, JobsOf, Mode, This, EditedSides
<1>2. \A side, k : Calm(side, k)' = Calm(side, k)
    BY <1>1 DEF Calm
<1>3. Kept'
    BY <1>2 DEF IInv, Kept
<1>4. Truthful'
    BY <1>1, <1>2 DEF IInv, Truthful, TrueHash, Ours
<1>5. ASSUME NEW op, FromSnap(op) PROVE FromSnap(op)'
    BY <1>2, <1>5 DEF FromSnap
<1> QED BY <1>1, <1>2, <1>3, <1>4, <1>5

LEMMA ReceiveInv == ASSUME IInv, NEW w \in Workers, Receive(w) PROVE IInv'
<1> DEFINE op == Head(plan)
           n == Len(plan)
           st == [Idle EXCEPT !.op = op, !.entry = 1, !.pc = FirstStep(op),
                              !.plain = (op.kind = "batch" \/ This.zeroCopy = "no")]
<1>1. /\ running /\ ~Busy(w) /\ plan # <<>> /\ Ready(op)
      /\ plan' = Tail(plan) /\ wk' = [wk EXCEPT ![w] = st]
      /\ UNCHANGED <<scenario, fs, now, running, failures, outcome, snap, reported, ignored,
                     edited>>
    BY DEF Receive, At, runVars, Busy
<1>2. TypeOK /\ Shape /\ Once /\ Progress
    BY DEF IInv
<1>3. /\ n \in Nat /\ n >= 1 /\ 1 \in 1..n /\ op = plan[1]
      /\ plan' \in Seq(Ops) /\ Len(plan') = n - 1
      /\ \A i \in 1..(n - 1) : i + 1 \in 1..n /\ i + 1 # 1 /\ plan'[i] = plan[i + 1]
  <2>1. plan \in Seq(Ops)
      BY <1>2 DEF TypeOK
  <2>2. n \in Nat /\ n # 0 /\ op = plan[1]
      BY <1>1, <2>1, LenProperties, EmptySeq
  <2>3. plan' \in Seq(Ops) /\ Len(plan') = n - 1 /\ \A i \in 1..Len(plan') : plan'[i] = plan[i + 1]
      BY <1>1, <2>1, HeadTailProperties
  <2> HIDE DEF n
  <2> QED BY <2>2, <2>3
<1> HIDE DEF n, op
<1>4. /\ IsOp(op) /\ OpIsOurs(op) /\ FromSnap(op)
      /\ \A i \in 1..(n - 1) :
            /\ IsOp(plan'[i]) /\ OpIsOurs(plan'[i]) /\ FromSnap(plan'[i])
            /\ Apart(op, plan'[i])
    BY <1>2, <1>3 DEF Shape, Once, Progress, n
<1>5. /\ op \in Ops /\ op.kind \in {"copy", "batch", "delete"}
      /\ op.keys \in Seq(Keys) /\ Len(op.keys) \in Nat /\ Len(op.keys) >= 1
    BY <1>4, LenProperties DEF IsOp, Ops
<1>6. /\ st \in WorkerStates /\ st.pc = FirstStep(op) /\ st.op = op /\ st.entry = 1
      /\ op.kind = "batch" => st.plain
  <2>1. FirstStep(op) \in {"open", "create", "delete"}
      BY <1>5 DEF FirstStep
  <2>2. <<>> \in Blocks
      BY EmptySeq DEF Blocks
  <2> QED BY <1>5, <2>1, <2>2 DEF Idle, WorkerStates
<1>7. /\ wk' \in [Workers -> WorkerStates] /\ wk'[w] = st
      /\ \A v \in Workers \ {w} : wk'[v] = wk[v]
    BY <1>1, <1>2, <1>6, NewState
<1> HIDE DEF st
<1>8. /\ wk'[w].pc = FirstStep(op) /\ wk'[w].op = op /\ wk'[w].entry = 1
      /\ op.kind = "batch" => wk'[w].plain
    BY <1>6, <1>7
<1>9. \A v \in Workers : Busy(v)' => v = w \/ (Busy(v) /\ wk'[v] = wk[v])
    BY <1>7 DEF Busy
<1>10. Busy(w)' /\ (\A v \in Workers : Busy(v) => v # w /\ Busy(v)' /\ wk'[v] = wk[v])
    BY <1>1, <1>5, <1>7, <1>8 DEF Busy, FirstStep
<1>11. TypeOK'
    BY <1>1, <1>2, <1>3, <1>7 DEF TypeOK
<1>12. /\ Kept' /\ Truthful' /\ UNCHANGED <<Jobs, This>>
       /\ \A side, k : Calm(side, k)' = Calm(side, k)
       /\ \A o : FromSnap(o) => FromSnap(o)'
    BY <1>1, FilesAlone
<1>13. Shape'
  <2>1. AtWork(w)'
    <3>1. op.kind = "batch" => Len(op.members) = Len(op.keys)
        BY <1>1 DEF Ready
    <3> QED BY <1>1, <1>4, <1>5, <1>8, <3>1 DEF AtWork, FirstStep
  <2>2. ASSUME NEW v \in Workers, Busy(v), wk'[v] = wk[v] PROVE AtWork(v)'
    <3>1. AtWork(v)
        BY <1>2, <2>2 DEF Shape
    <3> QED BY <1>1, <2>2, <3>1 DEF AtWork
  <2>3. running' /\ (edited' => This'.duringRun)
      BY <1>1, <1>2, <1>12 DEF Shape
  <2> QED BY <1>3, <1>4, <1>9, <2>1, <2>2, <2>3 DEF Shape
<1>14. Once'
  <2>1. \A i \in 1..Len(plan)' : OpIsOurs(plan[i])'
      BY <1>3, <1>4, <1>12 DEF OpIsOurs
  <2>2. \A i, j \in 1..(n - 1) : i # j => Apart(plan'[i], plan'[j])
    <3>1. ASSUME NEW i \in 1..(n - 1), NEW j \in 1..(n - 1), i # j
          PROVE  Apart(plan'[i], plan'[j])
      <4>1. i + 1 \in 1..n /\ j + 1 \in 1..n /\ i + 1 # j + 1
          BY <1>3, <3>1
      <4>2. Apart(plan[i + 1], plan[j + 1])
          BY <1>2, <4>1 DEF Once, n
      <4> QED BY <1>3, <4>2
    <3> QED BY <3>1
  <2>3. \A v \in Workers : Busy(v)' => OpIsOurs(wk[v].op)'
    <3>1. \A v \in Workers : Busy(v) => OpIsOurs(wk[v].op)
        BY <1>2 DEF Once
    <3> QED BY <1>4, <1>8, <1>9, <1>12, <3>1 DEF OpIsOurs
  <2>4. \A v \in Workers : Busy(v) => Apart(wk[v].op, op) /\ Apart(op, wk[v].op)
      BY <1>2, <1>3 DEF Once, Apart, n
  <2>5. ASSUME NEW v \in Workers, NEW u \in Workers, Busy(v)', Busy(u)', v # u
        PROVE  Apart(wk'[v].op, wk'[u].op)
    <3>1. CASE v # w /\ u # w
        BY <1>2, <1>9, <2>5, <3>1 DEF Once
    <3>2. CASE v = w \/ u = w
        BY <1>8, <1>9, <2>4, <2>5, <3>2
    <3> QED BY <3>1, <3>2
  <2>6. ASSUME NEW v \in Workers, Busy(v)', NEW i \in 1..(n - 1)
        PROVE  Apart(wk'[v].op, plan'[i])
    <3>1. CASE v = w
        BY <1>4, <1>8, <3>1
    <3>2. CASE v # w
        BY <1>2, <1>3, <1>9, <2>6, <3>2 DEF Once, n
    <3> QED BY <3>1, <3>2
  <2>7. ASSUME NEW r \in reported
        PROVE  /\ JobOf(r) \in Jobs
               /\ \A i \in 1..(n - 1) : JobOf(r) \notin JobsIn(plan'[i])
               /\ \A v \in Workers : Busy(v)' => JobOf(r) \notin JobsIn(wk'[v].op)
    <3>1. /\ JobOf(r) \in Jobs
          /\ \A i \in 1..n : JobOf(r) \notin JobsIn(plan[i])
          /\ \A v \in Workers : Busy(v) => JobOf(r) \notin JobsIn(wk[v].op)
        BY <1>2 DEF Once, n
    <3>2. \A i \in 1..(n - 1) : JobOf(r) \notin JobsIn(plan'[i])
        BY <1>3, <3>1
    <3>3. JobOf(r) \notin JobsIn(op)
        BY <1>3, <3>1
    <3>4. \A v \in Workers : Busy(v)' => JobOf(r) \notin JobsIn(wk'[v].op)
        BY <1>8, <1>9, <3>1, <3>3
    <3> QED BY <3>1, <3>2, <3>4
  <2> QED BY <1>1, <1>3, <1>12, <2>1, <2>2, <2>3, <2>5, <2>6, <2>7 DEF Once
<1>15. Progress'
  <2>1. \A i \in 1..Len(plan)' : FromSnap(plan[i])'
      BY <1>1, <1>3, <1>4, <1>12 DEF FromSnap
  <2>2. OnCourse(w)'
    <3>1. FromSnap(wk[w].op)'
      <4>1. UNCHANGED snap /\ wk'[w].op = op
          BY <1>1, <1>8
      <4>2. \A side, k : Calm(side, k)' = Calm(side, k)
          BY <1>12
      <4> QED BY <1>4, <4>1, <4>2 DEF FromSnap
    <3>2. \A i \in 1..(1 - 1) : FALSE
        OBVIOUS
    <3>3. EntriesDone(w)'
        BY <1>8, <3>2 DEF EntriesDone
    <3>4. Opened(w)' /\ Copying(w)'
        BY <1>8 DEF Opened, Copying, FirstStep
    <3> QED BY <1>4, <1>8, <1>12, <3>1, <3>3, <3>4 DEF OnCourse
  <2>3. ASSUME NEW v \in Workers, Busy(v), wk'[v] = wk[v] PROVE OnCourse(v)'
    <3>1. AtWork(v) /\ OnCourse(v)
        BY <1>2, <2>3 DEF Shape, Progress
    <3>2. LeavesAlone(wk[v].op)
        BY <1>1 DEF LeavesAlone
    <3>3. UNCHANGED <<scenario, snap, edited>>
        BY <1>1
    <3> QED BY <2>3, <3>1, <3>2, <3>3, OthersOnCourse
  <2> QED BY <1>3, <1>9, <2>1, <2>2, <2>3 DEF Progress
<1>16. Accounted'
  <2>1. Sound' => Sound
      BY <1>1, <1>12 DEF Sound
  <2>2. ASSUME NEW job, Waiting(job) PROVE Waiting(job)'
    <3>1. CASE \E v \in Workers : Busy(v) /\ job \in JobsIn(wk[v].op)
        BY <1>10, <3>1 DEF Waiting
    <3>2. CASE \E i \in 1..n : job \in JobsIn(plan[i])
      <4>1. PICK i \in 1..n : job \in JobsIn(plan[i])
          BY <3>2
      <4>2. CASE i = 1
          BY <1>3, <1>8, <1>10, <4>1, <4>2 DEF Waiting
      <4>3. CASE i # 1
        <5>1. i - 1 \in 1..(n - 1) /\ (i - 1) + 1 = i
            BY <1>3, <4>3
        <5>2. plan'[i - 1] = plan[i] /\ i - 1 \in 1..Len(plan')
            BY <1>3, <5>1
        <5> QED BY <4>1, <5>2 DEF Waiting
      <4> QED BY <4>2, <4>3
    <3> QED BY <2>2, <3>1, <3>2 DEF Waiting, n
  <2>3. \A from, k : Settled(from, k)' = Settled(from, k)
      BY <1>1 DEF Settled, HasCopy
  <2> QED BY <1>12, <2>1, <2>2, <2>3 DEF IInv, Accounted
<1> QED BY <1>11, <1>12, <1>13, <1>14, <1>15, <1>16 DEF IInv

(* The next file is added to the archive, or the scan fails.               *)
LEMMA FillInv == ASSUME IInv, Fill PROVE IInv'
<1> DEFINE n == Len(plan)
           op == plan[1]
           m == Len(op.members)
           k == op.keys[m + 1]
           f == fs[op.from][k]
           grown == [op EXCEPT !.members = Append(op.members, f.blocks)]
<1>1. TypeOK /\ Shape /\ Once /\ Progress
    BY DEF IInv
<1>2. /\ running /\ plan # <<>> /\ Head(plan) = op /\ ~Ready(op)
      /\ plan \in Seq(Ops) /\ n \in Nat /\ n # 0 /\ 1 \in 1..n
  <2>1. running /\ plan # <<>> /\ ~Ready(Head(plan)) /\ plan \in Seq(Ops)
      BY <1>1 DEF Fill, TypeOK
  <2>2. n \in Nat /\ n # 0 /\ Head(plan) = op
      BY <2>1, LenProperties, EmptySeq
  <2> HIDE DEF n, op
  <2> QED BY <2>1, <2>2
<1>3. /\ UNCHANGED <<scenario, fs, now, wk, running, outcome, snap, reported, ignored,
                     edited>>
      /\ IF f # Absent /\ Len(f.blocks) = Len(snap[op.from][k].blocks)
         THEN plan' = [plan EXCEPT ![1].members = Append(op.members, f.blocks)]
              /\ failures' = failures
         ELSE plan' = <<>> /\ failures' = failures + 1
    BY <1>2 DEF Fill
<1>4. /\ Kept' /\ Truthful' /\ UNCHANGED <<Jobs, This>>
      /\ \A side, j : Calm(side, j)' = Calm(side, j)
      /\ \A o : FromSnap(o) => FromSnap(o)'
    BY <1>3, FilesAlone
<1>5. ASSUME NEW v \in Workers
      PROVE  /\ Busy(v)' = Busy(v)
             /\ Busy(v) => AtWork(v)' /\ OpIsOurs(wk[v].op)' /\ OnCourse(v)'
  <2>1. Busy(v)' = Busy(v) /\ wk'[v] = wk[v] /\ running' = running
      BY <1>3 DEF Busy
  <2>2. SUFFICES ASSUME Busy(v) PROVE AtWork(v)' /\ OpIsOurs(wk[v].op)' /\ OnCourse(v)'
      BY <2>1
  <2>3. AtWork(v) /\ OpIsOurs(wk[v].op) /\ OnCourse(v)
      BY <1>1, <2>2 DEF Shape, Once, Progress
  <2>4. AtWork(v)'
      BY <2>1, <2>3 DEF AtWork
  <2>5. OpIsOurs(wk[v].op)'
      BY <1>4, <2>1, <2>3 DEF OpIsOurs
  <2>6. UNCHANGED <<scenario, snap, edited>> /\ LeavesAlone(wk[v].op)
      BY <1>3 DEF LeavesAlone
  <2> QED BY <2>1, <2>3, <2>4, <2>5, <2>6, OthersOnCourse
<1>6. CASE f # Absent /\ Len(f.blocks) = Len(snap[op.from][k].blocks)
  <2>1. plan' = [plan EXCEPT ![1].members = Append(op.members, f.blocks)]
        /\ failures' = failures
      BY <1>3, <1>6
  <2>2. IsOp(op) /\ OpIsOurs(op) /\ FromSnap(op) /\ op \in Ops
    <3> HIDE DEF n, op
    <3>1. IsOp(op) /\ OpIsOurs(op) /\ FromSnap(op)
        BY <1>1, <1>2 DEF Shape, Once, Progress, n, op
    <3> QED BY <3>1 DEF IsOp
  <2>3. /\ op.kind = "batch" /\ op.from \in Sides /\ op.keys \in Seq(Keys)
        /\ op.members \in Seq(Blocks) /\ m \in Nat /\ Len(op.keys) \in Nat
        /\ m < Len(op.keys)
    <3>1. /\ op.kind = "batch" /\ op.from \in Sides /\ op.keys \in Seq(Keys)
          /\ op.members \in Seq(Blocks) /\ m # Len(op.keys) /\ m <= Len(op.keys)
        BY <1>2, <2>2 DEF Ready, IsOp, Ops
    <3> QED BY <3>1, LenProperties
  <2>4. m + 1 \in 1..Len(op.keys) /\ k \in Keys
      BY <2>3, ElementOfSeq
  <2>5. f.blocks \in Blocks
      BY <1>1, <1>6, <2>3, <2>4, FileTypes DEF TypeOK
  <2>6. /\ Append(op.members, f.blocks) \in Seq(Blocks)
        /\ Len(Append(op.members, f.blocks)) = m + 1
        /\ \A i \in 1..m : Append(op.members, f.blocks)[i] = op.members[i]
        /\ Append(op.members, f.blocks)[m + 1] = f.blocks
      BY <2>3, <2>5, AppendProperties
  <2>7. /\ grown \in Ops /\ grown.kind = op.kind /\ grown.from = op.from
        /\ grown.keys = op.keys /\ grown.members = Append(op.members, f.blocks)
      BY <2>2, <2>6 DEF Ops
  <2>8. /\ plan' \in Seq(Ops) /\ Len(plan') = n /\ plan'[1] = grown
        /\ \A i \in 1..n : i # 1 => plan'[i] = plan[i]
    <3>1. plan' = [plan EXCEPT ![1] = grown]
        BY <2>1
    <3> HIDE DEF grown
    <3> QED BY <1>2, <2>7, <3>1, ExceptSeq
  <2> HIDE DEF grown, n
  <2>9. IsOp(grown) /\ JobsIn(grown) = JobsIn(op) /\ (KeysOnce(op) => KeysOnce(grown))
    <3> HIDE DEF op, m, k, f
    <3>1. Len(grown.members) <= Len(grown.keys) /\ Len(grown.keys) >= 1
        BY <2>3, <2>6, <2>7
    <3>2. IsOp(grown)
        BY <2>3, <2>7, <3>1 DEF IsOp
    <3> QED BY <2>7, <3>2 DEF JobsIn, KeysOnce
  <2>10. FromSnap(grown)
    <3>1. ASSUME Calm(op.from, k)
          PROVE  snap[op.from][k] # Absent /\ f.blocks = snap[op.from][k].blocks
      <4>1. f = snap[op.from][k]
          BY <2>3, <2>4, <3>1 DEF IInv, Kept
      <4> QED BY <1>6, <4>1
    <3>2. ASSUME NEW i \in 1..(m + 1), Calm(op.from, op.keys[i])
          PROVE  /\ snap[op.from][op.keys[i]] # Absent
                 /\ grown.members[i] = snap[op.from][op.keys[i]].blocks
      <4>1. CASE i = m + 1
          BY <2>6, <2>7, <3>1, <3>2, <4>1
      <4>2. CASE i # m + 1
        <5>1. i \in 1..m
            BY <2>3, <4>2
        <5> QED BY <2>2, <2>6, <2>7, <3>2, <5>1 DEF FromSnap
      <4> QED BY <4>1, <4>2
    <3> QED BY <2>3, <2>6, <2>7, <3>2 DEF FromSnap
  <2> HIDE DEF op, m, k, f
  <2>11. ASSUME NEW i \in 1..n
         PROVE  /\ IsOp(plan'[i]) /\ JobsIn(plan'[i]) = JobsIn(plan[i])
                /\ KeysOnce(plan'[i]) /\ FromSnap(plan'[i])
    <3>1. CASE i = 1
        BY <2>2, <2>8, <2>9, <2>10, <3>1 DEF OpIsOurs, op
    <3>2. CASE i # 1
        BY <1>1, <2>8, <3>2 DEF Shape, Once, OpIsOurs, Progress, n
    <3> QED BY <3>1, <3>2
  <2>12. TypeOK'
      BY <1>1, <1>3, <2>1, <2>8 DEF TypeOK
  <2>13. Shape'
    <3>1. running' /\ (edited' => This'.duringRun)
        BY <1>1, <1>2, <1>3, <1>4 DEF Shape
    <3> QED BY <1>5, <2>8, <2>11, <3>1 DEF Shape
  <2>14. Once'
    <3>1. \A i \in 1..Len(plan)' : OpIsOurs(plan[i])'
        BY <1>1, <1>4, <2>8, <2>11 DEF Once, OpIsOurs, n
    <3>2. \A i, j \in 1..n : i # j => Apart(plan'[i], plan'[j])
        BY <1>1, <2>11 DEF Once, Apart, n
    <3>3. \A v \in Workers, i \in 1..n : Busy(v)' => Apart(wk'[v].op, plan'[i])
        BY <1>1, <1>3, <1>5, <2>11 DEF Once, Apart, n
    <3>4. \A v, u \in Workers :
              Busy(v)' /\ Busy(u)' /\ v # u => Apart(wk'[v].op, wk'[u].op)
        BY <1>1, <1>3, <1>5 DEF Once
    <3>5. \A r \in reported :
              /\ JobOf(r) \in Jobs'
              /\ \A i \in 1..n : JobOf(r) \notin JobsIn(plan'[i])
              /\ \A v \in Workers : Busy(v)' => JobOf(r) \notin JobsIn(wk'[v].op)
        BY <1>1, <1>3, <1>4, <1>5, <2>11 DEF Once, n
    <3> QED BY <1>3, <1>5, <2>8, <3>1, <3>2, <3>3, <3>4, <3>5 DEF Once
  <2>15. Progress'
    <3>1. \A i \in 1..Len(plan)' : FromSnap(plan[i])'
      <4>1. UNCHANGED snap /\ \A side, j : Calm(side, j)' = Calm(side, j)
          BY <1>3, <1>4
      <4> QED BY <2>8, <2>11, <4>1 DEF FromSnap
    <3> QED BY <1>5, <3>1 DEF Progress
  <2>16. Accounted'
    <3>1. Sound' => Sound
        BY <1>3, <1>4, <2>1 DEF Sound
    <3>2. ASSUME NEW job, Waiting(job) PROVE Waiting(job)'
        BY <1>3, <1>5, <2>8, <2>11, <3>2 DEF Waiting, n
    <3>3. \A from, j : Settled(from, j)' = Settled(from, j)
        BY <1>3 DEF Settled, HasCopy
    <3> QED BY <1>4, <3>1, <3>2, <3>3 DEF IInv, Accounted
  <2> QED BY <1>4, <2>12, <2>13, <2>14, <2>15, <2>16 DEF IInv
<1>7. CASE ~(f # Absent /\ Len(f.blocks) = Len(snap[op.from][k].blocks))
  <2>1. plan' = <<>> /\ failures' = failures + 1
      BY <1>3, <1>7
  <2> HIDE DEF n, op, m, k, f
  <2>2. /\ plan' \in Seq(Ops) /\ Len(plan') = 0 /\ failures' \in Nat /\ failures' # 0
        /\ \A i \in 1..0 : FALSE
      BY <1>1, <2>1, EmptySeq DEF TypeOK
  <2>3. TypeOK'
      BY <1>1, <1>3, <2>2 DEF TypeOK
  <2>4. Shape'
    <3>1. running' /\ (edited' => This'.duringRun)
        BY <1>1, <1>2, <1>3, <1>4 DEF Shape
    <3> QED BY <1>5, <2>2, <3>1 DEF Shape
  <2>5. Once'
    <3>1. \A v, u \in Workers :
              Busy(v)' /\ Busy(u)' /\ v # u => Apart(wk'[v].op, wk'[u].op)
        BY <1>1, <1>3, <1>5 DEF Once
    <3>2. \A r \in reported :
              /\ JobOf(r) \in Jobs'
              /\ \A v \in Workers : Busy(v)' => JobOf(r) \notin JobsIn(wk'[v].op)
        BY <1>1, <1>3, <1>4, <1>5 DEF Once
    <3> QED BY <1>3, <1>5, <2>2, <3>1, <3>2 DEF Once
  <2>6. Progress'
      BY <1>5, <2>2 DEF Progress
  <2>7. Accounted'
      BY <1>2, <1>3, <2>2 DEF Accounted, Sound
  <2> QED BY <1>4, <2>3, <2>4, <2>5, <2>6, <2>7 DEF IInv
<1> QED BY <1>6, <1>7

-----------------------------------------------------------------------------
(* The beginning and the end of a run, and the user.                       *)

LEMMA AllIdle ==
    ASSUME TypeOK, Shape, ~running
    PROVE  \A w \in Workers : ~Busy(w)
BY DEF Shape, AtWork

(* With the plan empty and all workers idle, most of the invariant is void. *)
LEMMA NothingToDo ==
    ASSUME TypeOK', plan' = <<>>, \A w \in Workers : ~Busy(w)',
           \A r \in reported' : JobOf(r) \in Jobs', running' /\ edited' => This'.duringRun,
           Kept', Truthful', Accounted'
    PROVE  IInv'
<1>1. Len(plan') = 0 /\ \A i \in 1..Len(plan') : FALSE
    BY EmptySeq
<1>2. Shape'
    BY <1>1 DEF Shape
<1>3. Once'
    BY <1>1 DEF Once
<1>4. Progress'
    BY <1>1 DEF Progress
<1> QED BY <1>2, <1>3, <1>4 DEF IInv

LEMMA InitInv == ASSUME Init PROVE IInv
<1>1. IsTrees(fs, 10) /\ 10 \in Nat
    BY ThisScenario DEF Init
<1>2. Idle \in WorkerStates /\ Idle.pc = "idle" /\ <<>> \in Seq(Ops)
  <2>1. <<>> \in Blocks /\ <<>> \in Seq(Ops)
      BY EmptySeq DEF Blocks
  <2> QED BY <2>1 DEF Idle, WorkerStates
<1>3. TypeOK
    BY <1>1, <1>2 DEF Init, TypeOK
<1>4. \A w \in Workers : ~Busy(w)
    BY <1>2 DEF Init, Busy
<1>5. Len(plan) = 0 /\ \A i \in 1..Len(plan) : FALSE
    BY EmptySeq DEF Init
<1>6. Shape /\ Once /\ Progress
    BY <1>4, <1>5 DEF Init, Shape, Once, Progress
<1>7. Kept /\ Truthful /\ Accounted
    BY DEF Init, Kept, Truthful, Accounted, Sound
<1> QED BY <1>3, <1>6, <1>7 DEF IInv

(* The plan of a run is its jobs.                                          *)
LEMMA StartRunInv == ASSUME IInv, StartRun PROVE IInv'
<1>1. /\ ~running /\ running' = TRUE /\ plan' = Plan /\ failures' = 0 /\ outcome' = "none"
      /\ snap' = fs /\ reported' = {} /\ ignored' = FALSE /\ edited' = FALSE
      /\ UNCHANGED <<scenario, fs, now, wk>>
    BY DEF StartRun
<1>2. TypeOK /\ \A w \in Workers : ~Busy(w)
    BY <1>1, AllIdle DEF IInv
<1>3. /\ Covers(Plan, JobsOf(fs)) /\ \A i \in 1..Len(Plan) : Planned(Plan[i], fs)
    BY <1>2, PlanCovers DEF TypeOK
<1>4. Jobs' = JobsOf(fs)
    BY <1>1 DEF Jobs, JobsOf, Mode, This
<1>5. \A w \in Workers : ~Busy(w)'
    BY <1>1, <1>2 DEF Busy
<1>6. ASSUME NEW i \in 1..Len(Plan)
      PROVE  /\ IsOp(Plan[i]) /\ KeysOnce(Plan[i]) /\ JobsIn(Plan[i]) \subseteq Jobs'
             /\ Plan[i].members = <<>>
             /\ Plan[i].kind = "delete" => fs["src"][Plan[i].keys[1]] = Absent
    BY <1>3, <1>4 DEF Planned, FreshOp
<1>7. TypeOK'
    BY <1>1, <1>2, <1>3 DEF TypeOK, Covers
<1>8. Shape'
    BY <1>1, <1>5, <1>6 DEF Shape
<1>9. Once'
  <2>1. \A i \in 1..Len(plan)' : OpIsOurs(plan[i])'
      BY <1>1, <1>6 DEF OpIsOurs
  <2>2. \A i, j \in 1..Len(plan)' : i # j => Apart(plan'[i], plan'[j])
      BY <1>1, <1>3 DEF Covers
  <2> QED BY <1>1, <1>5, <2>1, <2>2 DEF Once
<1>10. Kept' /\ Truthful'
    BY <1>1 DEF Kept, Truthful
<1>11. Progress'
  <2>1. \A i \in 1..Len(plan)' : FromSnap(plan[i])'
    <3>1. Len(<<>>) = 0 /\ \A i \in 1..0 : FALSE
        BY EmptySeq
    <3> QED BY <1>1, <1>6, <3>1 DEF FromSnap
  <2> QED BY <1>5, <2>1 DEF Progress
<1>12. Accounted'
  <2>1. \A job \in Jobs' : \E i \in 1..Len(plan') : job \in JobsIn(plan'[i])
      BY <1>1, <1>3, <1>4 DEF Covers
  <2> QED BY <2>1 DEF Accounted, Waiting
<1> QED BY <1>7, <1>8, <1>9, <1>10, <1>11, <1>12 DEF IInv

LEMMA EndRunInv == ASSUME IInv, EndRun PROVE IInv'
<1>1. /\ running /\ running' = FALSE /\ plan = <<>> /\ plan' = <<>>
      /\ outcome' = IF failures = 0 THEN "ok" ELSE "failed"
      /\ UNCHANGED <<scenario, fs, now, wk, failures, snap, reported, ignored, edited>>
      /\ \A w \in Workers : ~Busy(w)
    BY DEF EndRun, Busy
<1>2. TypeOK' /\ \A w \in Workers : ~Busy(w)'
    BY <1>1 DEF IInv, TypeOK, Busy
<1>3. /\ Kept' /\ Truthful' /\ UNCHANGED <<Jobs, This>>
      /\ \A side, k : Calm(side, k)' = Calm(side, k)
    BY <1>1, FilesAlone
<1>4. Accounted'
  <2>1. Sound' => Sound
      BY <1>1, <1>3 DEF Sound
  <2>2. \A job : Waiting(job)' = Waiting(job)
      BY <1>1, <1>2 DEF Waiting
  <2>3. \A from, k : Settled(from, k)' = Settled(from, k)
      BY <1>1 DEF Settled, HasCopy
  <2> QED BY <1>3, <2>1, <2>2, <2>3 DEF IInv, Accounted
<1>5. \A r \in reported' : JobOf(r) \in Jobs'
    BY <1>1, <1>3 DEF IInv, Once
<1> QED BY <1>1, <1>2, <1>3, <1>4, <1>5, NothingToDo

LEMMA KillInv == ASSUME IInv, Kill PROVE IInv'
<1>1. /\ running' = FALSE /\ outcome' = "killed" /\ plan' = <<>>
      /\ wk' = [w \in Workers |-> Idle]
      /\ UNCHANGED <<scenario, fs, now, failures, snap, reported, ignored, edited>>
    BY DEF Kill
<1>2. Idle \in WorkerStates /\ Idle.pc = "idle" /\ <<>> \in Seq(Ops)
  <2>1. <<>> \in Blocks /\ <<>> \in Seq(Ops)
      BY EmptySeq DEF Blocks
  <2> QED BY <2>1 DEF Idle, WorkerStates
<1>3. TypeOK' /\ \A w \in Workers : ~Busy(w)'
    BY <1>1, <1>2 DEF IInv, TypeOK, Busy
<1>4. Kept' /\ Truthful' /\ UNCHANGED <<Jobs, This>>
    BY <1>1, FilesAlone
<1>5. Accounted'
    BY <1>1 DEF Accounted, Sound
<1>6. \A r \in reported' : JobOf(r) \in Jobs'
    BY <1>1, <1>4 DEF IInv, Once
<1> QED BY <1>1, <1>3, <1>4, <1>5, <1>6, NothingToDo

(* The files of the user are none that anything is said about any more.    *)
LEMMA EditInv ==
    ASSUME IInv, NEW e \in This.edits, NEW k \in Keys, Edit(e[1], k, e[2])
    PROVE  IInv'
<1> DEFINE side == e[1]
           file == File(e[2], now + 1)
<1>1. /\ running => This.duringRun
      /\ fs' = [fs EXCEPT ![side][k] = file] /\ now' = now + 1 /\ edited' = TRUE
      /\ UNCHANGED <<scenario, plan, wk, running, failures, outcome, snap, reported, ignored>>
    BY DEF Edit, runVars
<1>2. TypeOK /\ Shape /\ Once /\ Progress /\ Truthful
    BY DEF IInv
<1>3. /\ side \in Sides /\ e[2] \in Versions /\ side \in EditedSides
      /\ now \in Nat /\ now' \in Nat
    BY <1>1, <1>2, ThisScenario DEF TypeOK, EditedSides
<1>4. file \in Files /\ file.mtime = now + 1
    BY <1>3, ReplicaAssumption DEF ReplicaAssumption, File, Files
<1> HIDE DEF side, file
<1>5. /\ fs' \in [Sides -> [Keys -> Files \cup {Absent}]] /\ fs'[side][k] = file
      /\ \A s \in Sides, j \in Keys : fs'[s][j] = fs[s][j] \/ (s = side /\ j = k)
  <2>1. fs \in [Sides -> [Keys -> Files \cup {Absent}]]
      BY <1>2 DEF TypeOK, IsTrees
  <2> QED BY <1>1, <1>3, <1>4, <2>1
<1>6. \A t, s, j : s \in Sides /\ j \in Keys /\ IsTrees(t, now) /\ t[s][j] # Absent =>
          t[s][j].mtime \in Nat /\ t[s][j].mtime <= now + 1
  <2>1. ASSUME NEW t, NEW s \in Sides, NEW j \in Keys, IsTrees(t, now), t[s][j] # Absent
        PROVE  t[s][j].mtime \in Nat /\ t[s][j].mtime <= now + 1
    <3>1. t[s][j].mtime \in Nat /\ t[s][j].mtime <= now
        BY <1>3, <2>1, FileTypes
    <3> QED BY <1>3, <3>1
  <2> QED BY <2>1
<1>7. IsTrees(fs, now)' /\ IsTrees(snap, now)'
  <2>1. IsTrees(fs, now) /\ IsTrees(snap, now)
      BY <1>2 DEF TypeOK
  <2>2. ASSUME NEW s \in Sides, NEW j \in Keys, fs'[s][j] # Absent
        PROVE  fs'[s][j].mtime <= now + 1
    <3>1. CASE fs'[s][j] = fs[s][j]
        BY <1>6, <2>1, <2>2, <3>1
    <3>2. CASE s = side /\ j = k
        BY <1>3, <1>4, <1>5, <3>2
    <3> QED BY <1>5, <3>1, <3>2
  <2>3. \A s \in Sides, j \in Keys : snap[s][j] # Absent => snap[s][j].mtime <= now + 1
      BY <1>6, <2>1
  <2> QED BY <1>1, <1>5, <2>1, <2>2, <2>3 DEF IsTrees
<1>8. TypeOK'
    BY <1>1, <1>2, <1>3, <1>7 DEF TypeOK
<1>9. UNCHANGED <<Jobs, This, EditedSides>>
    BY <1>1 DEF Jobs, JobsOf, Mode, This, EditedSides
<1>10. /\ \A s, j : ~Calm(s, j)'
       /\ \A s \in Sides : Ours(s)' => Ours(s) /\ s # side
    BY <1>1, <1>3, <1>9 DEF Calm, Ours
<1>11. \A v \in Workers : Busy(v)' = Busy(v) /\ wk'[v] = wk[v]
    BY <1>1 DEF Busy
<1>12. Shape'
  <2>1. \A v \in Workers : Busy(v) => AtWork(v)'
    <3>1. \A v \in Workers : Busy(v) => AtWork(v)
        BY <1>2 DEF Shape
    <3> QED BY <1>1, <3>1 DEF AtWork
  <2> QED BY <1>1, <1>2, <1>9, <1>11, <2>1 DEF Shape
<1>13. Once'
  <2>1. \A i \in 1..Len(plan) : OpIsOurs(plan[i])'
      BY <1>1, <1>2, <1>9 DEF Once, OpIsOurs
  <2>2. \A v \in Workers : Busy(v) => OpIsOurs(wk[v].op)'
      BY <1>1, <1>2, <1>9 DEF Once, OpIsOurs
  <2> QED BY <1>1, <1>2, <1>9, <1>11, <2>1, <2>2 DEF Once
<1>14. Kept'
    BY <1>10 DEF Kept
<1>15. Progress'
  <2>1. \A i \in 1..Len(plan) : FromSnap(plan[i])'
      BY <1>1, <1>2, <1>10 DEF Progress, FromSnap
  <2>2. ASSUME NEW v \in Workers, Busy(v) PROVE OnCourse(v)'
    <3> DEFINE op == wk[v].op
    <3>1. AtWork(v) /\ OnCourse(v) /\ wk'[v] = wk[v]
        BY <1>2, <1>11, <2>2 DEF Shape, Progress
    <3>2. /\ op.from \in Sides /\ op.keys \in Seq(Keys) /\ wk[v].entry \in 1..Len(op.keys)
          /\ Len(op.keys) \in Nat /\ Key(v) \in Keys /\ DstSide(v) \in Sides
        BY <1>2, <3>1, AtWorkTypes
    <3>3. UNCHANGED <<snap, Key(v), DstSide(v)>> /\ Other(op.from) = DstSide(v)
        BY <1>1, <3>1 DEF Key, DstSide
    <3>4. FromSnap(op)'
        BY <1>10, <3>1, <3>3 DEF FromSnap, OnCourse
    <3>5. ASSUME NEW j \in Keys, Ours(DstSide(v))' PROVE fs'[DstSide(v)][j] = fs[DstSide(v)][j]
        BY <1>5, <1>10, <3>2, <3>3, <3>5
    <3>6. EntriesDone(v)'
      <4>1. SUFFICES ASSUME op.kind = "batch", Ours(DstSide(v))',
                            NEW i \in 1..(wk[v].entry - 1)
                     PROVE  HasCopy(op.from, op.keys[i], op.members[i])'
          BY <3>1 DEF EntriesDone
      <4>2. HasCopy(op.from, op.keys[i], op.members[i])
          BY <1>10, <3>1, <3>2, <3>3, <4>1 DEF EntriesDone, OnCourse
      <4>3. op.keys[i] \in Keys
        <5>1. i \in 1..Len(op.keys)
            BY <3>2
        <5> QED BY <3>2, <5>1, ElementOfSeq
      <4>4. fs'[Other(op.from)][op.keys[i]] = fs[Other(op.from)][op.keys[i]]
          BY <3>3, <3>5, <4>1, <4>3
      <4> QED BY <3>1, <3>3, <4>2, <4>4 DEF HasCopy
    <3>7. Opened(v)'
        BY <1>10 DEF Opened
    <3>8. Copying(v)'
      <4>1. Copying(v)
          BY <3>1 DEF OnCourse
      <4>2. Ours(DstSide(v))' => Ours(DstSide(v)) /\ DstFile(v)' = DstFile(v)
                                 /\ fs'[Other(op.from)][Key(v)] = fs[Other(op.from)][Key(v)]
          BY <1>10, <3>2, <3>3, <3>5 DEF DstFile
      <4> QED BY <1>10, <3>1, <3>3, <4>1, <4>2 DEF Copying, HasCopy
    <3> QED BY <3>1, <3>4, <3>6, <3>7, <3>8 DEF OnCourse
  <2> QED BY <1>1, <1>11, <2>1, <2>2 DEF Progress
<1>16. Truthful'
  <2>1. ASSUME ~ignored, NEW r \in reported PROVE TrueHash(r)'
    <3>1. TrueHash(r) /\ r.side \in Sides /\ r.key \in Keys
        BY <1>2, <2>1 DEF Truthful, TypeOK, Hashes
    <3>2. SUFFICES ASSUME Ours(r.side)', ~r.reread
                   PROVE  fs'[r.side][r.key] # Absent /\ fs'[r.side][r.key].blocks = r.hash
        BY <1>10 DEF TrueHash
    <3>3. Ours(r.side) /\ fs'[r.side][r.key] = fs[r.side][r.key]
        BY <1>5, <1>10, <3>1, <3>2
    <3> QED BY <3>1, <3>2, <3>3 DEF TrueHash
  <2> QED BY <1>1, <2>1 DEF Truthful
<1>17. Accounted'
    BY <1>1 DEF Accounted, Sound
<1> QED BY <1>8, <1>12, <1>13, <1>14, <1>15, <1>16, <1>17 DEF IInv

LEMMA StepInv == ASSUME IInv, [Next]_vars PROVE IInv'
<1>1. CASE StartRun
    BY <1>1, StartRunInv
<1>2. CASE Fill
    BY <1>2, FillInv
<1>3. CASE EndRun
    BY <1>3, EndRunInv
<1>4. CASE Kill
    BY <1>4, KillInv
<1>5. ASSUME NEW w \in Workers, Worker(w) PROVE IInv'
    BY <1>5, ReceiveInv, OpenInv, CreateInv, CopyBlockInv, FallBackInv, CopyDoneInv,
       WriteLostInv, DeleteInv, TaskFailsInv DEF Worker
<1>6. ASSUME NEW e \in This.edits, NEW k \in Keys, Edit(e[1], k, e[2]) PROVE IInv'
    BY <1>6, EditInv
<1>7. CASE UNCHANGED vars
  <2>1. UNCHANGED <<scenario, fs, now, plan, wk, running, failures, outcome, snap, reported,
                    ignored, edited>>
      BY <1>7 DEF vars, runVars
  <2>2. UNCHANGED <<Jobs, This, EditedSides>>
      BY <2>1 DEF Jobs, JobsOf, Mode, This, EditedSides
  <2>3. TypeOK' /\ Shape' /\ Once'
      BY <2>1, <2>2 DEF IInv, TypeOK, Shape, Once, Busy, AtWork, OpIsOurs
  <2>4. Kept' /\ Truthful' /\ \A side, k : Calm(side, k)' = Calm(side, k)
      BY <2>1, FilesAlone
  <2>5. Progress'
    <3>1. \A i \in 1..Len(plan)' : FromSnap(plan[i])'
        BY <2>1, <2>2 DEF IInv, Progress, FromSnap, Calm
    <3>2. ASSUME NEW v \in Workers, Busy(v)' PROVE OnCourse(v)'
      <4>1. wk'[v] = wk[v] /\ AtWork(v) /\ OnCourse(v)
          BY <2>1, <3>2 DEF IInv, Shape, Progress, Busy
      <4>2. LeavesAlone(wk[v].op) /\ UNCHANGED <<scenario, snap, edited>>
          BY <2>1 DEF LeavesAlone
      <4> QED BY <4>1, <4>2, OthersOnCourse
    <3> QED BY <3>1, <3>2 DEF Progress
  <2>6. Accounted'
    <3>1. Sound' = Sound
        BY <2>1, <2>2 DEF Sound
    <3>2. \A job : Waiting(job)' = Waiting(job)
        BY <2>1 DEF Waiting, Busy
    <3>3. \A from, k : Settled(from, k)' = Settled(from, k)
        BY <2>1 DEF Settled, HasCopy
    <3> QED BY <2>2, <2>4, <3>1, <3>2, <3>3 DEF IInv, Accounted
  <2> QED BY <2>3, <2>4, <2>5, <2>6 DEF IInv
<1> QED BY <1>1, <1>2, <1>3, <1>4, <1>5, <1>6, <1>7 DEF Next

THEOREM IInvariance == Spec => []IInv
<1>1. Init => IInv
    BY InitInv
<1>2. IInv /\ [Next]_vars => IInv'
    BY StepInv
<1> QED BY <1>1, <1>2, PTL DEF Spec

-----------------------------------------------------------------------------
(* What the invariant says of reports and of clean runs.                   *)

(* A file that is copied in both directions is one whose sizes differ.     *)
LEMMA JobsBothWays ==
    ASSUME NEW side \in Sides, NEW k, <<side, k>> \in Jobs, <<Other(side), k>> \in Jobs
    PROVE  k \in BothWays
<1>1. <<"src", k>> \in Jobs /\ <<"dst", k>> \in Jobs
    BY DEF Sides, Other
<1> DEFINE s == SnapshotOf(snap["src"])
           d == SnapshotOf(snap["dst"])
<1>2. Mode = "sync" /\ k \in Extras(s, d) \cup Newer(s, d) /\ k \in Forward(s, d)
    BY <1>1 DEF Jobs, JobsOf
<1>3. k \notin Extras(s, d)
    BY <1>2 DEF Extras, Forward
<1> QED BY <1>2, <1>3 DEF BothWays

(* Hashes that are reported are those of what the copies left on the disk  *)
(* (ReportsTrue), for any schedule of any number of workers, failures and  *)
(* edits: TrueHash covers the cases in which a report vouches for a file.  *)
THEOREM HashesAreTrue == Spec => []ReportsTrue
<1>1. ASSUME IInv PROVE ReportsTrue
  <2>1. SUFFICES ASSUME ~ignored, NEW r \in reported,
                        edited => ~r.reread /\ r.side \notin EditedSides,
                        r.reread => r.key \notin BothWays
                 PROVE  fs[r.side][r.key] # Absent /\ fs[r.side][r.key].blocks = r.hash
      BY DEF ReportsTrue
  <2>2. r.side \in Sides /\ JobOf(r) \in Jobs /\ TrueHash(r)
      BY <1>1, <2>1 DEF IInv, TypeOK, Hashes, Once, Truthful
  <2>3. Other(r.side) \in Sides /\ Other(Other(r.side)) = r.side
      BY <2>2, OtherSide
  <2>4. r.reread => <<r.side, r.key>> \notin Jobs
      BY <2>1, <2>2, JobsBothWays DEF JobOf
  <2>5. Ours(r.side) /\ (r.reread => Calm(Other(r.side), r.key))
      BY <2>1, <2>3, <2>4 DEF Ours, Calm
  <2> QED BY <2>2, <2>5 DEF TrueHash
<1> QED BY <1>1, IInvariance, PTL

(* After a clean run each file is as the run left it: settled if it was a  *)
(* job, else as it was found; and so is its source, unless the run copies  *)
(* in both directions.                                                     *)
LEMMA AfterRun ==
    ASSUME IInv, Clean, ~ignored, NEW from \in Sides, NEW k \in Keys,
           <<Other(from), k>> \notin Jobs
    PROVE  /\ fs[from][k] = snap[from][k]
           /\ <<from, k>> \in Jobs => Settled(from, k)
           /\ <<from, k>> \notin Jobs => fs[Other(from)][k] = snap[Other(from)][k]
<1>1. ~running /\ outcome = "ok" /\ ~edited
    BY DEF Clean
<1>2. Calm(from, k)
    BY <1>1 DEF Calm
<1>3. fs[from][k] = snap[from][k]
    BY <1>2 DEF IInv, Kept
<1>4. ASSUME <<from, k>> \in Jobs PROVE Settled(from, k)
  <2>1. Sound
      BY <1>1 DEF Sound
  <2>2. (\A w \in Workers : ~Busy(w)) /\ plan = <<>>
      BY <1>1, AllIdle DEF IInv, Shape
  <2>3. Len(<<>>) = 0 /\ \A i \in 1..0 : FALSE
      BY EmptySeq
  <2>4. ~Waiting(<<from, k>>)
      BY <2>2, <2>3 DEF Waiting
  <2> QED BY <1>2, <1>4, <2>1, <2>4 DEF IInv, Accounted
<1>5. ASSUME <<from, k>> \notin Jobs PROVE fs[Other(from)][k] = snap[Other(from)][k]
  <2>1. Calm(Other(from), k) /\ Other(from) \in Sides
      BY <1>1, <1>5, OtherSide DEF Calm
  <2> QED BY <2>1 DEF IInv, Kept
<1> QED BY <1>3, <1>4, <1>5

LEMMA AfterCleanRun ==
    ASSUME IInv, Clean, OneWay, ~ignored, NEW k \in Keys
    PROVE  /\ fs["src"][k] = snap["src"][k]
           /\ <<"src", k>> \in Jobs => Settled("src", k)
           /\ <<"src", k>> \notin Jobs => fs["dst"][k] = snap["dst"][k]
<1>1. "src" \in Sides /\ Other("src") = "dst" /\ <<"dst", k>> \notin Jobs
    BY DEF Sides, Other, OneWay, Jobs, JobsOf
<1> QED BY <1>1, AfterRun

(* A file of the source is a job if the run did not take what it found for *)
(* a copy, and a file that is only at the destination if it is a mirror.   *)
LEMMA OneWayJobs ==
    ASSUME OneWay, NEW tree, NEW k \in Keys
    PROVE  LET s == SnapshotOf(tree["src"])
               d == SnapshotOf(tree["dst"])
           IN  <<"src", k>> \in JobsOf(tree) <=>
                   IF tree["src"][k] # Absent
                   THEN tree["dst"][k] # Absent => ShouldCopy(s[k], d[k])
                   ELSE Mode = "mirror" /\ tree["dst"][k] # Absent
<1> DEFINE s == SnapshotOf(tree["src"])
           d == SnapshotOf(tree["dst"])
<1>1. /\ DOMAIN s = {j \in Keys : tree["src"][j] # Absent}
      /\ DOMAIN d = {j \in Keys : tree["dst"][j] # Absent}
    BY DEF SnapshotOf, FilesOf
<1>2. <<"src", k>> \in JobsOf(tree) <=>
          k \in Forward(s, d) \/ (Mode = "mirror" /\ k \in Extras(s, d))
    BY DEF JobsOf
<1> HIDE DEF s, d
<1>3. k \in Forward(s, d) <=>
          tree["src"][k] # Absent /\ (tree["dst"][k] # Absent => ShouldCopy(s[k], d[k]))
    BY <1>1 DEF Forward
<1>4. k \in Extras(s, d) <=> tree["src"][k] = Absent /\ tree["dst"][k] # Absent
    BY <1>1 DEF Extras
<1> QED BY <1>2, <1>3, <1>4 DEF s, d

(* A clean run makes the destination like the source (CleanRunConverges):  *)
(* a file that it copied has the contents of its source, one that it left  *)
(* alone was a copy already.                                               *)
THEOREM CleanRunsConverge == Spec => []CleanRunConverges
<1>1. ASSUME IInv PROVE CleanRunConverges
  <2>1. SUFFICES ASSUME Clean, OneWay, ~ignored, NoFalse(snap)
                 PROVE  /\ \A k \in FilesOf(fs["src"]) : Equal(fs["src"][k], fs["dst"][k])
                        /\ Mode = "mirror" => FilesOf(fs["dst"]) = FilesOf(fs["src"])
      BY DEF CleanRunConverges
  <2>2. ASSUME NEW k \in Keys, fs["src"][k] # Absent
        PROVE  fs["dst"][k] # Absent /\ fs["dst"][k].blocks = fs["src"][k].blocks
    <3>1. fs["src"][k] = snap["src"][k]
        BY <1>1, <2>1, AfterCleanRun
    <3>2. CASE <<"src", k>> \in Jobs
      <4>1. Settled("src", k)
          BY <1>1, <2>1, <3>2, AfterCleanRun
      <4> QED BY <2>2, <3>1, <4>1 DEF Settled, HasCopy, Other
    <3>3. CASE <<"src", k>> \notin Jobs
      <4>1. fs["dst"][k] = snap["dst"][k]
          BY <1>1, <2>1, <3>3, AfterCleanRun
      <4>2. /\ snap["dst"][k] # Absent
            /\ ~ShouldCopy(SnapshotOf(snap["src"])[k], SnapshotOf(snap["dst"])[k])
          BY <2>1, <2>2, <3>1, <3>3, OneWayJobs DEF Jobs
      <4>3. /\ k \in DOMAIN SnapshotOf(snap["src"]) /\ k \in DOMAIN SnapshotOf(snap["dst"])
          BY <2>2, <3>1, <4>2 DEF SnapshotOf, FilesOf
      <4>4. snap["src"][k].blocks = snap["dst"][k].blocks
          BY <2>1, <4>2, <4>3 DEF NoFalse
      <4> QED BY <3>1, <4>1, <4>2, <4>4
    <3> QED BY <3>2, <3>3
  <2>3. ASSUME Mode = "mirror", NEW k \in Keys, fs["src"][k] = Absent
        PROVE  fs["dst"][k] = Absent
    <3>1. fs["src"][k] = snap["src"][k]
        BY <1>1, <2>1, AfterCleanRun
    <3>2. CASE <<"src", k>> \in Jobs
      <4>1. Settled("src", k)
          BY <1>1, <2>1, <3>2, AfterCleanRun
      <4> QED BY <2>3, <3>1, <4>1 DEF Settled, Other
    <3>3. CASE <<"src", k>> \notin Jobs
      <4>1. fs["dst"][k] = snap["dst"][k]
          BY <1>1, <2>1, <3>3, AfterCleanRun
      <4>2. snap["dst"][k] = Absent
          BY <2>1, <2>3, <3>1, <3>3, OneWayJobs DEF Jobs
      <4> QED BY <4>1, <4>2
    <3> QED BY <3>2, <3>3
  <2> QED BY <2>2, <2>3 DEF FilesOf, Equal
<1> QED BY <1>1, IInvariance, PTL

(* A clean run leaves no work (OneWaySettles): a copy has the size of its  *)
(* source and is not older, so that the next scan passes over it.          *)
THEOREM CleanRunsSettle == Spec => []OneWaySettles
<1>1. ASSUME IInv PROVE OneWaySettles
  <2>1. SUFFICES ASSUME Clean, OneWay, ~ignored PROVE Plan = <<>>
      BY DEF OneWaySettles
  <2>2. ASSUME NEW k \in Keys, <<"src", k>> \in JobsOf(fs) PROVE FALSE
    <3> DEFINE s(tree) == SnapshotOf(tree["src"])
               d(tree) == SnapshotOf(tree["dst"])
    <3>1. fs["src"][k] = snap["src"][k]
        BY <1>1, <2>1, AfterCleanRun
    <3>2. IF fs["src"][k] # Absent
          THEN fs["dst"][k] # Absent => ShouldCopy(s(fs)[k], d(fs)[k])
          ELSE Mode = "mirror" /\ fs["dst"][k] # Absent
        BY <2>1, <2>2, OneWayJobs
    <3>3. ASSUME NEW tree, NEW side, tree[side][k] # Absent
          PROVE  SnapshotOf(tree[side])[k] =
                     [size |-> Len(tree[side][k].blocks), mtime |-> tree[side][k].mtime]
        BY <3>3 DEF SnapshotOf, FilesOf
    <3>4. CASE <<"src", k>> \in Jobs
      <4>1. Settled("src", k)
          BY <1>1, <2>1, <3>4, AfterCleanRun
      <4>2. CASE snap["src"][k] = Absent
          BY <3>1, <3>2, <4>1, <4>2 DEF Settled, Other
      <4>3. CASE snap["src"][k] # Absent
        <5>1. /\ fs["dst"][k] # Absent /\ fs["dst"][k].blocks = fs["src"][k].blocks
              /\ fs["dst"][k].mtime >= fs["src"][k].mtime
            BY <3>1, <4>1, <4>3 DEF Settled, HasCopy, Other
        <5>2. ShouldCopy(s(fs)[k], d(fs)[k])
            BY <3>1, <3>2, <4>3, <5>1
        <5>3. fs["dst"][k].mtime \in Nat /\ fs["src"][k].mtime \in Nat
          <6>1. IsTrees(fs, now) /\ "src" \in Sides /\ "dst" \in Sides
              BY <1>1 DEF IInv, TypeOK, Sides
          <6>2. fs["src"][k] # Absent
              BY <3>1, <4>3
          <6>3. fs["src"][k].mtime \in Nat
              BY <6>1, <6>2, FileTypes
          <6>4. fs["dst"][k].mtime \in Nat
            <7>1. fs["dst"][k] # Absent
                BY <5>1
            <7> QED BY <6>1, <7>1, FileTypes
          <6> QED BY <6>3, <6>4
        <5>4. /\ s(fs)[k] = [size |-> Len(fs["src"][k].blocks), mtime |-> fs["src"][k].mtime]
              /\ d(fs)[k] = [size |-> Len(fs["dst"][k].blocks), mtime |-> fs["dst"][k].mtime]
          <6>1. fs["src"][k] # Absent
              BY <3>1, <4>3
          <6> QED BY <3>3, <5>1, <6>1
        <5> HIDE DEF s, d
        <5> QED BY <5>1, <5>2, <5>3, <5>4 DEF ShouldCopy
      <4> QED BY <4>2, <4>3
    <3>5. CASE <<"src", k>> \notin Jobs
      <4>1. fs["dst"][k] = snap["dst"][k]
          BY <1>1, <2>1, <3>5, AfterCleanRun
      <4>2. ~(IF snap["src"][k] # Absent
              THEN snap["dst"][k] # Absent => ShouldCopy(s(snap)[k], d(snap)[k])
              ELSE Mode = "mirror" /\ snap["dst"][k] # Absent)
          BY <2>1, <3>5, OneWayJobs DEF Jobs
      <4>3. snap["src"][k] # Absent /\ snap["dst"][k] # Absent =>
                s(fs)[k] = s(snap)[k] /\ d(fs)[k] = d(snap)[k]
        <5>1. SUFFICES ASSUME snap["src"][k] # Absent, snap["dst"][k] # Absent
                       PROVE  s(fs)[k] = s(snap)[k] /\ d(fs)[k] = d(snap)[k]
            OBVIOUS
        <5>2. /\ s(snap)[k] = [size |-> Len(snap["src"][k].blocks), mtime |-> snap["src"][k].mtime]
              /\ d(snap)[k] = [size |-> Len(snap["dst"][k].blocks), mtime |-> snap["dst"][k].mtime]
            BY <3>3, <5>1
        <5>3. /\ s(fs)[k] = [size |-> Len(fs["src"][k].blocks), mtime |-> fs["src"][k].mtime]
              /\ d(fs)[k] = [size |-> Len(fs["dst"][k].blocks), mtime |-> fs["dst"][k].mtime]
            BY <3>1, <3>3, <4>1, <5>1
        <5> QED BY <3>1, <4>1, <5>2, <5>3
      <4> HIDE DEF s, d
      <4> QED BY <3>1, <3>2, <4>1, <4>2, <4>3
    <3> QED BY <3>4, <3>5
  <2>3. JobsOf(fs) \cap ({"src"} \X Keys) = {}
      BY <2>2
  <2>4. JobsOf(fs) \subseteq {"src"} \X Keys
      BY <2>1 DEF OneWay, JobsOf, Forward, Extras, SnapshotOf, FilesOf
  <2>5. /\ Covers(Plan, JobsOf(fs)) /\ \A i \in 1..Len(Plan) : Planned(Plan[i], fs)
      BY <1>1, PlanCovers DEF IInv, TypeOK
  <2>6. Plan \in Seq(Ops) /\ Len(Plan) \in Nat
      BY <2>5, LenProperties DEF Covers
  <2>7. ASSUME NEW i \in 1..Len(Plan) PROVE FALSE
    <3>1. IsOp(Plan[i]) /\ JobsIn(Plan[i]) \subseteq JobsOf(fs)
        BY <2>5, <2>7 DEF Planned, FreshOp
    <3>2. <<Plan[i].from, Plan[i].keys[1]>> \in JobsIn(Plan[i])
      <4>1. 1 \in 1..Len(Plan[i].keys)
        <5>1. Len(Plan[i].keys) \in Nat /\ Len(Plan[i].keys) >= 1
            BY <3>1, LenProperties DEF IsOp, Ops
        <5> QED BY <5>1
      <4> QED BY <4>1 DEF JobsIn
    <3> QED BY <2>3, <2>4, <3>1, <3>2
  <2>8. Len(Plan) = 0
      BY <2>6, <2>7
  <2> QED BY <2>6, <2>8, EmptySeq
<1> QED BY <1>1, IInvariance, PTL

-----------------------------------------------------------------------------
(* Mode sync: which version of a file a clean run spreads.                 *)

(* The run found out which version of the file is the newer one, and that  *)
(* it has to be copied, if at all, in one direction only.  It does not if  *)
(* the newer version has another size (it is copied in both directions) or *)
(* if two versions that differ agree in their time and size.               *)
Clear(k) ==
    LET s == snap["src"][k]
        d == snap["dst"][k]
    IN  /\ k \notin BothWays
        /\ s # Absent /\ d # Absent /\ s.mtime = d.mtime /\ Len(s.blocks) = Len(d.blocks)
              => s.blocks = d.blocks

LEMMA SyncJobs ==
    ASSUME Mode = "sync", NEW k \in Keys
    PROVE  LET s == snap["src"][k]
               d == snap["dst"][k]
           IN  /\ <<"src", k>> \in Jobs <=>
                      /\ s # Absent
                      /\ d # Absent => Len(s.blocks) # Len(d.blocks) \/ s.mtime > d.mtime
               /\ <<"dst", k>> \in Jobs <=>
                      d # Absent /\ (s # Absent => d.mtime > s.mtime)
<1> DEFINE s == SnapshotOf(snap["src"])
           d == SnapshotOf(snap["dst"])
<1>1. /\ DOMAIN s = {j \in Keys : snap["src"][j] # Absent}
      /\ DOMAIN d = {j \in Keys : snap["dst"][j] # Absent}
    BY DEF SnapshotOf, FilesOf
<1>2. /\ <<"src", k>> \in Jobs <=> k \in Forward(s, d)
      /\ <<"dst", k>> \in Jobs <=> k \in Extras(s, d) \cup Newer(s, d)
    BY DEF Jobs, JobsOf
<1>3. /\ k \in DOMAIN s => s[k].size = Len(snap["src"][k].blocks) /\ s[k].mtime = snap["src"][k].mtime
      /\ k \in DOMAIN d => d[k].size = Len(snap["dst"][k].blocks) /\ d[k].mtime = snap["dst"][k].mtime
    BY DEF SnapshotOf
<1> HIDE DEF s, d
<1> QED BY <1>1, <1>2, <1>3 DEF Forward, Extras, Newer, ShouldCopy

(* After a clean run the two sides have the version to be spread of every  *)
(* file of which the run found out which one that is.                      *)
LEMMA NewestOfClear ==
    ASSUME IInv, Clean, ~OneWay, ~ignored, NEW k \in Keys, Clear(k)
    PROVE  \A side \in Sides : Equal(fs[side][k], Newest(k))
<1> DEFINE s == snap["src"][k]
           d == snap["dst"][k]
<1>1. Mode = "sync" /\ Sides = {"src", "dst"} /\ Other("src") = "dst" /\ Other("dst") = "src"
    BY DEF OneWay, Sides, Other
<1>2. /\ <<"src", k>> \in Jobs <=>
            s # Absent /\ (d # Absent => Len(s.blocks) # Len(d.blocks) \/ s.mtime > d.mtime)
      /\ <<"dst", k>> \in Jobs <=> d # Absent /\ (s # Absent => d.mtime > s.mtime)
    BY <1>1, SyncJobs
<1>3. <<"src", k>> \notin Jobs \/ <<"dst", k>> \notin Jobs
    BY <1>1, JobsBothWays DEF Clear
<1>4. Newest(k) = IF s = Absent THEN d ELSE IF d = Absent THEN s ELSE IF d.mtime > s.mtime THEN d ELSE s
    BY DEF Newest
<1>5. (s # Absent => s.mtime \in Nat) /\ (d # Absent => d.mtime \in Nat)
  <2>1. IsTrees(snap, now) /\ now \in Nat
      BY DEF IInv, TypeOK
  <2> QED BY <1>1, <2>1, FileTypes
<1>6. /\ s # Absent /\ d # Absent /\ s.mtime = d.mtime /\ Len(s.blocks) = Len(d.blocks)
            => s.blocks = d.blocks
    BY DEF Clear
<1>7. ASSUME NEW from \in Sides, <<from, k>> \in Jobs
      PROVE  /\ fs[from][k] = snap[from][k] /\ Settled(from, k)
    BY <1>1, <1>3, <1>7, AfterRun
<1>8. ASSUME NEW from \in Sides, <<"src", k>> \notin Jobs, <<"dst", k>> \notin Jobs
      PROVE  fs[from][k] = snap[from][k]
    BY <1>1, <1>8, AfterRun
<1>9. CASE <<"src", k>> \in Jobs
  <2>1. fs["src"][k] = s /\ fs["dst"][k] # Absent /\ fs["dst"][k].blocks = s.blocks /\ s # Absent
      BY <1>1, <1>2, <1>7, <1>9 DEF Settled, HasCopy
  <2>2. Newest(k) = s
      BY <1>2, <1>3, <1>4, <1>9
  <2> QED BY <1>1, <2>1, <2>2 DEF Equal
<1>10. CASE <<"dst", k>> \in Jobs
  <2>1. fs["dst"][k] = d /\ fs["src"][k] # Absent /\ fs["src"][k].blocks = d.blocks /\ d # Absent
      BY <1>1, <1>2, <1>7, <1>10 DEF Settled, HasCopy
  <2>2. Newest(k) = d
      BY <1>2, <1>4, <1>10
  <2> QED BY <1>1, <2>1, <2>2 DEF Equal
<1>11. CASE <<"src", k>> \notin Jobs /\ <<"dst", k>> \notin Jobs
  <2>1. fs["src"][k] = s /\ fs["dst"][k] = d
      BY <1>1, <1>8, <1>11
  <2>2. (s = Absent <=> d = Absent) /\ (s # Absent => s.blocks = d.blocks)
      BY <1>2, <1>5, <1>6, <1>11
  <2>3. Newest(k) \in {s, d}
      BY <1>4
  <2> HIDE DEF s, d
  <2> QED BY <1>1, <2>1, <2>2, <2>3 DEF Equal
<1> QED BY <1>9, <1>10, <1>11

(* A clean run in mode sync leaves both sides with the newer version of    *)
(* each file, if the run found that of every file (NewestWins): a run with *)
(* files that are not Clear is that of replica_sync_loses.                 *)
THEOREM NewestIsSpread == Spec => []((\A k \in Keys : Clear(k)) => NewestWins)
<1>1. ASSUME IInv, \A k \in Keys : Clear(k) PROVE NewestWins
    BY <1>1, NewestOfClear DEF NewestWins
<1> QED BY <1>1, IInvariance, PTL

-----------------------------------------------------------------------------
(* Nothing looks like a copy that is not one.                              *)

(* The conditions of NoFalseCopy.                                          *)
UsersBehave == OneWay /\ ~This.duringRun /\ EditedSides \subseteq {"src"}

Honest == UsersBehave => NoFalse(fs) /\ NoFalse(snap)

(* What the worker has written so far is the beginning of the source.      *)
LEMMA CopyIsPrefix ==
    ASSUME IInv, OneWay, ~edited, NEW w \in Workers, wk[w].pc = "copy"
    PROVE  /\ wk[w].op.from = "src" /\ SrcFile(w) # Absent /\ DstFile(w) # Absent
           /\ Prefix(DstFile(w).blocks, SrcFile(w).blocks)
<1> DEFINE op == wk[w].op
<1>1. Busy(w)
    BY DEF Busy
<1>2. /\ TypeOK /\ AtWork(w) /\ FromSnap(op) /\ Opened(w) /\ Copying(w)
      /\ JobsIn(op) \subseteq Jobs /\ op.kind \in {"copy", "batch"}
    BY <1>1, WorkerFacts DEF AtWork, OnCourse, OpIsOurs
<1>3. /\ <<op.from, Key(w)>> \in JobsIn(op) /\ Key(w) \in Keys
      /\ wk[w].entry \in 1..Len(op.keys)
    BY <1>2, AtWorkTypes
<1>4. op.from = "src" /\ DstSide(w) = "dst"
    BY <1>2, <1>3 DEF OneWay, Jobs, JobsOf, DstSide, Other
<1>5. Calm(op.from, Key(w)) /\ Ours(DstSide(w))
    BY <1>4, OneWayCalm DEF Ours
<1>6. SrcFile(w) = snap[op.from][Key(w)]
    BY <1>2, <1>5, CalmSource
<1>7. DstFile(w) # Absent /\ (wk[w].plain => DstFile(w).blocks = wk[w].hashed)
    BY <1>2, <1>5 DEF Copying, HasCopy, DstFile, DstSide
<1>8. CASE op.kind = "copy"
    BY <1>2, <1>4, <1>5, <1>6, <1>7, <1>8 DEF Opened, Copying
<1>9. CASE op.kind = "batch"
  <2>1. wk[w].plain /\ wk[w].entry \in 1..Len(op.members)
      BY <1>2, <1>3, <1>9 DEF AtWork
  <2>2. /\ snap[op.from][Key(w)] # Absent
        /\ op.members[wk[w].entry] = snap[op.from][Key(w)].blocks
      BY <1>2, <1>5, <2>1 DEF FromSnap, Key
  <2>3. Prefix(wk[w].hashed, op.members[wk[w].entry])
      BY <1>2, <1>9 DEF Copying
  <2> QED BY <1>4, <1>6, <1>7, <2>1, <2>2, <2>3
<1> QED BY <1>2, <1>8, <1>9

NoFalseAt(tree, k) ==
    tree["src"][k] # Absent /\ tree["dst"][k] # Absent =>
        \/ Len(tree["src"][k].blocks) # Len(tree["dst"][k].blocks)
        \/ tree["src"][k].mtime > tree["dst"][k].mtime
        \/ tree["src"][k].blocks = tree["dst"][k].blocks

LEMMA NoFalseIs ==
    ASSUME NEW tree
    PROVE  NoFalse(tree) <=> \A k \in Keys : NoFalseAt(tree, k)
<1> DEFINE s == SnapshotOf(tree["src"])
           d == SnapshotOf(tree["dst"])
<1>1. /\ DOMAIN s = {j \in Keys : tree["src"][j] # Absent}
      /\ DOMAIN d = {j \in Keys : tree["dst"][j] # Absent}
    BY DEF SnapshotOf, FilesOf
<1>2. ASSUME NEW k \in DOMAIN s \cap DOMAIN d
      PROVE  ShouldCopy(s[k], d[k]) <=>
                \/ Len(tree["src"][k].blocks) # Len(tree["dst"][k].blocks)
                \/ tree["src"][k].mtime > tree["dst"][k].mtime
    BY <1>2 DEF SnapshotOf, ShouldCopy, FilesOf
<1> HIDE DEF s, d
<1>3. NoFalse(tree) <=> \A k \in DOMAIN s \cap DOMAIN d :
          ShouldCopy(s[k], d[k]) \/ tree["src"][k].blocks = tree["dst"][k].blocks
    BY DEF NoFalse, s, d
<1> QED BY <1>1, <1>2, <1>3 DEF NoFalseAt

(* A step that writes at most one file, at the destination, which is then  *)
(* absent, has the beginning of its source, or is shorter.                 *)
LEMMA WriteIsHonest ==
    ASSUME NoFalse(fs), IInv', NEW k \in Keys, WritesOnly(<<"src", k>>),
           \/ fs'["dst"][k] = Absent
           \/ /\ fs["src"][k] # Absent
              /\ \/ Prefix(fs'["dst"][k].blocks, fs["src"][k].blocks)
                 \/ Len(fs'["dst"][k].blocks) < Len(fs["src"][k].blocks)
    PROVE  NoFalse(fs)'
<1>1. IsTrees(fs', now') /\ "src" \in Sides /\ "dst" \in Sides
    BY DEF IInv, TypeOK, Sides
<1>2. \A j \in Keys : fs'["src"][j] = fs["src"][j]
    BY <1>1 DEF WritesOnly, Other
<1>3. ASSUME NEW j \in Keys PROVE NoFalseAt(fs', j)
  <2>1. CASE j # k
    <3>1. fs'["dst"][j] = fs["dst"][j]
        BY <1>1, <2>1 DEF WritesOnly
    <3> QED BY <1>2, <3>1, NoFalseIs DEF NoFalseAt
  <2>2. CASE j = k
    <3>1. SUFFICES ASSUME fs'["src"][k] # Absent, fs'["dst"][k] # Absent,
                          Len(fs'["src"][k].blocks) = Len(fs'["dst"][k].blocks)
                   PROVE  fs'["src"][k].blocks = fs'["dst"][k].blocks
        BY <2>2 DEF NoFalseAt
    <3>2. /\ fs'["src"][k].blocks \in Blocks /\ Len(fs'["src"][k].blocks) \in Nat
          /\ fs'["dst"][k].blocks \in Blocks /\ Len(fs'["dst"][k].blocks) \in Nat
        BY <1>1, <3>1, FileTypes
    <3>3. Prefix(fs'["dst"][k].blocks, fs'["src"][k].blocks)
        BY <1>2, <3>1, <3>2
    <3> QED BY <3>1, <3>2, <3>3, PrefixFull DEF Blocks
  <2> QED BY <2>1, <2>2
<1> QED BY <1>3, NoFalseIs

LEMMA FrontIsShorter ==
    ASSUME NEW S, NEW s \in Seq(S), s # <<>>
    PROVE  Len(Front(s)) < Len(s) /\ Len(s) \in Nat
<1>1. Len(s) \in Nat /\ Len(s) # 0
    BY LenProperties, EmptySeq
<1>2. \A i \in 1..(Len(s) - 1) : s[i] \in S
    BY <1>1, ElementOfSeq
<1> QED BY <1>1, <1>2, SubSeqProperties DEF Front

(* A step of a worker that writes: see CopyIsPrefix before or after it.    *)
LEMMA WorkerIsHonest ==
    ASSUME IInv, IInv', OneWay, ~edited, NoFalse(fs), NEW w \in Workers,
           Create(w) \/ CopyBlock(w) \/ FallBack(w) \/ WriteLost(w) \/ Delete(w),
           wk'[w].pc = "copy" =>
               /\ (wk[w].op.from)' = "src" /\ SrcFile(w)' # Absent
               /\ Prefix(DstFile(w).blocks, SrcFile(w).blocks)'
    PROVE  NoFalse(fs)'
<1> DEFINE op == wk[w].op
<1>1. Busy(w) /\ \E file : Write(w, file)
    BY DEF Create, CopyBlock, FallBack, WriteLost, Delete, At, AllWritten, Busy
<1>2. TypeOK /\ AtWork(w) /\ JobsIn(op) \subseteq Jobs
    BY <1>1, WorkerFacts DEF OpIsOurs
<1>3. /\ <<op.from, Key(w)>> \in JobsIn(op) /\ Key(w) \in Keys
      /\ wk[w] \in WorkerStates
    BY <1>2, AtWorkTypes
<1>4. op.from = "src" /\ DstSide(w) = "dst"
    BY <1>2, <1>3 DEF OneWay, Jobs, JobsOf, DstSide, Other
<1>5. PICK file : fs' = [fs EXCEPT !["dst"][Key(w)] = file]
    BY <1>1, <1>4 DEF Write
<1>6. /\ fs'["dst"][Key(w)] = file /\ WritesOnly(<<"src", Key(w)>>)
      /\ fs'["src"][Key(w)] = fs["src"][Key(w)]
  <2>1. fs \in [Sides -> [Keys -> Files \cup {Absent}]]
      BY <1>2 DEF TypeOK, IsTrees
  <2> QED BY <1>3, <1>5, <2>1 DEF WritesOnly, Sides, Other
<1>7. CASE FallBack(w) \/ Delete(w)
  <2>1. fs'["dst"][Key(w)] = Absent
    <3>1. fs' = [fs EXCEPT !["dst"][Key(w)] = Absent]
        BY <1>4, <1>7 DEF FallBack, Delete, Write
    <3>2. fs \in [Sides -> [Keys -> Files \cup {Absent}]] /\ "dst" \in Sides
        BY <1>2 DEF TypeOK, IsTrees, Sides
    <3> QED BY <1>3, <3>1, <3>2
  <2> QED BY <1>3, <1>6, <2>1, WriteIsHonest
<1>8. CASE WriteLost(w)
  <2>1. /\ wk[w].pc = "copy" /\ DstFile(w) # Absent /\ DstFile(w).blocks # <<>>
        /\ fs' = [fs EXCEPT !["dst"][Key(w)] =
                     [blocks |-> Front(DstFile(w).blocks), mtime |-> now + 1]]
      BY <1>4, <1>8 DEF WriteLost, AllWritten, At, Write
  <2>2. fs'["dst"][Key(w)].blocks = Front(DstFile(w).blocks)
    <3>1. fs \in [Sides -> [Keys -> Files \cup {Absent}]] /\ "dst" \in Sides
        BY <1>2 DEF TypeOK, IsTrees, Sides
    <3> QED BY <1>3, <2>1, <3>1
  <2>3. SrcFile(w) # Absent /\ Prefix(DstFile(w).blocks, SrcFile(w).blocks)
      BY <2>1, CopyIsPrefix
  <2>4. /\ DstFile(w).blocks \in Blocks /\ Len(SrcFile(w).blocks) \in Nat
    <3>1. IsTrees(fs, now) /\ "src" \in Sides /\ "dst" \in Sides
        BY <1>2 DEF TypeOK, Sides
    <3>2. SrcFile(w) = fs["src"][Key(w)] /\ DstFile(w) = fs["dst"][Key(w)]
        BY <1>4 DEF SrcFile, DstFile
    <3>3. DstFile(w).blocks \in Blocks
        BY <1>3, <2>1, <3>1, <3>2, FileTypes
    <3>4. Len(SrcFile(w).blocks) \in Nat
        BY <1>3, <2>3, <3>1, <3>2, FileTypes
    <3> QED BY <3>3, <3>4
  <2>5. /\ Len(Front(DstFile(w).blocks)) < Len(DstFile(w).blocks)
        /\ Len(DstFile(w).blocks) \in Nat /\ Len(Front(DstFile(w).blocks)) \in Int
    <3>1. Front(DstFile(w).blocks) \in Blocks
      <4>1. \A i \in 1..(Len(DstFile(w).blocks) - 1) : DstFile(w).blocks[i] \in Versions
        <5>1. Len(DstFile(w).blocks) \in Nat
            BY <2>4, LenProperties DEF Blocks
        <5> QED BY <2>4, <5>1, ElementOfSeq DEF Blocks
      <4>2. Len(DstFile(w).blocks) - 1 \in Int
          BY <2>4, LenProperties DEF Blocks
      <4> QED BY <4>1, <4>2, SubSeqProperties DEF Blocks, Front
    <3>2. Len(Front(DstFile(w).blocks)) \in Nat
        BY <3>1, LenProperties DEF Blocks
    <3> QED BY <2>1, <2>4, <3>2, FrontIsShorter DEF Blocks
  <2>6. Len(fs'["dst"][Key(w)].blocks) < Len(fs["src"][Key(w)].blocks)
      BY <1>4, <2>2, <2>3, <2>4, <2>5 DEF Prefix, SrcFile
  <2> QED BY <1>3, <1>4, <1>6, <2>3, <2>6, WriteIsHonest DEF SrcFile
<1>9. CASE Create(w) \/ CopyBlock(w)
  <2>1. /\ wk'[w].pc = "copy" /\ wk'[w].op = op /\ wk'[w].entry = wk[w].entry
      BY <1>2, <1>3, <1>9 DEF Create, CopyBlock, TypeOK, WorkerStates, At
  <2>2. (wk[w].op.from)' = op.from /\ Key(w)' = Key(w) /\ DstSide(w)' = DstSide(w)
      BY <2>1 DEF Key, DstSide
  <2>3. SrcFile(w)' = fs'["src"][Key(w)] /\ DstFile(w)' = fs'["dst"][Key(w)]
      BY <1>4, <2>2 DEF SrcFile, DstFile
  <2>4. fs["src"][Key(w)] # Absent /\ Prefix(fs'["dst"][Key(w)].blocks, fs["src"][Key(w)].blocks)
      BY <1>6, <2>1, <2>3
  <2> QED BY <1>3, <1>6, <2>4, WriteIsHonest
<1> QED BY <1>7, <1>8, <1>9

(* Copies in the making, seen from after a step.                           *)
Looks ==
    OneWay /\ ~edited => \A w \in Workers : wk[w].pc = "copy" =>
        /\ wk[w].op.from = "src" /\ SrcFile(w) # Absent
        /\ Prefix(DstFile(w).blocks, SrcFile(w).blocks)

LEMMA HonestStep ==
    ASSUME IInv, IInv', Looks', Honest, [Next]_vars
    PROVE  Honest'
<1>1. UNCHANGED <<scenario, This, Mode, EditedSides>>
    BY DEF Next, vars, runVars, StartRun, Fill, EndRun, Kill, Worker, Receive, Open, Create,
       CopyBlock, FallBack, CopyDone, WriteLost, Delete, TaskFails, Edit, This, Mode,
       EditedSides
<1>2. SUFFICES ASSUME UsersBehave, NoFalse(fs), NoFalse(snap)
               PROVE  NoFalse(fs)' /\ NoFalse(snap)'
    BY <1>1 DEF Honest, UsersBehave, OneWay
<1>3. CASE UNCHANGED fs /\ (UNCHANGED snap \/ snap' = fs)
    BY <1>2, <1>3 DEF NoFalse
<1>4. ASSUME NEW w \in Workers,
             Create(w) \/ CopyBlock(w) \/ FallBack(w) \/ WriteLost(w) \/ Delete(w)
      PROVE  NoFalse(fs)' /\ NoFalse(snap)'
  <2>1. running /\ UNCHANGED <<snap, edited>>
      BY <1>4 DEF Create, CopyBlock, FallBack, WriteLost, Delete, At, AllWritten, runVars
  <2>2. OneWay /\ ~edited
      BY <1>2, <2>1 DEF IInv, Shape, UsersBehave
  <2>3. wk'[w].pc = "copy" =>
               /\ (wk[w].op.from)' = "src" /\ SrcFile(w)' # Absent
               /\ Prefix(DstFile(w).blocks, SrcFile(w).blocks)'
      BY <1>1, <2>1, <2>2 DEF Looks, OneWay
  <2>4. NoFalse(fs)'
      BY <1>2, <1>4, <2>2, <2>3, WorkerIsHonest
  <2> QED BY <1>2, <2>1, <2>4 DEF NoFalse
<1>5. ASSUME NEW e \in This.edits, NEW k \in Keys, Edit(e[1], k, e[2])
      PROVE  NoFalse(fs)' /\ NoFalse(snap)'
  <2>1. /\ fs' = [fs EXCEPT !["src"][k] = File(e[2], now + 1)] /\ UNCHANGED snap
        /\ now \in Nat /\ fs \in [Sides -> [Keys -> Files \cup {Absent}]]
        /\ IsTrees(fs, now)
    <3>1. e[1] = "src"
        BY <1>2 DEF UsersBehave, EditedSides
    <3> QED BY <1>5, <3>1 DEF Edit, runVars, IInv, TypeOK, IsTrees
  <2>2. /\ fs'["dst"] = fs["dst"] /\ fs'["src"][k].mtime = now + 1
        /\ \A j \in Keys : j # k => fs'["src"][j] = fs["src"][j]
      BY <2>1 DEF Sides, File
  <2>3. ASSUME NEW j \in Keys PROVE NoFalseAt(fs', j)
    <3>1. CASE j # k
        BY <1>2, <2>2, <3>1, NoFalseIs DEF NoFalseAt
    <3>2. CASE j = k
      <4>1. fs["dst"][k] # Absent => fs["dst"][k].mtime \in Nat /\ fs["dst"][k].mtime <= now
          BY <2>1, FileTypes DEF Sides
      <4> QED BY <2>1, <2>2, <3>2, <4>1 DEF NoFalseAt
    <3> QED BY <3>1, <3>2
  <2>4. NoFalse(fs)'
      BY <2>3, NoFalseIs
  <2>5. NoFalse(snap)'
      BY <1>2, <2>1 DEF NoFalse
  <2> QED BY <2>4, <2>5
<1>6. CASE StartRun \/ Fill \/ EndRun \/ Kill \/ UNCHANGED vars
    BY <1>3, <1>6 DEF StartRun, Fill, EndRun, Kill, vars, runVars
<1>7. ASSUME NEW w \in Workers, Receive(w) \/ Open(w) \/ CopyDone(w) \/ TaskFails(w)
      PROVE  NoFalse(fs)' /\ NoFalse(snap)'
    BY <1>3, <1>7 DEF Receive, Open, CopyDone, TaskFails, runVars
<1> QED BY <1>4, <1>5, <1>6, <1>7 DEF Next, Worker

LEMMA HonestInvariance == Spec /\ NoFalseCopy => []Honest
<1>1. Init /\ NoFalseCopy => Honest
    BY DEF Init, NoFalseCopy, Honest, UsersBehave, NoFalse
<1>2. IInv => Looks
    BY CopyIsPrefix DEF Looks
<1>3. IInv /\ IInv' /\ Looks' /\ Honest /\ [Next]_vars => Honest'
    BY HonestStep
<1>4. Spec => []IInv
    BY IInvariance
<1> QED BY <1>1, <1>2, <1>3, <1>4, PTL DEF Spec

(* If the trees have no false copies at first they never get one           *)
(* (NoFalseCopy), in the middle of a copy neither: what a worker has       *)
(* written is at every moment a beginning of the source, which has the     *)
(* size of the source only if it is all of it.                             *)
THEOREM NoFalseCopies == Spec /\ NoFalseCopy => []NoFalseCopy
<1>1. Honest => NoFalseCopy
    BY DEF Honest, NoFalseCopy, UsersBehave
<1> QED BY <1>1, HonestInvariance, PTL

(* Both together: from such trees every clean run in the modes update and  *)
(* mirror makes the destination like the source, unless copyFile ignored   *)
(* an error of Close in it.                                                *)
Converged ==
    Clean /\ UsersBehave /\ ~ignored =>
        /\ \A k \in FilesOf(fs["src"]) : Equal(fs["src"][k], fs["dst"][k])
        /\ Mode = "mirror" => FilesOf(fs["dst"]) = FilesOf(fs["src"])

THEOREM HonestTreesConverge == Spec /\ NoFalseCopy => []Converged
<1>1. Honest /\ CleanRunConverges => Converged
    BY DEF Honest, CleanRunConverges, Converged, UsersBehave
<1> QED BY <1>1, HonestInvariance, CleanRunsConverge, PTL
=============================================================================
