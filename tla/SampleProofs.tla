---------------------------- MODULE SampleProofs ----------------------------
(***************************************************************************)
(* Proofs about SampleTool, for any sizes, formats, names and numbers of   *)
(* files and goroutines: the limit on the bytes is kept, in the making and *)
(* on disk, files in directories that are listed stay, and the exit code   *)
(* is right.                                                               *)
(***************************************************************************)
EXTENDS SampleTool, FoldTheorems

-----------------------------------------------------------------------------
(* The inductive invariant.                                                *)

Task == [path : Paths, size : Nat, target : Nat]

SizeOf   == [i \in DOMAIN tasks |-> tasks[i].size]
Piece(i) == [by |-> i, upto |-> tasks[i].size]

Generates ==
    /\ tasks \in Seq(Task)
    /\ total = SumFunctionOnSet(SizeOf, DOMAIN tasks)
    /\ MaxBytes > 0 => total <= MaxBytes
    /\ \A p \in Generated \cap OnDisk : p[1] \notin Listed

(* What the tool wrote of a file that was made up are pieces of its tasks. *)
OwnPiece(p, x) == x.by = 0 \/ \E i \in DOMAIN tasks : tasks[i].path = p /\ x = Piece(i)

Files ==
    /\ DOMAIN disk = Paths
    /\ \A p \in Paths : phase = "generate" \/ p \notin Generated => disk[p] = Before(p)
    /\ \A p \in Generated : \A x \in disk[p] : OwnPiece(p, x)

Alone(i) == \A j \in DOMAIN tasks \ {i} : tasks[j].path # tasks[i].path

(* What becomes of a task that was received, as long as nothing failed.    *)
Underway(i) ==
    \E w \in Workers : wpc[w] \in {"check", "create"} /\ held[w] = i
Created(i) ==
    /\ \E w \in Workers : wpc[w] = "write" /\ held[w] = i
    /\ disk[tasks[i].path] # NoFile
    /\ Alone(i) => disk[tasks[i].path] = EmptyFile
Complete(i) ==
    /\ disk[tasks[i].path] # NoFile
    /\ Alone(i) => disk[tasks[i].path] = {Piece(i)}

Busy(w) == wpc[w] \in {"check", "create", "write", "times", "once"}

Failing == \E w \in Workers : wpc[w] = "once"

Started ==
    /\ wpc \in [Workers -> {"range", "check", "create", "write", "times", "once", "exited"}]
    /\ held \in [Workers -> 0..sent]
    /\ \A w \in Workers : /\ Busy(w) => held[w] # 0
                          /\ wpc[w] = "exited" => sent = Len(tasks)
    /\ hasErr <=> execErr # 0 \/ Failing
    /\ ~hasErr => \A i \in 1..sent : Underway(i) \/ Created(i) \/ Complete(i)

Executes ==
    /\ phase \in {"generate", "execute", "done"}
    /\ sent \in 0..Len(tasks) /\ execErr \in 0..Len(tasks) /\ hasErr \in BOOLEAN
    /\ phase = "generate" => sent = 0 /\ ~hasErr /\ execErr = 0
    /\ phase = "execute" => tasks # <<>>
    /\ phase # "generate" /\ tasks # <<>> => Started

Ends ==
    /\ phase # "done" => exit = "none"
    /\ phase = "done" /\ tasks = <<>> => exit = "0"
    /\ phase = "done" /\ tasks # <<>> =>
          AllExited /\ exit = IF execErr # 0 \/ hasErr THEN "1" ELSE "0"

IInv == Generates /\ Files /\ Executes /\ Ends

-----------------------------------------------------------------------------
(* Sizes.                                                                  *)

LEMMA DocumentNat ==
    ASSUME NEW x \in Exts, Formats[x].line # 0, NEW filler \in Nat
    PROVE  DocumentSize(x, filler) \in Nat
<1> DEFINE f == Formats[x]
           lines == (filler + f.line - 1) \div f.line
<1>1. f.base \in Nat /\ f.line \in Nat \ {0} /\ f.adds \in Nat
    BY SampleAssumption DEF Exts
<1>2. filler + f.line - 1 \in Nat
    BY <1>1
<1>3. lines \in Nat
    BY <1>1, <1>2, DivRange
<1>4. f.adds * lines \in Nat
  <2>1. \A a, b \in Nat : a * b \in Nat
      OBVIOUS
  <2> HIDE DEF lines
  <2> QED BY <1>1, <1>3, <2>1
<1>5. DocumentSize(x, filler) = f.base + filler + f.adds * lines
    BY DEF DocumentSize
<1> HIDE DEF f, lines
<1> QED BY <1>1, <1>4, <1>5

LEMMA AdjustNat ==
    ASSUME NEW x \in Exts, Formats[x].line # 0, NEW target \in Nat, NEW filler \in Nat
    PROVE  Adjust(x, target, filler) \in Nat
<1> DEFINE size == DocumentSize(x, filler)
<1>1. size \in Nat
    BY DocumentNat
<1> HIDE DEF size
<1>2. (IF size > target THEN IF size - target >= filler THEN 0 ELSE filler - (size - target)
       ELSE filler + target - size) \in Nat
    BY <1>1
<1> QED BY <1>2 DEF Adjust, size

LEMMA ContentNat ==
    ASSUME NEW x \in Exts, NEW target \in Nat
    PROVE  ContentSize(x, target) \in Nat
<1>1. CASE Formats[x].line = 0
    BY <1>1 DEF ContentSize
<1>2. CASE Formats[x].line # 0
  <2> DEFINE step == [p \in (1..10) \X Nat |-> Adjust(x, target, p[2])]
             IsFiller(g) == g = [n \in 0..10 |-> IF n = 0 THEN 0 ELSE Adjust(x, target, g[n - 1])]
             filler == CHOOSE g : IsFiller(g)
  <2>1. \A i \in 1..10, v \in Nat : step[<<i, v>>] = Adjust(x, target, v) /\ step[<<i, v>>] \in Nat
      BY <1>2, AdjustNat
  <2> HIDE DEF step
  <2>2. PICK F \in [0..10 -> Nat] : Iterates(F, 10, 0, step)
    <3>1. StaysIn(step, 10, Nat)
        BY <2>1 DEF StaysIn
    <3> QED BY <3>1, IterateExists
  <2>3. F[0] = 0 /\ \A i \in 1..10 : F[i] = Adjust(x, target, F[i - 1])
    <3>1. \A i \in 1..10 : F[i - 1] \in Nat
        BY <2>2
    <3> QED BY <2>1, <2>2, <3>1 DEF Iterates
  <2>4. IsFiller(F)
    <3>1. \A n \in 0..10 : n # 0 => n \in 1..10
        OBVIOUS
    <3> QED BY <2>2, <2>3, <3>1
  <2>5. IsFiller(filler)
      BY <2>4
  <2> HIDE DEF filler
  <2>6. filler[0] = 0 /\ \A i \in 1..10 : filler[i] = Adjust(x, target, filler[i - 1])
      BY <2>5
  <2>7. InStep(filler, F, 10)
      BY <2>3, <2>6 DEF InStep
  <2>8. filler[10] = F[10]
    <3>1. 10 \in Nat /\ 10 \in 0..10
        OBVIOUS
    <3> QED BY <2>7, <3>1, IterateUnique DEF SameUpTo
  <2>9. filler[10] \in Nat
      BY <2>2, <2>8
  <2>10. ContentSize(x, target) = DocumentSize(x, filler[10])
      BY <1>2 DEF ContentSize, filler
  <2> QED BY <1>2, <2>9, <2>10, DocumentNat
<1> QED BY <1>1, <1>2

(* A set of numbers up to n that is not empty has a greatest one.          *)
LEMMA MaxOf ==
    ASSUME NEW n \in Nat, NEW S, S \subseteq 0..n, S # {}
    PROVE  Max(S) \in S
<1> DEFINE T == {n - j : j \in S}
<1>1. \A j \in S : n - j \in Nat /\ j \in Int
    OBVIOUS
<1>2. PICK x \in T : \A y \in T : x <= y
  <2>1. T \subseteq Nat /\ T # {}
      BY <1>1
  <2> QED BY <2>1, NatLeast
<1>3. PICK m \in S : x = n - m
    BY <1>2
<1>4. ASSUME NEW j \in S PROVE m >= j
  <2>1. n - m <= n - j /\ j \in Int /\ m \in Int
      BY <1>1, <1>2, <1>3
  <2> QED BY <2>1
<1> QED BY <1>4 DEF Max

-----------------------------------------------------------------------------
(* The generation.                                                         *)

LEMMA InitInv == Init => IInv
<1> SUFFICES ASSUME Init PROVE IInv
    OBVIOUS
<1>1. /\ tasks = <<>> /\ total = 0 /\ phase = "generate" /\ sent = 0 /\ hasErr = FALSE
      /\ execErr = 0 /\ exit = "none"
      /\ disk = [p \in Paths |-> Before(p)]
    BY DEF Init
<1>2. tasks \in Seq(Task) /\ DOMAIN tasks = {} /\ Len(tasks) = 0 /\ Generated = {}
    BY <1>1 DEF Generated
<1>3. SumFunctionOnSet(SizeOf, {}) = 0
    BY SumEmpty
<1>4. Generates
    BY <1>1, <1>2, <1>3, SampleAssumption DEF Generates
<1>6. Files
    BY <1>1, <1>2 DEF Files
<1>7. Executes
  <2>1. 0 \in 0..0
      OBVIOUS
  <2>2. sent \in 0..Len(tasks) /\ execErr \in 0..Len(tasks) /\ hasErr \in BOOLEAN
      BY <1>1, <1>2, <2>1
  <2> QED BY <1>1, <2>2 DEF Executes
<1>8. Ends
    BY <1>1 DEF Ends
<1> QED BY <1>4, <1>6, <1>7, <1>8 DEF IInv

LEMMA StartInv == ASSUME IInv, phase = "generate", StartExecution PROVE IInv'
<1>1. UNCHANGED <<tasks, total, disk, sent, hasErr, execErr>>
    BY DEF StartExecution, genVars
<1>2. UNCHANGED <<SizeOf, Generated, Generates>>
    BY <1>1 DEF SizeOf, Generated, Generates
<1>3. phase' \in {"execute", "done"}
    BY DEF StartExecution
<1>4. Files'
    BY <1>1, <1>2, <1>3 DEF IInv, Files, OwnPiece, Piece
<1>5. sent = 0 /\ ~hasErr /\ execErr = 0 /\ exit = "none"
    BY DEF IInv, Executes, Ends
<1>6. CASE tasks = <<>>
  <2>1. phase' = "done" /\ exit' = "0"
      BY <1>6 DEF StartExecution
  <2> QED BY <1>1, <1>2, <1>4, <1>6, <2>1 DEF IInv, Executes, Ends
<1>7. CASE tasks # <<>>
  <2>1. /\ phase' = "execute" /\ exit' = exit
        /\ wpc' = [w \in Workers |-> "range"] /\ held' = [w \in Workers |-> 0]
      BY <1>7 DEF StartExecution
  <2>2. Workers' = Workers
      BY <1>1 DEF Workers, WorkerCount
  <2>3. Started'
      BY <1>1, <1>5, <2>1, <2>2 DEF Started, Busy, Failing
  <2> QED BY <1>1, <1>2, <1>4, <1>5, <1>7, <2>1, <2>3 DEF IInv, Executes, Ends
<1> QED BY <1>6, <1>7

LEMMA AppendInv ==
    ASSUME IInv, phase = "generate", NEW target \in Nat, NEW name \in Names, Fresh(name),
           NEW x \in Exts, NEW size, size = ContentSize(x, target), Fits(size),
           tasks' = Append(tasks, [path |-> <<name, x>>, size |-> size, target |-> target]),
           total' = total + size, UNCHANGED <<phase, execVars, disk, exit>>
    PROVE  IInv'
<1> DEFINE t == [path |-> <<name, x>>, size |-> size, target |-> target]
           n == Len(tasks)
           p == <<name, x>>
<1>1. size \in Nat /\ t \in Task
    BY ContentNat DEF Task, Paths
<1>2. tasks \in Seq(Task) /\ total = SumFunctionOnSet(SizeOf, DOMAIN tasks)
    BY DEF IInv, Generates
<1>3. /\ tasks' \in Seq(Task) /\ n \in Nat /\ DOMAIN tasks = 1..n /\ Len(tasks') = n + 1
      /\ DOMAIN tasks' = (1..n) \cup {n + 1} /\ n + 1 \notin 1..n
      /\ tasks'[n + 1] = t /\ \A i \in 1..n : tasks'[i] = tasks[i]
    BY <1>1, <1>2, OneIndexMore
<1>4. \A i \in 1..n : tasks[i].size \in Nat /\ tasks[i].path \in Paths
  <2> TAKE i \in 1..n
  <2>1. tasks[i] \in Task
      BY <1>2, <1>3
  <2> QED BY <2>1 DEF Task
<1>5. p \in Paths /\ p[1] = name /\ (p \in OnDisk => p[1] \notin Listed)
  <2>1. p \in Paths /\ p[1] = name
      BY DEF Paths
  <2>2. disk[p] = Before(p)
      BY <2>1 DEF IInv, Files
  <2>3. name \in Listed => disk[p] = NoFile
      BY DEF Fresh
  <2>4. OldFile # NoFile
      BY DEF OldFile, NoFile
  <2> QED BY <2>1, <2>2, <2>3, <2>4 DEF Before
<1>6. Generated' = Generated \cup {p}
    BY <1>3 DEF Generated
<1> HIDE DEF p, t, n
<1>7. total' = SumFunctionOnSet(SizeOf', DOMAIN tasks')
  <2> DEFINE f == SizeOf
             g == SizeOf'
             S == 1..n
  <2>1. /\ \A i \in S : f[i] = tasks[i].size /\ g[i] = tasks[i].size
        /\ g[n + 1] = size
    <3>1. t.size = size
        BY DEF t
    <3> QED BY <1>3, <3>1 DEF SizeOf
  <2> HIDE DEF f, g
  <2>2. IsFiniteSet(S)
      BY <1>3, FS_Interval
  <2>3. NatValued(f, S) /\ NatValued(g, S \cup {n + 1})
      BY <1>1, <1>4, <2>1 DEF NatValued
  <2>4. n + 1 \notin S
      BY <1>3
  <2> HIDE DEF S
  <2>5. SumFunctionOnSet(g, S \cup {n + 1}) = SumFunctionOnSet(g, S) + g[n + 1]
      BY <2>2, <2>3, <2>4, SumInsert
  <2>6. SumFunctionOnSet(f, S) = SumFunctionOnSet(g, S)
      BY <2>1, <2>2, <2>3, SumSame
  <2>7. total = SumFunctionOnSet(f, S) /\ DOMAIN tasks' = S \cup {n + 1}
      BY <1>2, <1>3 DEF f, S
  <2> QED BY <2>1, <2>5, <2>6, <2>7 DEF g
<1>8. Generates'
  <2>1. MaxBytes > 0 => total' <= MaxBytes
      BY DEF Fits
  <2>2. \A q \in Generated' \cap OnDisk : q[1] \notin Listed
      BY <1>5, <1>6 DEF IInv, Generates
  <2> QED BY <1>3, <1>7, <2>1, <2>2 DEF Generates
<1>9. Files'
  <2>1. \A q \in Paths : disk[q] = Before(q)
      BY DEF IInv, Files
  <2>2. Generated' \subseteq Paths
    <3>1. Generated \subseteq Paths
        BY <1>3, <1>4 DEF Generated
    <3> QED BY <1>5, <1>6, <3>1
  <2>3. \A q \in Paths : \A y \in Before(q) : y.by = 0
      BY DEF Before, OldFile, NoFile
  <2>4. \A q \in Generated' : \A y \in disk'[q] : OwnPiece(q, y)'
      BY <2>1, <2>2, <2>3 DEF OwnPiece
  <2> QED BY <2>1, <2>4 DEF IInv, Files
<1>10. sent' = 0 /\ ~hasErr' /\ execErr' = 0 /\ phase' = "generate" /\ exit' = "none"
    BY DEF IInv, Executes, Ends, execVars
<1>11. Ends'
    BY <1>10 DEF Ends
<1>12. Executes'
  <2>1. 0 \in 0..(n + 1)
      BY <1>3
  <2>2. sent' \in 0..Len(tasks') /\ execErr' \in 0..Len(tasks') /\ hasErr' \in BOOLEAN
      BY <1>3, <1>10, <2>1 DEF IInv, Executes, execVars
  <2> QED BY <1>10, <2>2 DEF Executes
<1> QED BY <1>8, <1>9, <1>11, <1>12 DEF IInv

LEMMA GenerateInv == ASSUME IInv, Generate PROVE IInv'
<1>1. phase = "generate"
    BY DEF Generate
<1>2. CASE StartExecution
    BY <1>1, <1>2, StartInv
<1>3. CASE ~StartExecution
  <2>1. PICK target \in Candidates, name \in {n \in Names : Fresh(n)}, x \in Exts :
              /\ Fits(ContentSize(x, target))
              /\ tasks' = Append(tasks, [path |-> <<name, x>>, size |-> ContentSize(x, target),
                                         target |-> target])
              /\ total' = total + ContentSize(x, target)
              /\ UNCHANGED <<phase, execVars, disk, exit>>
      BY <1>3 DEF Generate
  <2>2. target \in Nat
      BY SampleAssumption DEF Candidates
  <2> QED BY <1>1, <2>1, <2>2, AppendInv
<1> QED BY <1>2, <1>3

-----------------------------------------------------------------------------
(* The workers.                                                            *)

LEMMA AtWork ==
    ASSUME IInv, phase = "execute"
    PROVE  /\ Started /\ tasks # <<>> /\ tasks \in Seq(Task)
           /\ sent \in Nat /\ Len(tasks) \in Nat /\ sent <= Len(tasks) /\ DOMAIN tasks = 1..Len(tasks)
           /\ execErr \in 0..Len(tasks) /\ hasErr \in BOOLEAN /\ exit = "none"
<1>1. tasks \in Seq(Task) /\ sent \in 0..Len(tasks)
    BY DEF IInv, Generates, Executes
<1>2. /\ Started /\ tasks # <<>> /\ execErr \in 0..Len(tasks) /\ hasErr \in BOOLEAN
      /\ exit = "none"
    BY DEF IInv, Executes, Ends
<1> QED BY <1>1, <1>2

(* What a task that a worker holds is about.                               *)
LEMMA Holds ==
    ASSUME IInv, phase = "execute", NEW w \in Workers, Busy(w)
    PROVE  /\ held[w] \in DOMAIN tasks /\ held[w] \in Nat \ {0} /\ held[w] <= sent
           /\ Path(w) \in Paths /\ Path(w) \in Generated /\ tasks[held[w]].size \in Nat
<1>1. held[w] \in 0..sent /\ held[w] # 0
    BY AtWork DEF Started
<1>2. held[w] \in 1..Len(tasks) /\ held[w] <= sent
    BY <1>1, AtWork
<1>3. held[w] \in DOMAIN tasks /\ tasks[held[w]] \in Task
    BY <1>2, AtWork
<1> QED BY <1>2, <1>3 DEF Path, Task, Generated

LEMMA WorkInv ==
    ASSUME IInv, phase = "execute", UNCHANGED <<tasks, total, phase, exit>>,
           Files', Started', sent' \in 0..Len(tasks), execErr' \in 0..Len(tasks),
           hasErr' \in BOOLEAN
    PROVE  IInv'
<1>1. UNCHANGED <<SizeOf, Generated>>
    BY DEF SizeOf, Generated
<1>2. Generates'
    BY <1>1 DEF IInv, Generates
<1> QED BY <1>2, AtWork DEF IInv, Executes, Ends

LEMMA SameFiles ==
    ASSUME IInv, UNCHANGED <<tasks, phase, disk>> PROVE Files'
BY DEF IInv, Files, Generated, OwnPiece, Piece

(* A worker goes on to pc, with task i.                                    *)
Pcs == {"range", "check", "create", "write", "times", "once", "exited"}
Goes(w, pc, i) == wpc' = [wpc EXCEPT ![w] = pc] /\ held' = [held EXCEPT ![w] = i]

LEMMA Moves ==
    ASSUME Started, NEW w \in Workers, NEW pc \in Pcs, NEW i, Goes(w, pc, i),
           UNCHANGED tasks, sent \in Nat, sent' \in Nat, sent <= sent',
           i \in 0..sent', pc \in {"check", "create", "write", "times", "once"} => i # 0,
           pc = "exited" => sent' = Len(tasks), sent' # sent => sent # Len(tasks)
    PROVE  /\ Workers' = Workers
           /\ wpc' \in [Workers -> Pcs] /\ held' \in [Workers -> 0..sent']
           /\ wpc'[w] = pc /\ held'[w] = i
           /\ \A v \in Workers \ {w} : wpc'[v] = wpc[v] /\ held'[v] = held[v]
           /\ \A v \in Workers : /\ Busy(v)' => held'[v] # 0
                                 /\ wpc'[v] = "exited" => sent' = Len(tasks')
<1>1. Workers' = Workers
    BY DEF Workers, WorkerCount
<1>2. wpc \in [Workers -> Pcs] /\ held \in [Workers -> 0..sent]
    BY DEF Started, Pcs
<1>3. \A k \in 0..sent : k \in 0..sent'
    OBVIOUS
<1>4. wpc' \in [Workers -> Pcs] /\ held' \in [Workers -> 0..sent']
    BY <1>2, <1>3 DEF Goes
<1>5. /\ wpc'[w] = pc /\ held'[w] = i
      /\ \A v \in Workers \ {w} : wpc'[v] = wpc[v] /\ held'[v] = held[v]
    BY <1>2 DEF Goes
<1>6. ASSUME NEW v \in Workers
      PROVE  /\ Busy(v)' => held'[v] # 0
             /\ wpc'[v] = "exited" => sent' = Len(tasks')
  <2>1. CASE v = w
      BY <1>5, <2>1 DEF Busy
  <2>2. CASE v # w
    <3>1. wpc'[v] = wpc[v] /\ held'[v] = held[v]
        BY <1>5, <2>2
    <3>2. Busy(v) => held[v] # 0
        BY DEF Started
    <3>3. wpc[v] = "exited" => sent = Len(tasks)
        BY DEF Started
    <3> QED BY <3>1, <3>2, <3>3 DEF Busy
  <2> QED BY <2>1, <2>2
<1> QED BY <1>1, <1>4, <1>5, <1>6

(* No worker fails, or gets over a failure, when w does not.               *)
LEMMA SameFailing ==
    ASSUME NEW w \in Workers, Workers' = Workers, wpc[w] # "once", wpc'[w] # "once",
           \A v \in Workers \ {w} : wpc'[v] = wpc[v]
    PROVE  Failing' = Failing
BY DEF Failing

(* The other tasks fare as before, where their files are not touched.      *)
LEMMA OthersKept ==
    ASSUME NEW w \in Workers, Workers' = Workers, UNCHANGED tasks,
           \A v \in Workers \ {w} : wpc'[v] = wpc[v] /\ held'[v] = held[v],
           NEW i, UNCHANGED disk[tasks[i].path],
           held[w] = i => wpc[w] \notin {"check", "create", "write"}
    PROVE  /\ Underway(i) => Underway(i)'
           /\ Created(i) => Created(i)'
           /\ Complete(i) => Complete(i)'
<1>1. Alone(i)' = Alone(i) /\ Piece(i)' = Piece(i)
    BY DEF Alone, Piece
<1>2. Underway(i) => Underway(i)'
    BY DEF Underway
<1>3. Created(i) => Created(i)'
    BY <1>1 DEF Created
<1>4. Complete(i) => Complete(i)'
    BY <1>1 DEF Complete
<1> QED BY <1>2, <1>3, <1>4

LEMMA ReceiveInv == ASSUME IInv, NEW w, Receive(w) PROVE IInv'
<1>1. /\ phase = "execute" /\ w \in Workers /\ wpc[w] = "range" /\ sent < Len(tasks)
      /\ sent' = sent + 1 /\ Goes(w, "check", sent + 1)
      /\ UNCHANGED <<tasks, total, phase, hasErr, execErr, disk, exit>>
    BY DEF Receive, At, Goto, Goes, genVars
<1>2. sent \in Nat /\ Len(tasks) \in Nat /\ Started
    BY <1>1, AtWork
<1>3. sent' \in Nat /\ sent <= sent' /\ sent + 1 \in 0..sent' /\ sent + 1 # 0
      /\ sent # Len(tasks)
    BY <1>1, <1>2
<1>4. /\ Workers' = Workers /\ wpc' \in [Workers -> Pcs] /\ held' \in [Workers -> 0..sent']
      /\ wpc'[w] = "check" /\ held'[w] = sent + 1
      /\ \A v \in Workers \ {w} : wpc'[v] = wpc[v] /\ held'[v] = held[v]
      /\ \A v \in Workers : /\ Busy(v)' => held'[v] # 0
                            /\ wpc'[v] = "exited" => sent' = Len(tasks')
    BY <1>1, <1>2, <1>3, Moves DEF Pcs
<1>5. Failing' = Failing
    BY <1>1, <1>4, SameFailing
<1>6. ASSUME ~hasErr', NEW i \in 1..sent' PROVE (Underway(i) \/ Created(i) \/ Complete(i))'
  <2>1. CASE i = sent + 1
      BY <1>1, <1>4, <2>1 DEF Underway
  <2>2. CASE i # sent + 1
    <3>1. i \in 1..sent
        BY <1>1, <1>2, <2>2
    <3>2. Underway(i) \/ Created(i) \/ Complete(i)
        BY <1>1, <1>2, <1>6, <3>1 DEF Started
    <3>3. UNCHANGED disk[tasks[i].path]
        BY <1>1
    <3> QED BY <1>1, <1>4, <3>2, <3>3, OthersKept
  <2> QED BY <2>1, <2>2
<1>7. Started'
    BY <1>1, <1>2, <1>4, <1>5, <1>6 DEF Started, Pcs
<1>8. sent' \in 0..Len(tasks)
    BY <1>1, <1>2
<1> QED BY <1>1, <1>7, <1>8, AtWork, SameFiles, WorkInv

(* A step that leaves the files and the flag alone.                        *)
LEMMA QuietInv ==
    ASSUME IInv, phase = "execute", NEW w \in Workers, NEW pc \in Pcs, NEW i, Goes(w, pc, i),
           UNCHANGED <<tasks, total, phase, sent, hasErr, execErr, disk, exit>>,
           i \in 0..sent, wpc[w] # "once", pc # "once",
           pc \in {"check", "create", "write", "times"} => i # 0,
           pc = "exited" => sent = Len(tasks),
           \/ wpc[w] \notin {"check", "create", "write"}
           \/ hasErr
           \/ wpc[w] = "check" /\ pc = "create" /\ i = held[w]
    PROVE  IInv'
<1>1. sent \in Nat /\ Len(tasks) \in Nat /\ Started
    BY AtWork
<1>2. /\ Workers' = Workers /\ wpc' \in [Workers -> Pcs] /\ held' \in [Workers -> 0..sent']
      /\ wpc'[w] = pc /\ held'[w] = i
      /\ \A v \in Workers \ {w} : wpc'[v] = wpc[v] /\ held'[v] = held[v]
      /\ \A v \in Workers : /\ Busy(v)' => held'[v] # 0
                            /\ wpc'[v] = "exited" => sent' = Len(tasks')
    BY <1>1, Moves DEF Pcs
<1>3. Failing' = Failing
    BY <1>2, SameFailing
<1>4. ASSUME ~hasErr', NEW k \in 1..sent PROVE (Underway(k) \/ Created(k) \/ Complete(k))'
  <2>1. Underway(k) \/ Created(k) \/ Complete(k)
      BY <1>1, <1>4 DEF Started
  <2>2. UNCHANGED disk[tasks[k].path]
      OBVIOUS
  <2>3. CASE held[w] = k => wpc[w] \notin {"check", "create", "write"}
      BY <1>2, <2>1, <2>2, <2>3, OthersKept
  <2>4. CASE wpc[w] = "check" /\ pc = "create" /\ i = held[w] /\ held[w] = k
      BY <1>2, <2>4 DEF Underway
  <2> QED BY <1>4, <2>3, <2>4
<1>5. Started'
    BY <1>1, <1>2, <1>3, <1>4 DEF Started, Pcs
<1> QED BY <1>5, AtWork, SameFiles, WorkInv

LEMMA ExitLoopInv == ASSUME IInv, NEW w, ExitLoop(w) PROVE IInv'
<1>1. /\ phase = "execute" /\ w \in Workers /\ wpc[w] = "range" /\ sent = Len(tasks)
      /\ Goes(w, "exited", 0)
      /\ UNCHANGED <<tasks, total, phase, sent, hasErr, execErr, disk, exit>>
    BY DEF ExitLoop, At, Goto, Goes, genVars
<1>2. 0 \in 0..sent
    BY <1>1, AtWork
<1> QED BY <1>1, <1>2, QuietInv DEF Pcs

LEMMA CheckInv == ASSUME IInv, NEW w, Check(w) PROVE IInv'
<1>1. /\ phase = "execute" /\ w \in Workers /\ wpc[w] = "check"
      /\ IF hasErr THEN Goes(w, "range", 0) ELSE Goes(w, "create", held[w])
      /\ UNCHANGED <<tasks, total, phase, sent, hasErr, execErr, disk, exit>>
    BY DEF Check, At, Goto, Goes, genVars
<1>2. sent \in Nat /\ 0 \in 0..sent
    BY <1>1, AtWork
<1>3. held[w] \in 0..sent /\ held[w] # 0
    BY <1>1, <1>2, Holds DEF Busy
<1>4. CASE hasErr
    BY <1>1, <1>2, <1>4, QuietInv DEF Pcs
<1>5. CASE ~hasErr
    BY <1>1, <1>3, <1>5, QuietInv DEF Pcs
<1> QED BY <1>4, <1>5

LEMMA SetTimesInv == ASSUME IInv, NEW w, SetTimes(w) PROVE IInv'
<1>1. /\ phase = "execute" /\ w \in Workers /\ wpc[w] = "times"
      /\ Goes(w, "range", 0)
      /\ UNCHANGED <<tasks, total, phase, sent, hasErr, execErr, disk, exit>>
    BY DEF SetTimes, At, Goto, Goes, genVars
<1>2. 0 \in 0..sent
    BY <1>1, AtWork
<1> QED BY <1>1, <1>2, QuietInv DEF Pcs

LEMMA StepFailsInv == ASSUME IInv, NEW w, StepFails(w) PROVE IInv'
<1>1. /\ phase = "execute" /\ w \in Workers /\ wpc[w] \in {"create", "write", "times"}
      /\ hasErr' = TRUE /\ Goes(w, "once", held[w])
      /\ UNCHANGED <<tasks, total, phase, sent, execErr, disk, exit>>
    BY DEF StepFails, At, Goto, Goes, genVars
<1>2. sent \in Nat /\ Len(tasks) \in Nat /\ Started
    BY <1>1, AtWork
<1>3. held[w] \in 0..sent /\ held[w] # 0
    BY <1>1, <1>2, Holds DEF Busy
<1>4. /\ Workers' = Workers /\ wpc' \in [Workers -> Pcs] /\ held' \in [Workers -> 0..sent']
      /\ wpc'[w] = "once" /\ held'[w] = held[w]
      /\ \A v \in Workers \ {w} : wpc'[v] = wpc[v] /\ held'[v] = held[v]
      /\ \A v \in Workers : /\ Busy(v)' => held'[v] # 0
                            /\ wpc'[v] = "exited" => sent' = Len(tasks')
    BY <1>1, <1>2, <1>3, Moves DEF Pcs
<1>5. Failing'
    BY <1>1, <1>4 DEF Failing
<1>6. Started'
    BY <1>1, <1>4, <1>5 DEF Started, Pcs
<1> QED BY <1>1, <1>6, AtWork, SameFiles, WorkInv

LEMMA KeepErrorInv == ASSUME IInv, NEW w, KeepError(w) PROVE IInv'
<1>1. /\ phase = "execute" /\ w \in Workers /\ wpc[w] = "once"
      /\ execErr' = IF execErr = 0 THEN held[w] ELSE execErr
      /\ Goes(w, "range", 0)
      /\ UNCHANGED <<tasks, total, phase, sent, hasErr, disk, exit>>
    BY DEF KeepError, At, Goto, Goes, genVars
<1>2. /\ sent \in Nat /\ Len(tasks) \in Nat /\ Started /\ 0 \in 0..sent
      /\ execErr \in 0..Len(tasks)
    BY <1>1, AtWork
<1>3. held[w] \in 1..Len(tasks) /\ held[w] # 0
    BY <1>1, <1>2, AtWork, Holds DEF Busy
<1>4. /\ Workers' = Workers /\ wpc' \in [Workers -> Pcs] /\ held' \in [Workers -> 0..sent']
      /\ \A v \in Workers \ {w} : wpc'[v] = wpc[v] /\ held'[v] = held[v]
      /\ \A v \in Workers : /\ Busy(v)' => held'[v] # 0
                            /\ wpc'[v] = "exited" => sent' = Len(tasks')
    BY <1>1, <1>2, Moves DEF Pcs
<1>5. execErr' # 0 /\ execErr' \in 0..Len(tasks)
    BY <1>1, <1>2, <1>3
<1>6. hasErr
    BY <1>1, <1>2 DEF Started, Failing
<1>7. Started'
    BY <1>1, <1>4, <1>5, <1>6 DEF Started, Pcs
<1> QED BY <1>1, <1>5, <1>7, AtWork, SameFiles, WorkInv

(* Another task fares as before when a worker has written a file.          *)
LEMMA OthersWritten ==
    ASSUME NEW w \in Workers, Workers' = Workers, UNCHANGED tasks,
           held[w] \in DOMAIN tasks, Path(w) \in DOMAIN disk,
           \A v \in Workers \ {w} : wpc'[v] = wpc[v] /\ held'[v] = held[v],
           NEW file, file # NoFile, disk' = [disk EXCEPT ![Path(w)] = file],
           NEW k \in DOMAIN tasks, k # held[w], Underway(k) \/ Created(k) \/ Complete(k)
    PROVE  (Underway(k) \/ Created(k) \/ Complete(k))'
<1>1. CASE tasks[k].path # Path(w)
  <2>1. UNCHANGED disk[tasks[k].path]
      BY <1>1
  <2> QED BY <2>1, OthersKept
<1>2. CASE tasks[k].path = Path(w)
  <2>1. ~ Alone(k)'
      BY <1>2 DEF Alone, Path
  <2>2. disk'[tasks'[k].path] # NoFile
      BY <1>2
  <2> QED BY <2>1, <2>2 DEF Complete, NoFile
<1> QED BY <1>1, <1>2

(* The files, when a worker has written one of them.                       *)
LEMMA FilesWritten ==
    ASSUME IInv, phase = "execute", NEW w \in Workers, Busy(w), UNCHANGED <<tasks, phase>>,
           NEW file, \A x \in file : OwnPiece(Path(w), x),
           disk' = [disk EXCEPT ![Path(w)] = file]
    PROVE  Files'
<1>1. DOMAIN disk = Paths /\ \A p \in Generated : \A x \in disk[p] : OwnPiece(p, x)
    BY DEF IInv, Files
<1>2. Path(w) \in Paths /\ Path(w) \in Generated /\ Generated' = Generated
    BY Holds DEF Generated
<1>3. \A p, x : OwnPiece(p, x)' = OwnPiece(p, x)
    BY DEF OwnPiece, Piece
<1>4. Generated \subseteq Paths
  <2>1. \A i \in DOMAIN tasks : tasks[i] \in Task
      BY AtWork
  <2> QED BY <2>1 DEF Generated, Task
<1>5. ASSUME NEW p \in Generated, NEW x \in disk'[p] PROVE OwnPiece(p, x)
    BY <1>1, <1>2, <1>4, <1>5
<1>6. DOMAIN disk' = Paths
    BY <1>1
<1>7. \A p \in Paths : p \notin Generated => disk'[p] = Before(p)
    BY <1>1, <1>2 DEF IInv, Files
<1> QED BY <1>2, <1>3, <1>5, <1>6, <1>7 DEF Files

LEMMA CreateInv == ASSUME IInv, NEW w, Create(w) PROVE IInv'
<1>1. /\ phase = "execute" /\ w \in Workers /\ wpc[w] = "create"
      /\ Goes(w, "write", held[w]) /\ disk' = [disk EXCEPT ![Path(w)] = EmptyFile]
      /\ UNCHANGED <<tasks, total, phase, sent, hasErr, execErr, exit>>
    BY DEF Create, At, Goto, Goes, genVars
<1>2. sent \in Nat /\ Len(tasks) \in Nat /\ Started /\ DOMAIN tasks = 1..Len(tasks)
      /\ sent <= Len(tasks)
    BY <1>1, AtWork
<1>3. held[w] \in 0..sent /\ held[w] # 0
    BY <1>1, <1>2, Holds DEF Busy
<1>4. held[w] \in DOMAIN tasks /\ Busy(w) /\ Path(w) \in DOMAIN disk
    BY <1>1, <1>2, Holds DEF Busy, IInv, Files
<1>5. /\ Workers' = Workers /\ wpc' \in [Workers -> Pcs] /\ held' \in [Workers -> 0..sent']
      /\ wpc'[w] = "write" /\ held'[w] = held[w]
      /\ \A v \in Workers \ {w} : wpc'[v] = wpc[v] /\ held'[v] = held[v]
      /\ \A v \in Workers : /\ Busy(v)' => held'[v] # 0
                            /\ wpc'[v] = "exited" => sent' = Len(tasks')
  <2>1. /\ w \in Workers /\ Goes(w, "write", held[w]) /\ UNCHANGED tasks
        /\ sent' \in Nat /\ sent <= sent' /\ sent' = sent /\ held[w] \in 0..sent'
      BY <1>1, <1>2, <1>3
  <2>2. "write" \in Pcs
      BY DEF Pcs
  <2> QED BY <1>2, <1>3, <2>1, <2>2, Moves
<1>6. Failing' = Failing
    BY <1>1, <1>5, SameFailing
<1>7. EmptyFile # NoFile
    BY DEF EmptyFile, NoFile
<1>8. ASSUME ~hasErr', NEW k \in 1..sent PROVE (Underway(k) \/ Created(k) \/ Complete(k))'
  <2>1. Underway(k) \/ Created(k) \/ Complete(k)
      BY <1>1, <1>2, <1>8 DEF Started
  <2>2. CASE k = held[w]
    <3>1. tasks'[k].path = Path(w) /\ disk'[tasks'[k].path] = EmptyFile
        BY <1>1, <1>4, <2>2 DEF Path
    <3>2. w \in Workers' /\ wpc'[w] = "write" /\ held'[w] = k
        BY <1>1, <1>5, <2>2
    <3>3. Created(k)'
        BY <1>7, <3>1, <3>2 DEF Created
    <3> QED BY <3>3
  <2>3. CASE k # held[w]
    <3>1. k \in DOMAIN tasks
        BY <1>2
    <3> QED BY <1>1, <1>4, <1>5, <1>7, <2>1, <2>3, <3>1, OthersWritten
  <2> QED BY <2>2, <2>3
<1>9. Started'
    BY <1>1, <1>2, <1>5, <1>6, <1>8 DEF Started, Pcs
<1>10. Files'
  <2>1. \A x \in EmptyFile : OwnPiece(Path(w), x)
      BY DEF EmptyFile, OwnPiece
  <2> QED BY <1>1, <1>4, <2>1, FilesWritten
<1> QED BY <1>1, <1>9, <1>10, AtWork, WorkInv

LEMMA WriteInv == ASSUME IInv, NEW w, Write(w) PROVE IInv'
<1> SUFFICES ASSUME NEW i, i = held[w] PROVE IInv'
    OBVIOUS
<1> DEFINE size == tasks[i].size
           old == disk[Path(w)]
           file == Written(old, i, size)
<1>1. /\ phase = "execute" /\ w \in Workers /\ wpc[w] = "write" /\ Goes(w, "times", held[w])
      /\ UNCHANGED <<tasks, total, phase, sent, hasErr, execErr, exit>>
    BY DEF Write, At, Goto, Goes, genVars
<1>2. sent \in Nat /\ Len(tasks) \in Nat /\ Started /\ DOMAIN tasks = 1..Len(tasks)
      /\ sent <= Len(tasks)
    BY <1>1, AtWork
<1>3. /\ i \in 0..sent /\ i # 0 /\ i \in DOMAIN tasks /\ Busy(w) /\ size \in Nat
      /\ Path(w) \in DOMAIN disk /\ Path(w) \in Generated
    BY <1>1, <1>2, Holds DEF Busy, IInv, Files
<1>4. disk' = [disk EXCEPT ![Path(w)] = file]
    BY <1>3 DEF Write
<1>5. /\ Workers' = Workers /\ wpc' \in [Workers -> Pcs] /\ held' \in [Workers -> 0..sent']
      /\ wpc'[w] = "times" /\ held'[w] = i
      /\ \A v \in Workers \ {w} : wpc'[v] = wpc[v] /\ held'[v] = held[v]
      /\ \A v \in Workers : /\ Busy(v)' => held'[v] # 0
                            /\ wpc'[v] = "exited" => sent' = Len(tasks')
  <2>1. /\ w \in Workers /\ Goes(w, "times", i) /\ UNCHANGED tasks
        /\ sent' \in Nat /\ sent <= sent' /\ sent' = sent /\ i \in 0..sent'
      BY <1>1, <1>2, <1>3
  <2>2. "times" \in Pcs
      BY DEF Pcs
  <2> QED BY <1>2, <1>3, <2>1, <2>2, Moves
<1>6. Failing' = Failing
    BY <1>1, <1>5, SameFailing
<1>7. /\ file = {Piece(i)} \cup {piece \in old : piece.upto > size}
      /\ file # NoFile
    BY DEF Written, Piece, NoFile
<1>8. \A x \in file : OwnPiece(Path(w), x)
  <2>1. \A x \in old : OwnPiece(Path(w), x)
      BY <1>3 DEF IInv, Files
  <2>2. OwnPiece(Path(w), Piece(i))
      BY <1>3 DEF OwnPiece, Path
  <2> HIDE DEF file, old
  <2> QED BY <1>7, <2>1, <2>2
<1>9. ASSUME Underway(i) \/ Created(i) \/ Complete(i)
      PROVE  (Underway(i) \/ Created(i) \/ Complete(i))'
  <2>1. tasks[i].path = Path(w) /\ Alone(i)' = Alone(i) /\ Piece(i)' = Piece(i)
      BY <1>1 DEF Path, Alone, Piece
  <2>2. disk'[tasks'[i].path] = file
      BY <1>1, <1>3, <1>4, <2>1
  <2>3. CASE Underway(i)
      BY <1>1, <1>5, <2>3 DEF Underway
  <2>4. CASE Created(i) \/ Complete(i)
    <3>1. Alone(i) => old = EmptyFile \/ old = {Piece(i)}
        BY <2>1, <2>4 DEF Created, Complete
    <3>2. old = EmptyFile => file = {Piece(i)}
      <4>1. \A x \in EmptyFile : ~ (x.upto > size)
          BY <1>3 DEF EmptyFile
      <4> HIDE DEF file, old, size
      <4> QED BY <1>7, <4>1
    <3>3. old = {Piece(i)} => file = {Piece(i)}
      <4>1. Piece(i).upto = size /\ ~ (size > size)
          BY <1>3 DEF Piece
      <4> HIDE DEF file, old, size
      <4> QED BY <1>7, <4>1
    <3>4. Complete(i)'
      <4>1. Alone(i)' => disk'[tasks'[i].path] = {Piece(i)'}
          BY <2>1, <2>2, <3>1, <3>2, <3>3
      <4> QED BY <1>7, <2>2, <4>1 DEF Complete
    <3> QED BY <3>4
  <2> QED BY <1>9, <2>3, <2>4
<1> HIDE DEF file, old, size
<1>10. ASSUME ~hasErr', NEW k \in 1..sent PROVE (Underway(k) \/ Created(k) \/ Complete(k))'
  <2>1. Underway(k) \/ Created(k) \/ Complete(k)
      BY <1>1, <1>2, <1>10 DEF Started
  <2>2. CASE k = i
      BY <1>9, <2>1, <2>2
  <2>3. CASE k # i
    <3>1. k \in DOMAIN tasks
        BY <1>2
    <3> QED BY <1>1, <1>3, <1>4, <1>5, <1>7, <2>1, <2>3, <3>1, OthersWritten
  <2> QED BY <2>2, <2>3
<1>11. Started'
    BY <1>1, <1>2, <1>5, <1>6, <1>10 DEF Started, Pcs
<1>12. Files'
    BY <1>1, <1>3, <1>4, <1>8, FilesWritten
<1> QED BY <1>1, <1>11, <1>12, AtWork, WorkInv

-----------------------------------------------------------------------------
(* The end.                                                                *)

LEMMA FinishInv == ASSUME IInv, Finish PROVE IInv'
<1>1. /\ phase = "execute" /\ AllExited /\ phase' = "done"
      /\ exit' = IF execErr # 0 \/ hasErr THEN "1" ELSE "0"
      /\ UNCHANGED <<tasks, total, sent, wpc, held, hasErr, execErr, disk>>
    BY DEF Finish, genVars, execVars
<1>2. UNCHANGED <<SizeOf, Generated, Workers>>
    BY <1>1 DEF SizeOf, Generated, Workers, WorkerCount
<1>3. Generates'
    BY <1>1, <1>2 DEF IInv, Generates
<1>4. Files'
    BY <1>1, <1>2 DEF IInv, Files, OwnPiece, Piece
<1>5. Started'
  <2>1. Started
      BY <1>1, AtWork
  <2>2. \A i : /\ Underway(i)' = Underway(i) /\ Created(i)' = Created(i)
               /\ Complete(i)' = Complete(i)
      BY <1>1, <1>2 DEF Underway, Created, Complete, Alone, Piece
  <2> QED BY <1>1, <1>2, <2>1, <2>2 DEF Started, Busy, Failing
<1>6. Executes'
    BY <1>1, <1>5 DEF IInv, Executes
<1>7. Ends'
    BY <1>1, <1>2, AtWork DEF Ends, AllExited
<1> QED BY <1>3, <1>4, <1>6, <1>7 DEF IInv

LEMMA StutterInv == ASSUME IInv, UNCHANGED vars PROVE IInv'
<1>1. UNCHANGED <<tasks, total, phase, sent, wpc, held, hasErr, execErr, disk, exit>>
    BY DEF vars, genVars, execVars
<1>2. UNCHANGED <<SizeOf, Generated, Workers>>
    BY <1>1 DEF SizeOf, Generated, Workers, WorkerCount
<1>3. UNCHANGED <<Generates, Files>>
    BY <1>1, <1>2 DEF Generates, Files, OwnPiece, Piece
<1>4. \A i : /\ Underway(i)' = Underway(i) /\ Created(i)' = Created(i)
             /\ Complete(i)' = Complete(i)
    BY <1>1, <1>2 DEF Underway, Created, Complete, Alone, Piece
<1>5. Started => Started'
    BY <1>1, <1>2, <1>4 DEF Started, Busy, Failing
<1>6. Executes'
    BY <1>1, <1>5 DEF IInv, Executes
<1>7. Ends'
    BY <1>1, <1>2 DEF IInv, Ends, AllExited
<1> QED BY <1>3, <1>6, <1>7 DEF IInv

LEMMA StepInv == IInv /\ [Next]_vars => IInv'
<1> SUFFICES ASSUME IInv, [Next]_vars PROVE IInv'
    OBVIOUS
<1>1. CASE Generate
    BY <1>1, GenerateInv
<1>2. ASSUME NEW w, Worker(w) PROVE IInv'
    BY <1>2, ReceiveInv, ExitLoopInv, CheckInv, CreateInv, WriteInv, SetTimesInv,
       StepFailsInv, KeepErrorInv DEF Worker
<1>3. CASE Finish
    BY <1>3, FinishInv
<1>4. CASE UNCHANGED vars
    BY <1>4, StutterInv
<1> QED BY <1>1, <1>2, <1>3, <1>4 DEF Next

(* The files that are made up and written, the goroutines and the error:   *)
(* what IInv says is so in every state.                                    *)
THEOREM IInvariance == Spec => []IInv
BY InitInv, StepInv, PTL DEF Spec

-----------------------------------------------------------------------------
(* The limit and the exit code.                                            *)

LEMMA GeneratedFinite ==
    ASSUME Generates
    PROVE  /\ IsFiniteSet(DOMAIN tasks) /\ IsFiniteSet(Generated)
           /\ NatValued(SizeOf, DOMAIN tasks) /\ total \in Nat
<1>1. tasks \in Seq(Task) /\ DOMAIN tasks = 1..Len(tasks) /\ Len(tasks) \in Nat
    BY DEF Generates
<1>2. \A i \in DOMAIN tasks : tasks[i].size \in Nat
  <2> TAKE i \in DOMAIN tasks
  <2>1. tasks[i] \in Task
      BY <1>1
  <2> QED BY <2>1 DEF Task
<1>3. IsFiniteSet(DOMAIN tasks)
    BY <1>1, FS_Interval
<1>4. NatValued(SizeOf, DOMAIN tasks)
    BY <1>2 DEF NatValued, SizeOf
<1>5. total \in Nat
    BY <1>3, <1>4, SumType DEF Generates
<1> DEFINE f == [i \in DOMAIN tasks |-> tasks[i].path]
<1>6. f \in [DOMAIN tasks -> Generated] /\ \A p \in Generated : \E i \in DOMAIN tasks : f[i] = p
    BY DEF Generated
<1> HIDE DEF f
<1>7. f \in Surjection(DOMAIN tasks, Generated)
    BY <1>6 DEF Surjection
<1>8. IsFiniteSet(Generated)
    BY <1>3, <1>7, FS_Surjection
<1> QED BY <1>3, <1>4, <1>5, <1>8

(* What was written of a file is no more than what one of its tasks writes. *)
LEMMA LengthOfTask ==
    ASSUME Generates, Files, NEW p \in Generated
    PROVE  /\ Length(disk[p]) \in Nat
           /\ \E i \in DOMAIN tasks : tasks[i].path = p /\ Length(disk[p]) <= SizeOf[i]
<1> DEFINE S == {0} \cup {piece.upto : piece \in {q \in disk[p] : q.by # 0}}
           m == Max(S)
<1>1. /\ IsFiniteSet(DOMAIN tasks) /\ NatValued(SizeOf, DOMAIN tasks) /\ total \in Nat
      /\ total = SumFunctionOnSet(SizeOf, DOMAIN tasks)
    BY GeneratedFinite DEF Generates
<1>2. ASSUME NEW i \in DOMAIN tasks PROVE SizeOf[i] \in 0..total
  <2>1. total = SizeOf[i] + SumFunctionOnSet(SizeOf, DOMAIN tasks \ {i})
      BY <1>1, SumRemove
  <2>2. SumFunctionOnSet(SizeOf, DOMAIN tasks \ {i}) \in Nat
    <3>1. IsFiniteSet(DOMAIN tasks \ {i}) /\ NatValued(SizeOf, DOMAIN tasks \ {i})
        BY <1>1, FS_Subset DEF NatValued
    <3> QED BY <3>1, SumType
  <2>3. SizeOf[i] \in Nat
      BY <1>1 DEF NatValued
  <2> QED BY <1>1, <2>1, <2>2, <2>3
<1>3. ASSUME NEW v \in S PROVE v = 0 \/ \E i \in DOMAIN tasks : tasks[i].path = p /\ v = SizeOf[i]
  <2>1. CASE v # 0
    <3>1. PICK piece \in disk[p] : v = piece.upto /\ piece.by # 0
        BY <2>1
    <3>2. OwnPiece(p, piece)
        BY DEF Files
    <3>3. PICK i \in DOMAIN tasks : tasks[i].path = p /\ piece = Piece(i)
        BY <3>1, <3>2 DEF OwnPiece
    <3> QED BY <3>1, <3>3 DEF Piece, SizeOf
  <2> QED BY <2>1
<1>4. S \subseteq 0..total
  <2>1. 0 \in 0..total
      BY <1>1
  <2> HIDE DEF S
  <2> QED BY <1>2, <1>3, <2>1
<1>5. S # {}
    OBVIOUS
<1> HIDE DEF S
<1>6. m \in S
    BY <1>1, <1>4, <1>5, MaxOf
<1>7. m = Length(disk[p])
    BY DEF Length, S
<1> HIDE DEF m
<1>8. m \in Nat
    BY <1>1, <1>4, <1>6
<1>9. PICK i \in DOMAIN tasks : tasks[i].path = p
    BY DEF Generated
<1>10. \E j \in DOMAIN tasks : tasks[j].path = p /\ m <= SizeOf[j]
  <2>1. CASE m = 0
    <3>1. m <= SizeOf[i]
        BY <1>1, <1>2, <2>1
    <3> QED BY <1>9, <3>1
  <2>2. CASE m # 0
    <3>1. PICK j \in DOMAIN tasks : tasks[j].path = p /\ m = SizeOf[j]
        BY <1>3, <1>6, <2>2
    <3> QED BY <1>8, <3>1
  <2> QED BY <2>1, <2>2
<1> QED BY <1>7, <1>8, <1>10

LEMMA LimitByInv == IInv => LimitKept
<1> SUFFICES ASSUME IInv PROVE LimitKept
    OBVIOUS
<1>1. Generates /\ Files
    BY DEF IInv
<1>2. /\ IsFiniteSet(DOMAIN tasks) /\ IsFiniteSet(Generated) /\ total \in Nat
      /\ NatValued(SizeOf, DOMAIN tasks) /\ total = SumFunctionOnSet(SizeOf, DOMAIN tasks)
    BY <1>1, GeneratedFinite DEF Generates
<1> DEFINE f == [p \in Generated |-> Length(disk[p])]
           Serves(p, i) == tasks[i].path = p /\ Length(disk[p]) <= SizeOf[i]
           h == [p \in Generated |-> CHOOSE i \in DOMAIN tasks : Serves(p, i)]
<1>3. \A p \in Generated : f[p] = Length(disk[p]) /\ f[p] \in Nat
    BY <1>1, LengthOfTask
<1>4. \A p \in Generated : h[p] \in DOMAIN tasks /\ Serves(p, h[p])
  <2> TAKE p \in Generated
  <2>1. \E i \in DOMAIN tasks : Serves(p, i)
      BY <1>1, LengthOfTask
  <2> HIDE DEF Serves
  <2> QED BY <2>1
<1>5. DOMAIN f = Generated
    OBVIOUS
<1> HIDE DEF f, h
<1>6. \A p \in Generated : h[p] \in DOMAIN tasks /\ f[p] <= SizeOf[h[p]]
    BY <1>3, <1>4
<1>7. \A p, q \in Generated : h[p] = h[q] => p = q
    BY <1>4
<1>8. NatValued(f, Generated)
    BY <1>3 DEF NatValued
<1>9. SumFunctionOnSet(f, Generated) <= total
    BY <1>2, <1>6, <1>7, <1>8, SumInjected
<1>10. SumFunction(f) = SumFunctionOnSet(f, Generated)
    BY <1>5 DEF SumFunction
<1>11. SumFunctionOnSet(f, Generated) \in Nat
    BY <1>2, <1>8, SumType
<1>12. MaxBytes > 0 => total <= MaxBytes /\ SumFunction(f) <= MaxBytes
    BY <1>1, <1>2, <1>9, <1>10, <1>11, SampleAssumption DEF Generates
<1> QED BY <1>1, <1>12 DEF LimitKept, f

(* For any formats, whatever they add to the sizes that were chosen, and   *)
(* any number of goroutines, which may write over one another's files: the *)
(* tool never writes more than --max-bytes.                                *)
THEOREM LimitIsKept == Spec => []LimitKept
BY IInvariance, LimitByInv, PTL

(* For any files that are there before, and any directories that Glob does *)
(* not list: a file whose directory it lists is never replaced, whatever   *)
(* goroutines have written meanwhile.                                      *)
THEOREM ListedFilesAreKept == Spec => []ListedFilesStay
<1>1. ASSUME IInv PROVE ListedFilesStay
  <2>1. ASSUME NEW p \in OnDisk, p[1] \in Listed
        PROVE  disk[p] = OldFile /\ p \notin Generated
    <3>1. p \in Paths /\ p \notin Generated
        BY <1>1, <2>1, SampleAssumption DEF IInv, Generates, Paths, Exts
    <3> QED BY <1>1, <3>1 DEF IInv, Files, Before
  <2> QED BY <2>1 DEF ListedFilesStay
<1> QED BY <1>1, IInvariance, PTL

LEMMA ExitByInv == IInv => ExitCodeRight
<1> SUFFICES ASSUME IInv PROVE ExitCodeRight
    OBVIOUS
<1>1. tasks \in Seq(Task) /\ DOMAIN tasks = 1..Len(tasks) /\ Len(tasks) \in Nat
      /\ execErr \in 0..Len(tasks)
    BY DEF IInv, Generates, Executes
<1>2. CASE exit = "none" \/ tasks = <<>>
  <2>1. exit = "none" \/ (tasks = <<>> /\ exit = "0")
      BY <1>2 DEF IInv, Ends
  <2>2. tasks = <<>> => DOMAIN tasks = {}
      OBVIOUS
  <2>3. CASE exit = "none"
      BY <2>3 DEF ExitCodeRight
  <2>4. CASE tasks = <<>> /\ exit = "0"
      BY <2>2, <2>4 DEF ExitCodeRight
  <2> QED BY <2>1, <2>3, <2>4
<1>3. CASE exit # "none" /\ tasks # <<>>
  <2>1. phase = "done" /\ AllExited /\ Started /\ exit = IF execErr # 0 \/ hasErr THEN "1" ELSE "0"
      BY <1>3 DEF IInv, Ends, Executes
  <2>2. ~ Failing
      BY <2>1 DEF AllExited, Failing
  <2>3. hasErr => execErr # 0
      BY <2>1, <2>2 DEF Started
  <2>4. exit = "1" => execErr \in DOMAIN tasks
    <3>1. exit = "1" => execErr # 0
        BY <2>1, <2>3
    <3> QED BY <1>1, <3>1
  <2>5. 1 \in Workers
    <3>1. Len(tasks) # 0
        BY <1>1, <1>3
    <3>2. WorkerCount \in Nat \ {0}
        BY <1>1, <3>1, SampleAssumption DEF WorkerCount
    <3> QED BY <3>2 DEF Workers
  <2>6. sent = Len(tasks)
      BY <2>1, <2>5 DEF AllExited, Started
  <2>7. ASSUME exit = "0", NEW i \in DOMAIN tasks PROVE Complete(i)
    <3>1. ~ hasErr
        BY <2>1, <2>7
    <3>2. Underway(i) \/ Created(i) \/ Complete(i)
        BY <1>1, <2>1, <2>6, <3>1 DEF Started
    <3> QED BY <2>1, <3>2 DEF Underway, Created, AllExited
  <2> QED BY <2>4, <2>7 DEF ExitCodeRight, Complete, Alone, Piece
<1> QED BY <1>2, <1>3

(* For any number of goroutines and any steps that fail: an exit code of 0 *)
(* means that every file is there, whole; one of 1 comes with the task     *)
(* whose error is kept.                                                    *)
THEOREM ExitCodesAreRight == Spec => []ExitCodeRight
BY IInvariance, ExitByInv, PTL
=============================================================================
