----------------------------- MODULE PoolProofs -----------------------------
(***************************************************************************)
(* Proofs about Pool, and about SyncRun, which has it inside: for any      *)
(* number of workers and any set of tasks, the types and the channel       *)
(* capacities of the pool, the invariant PoolInv, the safety properties it *)
(* implies, and that Pool implements PoolContract; and that neither        *)
(* command reports a success that is none or leaves a goroutine at work.   *)
(***************************************************************************)
EXTENDS SyncRun, FoldTheorems, SequenceTheorems, FiniteSetTheorems, TLAPS

LEMMA PoolSizePositive == PoolSize \in Nat \ {0}
BY PoolAssumption DEF PoolAssumption, PoolSize

-----------------------------------------------------------------------------
(* Sequences without repetition, and what sorting one gives.               *)

(* A task appended to a sequence joins its elements, and a sequence        *)
(* without repetition stays one if the task is new.                        *)
LEMMA AppendRange ==
    ASSUME NEW S, NEW s \in Seq(S), NEW e \in S
    PROVE  /\ Append(s, e) \in Seq(S)
           /\ Len(Append(s, e)) = Len(s) + 1
           /\ Range(Append(s, e)) = Range(s) \cup {e}
           /\ IsInjective(s) /\ e \notin Range(s) => IsInjective(Append(s, e))
<1> DEFINE t == Append(s, e)
<1>1. /\ t \in Seq(S) /\ Len(t) = Len(s) + 1 /\ Len(s) \in Nat
      /\ \A i \in 1..Len(s) : t[i] = s[i]
      /\ t[Len(s) + 1] = e
    BY AppendProperties, LenProperties
<1>2. DOMAIN s = 1..Len(s) /\ DOMAIN t = 1..(Len(s) + 1)
    BY <1>1, LenProperties
<1>3. Range(t) = Range(s) \cup {e}
    BY <1>1, <1>2 DEF Range
<1>4. IsInjective(s) /\ e \notin Range(s) => IsInjective(t)
    BY <1>1, <1>2 DEF Range, IsInjective
<1> QED BY <1>1, <1>3, <1>4

(* Receiving the head of a buffer takes it out of its elements. *)
LEMMA TailRange ==
    ASSUME NEW S, NEW s \in Seq(S), s # <<>>
    PROVE  /\ Head(s) \in S /\ Tail(s) \in Seq(S)
           /\ Len(Tail(s)) = Len(s) - 1
           /\ Head(s) \in Range(s)
           /\ Range(s) = Range(Tail(s)) \cup {Head(s)}
           /\ IsInjective(s) =>
                 IsInjective(Tail(s)) /\ Head(s) \notin Range(Tail(s))
<1>1. /\ Head(s) \in S /\ Tail(s) \in Seq(S) /\ Len(Tail(s)) = Len(s) - 1
      /\ \A i \in 1..Len(Tail(s)) : Tail(s)[i] = s[i + 1]
    BY HeadTailProperties
<1>2. Len(s) \in Nat \ {0} /\ Head(s) = s[1]
    BY EmptySeq
<1>3. DOMAIN s = 1..Len(s) /\ DOMAIN Tail(s) = 1..(Len(s) - 1)
    BY <1>1, LenProperties
<1>4. Range(s) = Range(Tail(s)) \cup {Head(s)}
  <2>1. ASSUME NEW i \in DOMAIN s
        PROVE  s[i] = Head(s) \/ (i - 1 \in DOMAIN Tail(s) /\ Tail(s)[i - 1] = s[i])
    BY <1>1, <1>2, <1>3
  <2>2. ASSUME NEW i \in DOMAIN Tail(s)
        PROVE  i + 1 \in DOMAIN s /\ Tail(s)[i] = s[i + 1]
    BY <1>1, <1>2, <1>3
  <2> QED BY <1>2, <1>3, <2>1, <2>2 DEF Range
<1>5. ASSUME IsInjective(s) PROVE IsInjective(Tail(s)) /\ Head(s) \notin Range(Tail(s))
    BY <1>1, <1>2, <1>3, <1>5 DEF IsInjective, Range
<1> QED BY <1>1, <1>4, <1>5

(* sort.Slice keeps the elements, and orders those of a sequence without   *)
(* repetition strictly.                                                    *)
LEMMA SortedRange ==
    ASSUME NEW s \in Seq(Tasks), NEW c \in Sortings(s)
    PROVE  /\ c \in Seq(Tasks)
           /\ Range(c) = Range(s)
           /\ IsInjective(s) => IsInjective(c) /\ Increasing(c)
<1> DEFINE n == Len(s)
<1>1. PICK p \in Bijection(1..n, 1..n) :
          /\ \A i, j \in 1..n : i < j => s[p[i]] <= s[p[j]]
          /\ c = [i \in 1..n |-> s[p[i]]]
    BY DEF Sortings
<1>2. /\ p \in [1..n -> 1..n]
      /\ \A i, j \in 1..n : p[i] = p[j] => i = j
      /\ \A k \in 1..n : \E i \in 1..n : p[i] = k
    BY <1>1 DEF Bijection, Injection, Surjection, IsInjective
<1>3. n \in Nat /\ s \in [1..n -> Tasks] /\ DOMAIN s = 1..n
    BY LenProperties
<1>4. c \in [1..n -> Tasks] /\ DOMAIN c = 1..n
    BY <1>1, <1>2, <1>3
<1> HIDE DEF n
<1>5. c \in Seq(Tasks)
    BY <1>3, <1>4, SeqDef
<1>6. Range(c) = Range(s)
  <2>1. ASSUME NEW k \in 1..n PROVE \E i \in 1..n : c[i] = s[k]
    BY <1>1, <1>2
  <2>2. ASSUME NEW i \in 1..n PROVE \E k \in 1..n : c[i] = s[k]
    BY <1>1, <1>2
  <2> QED BY <1>3, <1>4, <2>1, <2>2 DEF Range
<1>7. ASSUME IsInjective(s) PROVE IsInjective(c) /\ Increasing(c)
  <2>1. ASSUME NEW i \in 1..n, NEW j \in 1..n, c[i] = c[j] PROVE i = j
    <3>1. s[p[i]] = s[p[j]] /\ p[i] \in 1..n /\ p[j] \in 1..n
        BY <1>1, <1>2, <2>1
    <3>2. p[i] = p[j]
        BY <1>3, <1>7, <3>1 DEF IsInjective
    <3> QED BY <1>2, <3>2
  <2>2. \A i, j \in 1..n : i < j => c[i] < c[j]
    <3> SUFFICES ASSUME NEW i \in 1..n, NEW j \in 1..n, i < j PROVE c[i] < c[j]
        OBVIOUS
    <3>1. c[i] <= c[j] /\ c[i] # c[j]
        BY <1>1, <1>3, <2>1
    <3>2. c[i] \in Nat /\ c[j] \in Nat
        BY <1>4, PoolAssumption DEF PoolAssumption
    <3> QED BY <3>1, <3>2
  <2> QED BY <1>4, <2>1, <2>2 DEF IsInjective, Increasing
<1> QED BY <1>5, <1>6, <1>7

-----------------------------------------------------------------------------
(* The inductive invariant.  TypeOK alone is not inductive: that a worker  *)
(* sends a task and not NoTask is known from BusyWorkers.                  *)
IInv == TypeOK /\ PoolInv

(* The initial states satisfy the invariant. *)
LEMMA InitInv == Init => IInv
<1> SUFFICES ASSUME Init PROVE IInv
    OBVIOUS
<1>1. <<>> \in Seq(Tasks) /\ Len(<<>>) = 0 /\ Range(<<>>) = {} /\ IsInjective(<<>>)
    BY EmptySeq DEF Range, IsInjective
<1>2. TypeOK
    BY <1>1, PoolSizePositive DEF Init, TypeOK, Reports
<1>3. BusyWorkers /\ ReportSplit /\ Phases /\ AtReturn
    BY <1>1, PoolAssumption
    DEF PoolAssumption, Init, BusyWorkers, ReportSplit, Phases, AtReturn, With
<1>4. OutcomesKept /\ ReportsOnce
    BY <1>1 DEF Init, OutcomesKept, ReportsOnce, Recorded, Holds
<1> QED BY <1>2, <1>3, <1>4 DEF IInv, PoolInv

(* Steps that only move a task on, without an outcome. *)
LEMMA OfferInv ==
    ASSUME IInv, NEW t \in Tasks, Offer(t)
    PROVE  IInv'
<1>1. TypeOK'
    BY DEF IInv, TypeOK, Offer, workerVars, mainVars
<1>2. BusyWorkers'
    BY DEF IInv, PoolInv, TypeOK, BusyWorkers, Offer, workerVars
<1>3. OutcomesKept'
    BY DEF IInv, PoolInv, TypeOK, OutcomesKept, Recorded, Holds, Offer,
           workerVars, mainVars
<1>4. ReportsOnce' /\ ReportSplit'
    BY DEF IInv, PoolInv, ReportsOnce, ReportSplit, Recorded, Offer, workerVars
<1>5. Phases'
    BY DEF IInv, PoolInv, TypeOK, Phases, WorkersDone, With, Offer, workerVars, mainVars
<1>6. AtReturn'
    BY DEF IInv, PoolInv, AtReturn, Increasing, Offer, mainVars
<1> QED BY <1>1, <1>2, <1>3, <1>4, <1>5, <1>6 DEF IInv, PoolInv

LEMMA CloseTasksInv ==
    ASSUME IInv, CloseTasks
    PROVE  IInv'
<1>1. TypeOK'
    BY DEF IInv, TypeOK, CloseTasks, workerVars, mainVars
<1>2. BusyWorkers' /\ OutcomesKept'
    BY DEF IInv, PoolInv, BusyWorkers, OutcomesKept, Recorded, Holds,
           CloseTasks, workerVars, mainVars
<1>3. ReportsOnce' /\ ReportSplit'
    BY DEF IInv, PoolInv, ReportsOnce, ReportSplit, Recorded, CloseTasks, workerVars
<1>4. Phases' /\ AtReturn'
    BY DEF IInv, PoolInv, Phases, AtReturn, Increasing, WorkersDone, Failed, With,
           CloseTasks, workerVars, mainVars
<1> QED BY <1>1, <1>2, <1>3, <1>4 DEF IInv, PoolInv

LEMMA ReceiveInv ==
    ASSUME IInv, NEW w \in Workers, Receive(w)
    PROVE  IInv'
<1>1. PICK t \in With("offered") :
          /\ status' = [status EXCEPT ![t] = "running"]
          /\ wpc' = [wpc EXCEPT ![w] = "run"]
          /\ held' = [held EXCEPT ![w] = t]
    BY DEF Receive, Goto
<1>2. t \in Tasks /\ status[t] = "offered" /\ wpc[w] = "range" /\ held[w] = NoTask
    BY DEF With, Receive, IInv, PoolInv, BusyWorkers
<1>3. UNCHANGED <<tasksOpen, results, resultsOpen, errs, collector, report, main, ret>>
    BY DEF Receive, mainVars
<1>4. t # NoTask
    BY <1>2, PoolAssumption DEF PoolAssumption
<1>5. TypeOK'
    BY <1>1, <1>2, <1>3 DEF IInv, TypeOK
<1>6. \A v \in Workers : held[v] # t
  <2> SUFFICES ASSUME NEW v \in Workers, held[v] = t PROVE FALSE
      OBVIOUS
  <2>1. wpc[v] \in {"run", "sendResult", "sendErr"}
      BY <1>2, <1>4 DEF IInv, PoolInv, TypeOK, BusyWorkers
  <2>2. status[t] \in {"running", "succeeded"} \/ (wpc[v] = "sendErr" /\ main # "returned")
      BY <1>2, <2>1
      DEF IInv, PoolInv, TypeOK, BusyWorkers, OutcomesKept, Holds, Phases, WorkersDone
  <2> QED BY <1>2, <2>1, <2>2 DEF IInv, PoolInv, OutcomesKept, Holds
<1>7. BusyWorkers'
    BY <1>1, <1>2, <1>4, <1>6 DEF IInv, PoolInv, TypeOK, BusyWorkers
<1>8. OutcomesKept'
    BY <1>1, <1>2, <1>3 DEF IInv, PoolInv, TypeOK, OutcomesKept, Recorded, Holds
<1>9. ReportsOnce' /\ ReportSplit'
    BY <1>1, <1>3 DEF IInv, PoolInv, TypeOK, ReportsOnce, ReportSplit, Recorded
<1>10. Phases'
    BY <1>1, <1>2, <1>3 DEF IInv, PoolInv, TypeOK, Phases, WorkersDone, With
<1>11. AtReturn'
    BY <1>3 DEF IInv, PoolInv, AtReturn, Increasing
<1> QED BY <1>5, <1>7, <1>8, <1>9, <1>10, <1>11 DEF IInv, PoolInv

LEMMA ExitLoopInv ==
    ASSUME IInv, NEW w \in Workers, ExitLoop(w)
    PROVE  IInv'
<1>1. /\ wpc[w] = "range" /\ ~tasksOpen /\ held[w] = NoTask
      /\ wpc' = [wpc EXCEPT ![w] = "exited"]
      /\ held' = [held EXCEPT ![w] = NoTask]
    BY DEF ExitLoop, Goto, IInv, PoolInv, BusyWorkers
<1>2. UNCHANGED <<tasksOpen, status, results, resultsOpen, errs, collector, report, main, ret>>
    BY DEF ExitLoop, mainVars
<1>3. TypeOK'
    BY <1>1, <1>2 DEF IInv, TypeOK
<1>4. BusyWorkers'
    BY <1>1, <1>2 DEF IInv, PoolInv, TypeOK, BusyWorkers
<1>5. OutcomesKept'
    BY <1>1, <1>2 DEF IInv, PoolInv, TypeOK, OutcomesKept, Recorded, Holds
<1>6. ReportsOnce' /\ ReportSplit'
    BY <1>1, <1>2 DEF IInv, PoolInv, TypeOK, ReportsOnce, ReportSplit, Recorded
<1>7. Phases' /\ AtReturn'
    BY <1>1, <1>2
    DEF IInv, PoolInv, TypeOK, Phases, AtReturn, Increasing, WorkersDone, Failed, With
<1> QED BY <1>3, <1>4, <1>5, <1>6, <1>7 DEF IInv, PoolInv

(* Execution decides the outcome of the task held. *)
LEMMA RunTaskInv ==
    ASSUME IInv, NEW w \in Workers, RunTask(w)
    PROVE  IInv'
<1> DEFINE t == held[w]
<1>1. /\ wpc[w] = "run" /\ t \in Tasks /\ t # NoTask /\ status[t] = "running"
      /\ main = "wait"
  <2>1. wpc[w] = "run" /\ t # NoTask /\ status[t] = "running"
      BY DEF RunTask, IInv, PoolInv, TypeOK, BusyWorkers
  <2>2. t \in Tasks
      BY <2>1 DEF IInv, TypeOK
  <2>3. main = "wait"
      BY <2>1 DEF IInv, PoolInv, TypeOK, Phases, WorkersDone
  <2> QED BY <2>1, <2>2, <2>3
<1>2. PICK r \in {[st |-> "succeeded", pc |-> "sendResult"], [st |-> "failed", pc |-> "sendErr"]} :
          /\ status' = [status EXCEPT ![t] = r.st]
          /\ wpc' = [wpc EXCEPT ![w] = r.pc]
          /\ held' = [held EXCEPT ![w] = t]
    BY DEF RunTask, Goto
<1>3. UNCHANGED <<tasksOpen, results, resultsOpen, errs, collector, report, main, ret>>
    BY DEF RunTask, mainVars
<1>4. held' = held
    BY <1>2 DEF IInv, TypeOK
<1>5. TypeOK'
    BY <1>1, <1>2, <1>3 DEF IInv, TypeOK
<1>6. \A v \in Workers : held[v] = t => v = w
    BY <1>1 DEF IInv, PoolInv, BusyWorkers
<1>7. BusyWorkers'
    BY <1>1, <1>2, <1>4, <1>6 DEF IInv, PoolInv, TypeOK, BusyWorkers
<1>8. OutcomesKept'
    BY <1>1, <1>2, <1>3, <1>4, <1>6
    DEF IInv, PoolInv, TypeOK, OutcomesKept, Recorded, Holds
<1>9. ReportsOnce'
  <2>1. t \notin Range(results) \cup Recorded
      BY <1>1 DEF IInv, PoolInv, OutcomesKept
  <2> QED BY <1>1, <1>2, <1>3, <1>4, <2>1 DEF IInv, PoolInv, TypeOK, ReportsOnce, Recorded
<1>10. ReportSplit' /\ AtReturn'
    BY <1>1, <1>3 DEF IInv, PoolInv, ReportSplit, AtReturn
<1>11. Phases'
    BY <1>1, <1>2, <1>3 DEF IInv, PoolInv, TypeOK, Phases, WorkersDone, With
<1> QED BY <1>5, <1>7, <1>8, <1>9, <1>10, <1>11 DEF IInv, PoolInv

(* An outcome moves from its worker to the channel it belongs to. *)
LEMMA SendResultInv ==
    ASSUME IInv, NEW w \in Workers, SendResult(w)
    PROVE  IInv'
<1> DEFINE t == held[w]
<1>1. /\ wpc[w] = "sendResult" /\ t \in Tasks /\ t # NoTask /\ main = "wait"
      /\ status[t] = "succeeded"
  <2>1. wpc[w] = "sendResult" /\ t # NoTask
      BY DEF SendResult, IInv, PoolInv, BusyWorkers
  <2>2. t \in Tasks
      BY <2>1 DEF IInv, TypeOK
  <2>3. main = "wait"
      BY <2>1 DEF IInv, PoolInv, TypeOK, Phases, WorkersDone
  <2>4. status[t] = "succeeded"
      BY <2>1, <2>2 DEF IInv, PoolInv, OutcomesKept, Holds
  <2> QED BY <2>1, <2>2, <2>3, <2>4
<1>2. /\ results' = Append(results, t)
      /\ wpc' = [wpc EXCEPT ![w] = "range"]
      /\ held' = [held EXCEPT ![w] = NoTask]
      /\ Len(results) < PoolSize
    BY DEF SendResult, Goto
<1>3. UNCHANGED <<tasksOpen, status, resultsOpen, errs, collector, report, main, ret>>
    BY DEF SendResult, mainVars
<1>4. t \notin Range(results) \cup Recorded
    BY <1>1 DEF IInv, PoolInv, ReportsOnce
<1>5. /\ results' \in Seq(Tasks) /\ Len(results') = Len(results) + 1
      /\ Range(results') = Range(results) \cup {t}
      /\ IsInjective(results')
    BY <1>1, <1>2, <1>4, AppendRange DEF IInv, PoolInv, TypeOK, ReportsOnce
<1>6. \A v \in Workers : held[v] = t => v = w
    BY <1>1 DEF IInv, PoolInv, BusyWorkers
<1>7. TypeOK'
  <2>1. Len(results') <= PoolSize
      BY <1>2, <1>5, PoolSizePositive, LenProperties DEF IInv, TypeOK
  <2> QED BY <1>1, <1>2, <1>3, <1>5, <2>1 DEF IInv, TypeOK
<1>8. BusyWorkers'
    BY <1>1, <1>2, <1>3 DEF IInv, PoolInv, TypeOK, BusyWorkers
<1>9. OutcomesKept'
    BY <1>1, <1>2, <1>3, <1>5 DEF IInv, PoolInv, TypeOK, OutcomesKept, Recorded, Holds
<1>10. ReportsOnce'
  <2>1. Recorded' = Recorded
      BY <1>3 DEF Recorded
  <2>2. Range(results') \cap Recorded' = {}
      BY <1>4, <1>5, <2>1 DEF IInv, PoolInv, ReportsOnce
  <2>3. ASSUME NEW v \in Workers, wpc'[v] = "sendResult"
        PROVE  held'[v] \notin Range(results') \cup Recorded'
      BY <1>1, <1>2, <1>5, <1>6, <2>1, <2>3 DEF IInv, PoolInv, TypeOK, ReportsOnce
  <2> QED BY <1>3, <1>5, <2>2, <2>3 DEF IInv, PoolInv, ReportsOnce
<1>11. ReportSplit' /\ AtReturn'
    BY <1>1, <1>3 DEF IInv, PoolInv, ReportSplit, AtReturn
<1>12. Phases'
  <2>1. collector # "exited"
      BY <1>1 DEF IInv, PoolInv, TypeOK, Phases
  <2> QED BY <1>1, <1>2, <1>3, <2>1 DEF IInv, PoolInv, TypeOK, Phases, WorkersDone, With
<1> QED BY <1>7, <1>8, <1>9, <1>10, <1>11, <1>12 DEF IInv, PoolInv

LEMMA SendErrInv ==
    ASSUME IInv, NEW w \in Workers, SendErr(w)
    PROVE  IInv'
<1> DEFINE t == held[w]
<1>1. wpc[w] = "sendErr" /\ t \in Tasks /\ t # NoTask /\ main = "wait"
  <2>1. wpc[w] = "sendErr" /\ t # NoTask
      BY DEF SendErr, IInv, PoolInv, BusyWorkers
  <2>2. t \in Tasks
      BY <2>1 DEF IInv, TypeOK
  <2>3. main = "wait"
      BY <2>1 DEF IInv, PoolInv, TypeOK, Phases, WorkersDone
  <2> QED BY <2>1, <2>2, <2>3
<1>2. /\ errs' = Append(errs, t)
      /\ wpc' = [wpc EXCEPT ![w] = "range"]
      /\ held' = [held EXCEPT ![w] = NoTask]
      /\ Len(errs) < PoolSize
    BY DEF SendErr, Goto
<1>3. UNCHANGED <<tasksOpen, status, results, resultsOpen, collector, report, main, ret>>
    BY DEF SendErr, mainVars
<1>4. /\ errs' \in Seq(Tasks) /\ Len(errs') = Len(errs) + 1
      /\ Range(errs') = Range(errs) \cup {t}
    BY <1>1, <1>2, AppendRange DEF IInv, TypeOK
<1>5. TypeOK'
  <2>1. Len(errs') <= PoolSize
      BY <1>2, <1>4, PoolSizePositive, LenProperties DEF IInv, TypeOK
  <2> QED BY <1>1, <1>2, <1>3, <1>4, <2>1 DEF IInv, TypeOK
<1>6. BusyWorkers'
    BY <1>1, <1>2, <1>3 DEF IInv, PoolInv, TypeOK, BusyWorkers
<1>7. OutcomesKept'
    BY <1>1, <1>2, <1>3, <1>4 DEF IInv, PoolInv, TypeOK, OutcomesKept, Recorded, Holds
<1>8. ReportsOnce' /\ ReportSplit'
    BY <1>1, <1>2, <1>3 DEF IInv, PoolInv, TypeOK, ReportsOnce, ReportSplit, Recorded
<1>9. Phases' /\ AtReturn'
    BY <1>1, <1>2, <1>3
    DEF IInv, PoolInv, TypeOK, Phases, AtReturn, WorkersDone, With
<1> QED BY <1>5, <1>6, <1>7, <1>8, <1>9 DEF IInv, PoolInv

(* A report moves from the channel to the part of the Report it belongs to. *)
LEMMA CollectInv ==
    ASSUME IInv, Collect
    PROVE  IInv'
<1> DEFINE t == Head(results)
<1>1. /\ t \in Tasks /\ results' \in Seq(Tasks) /\ Len(results') = Len(results) - 1
      /\ t \in Range(results) /\ t \notin Range(results')
      /\ Range(results) = Range(results') \cup {t}
      /\ IsInjective(results')
    BY TailRange DEF Collect, IInv, PoolInv, TypeOK, ReportsOnce
<1>2. UNCHANGED <<tasksOpen, status, wpc, held, resultsOpen, errs, collector, main, ret>>
    BY DEF Collect, workerVars, mainVars
<1>3. t \notin Recorded
    BY <1>1 DEF IInv, PoolInv, ReportsOnce
<1>4. collector = "range" /\ main # "returned"
    BY DEF Collect, IInv, PoolInv, Phases
<1>5. /\ report' \in Reports
      /\ Recorded' = Recorded \cup {t}
      /\ IsInjective(report'.copies) /\ IsInjective(report'.deletes)
      /\ ReportSplit'
  <2> DEFINE c == report.copies
             d == report.deletes
             b == report.totalBytes
  <2>0. /\ c \in Seq(Tasks) /\ d \in Seq(Tasks) /\ b \in Nat
        /\ report \in Reports
      BY DEF IInv, TypeOK, Reports
  <2>1. /\ IsInjective(c) /\ IsInjective(d)
        /\ t \notin Range(c) /\ t \notin Range(d)
        /\ b + Bytes[t] \in Nat
    <3>1. IsInjective(c) /\ IsInjective(d)
        BY DEF IInv, PoolInv, ReportsOnce
    <3>2. t \notin Range(c) /\ t \notin Range(d)
        BY <1>3 DEF Recorded
    <3>3. Bytes[t] \in Nat
        BY <1>1, PoolAssumption DEF PoolAssumption
    <3> QED BY <2>0, <3>1, <3>2, <3>3
  <2>2. CASE Kind[t] = "delete"
    <3>1. report' = [report EXCEPT !.deletes = Append(d, t)]
        BY <2>2 DEF Collect, Added
    <3>2. /\ Append(d, t) \in Seq(Tasks)
          /\ Range(Append(d, t)) = Range(d) \cup {t}
          /\ IsInjective(Append(d, t))
        BY <1>1, <2>0, <2>1, AppendRange
    <3>3. /\ report' \in Reports
          /\ report'.copies = c /\ report'.deletes = Append(d, t)
        BY <2>0, <3>1, <3>2 DEF Reports
    <3> QED BY <2>1, <2>2, <3>2, <3>3 DEF Recorded, ReportSplit, IInv, PoolInv
  <2>3. CASE Kind[t] # "delete"
    <3>1. report' = [report EXCEPT !.copies = Append(c, t), !.totalBytes = b + Bytes[t]]
        BY <2>3 DEF Collect, Added
    <3>2. /\ Append(c, t) \in Seq(Tasks)
          /\ Range(Append(c, t)) = Range(c) \cup {t}
          /\ IsInjective(Append(c, t))
        BY <1>1, <2>0, <2>1, AppendRange
    <3>3. /\ report' \in Reports
          /\ report'.copies = Append(c, t) /\ report'.deletes = d
        BY <2>0, <2>1, <3>1, <3>2 DEF Reports
    <3> QED BY <2>1, <2>3, <3>2, <3>3 DEF Recorded, ReportSplit, IInv, PoolInv
  <2> QED BY <2>2, <2>3
<1>6. TypeOK'
  <2>1. Len(results') <= PoolSize
      BY <1>1, PoolSizePositive, LenProperties DEF IInv, TypeOK
  <2> QED BY <1>1, <1>2, <1>5, <2>1 DEF IInv, TypeOK
<1>7. BusyWorkers'
    BY <1>2 DEF IInv, PoolInv, BusyWorkers
<1>8. OutcomesKept'
    BY <1>1, <1>2, <1>5 DEF IInv, PoolInv, OutcomesKept, Holds
<1>9. ReportsOnce'
    BY <1>1, <1>2, <1>3, <1>5 DEF IInv, PoolInv, ReportsOnce
<1>10. Phases' /\ AtReturn'
    BY <1>2, <1>4 DEF IInv, PoolInv, Phases, AtReturn, WorkersDone, With
<1> QED BY <1>5, <1>6, <1>7, <1>8, <1>9, <1>10 DEF IInv, PoolInv

LEMMA CollectorExitInv ==
    ASSUME IInv, CollectorExit
    PROVE  IInv'
<1>1. TypeOK'
    BY DEF IInv, TypeOK, CollectorExit, workerVars, mainVars
<1>2. BusyWorkers' /\ OutcomesKept'
    BY DEF IInv, PoolInv, BusyWorkers, OutcomesKept, Recorded, Holds,
           CollectorExit, workerVars, mainVars
<1>3. ReportsOnce' /\ ReportSplit'
    BY DEF IInv, PoolInv, ReportsOnce, ReportSplit, Recorded, CollectorExit, workerVars
<1>4. Phases' /\ AtReturn'
    BY DEF IInv, PoolInv, Phases, AtReturn, WorkersDone, Failed, With,
           CollectorExit, workerVars, mainVars
<1> QED BY <1>1, <1>2, <1>3, <1>4 DEF IInv, PoolInv

LEMMA CloseResultsInv ==
    ASSUME IInv, CloseResults
    PROVE  IInv'
<1>1. TypeOK'
    BY DEF IInv, TypeOK, CloseResults, workerVars
<1>2. BusyWorkers' /\ OutcomesKept'
    BY DEF IInv, PoolInv, BusyWorkers, OutcomesKept, Recorded, Holds,
           CloseResults, workerVars
<1>3. ReportsOnce' /\ ReportSplit'
    BY DEF IInv, PoolInv, ReportsOnce, ReportSplit, Recorded, CloseResults, workerVars
<1>4. Phases' /\ AtReturn'
    BY DEF IInv, PoolInv, TypeOK, Phases, AtReturn, WorkersDone, Failed, With,
           CloseResults, workerVars
<1> QED BY <1>1, <1>2, <1>3, <1>4 DEF IInv, PoolInv

(* When every worker has exited nothing is in their hands. *)
LEMMA NothingHeld ==
    ASSUME IInv, main # "wait"
    PROVE  \A t \in Tasks, pc \in {"run", "sendResult", "sendErr"} : ~Holds(pc, t)
BY DEF IInv, PoolInv, TypeOK, Phases, WorkersDone, Holds

(* At the return the channel of tasks is closed and empty. *)
LEMMA ClosedAtReturn ==
    ASSUME IInv, main # "wait"
    PROVE  ~tasksOpen /\ With("offered") = {}
<1>1. PoolSize \in Workers
    BY PoolSizePositive DEF Workers
<1> QED BY <1>1 DEF IInv, PoolInv, TypeOK, Phases, WorkersDone

(* When all the workers have gone, the failed tasks are those in "errs",   *)
(* and the error that Run picks is that of one of them.                    *)
LEMMA ErrorTold ==
    ASSUME IInv, main = "collect"
    PROVE  /\ Failed = Range(errs)
           /\ IF Failed = {} THEN FirstErr = NoTask
              ELSE FirstErr \in Failed /\ FirstErr # NoTask
<1>1. \A t \in Tasks : status[t] = "failed" <=> t \in Range(errs)
    BY NothingHeld DEF IInv, PoolInv, OutcomesKept
<1>2. errs \in Seq(Tasks) /\ Range(errs) \subseteq Tasks
    BY RangeOfSeq DEF IInv, TypeOK
<1>3. Failed = Range(errs)
    BY <1>1, <1>2 DEF Failed, With
<1>4. CASE errs = <<>>
  <2>1. Range(errs) = {}
      BY <1>4 DEF Range
  <2> QED BY <1>3, <1>4, <2>1 DEF FirstErr
<1>5. CASE errs # <<>>
  <2>1. Head(errs) \in Range(errs)
      BY <1>2, <1>5, TailRange
  <2> QED BY <1>2, <1>3, <1>5, <2>1, PoolAssumption DEF FirstErr, PoolAssumption
<1> QED BY <1>3, <1>4, <1>5

LEMMA ReturnInv ==
    ASSUME IInv, Return
    PROVE  IInv'
<1>1. /\ main = "collect" /\ collector = "exited" /\ results = <<>>
      /\ main' = "returned" /\ errs' = <<>> /\ ret' = FirstErr
    BY DEF Return, IInv, PoolInv, Phases
<1>2. UNCHANGED <<tasksOpen, status, wpc, held, results, resultsOpen, collector>>
    BY DEF Return, workerVars
<1>3. PICK c \in Sortings(report.copies), d \in Sortings(report.deletes) :
          report' = [report EXCEPT !.copies = c, !.deletes = d, !.complete = TRUE]
    BY DEF Return
<1>4. /\ report.copies \in Seq(Tasks) /\ report.deletes \in Seq(Tasks)
      /\ IsInjective(report.copies) /\ IsInjective(report.deletes)
    BY DEF IInv, PoolInv, TypeOK, Reports, ReportsOnce
<1>5. /\ c \in Seq(Tasks) /\ Range(c) = Range(report.copies)
      /\ d \in Seq(Tasks) /\ Range(d) = Range(report.deletes)
      /\ IsInjective(c) /\ IsInjective(d)
      /\ Increasing(c) /\ Increasing(d)
    BY <1>4, SortedRange
<1>6. report' \in Reports /\ report'.copies = c /\ report'.deletes = d
    BY <1>3, <1>5 DEF IInv, TypeOK, Reports
<1>7. Recorded' = Recorded
    BY <1>5, <1>6 DEF Recorded
<1>8. TypeOK'
  <2>1. ret' \in Tasks \cup {NoTask}
    <3>1. CASE errs = <<>>
        BY <1>1, <3>1 DEF FirstErr
    <3>2. CASE errs # <<>>
        BY <1>1, <3>2, HeadTailProperties DEF FirstErr, IInv, TypeOK
    <3> QED BY <3>1, <3>2
  <2>2. errs' \in Seq(Tasks) /\ Len(errs') <= PoolSize
      BY <1>1, EmptySeq, PoolSizePositive
  <2> QED BY <1>1, <1>2, <1>6, <2>1, <2>2 DEF IInv, TypeOK
<1>9. BusyWorkers'
    BY <1>2 DEF IInv, PoolInv, BusyWorkers
<1>10. OutcomesKept'
    BY <1>1, <1>2, <1>7 DEF IInv, PoolInv, OutcomesKept, Holds
<1>11. ReportsOnce'
    BY <1>2, <1>5, <1>6, <1>7 DEF IInv, PoolInv, ReportsOnce
<1>12. ReportSplit'
    BY <1>5, <1>6 DEF IInv, PoolInv, ReportSplit
<1>13. Phases'
    BY <1>1, <1>2 DEF IInv, PoolInv, Phases, WorkersDone, With
<1>14. AtReturn'
    BY <1>5, <1>6 DEF AtReturn
<1> QED BY <1>8, <1>9, <1>10, <1>11, <1>12, <1>13, <1>14 DEF IInv, PoolInv

(* Every step keeps the invariant: one case for each action. *)
LEMMA StepInv == IInv /\ [Next]_vars => IInv'
<1> SUFFICES ASSUME IInv, [Next]_vars PROVE IInv'
    OBVIOUS
<1>1. CASE \E t \in Tasks : Offer(t)
    BY <1>1, OfferInv
<1>2. CASE CloseTasks
    BY <1>2, CloseTasksInv
<1>3. ASSUME NEW w \in Workers, Worker(w) PROVE IInv'
    BY <1>3, ReceiveInv, ExitLoopInv, RunTaskInv, SendResultInv, SendErrInv DEF Worker
<1>4. CASE Collector
    BY <1>4, CollectInv, CollectorExitInv DEF Collector
<1>5. CASE Run
    BY <1>5, CloseResultsInv, ReturnInv DEF Run
<1>6. CASE UNCHANGED vars
  <2>1. UNCHANGED <<tasksOpen, status, wpc, held, results, resultsOpen, errs,
                    collector, report, main, ret>>
      BY <1>6 DEF vars
  <2>2. TypeOK'
      BY <2>1 DEF IInv, TypeOK
  <2>3. BusyWorkers' /\ OutcomesKept'
      BY <2>1 DEF IInv, PoolInv, BusyWorkers, OutcomesKept, Recorded, Holds
  <2>4. ReportsOnce' /\ ReportSplit'
      BY <2>1 DEF IInv, PoolInv, ReportsOnce, ReportSplit, Recorded
  <2>5. Phases' /\ AtReturn'
      BY <2>1 DEF IInv, PoolInv, Phases, AtReturn, WorkersDone, Failed, With
  <2> QED BY <2>2, <2>3, <2>4, <2>5 DEF IInv, PoolInv
<1> QED BY <1>1, <1>2, <1>3, <1>4, <1>5, <1>6 DEF Next

-----------------------------------------------------------------------------
(* The safety properties.                                                  *)

(* The inductive invariant holds in every behaviour of Pool. *)
THEOREM IInvariance == Spec => []IInv
BY InitInv, StepInv, PTL DEF Spec

(* The variables keep their types, and the two channels that Run makes     *)
(* never hold more than they have room for, for any number of workers.     *)
THEOREM TypeCorrectness == Spec => []TypeOK
<1>1. IInv => TypeOK
    BY DEF IInv
<1> QED BY <1>1, IInvariance, PTL

(* No outcome is lost or duplicated between its worker and the report or   *)
(* the error that Run returns.                                             *)
THEOREM PoolInvariance == Spec => []PoolInv
<1>1. IInv => PoolInv
    BY DEF IInv
<1> QED BY <1>1, IInvariance, PTL

(* Run closes "results" only when no worker can send on it any more. *)
THEOREM NoPanic == Spec => []NoSendOnClosed
<1>1. IInv => NoSendOnClosed
    BY DEF IInv, PoolInv, Phases, WorkersDone, NoSendOnClosed
<1> QED BY <1>1, IInvariance, PTL

(* The report that Run returns lists exactly the tasks that succeeded, in  *)
(* order and without repetition.                                           *)
THEOREM ReportIsComplete == Spec => []ReportComplete
<1>1. IInv => ReportComplete
  <2> SUFFICES ASSUME IInv, main = "returned" PROVE ReportComplete
      BY DEF ReportComplete
  <2>1. results = <<>> /\ Range(results) = {}
      BY DEF IInv, PoolInv, Phases, Range
  <2>2. \A t \in Tasks : status[t] = "succeeded" <=> t \in Recorded
      BY <2>1, NothingHeld DEF IInv, PoolInv, OutcomesKept
  <2>3. Recorded \subseteq Tasks
      BY RangeOfSeq DEF IInv, TypeOK, Reports, Recorded
  <2>4. Succeeded = Recorded
      BY <2>2, <2>3 DEF Succeeded, With
  <2>5. /\ Range(report.copies) = {t \in Succeeded : Kind[t] # "delete"}
        /\ Range(report.deletes) = {t \in Succeeded : Kind[t] = "delete"}
      BY <2>4 DEF IInv, PoolInv, ReportSplit, Recorded
  <2> QED BY <2>5 DEF IInv, PoolInv, AtReturn, ReportComplete
<1> QED BY <1>1, IInvariance, PTL

(* The elements of a sequence are finitely many. *)
LEMMA RangeFinite ==
    ASSUME NEW S, NEW s \in Seq(S)
    PROVE  IsFiniteSet(Range(s))
<1>1. Len(s) \in Nat /\ s \in [1..Len(s) -> S] /\ DOMAIN s = 1..Len(s)
    BY LenProperties
<1>2. s \in Surjection(1..Len(s), Range(s))
    BY <1>1 DEF Surjection, Range
<1> QED BY <1>1, <1>2, FS_Surjection, FS_Interval

(* A copy that is added to the report adds its bytes to the sum. *)
LEMMA CollectBytes ==
    ASSUME IInv, BytesAccounted, Collect
    PROVE  BytesAccounted'
<1> DEFINE t == Head(results)
           c == report.copies
<1>1. t \in Tasks /\ t \notin Range(c)
  <2>1. t \in Tasks /\ t \in Range(results)
      BY TailRange DEF Collect, IInv, TypeOK
  <2> QED BY <2>1 DEF IInv, PoolInv, ReportsOnce, Recorded
<1>2. report \in Reports /\ c \in Seq(Tasks) /\ report.totalBytes \in Nat
    BY DEF IInv, TypeOK, Reports
<1>3. CASE Kind[t] = "delete"
  <2>1. report'.copies = c /\ report'.totalBytes = report.totalBytes
      BY <1>2, <1>3 DEF Collect, Added, Reports
  <2> QED BY <2>1 DEF BytesAccounted
<1>4. CASE Kind[t] # "delete"
  <2>1. report'.copies = Append(c, t) /\ report'.totalBytes = report.totalBytes + Bytes[t]
      BY <1>2, <1>4 DEF Collect, Added, Reports
  <2>2. Range(Append(c, t)) = Range(c) \cup {t}
      BY <1>1, <1>2, AppendRange
  <2>3. IsFiniteSet(Range(c)) /\ NatValued(Bytes, Range(c) \cup {t})
      BY <1>1, <1>2, RangeFinite, RangeOfSeq, PoolAssumption DEF PoolAssumption, NatValued
  <2>4. SumFunctionOnSet(Bytes, Range(c) \cup {t})
            = SumFunctionOnSet(Bytes, Range(c)) + Bytes[t]
      BY <1>1, <2>3, SumInsert
  <2> QED BY <2>1, <2>2, <2>4 DEF BytesAccounted
<1> QED BY <1>3, <1>4

(* The byte total of the report is at any time that of the copies it       *)
(* lists, whatever the numbers of tasks and workers; sorting does not      *)
(* change it.                                                              *)
THEOREM BytesAreAccounted == Spec => []BytesAccounted
<1>1. Init => BytesAccounted
  <2> SUFFICES ASSUME Init PROVE BytesAccounted
      OBVIOUS
  <2>1. Range(report.copies) = {} /\ report.totalBytes = 0
      BY DEF Init, Range
  <2> QED BY <2>1, SumEmpty DEF BytesAccounted
<1>2. IInv /\ BytesAccounted /\ [Next]_vars => BytesAccounted'
  <2> SUFFICES ASSUME IInv, BytesAccounted, [Next]_vars PROVE BytesAccounted'
      OBVIOUS
  <2>1. CASE Collect
      BY <2>1, CollectBytes
  <2>2. CASE Return
    <3>1. PICK c \in Sortings(report.copies), d \in Sortings(report.deletes) :
              report' = [report EXCEPT !.copies = c, !.deletes = d, !.complete = TRUE]
        BY <2>2 DEF Return
    <3>2. report \in Reports /\ report.copies \in Seq(Tasks)
        BY DEF IInv, TypeOK, Reports
    <3>3. Range(c) = Range(report.copies)
        BY <3>2, SortedRange
    <3>4. report'.copies = c /\ report'.totalBytes = report.totalBytes
        BY <3>1, <3>2 DEF Reports
    <3> QED BY <3>3, <3>4 DEF BytesAccounted
  <2>3. CASE UNCHANGED report
      BY <2>3 DEF BytesAccounted
  <2> QED BY <2>1, <2>2, <2>3
      DEF Next, Offer, CloseTasks, Worker, Receive, ExitLoop, RunTask, SendResult,
          SendErr, Collector, CollectorExit, Run, CloseResults, vars
<1> QED BY <1>1, <1>2, IInvariance, PTL DEF Spec

-----------------------------------------------------------------------------
(* Pool implements PoolContract.                                           *)

Given == Tasks \ (With("unsent") \cup With("offered"))

Reported == IF main = "returned"
            THEN Range(report.copies) \cup Range(report.deletes)
            ELSE {}

(* The initial states of Pool are initial states of the contract. *)
LEMMA InitRefines == Init => Contract!Init
BY DEF Init, Contract!Init, With, Succeeded, Failed

(* A step that leaves the outcomes, the channel and the answer of Run      *)
(* alone is a stutter of the contract.                                     *)
LEMMA StutterRefines ==
    ASSUME UNCHANGED <<tasksOpen, status, main, ret>>,
           main # "returned" \/ UNCHANGED report
    PROVE  UNCHANGED Contract!vars
BY DEF Contract!vars, With, Succeeded, Failed

LEMMA OfferRefines ==
    ASSUME IInv, NEW t \in Tasks, Offer(t)
    PROVE  UNCHANGED Contract!vars
<1>1. /\ tasksOpen' = tasksOpen /\ main' = main /\ ret' = ret /\ report' = report
      /\ status[t] = "unsent" /\ status' = [status EXCEPT ![t] = "offered"]
    BY DEF Offer, mainVars
<1>2. /\ Given' = Given /\ Succeeded' = Succeeded /\ Failed' = Failed
      /\ Reported' = Reported
    BY <1>1 DEF IInv, TypeOK, Given, Reported, Succeeded, Failed, With
<1> QED BY <1>1, <1>2 DEF Contract!vars, Given, Reported

LEMMA ReceiveRefines ==
    ASSUME IInv, NEW w \in Workers, Receive(w)
    PROVE  Contract!Next
<1>1. PICK t \in Tasks : status[t] = "offered" /\ status' = [status EXCEPT ![t] = "running"]
    BY DEF Receive, With
<1>2. tasksOpen' = tasksOpen /\ main' = main /\ ret' = ret /\ report' = report
    BY DEF Receive, mainVars
<1>3. tasksOpen
    BY <1>1 DEF IInv, PoolInv, Phases, TypeOK, With
<1>4. /\ t \notin Given /\ Given' = Given \cup {t}
      /\ Succeeded' = Succeeded /\ Failed' = Failed
      /\ Reported' = Reported
    BY <1>1, <1>2 DEF IInv, TypeOK, Given, Reported, Succeeded, Failed, With
<1>5. Contract!Take(t)
    BY <1>2, <1>3, <1>4 DEF Contract!Take, Given, Reported
<1> QED BY <1>5 DEF Contract!Next

LEMMA RunTaskRefines ==
    ASSUME IInv, NEW w \in Workers, RunTask(w)
    PROVE  Contract!Next
<1> DEFINE t == held[w]
<1>1. t \in Tasks /\ status[t] = "running"
    BY PoolAssumption DEF PoolAssumption, RunTask, IInv, PoolInv, TypeOK, BusyWorkers
<1>2. tasksOpen' = tasksOpen /\ main' = main /\ ret' = ret /\ report' = report
    BY DEF RunTask, mainVars
<1>3. t \in Given /\ t \notin Succeeded /\ t \notin Failed
    BY <1>1 DEF Given, Succeeded, Failed, With
<1>4. CASE status' = [status EXCEPT ![t] = "succeeded"]
  <2>1. Given' = Given /\ Succeeded' = Succeeded \cup {t} /\ Failed' = Failed
      BY <1>1, <1>4 DEF IInv, TypeOK, Given, Succeeded, Failed, With
  <2>2. Contract!Succeed(t)
      BY <1>2, <1>3, <2>1 DEF Contract!Succeed, Given
  <2> QED BY <1>1, <2>2 DEF Contract!Next
<1>5. CASE status' = [status EXCEPT ![t] = "failed"]
  <2>1. Given' = Given /\ Succeeded' = Succeeded /\ Failed' = Failed \cup {t}
      BY <1>1, <1>5 DEF IInv, TypeOK, Given, Succeeded, Failed, With
  <2>2. Contract!Fail(t)
      BY <1>2, <1>3, <2>1 DEF Contract!Fail, Given
  <2> QED BY <1>1, <2>2 DEF Contract!Next
<1> QED BY <1>4, <1>5 DEF RunTask

(* Run answers: every task taken has an outcome, the report lists those    *)
(* that succeeded, and the error is that of one that failed.               *)
LEMMA ReturnRefines ==
    ASSUME IInv, Return
    PROVE  Contract!Next
<1>1. /\ main = "collect" /\ main' = "returned" /\ ret' = FirstErr /\ results = <<>>
      /\ UNCHANGED <<tasksOpen, status>>
    BY DEF Return, IInv, PoolInv, Phases
<1>2. ~tasksOpen /\ With("offered") = {}
    BY <1>1, ClosedAtReturn
<1>3. Given = Succeeded \cup Failed
  <2>1. With("running") = {}
      BY <1>1, NothingHeld DEF IInv, PoolInv, OutcomesKept, With
  <2> QED BY <1>2, <2>1 DEF IInv, TypeOK, Given, Succeeded, Failed, With
<1>4. Reported' = Succeeded
  <2>1. ReportComplete'
    <3>1. IInv' /\ main' = "returned"
        BY <1>1, ReturnInv
    <3>2. results' = <<>> /\ Range(results') = {}
        BY <3>1 DEF IInv, PoolInv, Phases, Range
    <3>3. \A t \in Tasks : status'[t] = "succeeded" <=> t \in Recorded'
      <4>1. \A w \in Workers : wpc'[w] = "exited"
          BY <3>1 DEF IInv, PoolInv, Phases, WorkersDone
      <4> QED BY <3>1, <3>2, <4>1 DEF IInv, PoolInv, OutcomesKept, Holds
    <3>4. Recorded' \subseteq Tasks
        BY <3>1, RangeOfSeq DEF IInv, TypeOK, Reports, Recorded
    <3>5. Succeeded' = Recorded'
        BY <3>3, <3>4 DEF Succeeded, With
    <3>6. /\ Range(report.copies)' = {t \in Succeeded' : Kind[t] # "delete"}
          /\ Range(report.deletes)' = {t \in Succeeded' : Kind[t] = "delete"}
        BY <3>1, <3>5 DEF IInv, PoolInv, ReportSplit, Recorded
    <3> QED BY <3>1, <3>6 DEF IInv, PoolInv, AtReturn, ReportComplete
  <2>2. Succeeded' = Succeeded
      BY <1>1 DEF Succeeded, With
  <2> QED BY <1>1, <2>1, <2>2 DEF Reported, ReportComplete
<1>5. IF Failed = {} THEN ret' = NoTask ELSE ret' \in Failed
    BY <1>1, ErrorTold
<1>6. Given' = Given /\ Succeeded' = Succeeded /\ Failed' = Failed
    BY <1>1 DEF Given, Succeeded, Failed, With
<1>7. Contract!Return
    BY <1>1, <1>2, <1>3, <1>4, <1>5, <1>6 DEF Contract!Return, Given, Reported
<1> QED BY <1>7 DEF Contract!Next

(* Every step of Pool is a step of the contract or a stutter of it. *)
LEMMA StepRefines == IInv /\ [Next]_vars => [Contract!Next]_(Contract!vars)
<1> SUFFICES ASSUME IInv, [Next]_vars PROVE [Contract!Next]_(Contract!vars)
    OBVIOUS
<1>1. CASE \E t \in Tasks : Offer(t)
    BY <1>1, OfferRefines
<1>2. CASE CloseTasks
  <2>1. tasksOpen /\ tasksOpen' = FALSE
        /\ UNCHANGED <<status, main, ret, report>>
      BY <1>2 DEF CloseTasks, mainVars
  <2>2. Contract!Close
      BY <2>1 DEF Contract!Close, With, Succeeded, Failed
  <2> QED BY <2>2 DEF Contract!Next
<1>3. ASSUME NEW w \in Workers, Worker(w) PROVE [Contract!Next]_(Contract!vars)
  <2>1. CASE Receive(w)
      BY <2>1, ReceiveRefines
  <2>2. CASE RunTask(w)
      BY <2>2, RunTaskRefines
  <2>3. CASE ExitLoop(w) \/ SendResult(w) \/ SendErr(w)
      BY <2>3, StutterRefines DEF ExitLoop, SendResult, SendErr, mainVars
  <2> QED BY <1>3, <2>1, <2>2, <2>3 DEF Worker
<1>4. CASE Collector
  <2>1. collector = "range" /\ UNCHANGED <<tasksOpen, status, main, ret>>
      BY <1>4 DEF Collector, Collect, CollectorExit, mainVars
  <2>2. main # "returned"
      BY <2>1 DEF IInv, PoolInv, Phases
  <2> QED BY <2>1, <2>2, StutterRefines
<1>5. CASE CloseResults
  <2>1. /\ main = "wait" /\ main' = "collect"
        /\ UNCHANGED <<tasksOpen, status, report, ret>>
      BY <1>5 DEF CloseResults
  <2> QED BY <2>1 DEF Contract!vars, With, Succeeded, Failed
<1>6. CASE Return
    BY <1>6, ReturnRefines
<1>7. CASE UNCHANGED vars
    BY <1>7, StutterRefines DEF vars
<1> QED BY <1>1, <1>2, <1>3, <1>4, <1>5, <1>6, <1>7 DEF Next, Run

(* Pool implements PoolContract: every task is taken and executed once,    *)
(* and Run answers, after all of them, with the report and the error its   *)
(* callers rely on.                                                        *)
THEOREM Refinement == Spec => ImplementsContract
BY InitRefines, StepRefines, IInvariance, PTL DEF Spec, ImplementsContract, Contract!Spec

-----------------------------------------------------------------------------
(* The commands: the pool inside keeps the invariant above, and what is    *)
(* added relates the pool, the scanner and the command.                    *)

(* Where the answers of the pool come from: Run answers nil only if no     *)
(* task failed, and with all the tasks received done.                      *)
AnswerTrue ==
    main = "returned" => /\ ret = NoTask => Failed = {}
                         /\ With("running") = {}

(* A listing leaves the pool unused: no task runs or fails. *)
ListOnly ==
    /\ status \in [Tasks -> {"unsent", "offered", "succeeded"}]
    /\ tasksOpen \in BOOLEAN
    /\ ~tasksOpen => With("offered") = {}

(* The pool keeps its invariant, unless the command is scan. *)
PoolPart == IF args = "scan" THEN ListOnly ELSE IInv /\ AnswerTrue

(* The scanner, its channel of tasks and its outcome go together: the      *)
(* outcome is there as soon as the scan has ended, and it is good only if  *)
(* nothing is left to send.                                                *)
ScannerPart ==
    /\ scanner \in {"unstarted", "scanning", "close", "done"}
    /\ tasksOpen <=> scanner # "done"
    /\ scanner = "close" => With("offered") = {}
    /\ scanner \in {"unstarted", "scanning"} => scanErr = <<>>
    /\ scanner \in {"close", "done"} => scanErr \in {<<"ok">>, <<"failed">>} \/ exit # "none"
    /\ scanErr = <<"ok">> => With("unsent") = {}
    /\ scanner = "unstarted" <=> (command = "start" \/ args \notin Runs)

(* The command, and what it has waited for to get where it is. *)
CommandPart ==
    /\ args \in ArgsKinds
    /\ command \in {"start", "list", "pool", "report", "scanResult", "ended"}
    /\ exit # "none" <=> command = "ended"
    /\ command = "list" => args = "scan"
    /\ command \in {"pool", "report"} => args = "sync"
    /\ command \in {"scanResult", "ended"} =>
          CASE args = "scan" -> ~tasksOpen
            [] args = "sync" -> main = "returned"
            [] OTHER         -> command = "ended"
    /\ command \in {"report", "scanResult"} /\ args = "sync" => main = "returned" /\ ret = NoTask
    /\ command = "scanResult" /\ args = "sync" => printed
    /\ exit = "0" /\ args \in Runs => /\ With("unsent") = {}
                                      /\ args = "sync" => printed /\ ret = NoTask

SyncInv == PoolPart /\ ScannerPart /\ CommandPart

(* The initial states satisfy the invariant. *)
LEMMA SyncInitInv == SyncInit => SyncInv
<1> SUFFICES ASSUME SyncInit PROVE SyncInv
    OBVIOUS
<1>1. IInv /\ AnswerTrue /\ ListOnly
    BY InitInv DEF SyncInit, Init, AnswerTrue, ListOnly, With
<1>2. ScannerPart
    BY DEF SyncInit, Init, ScannerPart, With
<1>3. CommandPart
    BY DEF SyncInit, CommandPart, ArgsKinds
<1> QED BY <1>1, <1>2, <1>3 DEF SyncInv, PoolPart

-----------------------------------------------------------------------------
(* What a step of the pool does that the others can see: it never sends,   *)
(* it may receive, and after it has answered it does nothing.              *)
PoolActs == (\E w \in Workers : Worker(w)) \/ Collector \/ Run

LEMMA PoolActsKeep ==
    ASSUME IInv, AnswerTrue, PoolActs
    PROVE  /\ IInv' /\ AnswerTrue'
           /\ tasksOpen' = tasksOpen
           /\ With("unsent")' = With("unsent")
           /\ With("offered")' \subseteq With("offered")
           /\ main # "returned"
<1>1. IInv'
    BY StepInv DEF PoolActs, Next
<1>2. main # "returned"
  <2> SUFFICES ASSUME main = "returned" PROVE FALSE
      OBVIOUS
  <2>1. collector = "exited" /\ \A w \in Workers : wpc[w] = "exited"
      BY DEF IInv, PoolInv, Phases, WorkersDone
  <2> QED BY <2>1
      DEF PoolActs, Worker, Receive, ExitLoop, RunTask, SendResult, SendErr,
          Collector, Collect, CollectorExit, Run, CloseResults, Return
<1>3. tasksOpen' = tasksOpen
    BY DEF PoolActs, Worker, Receive, ExitLoop, RunTask, SendResult, SendErr,
           Collector, Collect, CollectorExit, Run, CloseResults, Return
<1>4. /\ With("unsent")' = With("unsent")
      /\ With("offered")' \subseteq With("offered")
  <2>1. ASSUME NEW w \in Workers, RunTask(w)
        PROVE  With("unsent")' = With("unsent") /\ With("offered")' \subseteq With("offered")
    <3>1. status[held[w]] = "running"
        BY <2>1 DEF RunTask, IInv, PoolInv, BusyWorkers
    <3> QED BY <2>1, <3>1 DEF RunTask, With, IInv, TypeOK
  <2>2. ASSUME NEW w \in Workers, Receive(w)
        PROVE  With("unsent")' = With("unsent") /\ With("offered")' \subseteq With("offered")
    BY <2>2 DEF Receive, With, IInv, TypeOK
  <2>3. CASE UNCHANGED status
    BY <2>3 DEF With
  <2> QED BY <2>1, <2>2, <2>3
      DEF PoolActs, Worker, ExitLoop, SendResult, SendErr,
          Collector, Collect, CollectorExit, Run, CloseResults, Return
<1>5. AnswerTrue'
  <2>1. CASE Return
    <3>1. main = "collect" /\ UNCHANGED status /\ ret' = FirstErr
        BY <2>1 DEF Return
    <3>2. With("running") = {}
        BY <3>1, NothingHeld DEF IInv, PoolInv, OutcomesKept, With
    <3>3. Failed # {} => FirstErr # NoTask
        BY <3>1, ErrorTold
    <3> QED BY <3>1, <3>2, <3>3 DEF AnswerTrue, Failed, With
  <2>2. CASE ~Return
    <3>1. main' # "returned"
        BY <1>2, <2>2
        DEF PoolActs, Worker, Receive, ExitLoop, RunTask, SendResult, SendErr, mainVars,
            Collector, Collect, CollectorExit, Run, CloseResults
    <3> QED BY <3>1 DEF AnswerTrue
  <2> QED BY <2>1, <2>2
<1> QED BY <1>1, <1>2, <1>3, <1>4, <1>5

-----------------------------------------------------------------------------
(* The steps.                                                              *)

LEMMA ScanSendInv ==
    ASSUME SyncInv, exit = "none", ScanSend
    PROVE  SyncInv'
<1>1. PICK t \in Tasks : Offer(t)
    BY DEF ScanSend
<1>2. UNCHANGED cliVars /\ scanner = "scanning" /\ tasksOpen /\ args \in Runs
    BY <1>1 DEF ScanSend, Offer, SyncInv, ScannerPart
<1>3. /\ UNCHANGED <<tasksOpen, main, ret>>
      /\ status[t] = "unsent" /\ status' = [status EXCEPT ![t] = "offered"]
    BY <1>1 DEF Offer, mainVars
<1>4. PoolPart'
  <2>1. CASE args = "scan"
      BY <1>2, <1>3, <2>1 DEF SyncInv, PoolPart, ListOnly, cliVars
  <2>2. CASE args # "scan"
    <3>1. IInv /\ AnswerTrue /\ IInv'
        BY <1>1, <2>2, OfferInv DEF SyncInv, PoolPart
    <3>2. AnswerTrue'
        BY <1>3, <3>1 DEF AnswerTrue, Failed, With, IInv, TypeOK
    <3> QED BY <1>2, <2>2, <3>1, <3>2 DEF PoolPart, cliVars
  <2> QED BY <2>1, <2>2
<1>5. ScannerPart'
    BY <1>2, <1>3 DEF SyncInv, ScannerPart, cliVars
<1>6. CommandPart'
    BY <1>2, <1>3 DEF SyncInv, CommandPart, cliVars
<1> QED BY <1>4, <1>5, <1>6 DEF SyncInv

LEMMA ScanEndInv ==
    ASSUME SyncInv, exit = "none", ScanEnd
    PROVE  SyncInv'
<1>1. /\ scanner = "scanning" /\ scanner' = "close" /\ With("offered") = {}
      /\ UNCHANGED <<poolVars, args, command, printed, exit>>
    BY DEF ScanEnd
<1>2. /\ scanErr = <<>>
      /\ scanErr' \in {<<"ok">>, <<"failed">>}
      /\ scanErr' = <<"ok">> => With("unsent") = {}
  <2>1. scanErr = <<>>
      BY <1>1 DEF SyncInv, ScannerPart
  <2>2. PICK outcome \in {"ok", "failed"} :
            /\ outcome = "ok" => With("unsent") = {}
            /\ scanErr' = Append(scanErr, outcome)
      BY DEF ScanEnd
  <2>3. scanErr' = <<outcome>>
      BY <2>1, <2>2
  <2> QED BY <2>1, <2>2, <2>3
<1>3. UNCHANGED <<tasksOpen, status, main, ret>> /\ With("unsent")' = With("unsent")
      /\ With("offered")' = With("offered")
    BY <1>1 DEF poolVars, vars, With
<1>4. PoolPart'
    BY <1>1, StepInv
    DEF SyncInv, PoolPart, ListOnly, AnswerTrue, Failed, With, poolVars, vars
<1>5. ScannerPart'
    BY <1>1, <1>2, <1>3 DEF SyncInv, ScannerPart
<1>6. CommandPart'
    BY <1>1, <1>3 DEF SyncInv, CommandPart
<1> QED BY <1>4, <1>5, <1>6 DEF SyncInv

LEMMA ScanCloseInv ==
    ASSUME SyncInv, exit = "none", ScanClose
    PROVE  SyncInv'
<1>1. /\ CloseTasks /\ scanner = "close" /\ scanner' = "done"
      /\ UNCHANGED <<args, scanErr, command, printed, exit>>
    BY DEF ScanClose
<1>2. /\ tasksOpen' = FALSE /\ With("offered") = {} /\ UNCHANGED <<status, main, ret>>
      /\ With("unsent")' = With("unsent") /\ With("offered")' = {}
    BY <1>1 DEF CloseTasks, mainVars, With
<1>3. PoolPart'
    BY <1>1, <1>2, CloseTasksInv
    DEF SyncInv, PoolPart, ListOnly, AnswerTrue, Failed, With
<1>4. ScannerPart'
    BY <1>1, <1>2 DEF SyncInv, ScannerPart
<1>5. CommandPart'
    BY <1>1, <1>2 DEF SyncInv, CommandPart
<1> QED BY <1>3, <1>4, <1>5 DEF SyncInv

LEMMA PoolStepInv ==
    ASSUME SyncInv, exit = "none", args = "sync", command # "start",
           PoolActs, UNCHANGED cliVars
    PROVE  SyncInv'
<1>1. IInv /\ AnswerTrue
    BY DEF SyncInv, PoolPart
<1>2. /\ IInv' /\ AnswerTrue' /\ tasksOpen' = tasksOpen /\ main # "returned"
      /\ With("unsent")' = With("unsent")
      /\ With("offered")' \subseteq With("offered")
    BY <1>1, PoolActsKeep
<1>3. PoolPart'
    BY <1>2 DEF PoolPart, cliVars
<1>4. ScannerPart'
    BY <1>2 DEF SyncInv, ScannerPart, cliVars
<1>5. CommandPart'
    BY <1>2 DEF SyncInv, CommandPart, cliVars
<1> QED BY <1>3, <1>4, <1>5 DEF SyncInv

(* A command that does not touch the pool. *)
LEMMA PoolPartKept ==
    ASSUME PoolPart, UNCHANGED <<poolVars, args>>
    PROVE  /\ PoolPart' /\ UNCHANGED <<tasksOpen, main, ret>>
           /\ With("unsent")' = With("unsent") /\ With("offered")' = With("offered")
<1>1. IInv => IInv'
    BY StepInv DEF poolVars
<1>2. UNCHANGED <<tasksOpen, status, main, ret>>
    BY DEF poolVars, vars
<1> QED BY <1>1, <1>2 DEF PoolPart, ListOnly, AnswerTrue, Failed, With

LEMMA StartInv ==
    ASSUME SyncInv, exit = "none", Start
    PROVE  SyncInv'
<1>1. command = "start" /\ UNCHANGED <<poolVars, args, scanErr, printed>>
    BY DEF Start
<1>2. PoolPart' /\ UNCHANGED <<tasksOpen, main, ret>> /\ With("unsent")' = With("unsent")
      /\ With("offered")' = With("offered")
    BY <1>1, PoolPartKept DEF SyncInv
<1>3. CASE StartScan
  <2>1. /\ args \in Runs /\ scanner' = "scanning" /\ exit' = exit
        /\ command' = IF args = "scan" THEN "list" ELSE "pool"
      BY <1>3 DEF StartScan
  <2>2. ScannerPart'
      BY <1>1, <1>2, <2>1 DEF SyncInv, ScannerPart
  <2>3. CommandPart'
      BY <1>1, <1>2, <2>1 DEF SyncInv, CommandPart, Runs
  <2> QED BY <1>2, <2>2, <2>3 DEF SyncInv
<1>4. CASE (ParseFails \/ Refuse \/ ShowHelp) /\ UNCHANGED scanner
  <2>1. /\ args \notin Runs /\ scanner' = scanner
        /\ exit' # "none" /\ command' = "ended"
      BY <1>4 DEF ParseFails, Refuse, ShowHelp, Exit, Runs
  <2>2. ScannerPart'
      BY <1>1, <1>2, <2>1 DEF SyncInv, ScannerPart
  <2>3. CommandPart'
      BY <1>1, <1>2, <2>1 DEF SyncInv, CommandPart, Runs
  <2> QED BY <1>2, <2>2, <2>3 DEF SyncInv
<1> QED BY <1>3, <1>4 DEF Start

LEMMA ListInv ==
    ASSUME SyncInv, exit = "none", List
    PROVE  SyncInv'
<1>1. PICK t \in With("offered") : status' = [status EXCEPT ![t] = "succeeded"]
    BY DEF List
<1>2. args = "scan" /\ command = "list" /\ UNCHANGED <<tasksOpen, main, ret, cliVars>>
    BY DEF List, SyncInv, CommandPart, mainVars
<1>3. ListOnly /\ t \in Tasks /\ status[t] = "offered"
    BY <1>2 DEF SyncInv, PoolPart, With
<1>4. With("unsent")' = With("unsent") /\ With("offered")' \subseteq With("offered")
    BY <1>1, <1>3 DEF With, ListOnly
<1>5. PoolPart'
    BY <1>1, <1>2, <1>3 DEF PoolPart, ListOnly, With, cliVars
<1>6. ScannerPart'
    BY <1>2, <1>4 DEF SyncInv, ScannerPart, cliVars
<1>7. CommandPart'
    BY <1>2, <1>4 DEF SyncInv, CommandPart, cliVars
<1> QED BY <1>5, <1>6, <1>7 DEF SyncInv

LEMMA ListEndInv ==
    ASSUME SyncInv, exit = "none", ListEnd
    PROVE  SyncInv'
<1>1. /\ command = "list" /\ ~tasksOpen /\ command' = "scanResult" /\ args = "scan"
      /\ UNCHANGED <<poolVars, args, scanner, scanErr, printed, exit>>
    BY DEF ListEnd, SyncInv, CommandPart
<1>2. PoolPart' /\ UNCHANGED <<tasksOpen, main, ret>> /\ With("unsent")' = With("unsent")
      /\ With("offered")' = With("offered")
    BY <1>1, PoolPartKept DEF SyncInv
<1>3. ScannerPart'
    BY <1>1, <1>2 DEF SyncInv, ScannerPart
<1>4. CommandPart'
    BY <1>1, <1>2 DEF SyncInv, CommandPart
<1> QED BY <1>2, <1>3, <1>4 DEF SyncInv

LEMMA PoolReturnedInv ==
    ASSUME SyncInv, exit = "none", PoolReturned
    PROVE  SyncInv'
<1>1. /\ command = "pool" /\ main = "returned" /\ args = "sync"
      /\ UNCHANGED <<poolVars, args, scanner, scanErr, printed>>
      /\ \/ ret # NoTask /\ exit' = "1" /\ command' = "ended"
         \/ ret = NoTask /\ command' = "report" /\ exit' = exit
    BY DEF PoolReturned, Exit, SyncInv, CommandPart
<1>2. PoolPart' /\ UNCHANGED <<tasksOpen, main, ret>> /\ With("unsent")' = With("unsent")
      /\ With("offered")' = With("offered")
    BY <1>1, PoolPartKept DEF SyncInv
<1>3. ScannerPart'
    BY <1>1, <1>2 DEF SyncInv, ScannerPart, Runs
<1>4. CommandPart'
    BY <1>1, <1>2 DEF SyncInv, CommandPart
<1> QED BY <1>2, <1>3, <1>4 DEF SyncInv

LEMMA OutputReportInv ==
    ASSUME SyncInv, exit = "none", OutputReport
    PROVE  SyncInv'
<1>1. /\ command = "report" /\ args = "sync" /\ main = "returned" /\ ret = NoTask
      /\ printed' = TRUE
      /\ UNCHANGED <<poolVars, args, scanner, scanErr>>
      /\ \/ command' = "scanResult" /\ exit' = exit
         \/ command' = "ended" /\ exit' = "1"
    BY DEF OutputReport, Exit, SyncInv, CommandPart
<1>2. PoolPart' /\ UNCHANGED <<tasksOpen, main, ret>> /\ With("unsent")' = With("unsent")
      /\ With("offered")' = With("offered")
    BY <1>1, PoolPartKept DEF SyncInv
<1>3. ScannerPart'
    BY <1>1, <1>2 DEF SyncInv, ScannerPart, Runs
<1>4. CommandPart'
    BY <1>1, <1>2 DEF SyncInv, CommandPart
<1> QED BY <1>2, <1>3, <1>4 DEF SyncInv

(* The outcome of the scan is there when it is asked for, and a good one   *)
(* means that nothing was left to send.                                    *)
LEMMA ScanResultInv ==
    ASSUME SyncInv, exit = "none", ScanResult
    PROVE  SyncInv'
<1>1. /\ command = "scanResult" /\ scanErr # <<>>
      /\ command' = "ended"
      /\ exit' = IF Head(scanErr) = "ok" THEN "0" ELSE "1"
      /\ UNCHANGED <<poolVars, args, scanner, printed>>
    BY DEF ScanResult, Exit
<1>2. PoolPart' /\ UNCHANGED <<tasksOpen, main, ret>> /\ With("unsent")' = With("unsent")
      /\ With("offered")' = With("offered")
    BY <1>1, PoolPartKept DEF SyncInv
<1>3. args \in Runs /\ scanErr \in {<<"ok">>, <<"failed">>} /\ scanner \in {"close", "done"}
    BY <1>1 DEF SyncInv, CommandPart, ScannerPart, Runs
<1>4. exit' = "0" => With("unsent") = {}
    BY <1>1, <1>3 DEF SyncInv, ScannerPart
<1>5. scanErr' = <<>>
    BY <1>3 DEF ScanResult
<1>6. ScannerPart'
    BY <1>1, <1>2, <1>3, <1>5 DEF SyncInv, ScannerPart
<1>7. CommandPart'
    BY <1>1, <1>2, <1>3, <1>4 DEF SyncInv, CommandPart
<1> QED BY <1>2, <1>6, <1>7 DEF SyncInv

(* Every step keeps the invariant: one case for each action. *)
LEMMA SyncStepInv == SyncInv /\ [SyncNext]_syncVars => SyncInv'
<1> SUFFICES ASSUME SyncInv, [SyncNext]_syncVars PROVE SyncInv'
    OBVIOUS
<1>1. CASE SyncNext
  <2>1. CASE ScanSend \/ ScanEnd \/ ScanClose
      BY <1>1, <2>1, ScanSendInv, ScanEndInv, ScanCloseInv DEF SyncNext
  <2>2. CASE (\E w \in Workers : PoolStep(Worker(w))) \/ PoolStep(Collector) \/ PoolStep(Run)
      BY <1>1, <2>2, PoolStepInv DEF SyncNext, PoolStep, PoolActs
  <2>3. CASE Command
      BY <1>1, <2>3, StartInv, ListInv, ListEndInv, PoolReturnedInv, OutputReportInv,
         ScanResultInv DEF SyncNext, Command
  <2> QED BY <1>1, <2>1, <2>2, <2>3 DEF SyncNext
<1>2. CASE UNCHANGED syncVars
  <2>1. UNCHANGED <<poolVars, args, scanner, scanErr, command, printed, exit>>
      BY <1>2 DEF syncVars, cliVars
  <2>2. PoolPart' /\ UNCHANGED <<tasksOpen, main, ret>> /\ With("unsent")' = With("unsent")
        /\ With("offered")' = With("offered")
      BY <2>1, PoolPartKept DEF SyncInv
  <2> QED BY <2>1, <2>2 DEF SyncInv, ScannerPart, CommandPart
<1> QED BY <1>1, <1>2

THEOREM SyncInvariance == SyncSpec => []SyncInv
BY SyncInitInv, SyncStepInv, PTL DEF SyncSpec

-----------------------------------------------------------------------------
(* The safety properties.                                                  *)

(* A command that exits with 0 has sent the whole plan, and sync has       *)
(* executed all of it without a failure, in whatever order the scanner,    *)
(* the workers and the command came to their ends.                         *)
THEOREM SuccessIsEarned == SyncSpec => []SuccessMeansSynced
<1>1. SyncInv => SuccessMeansSynced
  <2> SUFFICES ASSUME SyncInv, exit = "0", args \in Runs
               PROVE  Succeeded = Tasks /\ (args = "sync" => printed /\ ret = NoTask)
      BY DEF SuccessMeansSynced
  <2>1. command = "ended" /\ With("unsent") = {}
        /\ (args = "sync" => printed /\ ret = NoTask)
      BY DEF SyncInv, CommandPart
  <2>2. CASE args = "scan"
    <3>1. ListOnly /\ ~tasksOpen
        BY <2>1, <2>2 DEF SyncInv, PoolPart, CommandPart
    <3> QED BY <2>1, <2>2, <3>1 DEF ListOnly, Succeeded, With
  <2>3. CASE args = "sync"
    <3>1. IInv /\ AnswerTrue /\ main = "returned" /\ ret = NoTask
        BY <2>1, <2>3 DEF SyncInv, PoolPart, CommandPart
    <3>2. ~tasksOpen /\ With("offered") = {}
        BY <3>1, ClosedAtReturn
    <3>3. Failed = {} /\ With("running") = {}
        BY <3>1 DEF AnswerTrue
    <3>4. Succeeded = Tasks
        BY <2>1, <3>1, <3>2, <3>3 DEF IInv, TypeOK, Succeeded, Failed, With
    <3> QED BY <2>1, <3>4
  <2> QED BY <2>2, <2>3 DEF Runs
<1> QED BY <1>1, SyncInvariance, PTL

(* When the process exits the scanner, the workers and the collector have  *)
(* ended, and no task sent is without its outcome, for every exit code.    *)
THEOREM NothingIsCutOff == SyncSpec => []NothingCutOff
<1>1. SyncInv => NothingCutOff
  <2> SUFFICES ASSUME SyncInv, exit # "none", args \in Runs
               PROVE  /\ scanner = "done"
                      /\ With("offered") \cup With("running") = {}
                      /\ args = "sync" => WorkersDone /\ collector = "exited"
      BY DEF NothingCutOff
  <2>1. command = "ended"
      BY DEF SyncInv, CommandPart
  <2>2. CASE args = "scan"
    <3>1. ListOnly /\ ~tasksOpen
        BY <2>1, <2>2 DEF SyncInv, PoolPart, CommandPart
    <3> QED BY <2>2, <3>1 DEF SyncInv, ScannerPart, ListOnly, With
  <2>3. CASE args = "sync"
    <3>1. IInv /\ AnswerTrue /\ main = "returned"
        BY <2>1, <2>3 DEF SyncInv, PoolPart, CommandPart
    <3>2. ~tasksOpen /\ With("offered") = {}
        BY <3>1, ClosedAtReturn
    <3>3. With("running") = {} /\ WorkersDone /\ collector = "exited"
        BY <3>1 DEF AnswerTrue, IInv, PoolInv, Phases
    <3> QED BY <3>2, <3>3 DEF SyncInv, ScannerPart
  <2> QED BY <2>2, <2>3 DEF Runs
<1> QED BY <1>1, SyncInvariance, PTL
=============================================================================
