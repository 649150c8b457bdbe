-------------------------------- MODULE Pool --------------------------------
(***************************************************************************)
(* worker.Pool.Run (internal/worker/pool.go): Workers goroutines range     *)
(* over an unbuffered channel of tasks, run each one on the executor, and  *)
(* send its report to the buffered channel "results" or its error to the   *)
(* buffered channel "errs".  A collector goroutine drains "results" into   *)
(* the Report while Run waits; nobody reads "errs" before every worker has *)
(* exited.                                                                 *)
(*                                                                         *)
(* What RunTask does to the file system is not modelled here: it ends in a *)
(* report or in an error.  A task stands for the rank of its destination   *)
(* among the destinations of the run, so that s < t iff the destination of *)
(* s sorts before the destination of t.                                    *)
(***************************************************************************)
EXTENDS Integers, Sequences, FiniteSets, Functions

CONSTANTS
    Requested,  (* the number of workers asked for (--workers)             *)
    Tasks,      (* the tasks the producer may send                         *)
    Kind,       (* the action of each task                                 *)
    Bytes,      (* the bytes each task copies                              *)
    NoTask      (* no task; as an error, nil                               *)

ASSUME PoolAssumption ==
    /\ Requested \in Int
    /\ Tasks \subseteq Nat
    /\ Kind \in [Tasks -> {"copy", "delete", "copyBatch"}]
    /\ Bytes \in [Tasks -> Nat]
    /\ NoTask \notin Tasks

(* New: a worker count that is not positive means one worker. *)
PoolSize == IF Requested <= 0 THEN 1 ELSE Requested

Workers == 1 .. PoolSize

VARIABLES
    tasksOpen,   (* the channel of tasks is not closed                     *)
    status,      (* status[t]: where task t is in its life                 *)
    wpc,         (* wpc[w]: what worker w does next                        *)
    held,        (* held[w]: the task worker w is busy with                *)
    results,     (* the buffered channel of reports, oldest first          *)
    resultsOpen, (* it is not closed                                       *)
    errs,        (* the buffered channel of errors, oldest first           *)
    collector,   (* what the collector goroutine does                      *)
    report,      (* the Report under construction                          *)
    main,        (* where Run itself is                                    *)
    ret          (* the task whose error Run returned, NoTask if nil       *)

workerVars == <<wpc, held>>
mainVars   == <<main, ret>>
vars == <<tasksOpen, status, wpc, held, results, resultsOpen, errs,
          collector, report, main, ret>>

(* The tasks that have a given status. *)
With(s)   == {t \in Tasks : status[t] = s}
Failed    == With("failed")
Succeeded == With("succeeded")

Init ==
    /\ tasksOpen = TRUE
    /\ status = [t \in Tasks |-> "unsent"]
    /\ wpc = [w \in Workers |-> "range"]
    /\ held = [w \in Workers |-> NoTask]
    /\ results = <<>>
    /\ resultsOpen = TRUE
    /\ errs = <<>>
    /\ collector = "range"
    /\ report = [copies |-> <<>>, deletes |-> <<>>, totalBytes |-> 0,
                 complete |-> FALSE]
    /\ main = "wait"
    /\ ret = NoTask

-----------------------------------------------------------------------------
(* The producer: the goroutine that runs scanner.Scan.  A send on the      *)
(* unbuffered channel blocks it until a worker receives the task.          *)

Offer(t) ==
    /\ tasksOpen
    /\ status[t] = "unsent"
    /\ With("offered") = {}
    /\ status' = [status EXCEPT ![t] = "offered"]
    /\ UNCHANGED <<tasksOpen, workerVars, results, resultsOpen, errs,
                   collector, report, mainVars>>

CloseTasks ==
    /\ tasksOpen
    /\ With("offered") = {}
    /\ tasksOpen' = FALSE
    /\ UNCHANGED <<status, workerVars, results, resultsOpen, errs,
                   collector, report, mainVars>>

-----------------------------------------------------------------------------
(* A worker goroutine.                                                     *)

Goto(w, pc, t) ==
    /\ wpc' = [wpc EXCEPT ![w] = pc]
    /\ held' = [held EXCEPT ![w] = t]

Receive(w) ==
    /\ wpc[w] = "range"
    /\ \E t \in With("offered") :
          /\ status' = [status EXCEPT ![t] = "running"]
          /\ Goto(w, "run", t)
    /\ UNCHANGED <<tasksOpen, results, resultsOpen, errs, collector, report,
                   mainVars>>

(* The range loop ends when the channel is closed; wg.Done. *)
ExitLoop(w) ==
    /\ wpc[w] = "range"
    /\ ~tasksOpen
    /\ Goto(w, "exited", NoTask)
    /\ UNCHANGED <<tasksOpen, status, results, resultsOpen, errs, collector,
                   report, mainVars>>

RunTask(w) ==
    /\ wpc[w] = "run"
    /\ \/ /\ status' = [status EXCEPT ![held[w]] = "succeeded"]
          /\ Goto(w, "sendResult", held[w])
       \/ /\ status' = [status EXCEPT ![held[w]] = "failed"]
          /\ Goto(w, "sendErr", held[w])
    /\ UNCHANGED <<tasksOpen, results, resultsOpen, errs, collector, report,
                   mainVars>>

(* Mutated form of SendResult: the capacity of "results" is off by one. *)
SendResultOver(w) ==
    /\ wpc[w] = "sendResult"
    /\ Len(results) <= PoolSize
    /\ results' = Append(results, held[w])
    /\ Goto(w, "range", NoTask)
    /\ UNCHANGED <<tasksOpen, status, resultsOpen, errs, collector, report,
                   mainVars>>

SendResult(w) ==
    /\ wpc[w] = "sendResult"
    /\ Len(results) < PoolSize
    /\ results' = Append(results, held[w])
    /\ Goto(w, "range", NoTask)
    /\ UNCHANGED <<tasksOpen, status, resultsOpen, errs, collector, report,
                   mainVars>>

(* Mutated form of SendErr: the capacity of "errs" is off by one. *)
SendErrShort(w) ==
    /\ wpc[w] = "sendErr"
    /\ Len(errs) < PoolSize - 1
    /\ errs' = Append(errs, held[w])
    /\ Goto(w, "range", NoTask)
    /\ UNCHANGED <<tasksOpen, status, results, resultsOpen, collector, report,
                   mainVars>>

(* Blocks when "errs" is full: nothing is received from it before all the  *)
(* workers have exited.                                                    *)
SendErr(w) ==
    /\ wpc[w] = "sendErr"
    /\ Len(errs) < PoolSize
    /\ errs' = Append(errs, held[w])
    /\ Goto(w, "range", NoTask)
    /\ UNCHANGED <<tasksOpen, status, results, resultsOpen, collector, report,
                   mainVars>>

-----------------------------------------------------------------------------
(* The collector goroutine.                                                *)

(* Mutated form of Added: a batch's bytes are not counted. *)
AddedCopiesOnly(r, t) ==
    CASE Kind[t] = "delete"    -> [r EXCEPT !.deletes = Append(@, t)]
      [] Kind[t] = "copy"      -> [r EXCEPT !.copies = Append(@, t),
                                            !.totalBytes = @ + Bytes[t]]
      [] Kind[t] = "copyBatch" -> [r EXCEPT !.copies = Append(@, t)]

(* Report.add *)
Added(r, t) ==
    IF Kind[t] = "delete"
    THEN [r EXCEPT !.deletes = Append(@, t)]
    ELSE [r EXCEPT !.copies = Append(@, t), !.totalBytes = @ + Bytes[t]]

Collect ==
    /\ collector = "range"
    /\ results # <<>>
    /\ report' = Added(report, Head(results))
    /\ results' = Tail(results)
    /\ UNCHANGED <<tasksOpen, status, workerVars, resultsOpen, errs,
                   collector, mainVars>>

(* Mutated form of CollectorExit: reports still buffered are dropped. *)
CollectorExitEarly ==
    /\ collector = "range"
    /\ ~resultsOpen
    /\ collector' = "exited"
    /\ UNCHANGED <<tasksOpen, status, workerVars, results, resultsOpen, errs,
                   report, mainVars>>

CollectorExit ==
    /\ collector = "range"
    /\ results = <<>>
    /\ ~resultsOpen
    /\ collector' = "exited"
    /\ UNCHANGED <<tasksOpen, status, workerVars, results, resultsOpen, errs,
                   report, mainVars>>

-----------------------------------------------------------------------------
(* Run itself.                                                             *)

(* Mutated form of WorkersDone: wg.Add called once for all the workers. *)
WorkersDoneFirst == \E w \in Workers : wpc[w] = "exited"

(* wg.Wait() returns. *)
WorkersDone == \A w \in Workers : wpc[w] = "exited"

CloseResults ==
    /\ main = "wait"
    /\ WorkersDone
    /\ resultsOpen' = FALSE
    /\ main' = "collect"
    /\ UNCHANGED <<tasksOpen, status, workerVars, results, errs, collector,
                   report, ret>>

(* sort.Slice by Destination: some reordering that is sorted.  The sort is *)
(* not stable, so which one is not determined by the code.                 *)
Sortings(s) ==
    LET n == Len(s)
        Sorts(p) == \A i, j \in 1..n : i < j => s[p[i]] <= s[p[j]]
    IN  {[i \in 1..n |-> s[p[i]]] : p \in {q \in Bijection(1..n, 1..n) : Sorts(q)}}

(* Mutated form of FirstErr: the loop tests firstErr the wrong way round. *)
FirstErrLost == NoTask

(* The loop over the closed "errs" keeps the first error. *)
FirstErr == IF errs = <<>> THEN NoTask ELSE Head(errs)

(* close(errs), the loop that keeps the first error, Report.Finalize.  The *)
(* workers and the collector are gone, so nothing interleaves.             *)
Return ==
    /\ main = "collect"
    /\ collector = "exited"
    /\ errs' = <<>>
    /\ ret' = FirstErr
    /\ \E c \in Sortings(report.copies), d \in Sortings(report.deletes) :
          report' = [report EXCEPT !.copies = c, !.deletes = d,
                                   !.complete = TRUE]
    /\ main' = "returned"
    /\ UNCHANGED <<tasksOpen, status, workerVars, results, resultsOpen,
                   collector>>

-----------------------------------------------------------------------------
Worker(w) ==
    \/ Receive(w)
    \/ ExitLoop(w)
    \/ RunTask(w)
    \/ SendResult(w)
    \/ SendErr(w)

Collector == Collect \/ CollectorExit
Run       == CloseResults \/ Return

Next ==
    \/ \E t \in Tasks : Offer(t)
    \/ CloseTasks
    \/ \E w \in Workers : Worker(w)
    \/ Collector
    \/ Run

(* Goroutines are scheduled fairly, system calls end, and the producer     *)
(* closes the channel in the end (it does so in a defer).                  *)
Fairness ==
    /\ WF_vars(CloseTasks)
    /\ \A w \in Workers : WF_vars(Worker(w))
    /\ WF_vars(Collector)
    /\ WF_vars(Run)

Spec     == Init /\ [][Next]_vars
FairSpec == Spec /\ Fairness

-----------------------------------------------------------------------------
(* Properties.                                                             *)

Reports == [copies : Seq(Tasks), deletes : Seq(Tasks), totalBytes : Nat,
            complete : BOOLEAN]

(* Types, and the capacity of the two buffered channels that Run makes. *)
TypeOK ==
    /\ tasksOpen \in BOOLEAN
    /\ status \in [Tasks -> {"unsent", "offered", "running", "succeeded", "failed"}]
    /\ wpc \in [Workers -> {"range", "run", "sendResult", "sendErr", "exited"}]
    /\ held \in [Workers -> Tasks \cup {NoTask}]
    /\ results \in Seq(Tasks) /\ Len(results) <= PoolSize
    /\ errs \in Seq(Tasks) /\ Len(errs) <= PoolSize
    /\ resultsOpen \in BOOLEAN
    /\ collector \in {"range", "exited"}
    /\ report \in Reports
    /\ main \in {"wait", "collect", "returned"}
    /\ ret \in Tasks \cup {NoTask}

Increasing(s) == \A i, j \in DOMAIN s : i < j => s[i] < s[j]

(* The report Run returns lists each task that succeeded exactly once, in  *)
(* the order of the destinations, whatever order the workers finished in:  *)
(* no result is lost between the last worker's send, the close of          *)
(* "results" and Finalize.                                                 *)
ReportComplete ==
    main = "returned" =>
        /\ Range(report.copies) = {t \in Succeeded : Kind[t] # "delete"}
        /\ Range(report.deletes) = {t \in Succeeded : Kind[t] = "delete"}
        /\ Increasing(report.copies)
        /\ Increasing(report.deletes)

(* The byte total of the report is that of the copies it lists, for files  *)
(* copied one by one and in batches alike.                                 *)
BytesAccounted ==
    report.totalBytes = SumFunctionOnSet(Bytes, Range(report.copies))

(* No worker is about to send on "results" once Run has closed it, which   *)
(* would panic.                                                            *)
NoSendOnClosed ==
    \A w \in Workers : wpc[w] \in {"run", "sendResult"} => resultsOpen

(* A run with no more failed tasks than workers returns: "errs" has room   *)
(* for as many errors, and nothing else can hold Run up.                   *)
RunReturns == <>(main = "returned" \/ Cardinality(Failed) > PoolSize)

(* Run always returns, as its callers expect: docs/cli/sync.md gives the   *)
(* failure of file system operations an exit code.  It does not hold.      *)
RunAlwaysReturns == <>(main = "returned")

-----------------------------------------------------------------------------
(* The inductive invariant behind the safety properties.                   *)

(* The task w is busy with, and only that one, has the status that the     *)
(* position of w tells.                                                    *)
BusyWorkers ==
    \A w \in Workers :
        /\ held[w] = NoTask <=> wpc[w] \in {"range", "exited"}
        /\ wpc[w] = "run" => status[held[w]] = "running"
        /\ \A v \in Workers : held[w] = held[v] /\ held[w] # NoTask => w = v

Holds(pc, t) == \E w \in Workers : wpc[w] = pc /\ held[w] = t

Recorded == Range(report.copies) \cup Range(report.deletes)

(* A task that is running has a worker; the report of one that succeeded   *)
(* is in the hands of its worker, in "results" or in the report; the error *)
(* of one that failed is in the hands of its worker or in "errs" until Run *)
(* reads it.                                                               *)
OutcomesKept ==
    \A t \in Tasks :
        /\ status[t] = "running" => Holds("run", t)
        /\ status[t] = "succeeded" <=>
              \/ Holds("sendResult", t)
              \/ t \in Range(results)
              \/ t \in Recorded
        /\ main # "returned" =>
              (status[t] = "failed" <=> Holds("sendErr", t) \/ t \in Range(errs))

(* No report is anywhere twice. *)
ReportsOnce ==
    /\ \A s \in {results, report.copies, report.deletes} : IsInjective(s)
    /\ Range(results) \cap Recorded = {}
    /\ \A w \in Workers :
          wpc[w] = "sendResult" => held[w] \notin Range(results) \cup Recorded

(* Copies and deletes are told apart. *)
ReportSplit ==
    /\ \A t \in Range(report.copies) : Kind[t] # "delete"
    /\ \A t \in Range(report.deletes) : Kind[t] = "delete"

(* What has ended when Run has got to a point. *)
Phases ==
    /\ resultsOpen <=> main = "wait"
    /\ ~resultsOpen => WorkersDone
    /\ (\E w \in Workers : wpc[w] = "exited") => ~tasksOpen
    /\ ~tasksOpen => With("offered") = {}
    /\ collector = "exited" => ~resultsOpen /\ results = <<>>
    /\ main = "returned" => collector = "exited"
    /\ main # "returned" => ret = NoTask

(* What the last step of Run establishes. *)
AtReturn ==
    main = "returned" =>
        /\ Increasing(report.copies)
        /\ Increasing(report.deletes)

(* No outcome of a task is lost or seen twice on its way from the worker   *)
(* to the report or to the error that Run returns.                         *)
PoolInv == BusyWorkers /\ OutcomesKept /\ ReportsOnce /\ ReportSplit /\ Phases /\ AtReturn

-----------------------------------------------------------------------------
(* Run implements the contract its callers rely on. *)
Contract == INSTANCE PoolContract WITH
    open     <- tasksOpen,
    given    <- Tasks \ (With("unsent") \cup With("offered")),
    ok       <- Succeeded,
    bad      <- Failed,
    returned <- main = "returned",
    reported <- IF main = "returned"
                THEN Range(report.copies) \cup Range(report.deletes)
                ELSE {},
    err      <- ret

ImplementsContract == Contract!Spec
=============================================================================
