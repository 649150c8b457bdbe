------------------------------ MODULE SyncRun ------------------------------
(***************************************************************************)
(* The commands: main (cmd/syncopa-core/main.go), RunScan and RunSync      *)
(* (internal/cli/scansync.go).  Both start the scanner in a goroutine that *)
(* sends tasks on an unbuffered channel, and ask it in the end how it      *)
(* fared.  In between RunScan prints the tasks; RunSync runs the pool on   *)
(* the channel and prints a summary.  The pool is that of module Pool, and *)
(* the scanner does what ScanContract allows and Scan is checked to do:    *)
(* Tasks is its complete plan, which a failing scan sends only a part of.  *)
(***************************************************************************)
EXTENDS Pool

CONSTANT
    WithReports  (* the build can write report files, which may fail       *)

VARIABLES
    args,       (* what the command line is like                           *)
    scanner,    (* where the scanner goroutine is                          *)
    scanErr,    (* the channel of the scanner's outcome, of capacity 1     *)
    command,    (* where the command is                                    *)
    printed,    (* the summary has been printed                            *)
    exit        (* the exit code of the process, "none" while it runs      *)

cliVars  == <<args, scanner, scanErr, command, printed, exit>>
poolVars == vars
syncVars == <<poolVars, cliVars>>

ArgsKinds == {"none", "unknown", "usage", "badFlag", "help", "noPaths", "badMode", "scan", "sync"}

SyncInit ==
    /\ Init
    /\ args \in ArgsKinds
    /\ scanner = "unstarted"
    /\ scanErr = <<>>
    /\ command = "start"
    /\ printed = FALSE
    /\ exit = "none"

Exit(code) == exit' = code /\ command' = "ended"

-----------------------------------------------------------------------------
(* main and the beginning of the commands, which is the same in both:      *)
(* nothing is started unless the arguments are good.                       *)

Runs == {"scan", "sync"}

(* The flag package, told ExitOnError, ends the process itself, with 2. *)
ParseFails == args = "badFlag" /\ Exit("2")

Refuse == args \in {"none", "unknown", "noPaths", "badMode"} /\ Exit("1")

ShowHelp == args \in {"usage", "help"} /\ Exit("0")

StartScan ==
    /\ args \in Runs
    /\ scanner' = "scanning"
    /\ command' = IF args = "scan" THEN "list" ELSE "pool"
    /\ UNCHANGED exit

Start ==
    /\ command = "start"
    /\ \/ (ParseFails \/ Refuse \/ ShowHelp) /\ UNCHANGED scanner
       \/ StartScan
    /\ UNCHANGED <<poolVars, args, scanErr, printed>>

-----------------------------------------------------------------------------
(* The scanner goroutine. *)

ScanSend ==
    /\ scanner = "scanning"
    /\ \E t \in Tasks : Offer(t)
    /\ UNCHANGED cliVars

(* Mutated form of ScanRoom: a channel without a buffer. *)
ScanRoomNone == command = "scanResult"

(* Room for the outcome in the channel. *)
ScanRoom == Len(scanErr) < 1

(* Scan returns: after the whole plan, or with an error at any time.  What *)
(* it returns goes to the channel before the deferred close.               *)
ScanEnd ==
    /\ scanner = "scanning"
    /\ With("offered") = {}
    /\ ScanRoom
    /\ \E outcome \in {"ok", "failed"} :
          /\ outcome = "ok" => With("unsent") = {}
          /\ scanErr' = Append(scanErr, outcome)
    /\ scanner' = "close"
    /\ UNCHANGED <<poolVars, args, command, printed, exit>>

(* defer close(tasks) *)
ScanClose ==
    /\ scanner = "close"
    /\ CloseTasks
    /\ scanner' = "done"
    /\ UNCHANGED <<args, scanErr, command, printed, exit>>

-----------------------------------------------------------------------------
(* RunScan: a task is received and printed, which is all that becomes of   *)
(* it and counts as success; after the close of the channel the outcome of *)
(* the scan is asked for.                                                  *)
List ==
    /\ command = "list"
    /\ \E t \in With("offered") : status' = [status EXCEPT ![t] = "succeeded"]
    /\ UNCHANGED <<tasksOpen, workerVars, results, resultsOpen, errs, collector,
                   report, mainVars, cliVars>>

ListEnd ==
    /\ command = "list"
    /\ ~tasksOpen
    /\ command' = "scanResult"
    /\ UNCHANGED <<poolVars, args, scanner, scanErr, printed, exit>>

-----------------------------------------------------------------------------
(* RunSync: pool.Run and what comes after it. *)

PoolStep(A) == args = "sync" /\ command # "start" /\ A /\ UNCHANGED cliVars

(* Mutated form of PoolReturned: the error of pool.Run is not looked at. *)
PoolReturnedBlind ==
    /\ command = "pool" /\ main = "returned"
    /\ command' = "report"
    /\ UNCHANGED <<poolVars, args, scanner, scanErr, printed, exit>>

(* An error of the pool ends the command before the report and before the  *)
(* outcome of the scan is asked for.                                       *)
PoolReturned ==
    /\ command = "pool" /\ main = "returned"
    /\ IF ret # NoTask
       THEN Exit("1")
       ELSE command' = "report" /\ UNCHANGED exit
    /\ UNCHANGED <<poolVars, args, scanner, scanErr, printed>>

(* handleSyncReportOutput: the summary; with report files, these may fail. *)
OutputReport ==
    /\ command = "report"
    /\ printed' = TRUE
    /\ \/ command' = "scanResult" /\ UNCHANGED exit
       \/ WithReports /\ Exit("1")
    /\ UNCHANGED <<poolVars, args, scanner, scanErr>>

ScanResult ==
    /\ command = "scanResult"
    /\ scanErr # <<>>
    /\ Exit(IF Head(scanErr) = "ok" THEN "0" ELSE "1")
    /\ scanErr' = Tail(scanErr)
    /\ UNCHANGED <<poolVars, args, scanner, printed>>

Command == Start \/ List \/ ListEnd \/ PoolReturned \/ OutputReport \/ ScanResult

SyncNext ==
    /\ exit = "none"
    /\ \/ ScanSend \/ ScanEnd \/ ScanClose
       \/ \E w \in Workers : PoolStep(Worker(w))
       \/ PoolStep(Collector)
       \/ PoolStep(Run)
       \/ Command

(* Goroutines are scheduled fairly, and system calls end. *)
SyncFairness ==
    /\ WF_syncVars(exit = "none" /\ (ScanSend \/ ScanEnd))
    /\ WF_syncVars(exit = "none" /\ ScanClose)
    /\ \A w \in Workers : WF_syncVars(exit = "none" /\ PoolStep(Worker(w)))
    /\ WF_syncVars(exit = "none" /\ PoolStep(Collector))
    /\ WF_syncVars(exit = "none" /\ PoolStep(Run))
    /\ WF_syncVars(exit = "none" /\ Command)

SyncSpec     == SyncInit /\ [][SyncNext]_syncVars
SyncFairSpec == SyncSpec /\ SyncFairness

-----------------------------------------------------------------------------
(* Properties.                                                             *)

(* A command that exits with 0 has sent the whole plan through the         *)
(* channel: scan has printed every task of it, sync has executed every one *)
(* without a failure and printed its summary.  Neither a failed task nor a *)
(* failed scan is reported as success, whichever of the two comes first.   *)
SuccessMeansSynced ==
    exit = "0" /\ args \in Runs =>
        /\ Succeeded = Tasks
        /\ args = "sync" => printed /\ ret = NoTask

(* No goroutine of the run is still at work when the process exits: every  *)
(* task sent has been dealt with, none is cut off in the middle.           *)
NothingCutOff ==
    exit # "none" /\ args \in Runs =>
        /\ scanner = "done"
        /\ With("offered") \cup With("running") = {}
        /\ args = "sync" => WorkersDone /\ collector = "exited"

(* A command ends whatever the scanner does, unless more tasks fail than   *)
(* there are workers: the scanner never waits for the command, which waits *)
(* for the pool or the channel, which wait for the scanner.                *)
CommandEnds == <>(exit # "none" \/ Cardinality(Failed) > PoolSize)
=============================================================================
