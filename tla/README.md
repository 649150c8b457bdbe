# A formal model of syncopa-core

syncopa-core compares two directory trees (`scan`) and makes them agree
(`sync`). This directory holds TLA+ models of it, the TLC runs that check them
on small instances, and TLAPS proofs about the worker pool, the commands, the
scanner, repeated runs, the throttle, reports, the configuration and the sample
generator, for all sizes of each. Paths below are relative to the root of the
repository.

## The system

| Component | State | Operations | Interacts by |
| --- | --- | --- | --- |
| Scanner (`internal/scanner`) | two snapshots, the place in its loops | `Scan`: snapshot, tune, plan copies, deletes, copies back | sends tasks on an unbuffered channel |
| Copy batcher (same file) | entries, tar archive and byte count of one batch | `Add`, `Flush`, `reset` | called by `Scan`; reads files long after the snapshot |
| Worker pool (`internal/worker/pool.go`) | goroutines, channels `results` and `errs`, the report | `Run` | ranges over the channel of tasks; calls the executor |
| Executor (`executor.go`, `zerocopy_linux.go`) | none of its own; the two trees | copy, copy a batch, delete | the file system |
| Report (`report.go`, `report_enterprise.go`) | copies, deletes, byte total | `add`, `Record`, `Finalize`, `Copies`, `Snapshot`, `ReportFromSnapshot` | filled by the collector of the pool, or by an orchestrator |
| Commands (`internal/cli`, `cmd/syncopa-core`) | the goroutine of the scan, its outcome, the exit code | `RunScan`, `RunSync`, `main` | starts scanner and pool, joins their outcomes |
| Configuration (`internal/config`) | servers, agents, pools | `Load`, `Validate`, tokens and mounts of an agent | read by orchestrators outside the repository |
| Messages (`internal/distrib`) | none | conversions of tasks and reports | the same |
| Sample generator (`cmd/sampletool`) | files made up, goroutines that write them | generate, fit to a size, write | the file system |

What is hard here:

* **goroutines and channels**: the pool joins its workers with a wait group, its
  collector with another, and closes channels in between; the scanner, the pool
  and `RunSync` wait for one another in a ring;
* **failures**: tasks fail one by one while others go on, the scan can fail after
  some tasks were sent, errors travel in a channel of bounded capacity;
* **no atomic writes**: a destination is truncated and written in place, so a
  kill or a failure leaves a part of a file that is newer than its source;
* **stale knowledge**: the plan is made from two snapshots, and sizes recorded in
  a snapshot go into archives that are written later;
* **no order**: maps are iterated in any order, workers finish in any order, so
  that deletes and copies of one run meet in the same directories;
* **forms of paths**: a trailing separator decides which directory is compared,
  and in mode mirror emptied;
* **shared arrays**: reports hold slices, which whoever has a copy of may write to.

## The modules

| Module | Models | State and actions |
| --- | --- | --- |
| `PoolContract` | what callers of `Pool.Run` rely on | tasks given, succeeded, failed; the answer |
| `Pool` | `Pool.Run`, `Report.add`, `Report.Finalize` | one program counter per worker, the two buffered channels as bounded sequences, the collector, `Run` itself; one action per channel operation |
| `SyncPlan` | `shouldCopy` and the sets of files the modes act on | functions of two snapshots |
| `Batcher` | `copyBatcher` | the batch, the tasks sent, the error; `Add` for off, large and small files, `Flush` |
| `Tuning` | `tuneBatchingOptions`, `percentileInt64` | operators on size lists and options |
| `ScanContract` | what the commands rely on of `Scan` | the operations planned, those handed over, how it ended |
| `Scan` | `Scan`, `enqueueMirrorDeletes`, `enqueueSyncTasks`, `snapshot` | extends `Batcher`, `SyncPlan` and `Tuning`; one action per turn of each loop |
| `SyncRun` | `main`, `RunScan`, `RunSync` | extends `Pool` with the scanner goroutine, the channel of its outcome, the command and the exit code |
| `Replica` | repeated runs over two sets of files: the plan of `SyncPlan`, batches, `copyFile`, `copyBatch`, `tryZeroCopy`, hashes | files as sequences of blocks with a time; workers copy block by block; failures, kills, lost writes and edits |
| `Paths` | `withPrefix`, `srcPathForKey`, the roots that `Scan` compares; of `path/filepath` what they use | functions of paths, which are their parts |
| `Trees` | repeated runs over directories in one file system: snapshots, `MkdirAll`, copies, `RemoveAll` | extends `Paths` and `SyncPlan`; one action per system call |
| `Reports` | `Report`, its snapshots, and `TaskReportMessage` | the arrays behind slices as a heap, where every result has one, most of them an empty one; one action per exported function, one for a caller that writes to an array it holds |
| `Throttle` | `copyWithBandwidth` in each worker | a clock; one action per read, sleep and write |
| `Config` | `parsePlainConfig`, `Validate`, `AgentAllowedTokens`, `ResolveNFSMounts` | the Config, the section, one action per line; the file read so far is kept as the reference |
| `SampleTool` | `main`, `chooseSize`, `uniqueFileName`, `executeTasksConcurrently`, `createFile` | the generation loop, then workers, the error flag and the files on disk, a file being the set of pieces it is put together from |
| `MC*` | | values of the constants for TLC, nothing else |
| `PoolProofs` | | theorems about `Pool` and `SyncRun` |
| `ScanProofs`, `ReplicaProofs`, `ThrottleProofs`, `ReportProofs`, `ConfigProofs`, `SampleProofs` | | theorems about `Scan`, `Replica`, `Throttle`, `Reports`, `Config`, `SampleTool` |
| `FoldTheorems` | | lemmas about sums over finite sets, folds, `FlattenSeq`, repeated steps, ranges, quotients and products, and the induction that they need |

`Pool` abstracts a task to its kind, its bytes and the rank of its destination,
and what the executor does to "succeeded" or "failed"; `Replica` has what the
executor does and abstracts the channels away: its workers take tasks from the
plan in order, which is what `Pool` shows them to do. `Trees` is `Replica` with
the other half of the detail: directories, paths and files in each other's way,
but copies in one write. `SyncRun` abstracts the scan to "sends some of the plan,
then ends, without an error only after all of it"; that is `ScanContract`, which
`Scan` implements (`ImplementsContract` of `Scan`, a refinement where a batch
counts as the copies it packs). `Scan` never waits for a receiver: it has no
state that a receiver could change.

Definitions called a *mutated form* are variants of the definition below them
with a plausible bug. No specification uses them; they show that the
properties notice the bug.

## The runs

Every constant named `Max...` and every small set is a bound for TLC only.

| Run | What it shows |
| --- | --- |
| `pool_two_workers` | two workers, four tasks: channels of capacity two overflow, workers and collector interleave, Run closes while reports are buffered |
| `scan_plans` | scenario *batched*: mode sync, all pairs of trees of three files, with limits of two files and two bytes, so that batches are cut by each limit and by large files; *races*: contents that differ from the snapshot in every way, links, bad roots; *mirror*: all pairs of trees over four nested paths, each a file, a directory or absent, where two directories of different depth compete for being longest; *tuned*: limits computed from lists of 3, 4 and 10 files (the ninth decile is the largest file up to nine) on both sides of every bound, in two orders |
| `sync_run` | three tasks, two workers, every kind of command line; task, scan and report failures |
| `replica_runs` | two files, two workers. *update*: zero-copy with falling back, two runs, an edit between them, a failed task; *mirror*: the plain copy, two runs, an edit, a kill anywhere; *batched*: batches of two files, a failed task, a lost write; *lossy*: writes lost on either path; *live*, *liveBatch*: two runs, an edit while one of them goes on; *sync*, *syncBatch*: one run among versions of one size |
| `tree_runs` | three workers; a place that is a file, an empty or a full directory or nothing on either side. Source `s`, `../w/s/` and `.`, destination missing or not, two runs of mirror from every pair of trees, three with a fault and a kill, and one run of update and sync |
| `reports` | two of five results (a file, two batches, a delete, an unknown action), through messages into the report and its snapshots, eight arrays, one write to one of them |
| `throttle` | two workers, two files each, of a size below and above the buffer; no limit, limits below, at and above the buffer, dividing the second or not |
| `config_files` | all files that begin with two servers and a pool and go on with up to four of nineteen lines, or end early |
| `sample_tool` | three files of four formats with about the sizes of the real ones, two target sizes, two goroutines, a limit that the third file may exceed; a file that is there before in a directory that Glob lists, another in one that it does not |

`Scan`, `Replica` and `Trees` take the mode, the options and the bounds from one of
several named scenarios, chosen by the initial state; one run covers them all.

Why the bounds are enough: two workers are the least that interleave and the
pool treats all workers alike, and four tasks are what the workers hold and a channel
buffers together, so that both channels are full and empty in every way; other numbers of workers, and a count of zero
or less, which means one worker, are left to the proofs (`Refinement`). Plans
compare neighbours, so three keys give every pattern of copied and skipped
files around a batch boundary. Two runs, one edit and one kill are one full
round of "interrupted, then repaired"; in `Replica` a file of two blocks has a
proper part. In `Trees` two levels below "a" let a directory go while a
file is copied into it, and three workers are a delete of a directory, a copy and a
delete below it at once. In `Reports` two results are the least whose arrays can be confused,
and one write shows any sharing. In `Throttle` two copies of one worker are
where rounding adds up; workers share nothing but the clock. In `config_files` four lines are enough to open a section, leave
it and come back to it, and files may end within their beginning, before a
server is complete.

Deadlock is not reported (`CHECK_DEADLOCK FALSE`) anywhere: every one of these
programs ends, and `Pool` also stops where it hangs, which `RunReturns` and
`CommandEnds` are about.

### Where code and documents disagree

These runs each refute one sentence of the documents; the traces are of the code
as it is.

| Run | The code | The document |
| --- | --- | --- |
| `pool_hangs` | more failed tasks than workers: Run never returns | sync.md:33, exit code 1 |
| `replica_sync_loses` | sync copies an older file of another size over a newer one | scan.md:19 |
| `trees_parent` | mirror with `--src ..` compares the parent of the destination and deletes files there, even those of the source (`RemovesAtDestination`, which is about deletions only) | man page, line 56 |

The models show the same of the following, which have no run of their own.

* A source that does not exist is an empty tree (`SnapshotOf` of `Scan`), and
  mode mirror then empties the destination; scan.md:55 lists missing directories
  under exit code 1.
* In mode sync copies get the time at which they were made, so that the next run
  copies them back (`OneWaySettles` is about the other modes for that reason);
  scan.md:75: "Identical trees produce zero tasks."
* A source edited while it is copied can leave a mixture that has its size and a
  later time, which no later run copies again (`NoFalseCopy` leaves out the
  scenarios *live*, and `CleanRunConverges` runs that find such a mixture);
  scan.md:17: "Copy new or modified files".
* `copyFile` ignores the error of closing the destination on the plain path
  (`ignored` in `Replica`): the run reports a success and a hash for a file whose
  last write was lost, with exit code 0; sync.md:33 has 1 for a failure of file system
  operations. `copyBatch` and the zero-copy path report it.
* `--bandwidth` is a limit for each worker (`RateKept`), and a copy that was held
  up by its source may catch up at once; sync.md:21: "Throttle copy throughput."
* Record adds to a report after `Finalize`, which "freezes the report"
  (report.go:88), and leaves the list unsorted (`Record` of `Reports`).
* Spreadsheets and presentations of the sample generator never grow to the size
  asked for: a line of filler takes about 120 or 90 bytes, its markup about 400 or
  120, so that the ten attempts swing between no filler and too much, and end
  with none (`SizesNearTarget`); main.go:54 calls them "target file sizes".
* `canAdd` flushes before a file that is alone over `BatchMaxBytes`, and then
  batches it (`BatchesBounded` makes that exception; `LimitsAgree` says that
  tuned limits never meet it).
* In mode mirror the deletes come after the copies, also the delete of a path
  that is in the way of a copy: the run then fails, but makes the way free, and
  the next one succeeds (`TwoRunsSuffice`).
* In mode sync a kill leaves a part of a file that is the newer one, which the
  next run copies over the whole.
* One failed task suppresses the report of the run (`PoolReturned` exits before
  `OutputReport`); invalid flags exit with 2 (`ParseFails`).
* `Validate` does not look at the servers that agents and pools name, so that
  `Ask` can be refused with a configuration that was loaded.
* Two generated files can have one path, as names are compared with the files
  on disk only (`Fresh`).
* `uniqueFileName` looks for a name with `filepath.Glob`, drops its error and does not
  escape `--dir`: where Glob does not list the directory, because it may not be read
  or its name has a `[`, every name is taken for a new one, and `os.Create` truncates
  a file that was there. `ListedFilesStay` is therefore about the directories that
  Glob lists (`Listed`), and says nothing of others.
* The zero-copy path reads the source again for its hash, which is wrong if the source
  was edited meanwhile or is itself the destination of another task; so is any hash
  if the copy is edited, or after a loss that `copyFile` ignored. `ReportsTrue`
  leaves these cases out.

## Fairness

Weak fairness of each goroutine (the Go scheduler runs every goroutine that can
run; system calls end), of the close of `tasks`, which a `defer` performs, and
of the scan going on to its end, since its loops are finite. No fairness is
assumed of failures. `Scan`, `Replica`, `Trees`, `Reports`, `Throttle` and
`Config` state safety only and need none.

## What is proved

The theorems hold for all values of the constants that the named assumptions
allow, and from nothing else. Each rests on an inductive invariant; the
property alone never is one. Every step of a specification has a lemma of its
own, which shows that the step keeps the invariant.

### The pool (`PoolProofs`)

For every `Requested`, every finite or infinite set of tasks, every assignment
of kinds and bytes, from `PoolAssumption`:

* `TypeCorrectness`, `PoolInvariance`: `TypeOK` and `PoolInv` are invariants;
* `NoPanic`: nothing is sent on `results` after it is closed;
* `ReportIsComplete`: the report that is returned lists exactly the tasks that
  succeeded, each once, sorted;
* `BytesAreAccounted`: its byte total is that of the copies it lists;
* `Refinement`: `Pool` implements `PoolContract`.

Completeness of the report speaks only of the end. `PoolInv` says where each
outcome is at any time. `OutcomesKept`: a success is with its worker, in
`results` or in the report, a failure with its worker or in `errs`.
`ReportsOnce`: in one place only. `BusyWorkers`: a worker holds a task of the
status that its position tells, and no two hold the same. `Phases`: what has
ended when Run has got to a point, so that at the return no worker holds and no
channel buffers a report; with this `OutcomesKept` is `ReportComplete`.
`AtReturn` keeps what the last step establishes.

### The commands (`PoolProofs`)

For the same constants and every plan:

* `SuccessIsEarned` (`SuccessMeansSynced`): exit code 0 means that the whole plan
  was sent, and by `sync` executed without a failure and reported;
* `NothingIsCutOff` (`NothingCutOff`): when the process exits the scanner, the
  workers and the collector have ended, whatever the exit code.

`SyncInv` has three parts. The pool inside keeps its own invariant (`PoolPart`,
by the lemmas about the pool; a listing leaves it unused). `ScannerPart`
ties the scanner, the open channel of tasks and the outcome to one another: the
outcome is good only with nothing left to send. `CommandPart` says what the
command has waited for to get where it is.

### The scanner (`ScanProofs`)

For all trees, modes, limits and changes of files that `ScanAssumption` admits
(finitely many paths; a path above a file or a directory is a directory; a
longer path never lies above a shorter one):

* `TypeCorrectness`, `ChildrenGoFirst` (`ChildrenFirst`);
* `ArchivesAreWhole` (`ArchivesWhole`) and `BatchesAreBounded` (`BatchesBounded`);
* `TunedLimitsAgree` (`LimitsAgree`) and `MostAreBatched`
  (`MostSmallFilesBatched`), for any number of files of any sizes;
* `KeepsContract` (`ImplementsContract`): `Scan` implements `ScanContract`;
* `PlanIsFollowed` (`FollowsPlan`): what was sent and what the batch holds are, in
  this order and file by file, a beginning of the plan: the copies in key order,
  then the copies back in theirs, or the deletes, each once.

The argument about batches is `Building`: of the members of a batch only the
last can be short, and what is over a limit is alone. `Effect` is what `Add` and
`Flush` do, in every one of their branches: they send complete batches only, and
what was held and what is new is afterwards sent or held; nothing else is, and
nothing is lost unless there is an error. `Coverage` carries this through the
five loops: what was sent, what is held and what is left of the loop and of
those after it (`PendingAt`) make up the plan. `LeavesFirst` strengthens
`ChildrenFirst` by what is still to be deleted: it is not below what was
deleted, because the longest path is taken. For the limits, `SmallIsSorted`
shows that `Small` lists each size once and in order (ranks are a bijection), so
that the ninth decile has nine tenths of the files below or at it; that a mean is no
larger than the largest value takes a sum. `PlanIsFollowed` needs more than
`Coverage`, which speaks of sets: `Ordered` says that what was sent and is held,
as one sequence and followed by what is left of the loops, is the whole plan of
copies; every branch of `Add` and `Flush` only moves the place where the two parts
meet. While there are deletes all copies were emitted, and no delete that is left
was.

### Repeated runs (`ReplicaProofs`)

For all files, versions, numbers of workers and scenarios of `ReplicaAssumption`,
which bounds none of the numbers of runs, edits, kills and failures:

* `NoFalseCopies` (`NoFalseCopy`): from trees without a false copy no run, kill,
  failure or lost write ever makes one, and none exists in the middle of a copy;
* `CleanRunsConverge` (`CleanRunConverges`) and `CleanRunsSettle`
  (`OneWaySettles`): after a clean run in mode update or mirror the trees are
  alike, and the next scan has nothing to do;
* `NewestIsSpread` (`NewestWins`): after a clean run in mode sync each file is on
  both sides what the newer version of it was, if the run found every file `Clear`;
* `HashesAreTrue` (`ReportsTrue`): a reported hash is that of what the copy left;
* `HonestTreesConverge`: the first two together, with no condition on what the
  run finds.

The first part shows of the plan that every copy and deletion the scan decides on
is in exactly one task, also when copies are cut into batches. `IInv` then accounts for each job while workers take tasks: `Once`
(a job is in one place only), `Kept` (a file that is neither edited nor in the
plan is as it was found), `Progress` (what a worker has copied is a beginning of
its source), `Truthful` (the hashes) and `Accounted` (in a run that has lost nothing
so far, a job waits or is settled, on either side, unless its source is
overwritten by another job). A file is `Clear` if it has to be copied in at most
one direction, and if versions of one time and size are the same: what is left out
is what `replica_sync_loses` shows, a newer version of another size, which is
copied in both directions, and what no scan can see. `NoFalseCopies` needs a second invariant,
`Honest`, on top of it, since it is about runs that fail as well: there is no
false copy in the trees as they are, nor in those that the run found. What a
worker has written is a beginning of the source, which has the size of the
source only if it is all of it; and while a user edits no run is under way.

### The throttle (`ThrottleProofs`)

For all limits, sizes, buffers and units of time of `ThrottleAssumption`, and
any number of workers:

* `RateIsKept` (`RateKept`): each worker stays below the limit, but for less than
  one unit of time for each copy;
* `SleepsAreShort` (`SleepsShort`): no sleep is longer than a second.

`InCopy` bounds the bytes of the copy under way by its own time, and those of the
copies before it by the time until it started; `ChunkDue` says of a chunk that
is in the buffer that it fits when the sleep is over.

### The configuration (`ConfigProofs`)

For files of any length over any set of lines, from `ConfigAssumption`:

* `LinesAreKept` (`LinesKept`): no line is lost or ends up under another name;
* `LoadedFilesAreSound` (`LoadedIsSound`): what is loaded is complete and not blank;
* `TokensAreExact` (`TokensExact`): an agent gets its own token and those of its
  pools, and no other;
* `MountsAreExact` (`MountsExact`): it mounts every server that it or one of its pools
  names, each once, its own before the others, in whatever order pools come.

The invariant is `Read`: the section is that of the last header, and each table
`Agrees` with what the file read so far says of it. A line either leaves a table
alone, opens a section of it or enters a value (`TableKept`, `TableOpened`,
`TableEntered`); on the other side, one more line changes what the file says of
one key of one name at most (`ValuesGrow`, `DeclaredGrow`). A section that
is opened anew must have no entries yet, which holds because every entry has a
header (`EntriesDeclared`). The mounts are folds over lists: one more element
(`AddServer`) adds itself unless it is blank or there already, and what was there
stays a beginning. `Trim` and `Texts` stay as abstract as in `Config`.

### Reports (`ReportProofs`)

For all outcomes, any numbers of results and arrays, from `ReportsAssumption`:

* `WritesAreDetached` (`Detached`): whoever writes to an array of entries that it was
  given changes what one object shows, and never what the report shows;
* `CountsAsMeasured` (`AsMeasured`): a report and a snapshot count exactly the
  outcomes recorded, each as often as it was measured and but for the fraction of
  a millisecond, with the bytes and files they add up to.

`Owned` says that each array has one owner and one place there, where the two lists
of a report and of a snapshot are owners of their own; each step gives owners either
what they had or arrays that are new. `Lists` relates a report to the outcomes
counted by it: its results and the places of the outcomes are in bijection
(`Matches`), which sorting, cloning and one more result keep, and which makes equal
tallies and equal sums. The entries may be overwritten by who received a message,
but `Whole` says that their number stays that which was measured, and it is all
that the count of files takes from them.

### The sample generator (`SampleProofs`)

For all formats, target sizes and numbers of goroutines of `SampleAssumption`:

* `LimitIsKept` (`LimitKept`): the new files never take more than `--max-bytes`;
* `ListedFilesAreKept` (`ListedFilesStay`): a file that was there before, in a directory
  that Glob lists, is as it was, whatever is written elsewhere;
* `ExitCodesAreRight` (`ExitCodeRight`): exit code 0 means that every file is there,
  whole, and exit code 1 comes with the task whose error is kept.

`Generates` bounds the sum of the sizes chosen, and `Files` says that a file made up
consists of pieces written by tasks for it, and that every other file is as it was before; so each file is as long as one of these
tasks is large, no two files take the same task, and the lengths on disk add up to no
more than the sizes. `Executes` follows each task that was received: as long as
nothing failed it is with a worker, created or complete. `Ends` ties the exit code to
the error that was kept when all workers are gone.

### Induction, and what is only model-checked

The induction theorems of the library take a predicate, which the provers cannot
instantiate. `FoldTheorems` states induction over numbers and finite sets with
sets in place of predicates (`NatClosure`, `SubsetClosure`), derived from the
well-foundedness of the order, and from that what sums, folds and `FlattenSeq`
need: that the order in which the community modules add up does not matter, and
what one more element changes.

Only model-checked:

* liveness: `RunReturns`, `CommandEnds`, `ToolEnds`, and the fair form of the pool;
* `Trees`: its properties do not hold of every pair of paths (`trees_parent`
  refutes one for `..`); the run checks them for the paths of its scenarios, where
  neither tree lies in the other, and no theorem states the condition in general;
* `SizesNearTarget` of `SampleTool`, which holds for targets of up to some
  megabytes only, as ten attempts do not suffice beyond.

## What is not modelled

* PDF and CSV export, summaries, usage texts: formatting.
* `TaskToMessage`, `ToTask`: they copy fields; the batch is shared between task
  and message, and nothing in the repository writes to it.
* JSON decoding: `encoding/json`.
* The server and the agents that use `internal/distrib`, `Report.Record` and the
  configuration: they are outside the repository. `Reports` lets a caller call
  in any order, and does not say whether a result comes twice.
* Permissions, and the error numbers of `sendfile` beyond "not supported", "cut
  short" and "failed".
* What is between batches and directories: `Replica` has batches and no
  directories, `Trees` directories and no batches.
* Links are copied as what they point to; `Scan` has them, the trees of
  `Replica` and `Trees` do not.
* The numbers of digits in the sizes of generated documents.

## Plan

Written in this order: `Pool` with its contract and proofs, `Batcher`, `Tuning`
and `Scan`, `SyncRun`, `Replica`, `Config`, `SampleTool`, then `ScanContract`,
`Paths` and `Trees`, `Reports`, `Throttle`. The proofs were
written in the order `Pool`, `SyncRun`, `Throttle`, `Replica`, `Scan`, `Config`,
then `FollowsPlan`, `NewestWins` and `MountsExact`, `SampleTool`, `Reports`.
What remains is `Trees`: a condition on two paths under which `OnlyImageChanges`
holds of all of them, with lemmas about `Clean` and `Join` to prove it from, and
after that `TreesConverge`, by what `Kept` and `Accounted` are in `Replica`.
