---------------------------- MODULE SampleTool ----------------------------
(***************************************************************************)
(* cmd/sampletool/main.go: the generator of sample trees.  main makes up   *)
(* the files one by one, in memory, until a limit is reached;              *)
(* executeTasksConcurrently then has a pool of goroutines write them.      *)
(*                                                                         *)
(* Unlike worker.Pool it keeps its first error in a variable, and its      *)
(* workers go on receiving after an error, so that the sender never        *)
(* blocks.  A file on disk is a set of pieces, each with the task that     *)
(* wrote it and the offset where it ends, and the next piece begins.       *)
(***************************************************************************)
EXTENDS Integers, Sequences, FiniteSetsExt, Functions

CONSTANTS
    Count,     (* --count                                                  *)
    Sizes,     (* --sizes                                                  *)
    MaxBytes,  (* --max-bytes, 0: no limit                                 *)
    Formats,   (* by extension: the size of a document without filler, how
                  much filler goes into a line, and what a line adds to it;
                  line 0: a text, which is cut to size                     *)
    Names,     (* the names that uniqueFileName may draw                   *)
    OnDisk,    (* the files that are there before                          *)
    Listed,    (* the names in directories that filepath.Glob lists        *)
    CPUs       (* runtime.NumCPU()                                         *)

ASSUME SampleAssumption ==
    /\ Count \in Nat \ {0} /\ CPUs \in Nat \ {0}
    /\ Sizes \subseteq Nat \ {0} /\ Sizes # {}
    /\ MaxBytes \in Nat
    /\ \A x \in DOMAIN Formats : /\ Formats[x].base \in Nat \ {0}
                                 /\ Formats[x].line \in Nat /\ Formats[x].adds \in Nat
    /\ OnDisk \subseteq Names \X DOMAIN Formats
    /\ Listed \subseteq Names

Exts  == DOMAIN Formats
Paths == Names \X Exts

(* A file that is there has a piece, if only one without bytes. *)
NoFile    == {}
EmptyFile == {[by |-> 0, upto |-> 0]}
OldFile   == {[by |-> 0, upto |-> 1]}

Before(p) == IF p \in OnDisk THEN OldFile ELSE NoFile

VARIABLES
    tasks,    (* the files made up                                         *)
    total,    (* their bytes                                               *)
    phase,    (* "generate", "execute", "done"                             *)
    sent,     (* how many tasks were received from taskCh                  *)
    wpc,      (* wpc[w]: what worker w does next                           *)
    held,     (* held[w]: the index of the task it is busy with            *)
    hasErr,   (* the atomic flag                                           *)
    execErr,  (* the index of the task whose error is kept, 0: none        *)
    disk,     (* disk[p]: the pieces of the file at p, or NoFile           *)
    exit      (* the exit code, "none" before the end                      *)

genVars  == <<tasks, total>>
execVars == <<sent, wpc, held, hasErr, execErr>>
vars     == <<genVars, phase, execVars, disk, exit>>

WorkerCount == IF CPUs > Len(tasks) THEN Len(tasks) ELSE CPUs
Workers     == 1..WorkerCount

Init ==
    /\ tasks = <<>> /\ total = 0
    /\ phase = "generate"
    /\ sent = 0
    /\ wpc = <<>> /\ held = <<>>
    /\ hasErr = FALSE /\ execErr = 0
    /\ disk = [p \in Paths |-> Before(p)]
    /\ exit = "none"

-----------------------------------------------------------------------------
(* main: one turn of the loop. *)

(* chooseSize; with no limit, any size. *)
Candidates ==
    LET remaining == IF MaxBytes > 0 THEN MaxBytes - total ELSE 0
    IN  IF remaining <= 0 THEN Sizes ELSE {s \in Sizes : s <= remaining}

Full == MaxBytes > 0 /\ MaxBytes - total <= 0

(* Mutated form of Fresh: files of one format only are looked for. *)
FreshInOne(name) == name \in Listed => \E x \in Exts : disk[<<name, x>>] = NoFile

(* uniqueFileName: Glob has no match for the name, whatever the extension. *)
(* It has none either where it does not list the directory: one that may   *)
(* not be read, or whose path has characters that Glob takes for a pattern *)
(* (--dir is not escaped, and the error of a bad pattern is dropped).      *)
Fresh(name) == name \in Listed => \A x \in Exts : disk[<<name, x>>] = NoFile

(* A document with filler, which chunkString cuts into lines; that the     *)
(* numbers in it have more digits when they are larger is left out.        *)
DocumentSize(x, filler) ==
    LET f == Formats[x]
    IN  f.base + filler + f.adds * ((filler + f.line - 1) \div f.line)

(* Mutated form of Adjust: filler is added, and never taken away. *)
AdjustUp(x, target, filler) ==
    LET size == DocumentSize(x, filler)
    IN  IF size < target THEN filler + target - size ELSE filler

(* One of the attempts of build{PDF,Docx,XLSX,PPTX}Content: the filler is  *)
(* changed by what the size is off.                                        *)
Adjust(x, target, filler) ==
    LET size == DocumentSize(x, filler)
    IN  IF size > target
        THEN IF size - target >= filler THEN 0 ELSE filler - (size - target)
        ELSE filler + target - size

(* fillContent makes a text of the size; the filler of a document is       *)
(* adjusted ten times.                                                     *)
ContentSize(x, target) ==
    LET filler[n \in 0..10] == IF n = 0 THEN 0 ELSE Adjust(x, target, filler[n - 1])
    IN  IF Formats[x].line = 0 THEN target ELSE DocumentSize(x, filler[10])

(* Mutated form of Fits: the limit is not looked at again. *)
FitsAlways(size) == TRUE

(* Of the contents, which may be larger than the size that was chosen. *)
Fits(size) == MaxBytes > 0 => total + size <= MaxBytes

(* The loop is left early, or after Count files. *)
StartExecution ==
    /\ UNCHANGED <<genVars, disk, sent, hasErr, execErr>>
    /\ IF tasks = <<>>
       THEN phase' = "done" /\ exit' = "0" /\ UNCHANGED <<wpc, held>>
       ELSE /\ phase' = "execute"
            /\ wpc' = [w \in Workers |-> "range"]
            /\ held' = [w \in Workers |-> 0]
            /\ UNCHANGED exit

Generate ==
    /\ phase = "generate"
    /\ \/ /\ Len(tasks) = Count \/ Full \/ Candidates = {}
          /\ StartExecution
       \/ /\ Len(tasks) < Count /\ ~Full
          /\ \E target \in Candidates, name \in {n \in Names : Fresh(n)}, x \in Exts :
                LET size == ContentSize(x, target)
                IN  IF Fits(size)
                    THEN /\ tasks' = Append(tasks, [path |-> <<name, x>>, size |-> size, target |-> target])
                         /\ total' = total + size
                         /\ UNCHANGED <<phase, execVars, disk, exit>>
                    ELSE StartExecution

-----------------------------------------------------------------------------
(* The workers of executeTasksConcurrently. *)

Goto(w, pc, i) == wpc' = [wpc EXCEPT ![w] = pc] /\ held' = [held EXCEPT ![w] = i]

At(w, pc) == phase = "execute" /\ w \in Workers /\ wpc[w] = pc

(* The sender offers the tasks in order; then it closes the channel. *)
Receive(w) ==
    /\ At(w, "range")
    /\ sent < Len(tasks)
    /\ sent' = sent + 1
    /\ Goto(w, "check", sent + 1)
    /\ UNCHANGED <<genVars, phase, hasErr, execErr, disk, exit>>

ExitLoop(w) ==
    /\ At(w, "range")
    /\ sent = Len(tasks)
    /\ Goto(w, "exited", 0)
    /\ UNCHANGED <<genVars, phase, sent, hasErr, execErr, disk, exit>>

(* After an error tasks are received but not carried out. *)
Check(w) ==
    /\ At(w, "check")
    /\ IF hasErr THEN Goto(w, "range", 0) ELSE Goto(w, "create", held[w])
    /\ UNCHANGED <<genVars, phase, sent, hasErr, execErr, disk, exit>>

Path(w) == tasks[held[w]].path

Create(w) ==
    /\ At(w, "create")
    /\ disk' = [disk EXCEPT ![Path(w)] = EmptyFile]
    /\ Goto(w, "write", held[w])
    /\ UNCHANGED <<genVars, phase, sent, hasErr, execErr, exit>>

(* Write replaces the beginning of what is there: it has an offset of its  *)
(* own, and another task for the path may have written more.               *)
Written(old, i, n) == {[by |-> i, upto |-> n]} \cup {piece \in old : piece.upto > n}

Write(w) ==
    /\ At(w, "write")
    /\ disk' = [disk EXCEPT ![Path(w)] = Written(@, held[w], tasks[held[w]].size)]
    /\ Goto(w, "times", held[w])
    /\ UNCHANGED <<genVars, phase, sent, hasErr, execErr, exit>>

SetTimes(w) ==
    /\ At(w, "times")
    /\ Goto(w, "range", 0)
    /\ UNCHANGED <<genVars, phase, sent, hasErr, execErr, disk, exit>>

(* A step fails: first the flag, then once.Do. *)
StepFails(w) ==
    /\ \E pc \in {"create", "write", "times"} : At(w, pc)
    /\ hasErr' = TRUE
    /\ Goto(w, "once", held[w])
    /\ UNCHANGED <<genVars, phase, sent, execErr, disk, exit>>

(* Mutated form of KeepError: the worker returns, in code where wg.Done is *)
(* called at the end of the goroutine and not by a defer.                  *)
KeepErrorAndReturn(w) ==
    /\ At(w, "once")
    /\ execErr' = IF execErr = 0 THEN held[w] ELSE execErr
    /\ Goto(w, "gone", 0)
    /\ UNCHANGED <<genVars, phase, sent, hasErr, disk, exit>>

KeepError(w) ==
    /\ At(w, "once")
    /\ execErr' = IF execErr = 0 THEN held[w] ELSE execErr
    /\ Goto(w, "range", 0)
    /\ UNCHANGED <<genVars, phase, sent, hasErr, disk, exit>>

(* Mutated form of AllExited: the group counts one worker too few. *)
AllButOneExited == Cardinality({w \in Workers : wpc[w] # "exited"}) <= 1

AllExited == \A w \in Workers : wpc[w] = "exited"

(* wg.Wait returns; main ends. *)
Finish ==
    /\ phase = "execute"
    /\ AllExited
    /\ phase' = "done"
    /\ exit' = IF execErr # 0 \/ hasErr THEN "1" ELSE "0"
    /\ UNCHANGED <<genVars, execVars, disk>>

Worker(w) ==
    \/ Receive(w) \/ ExitLoop(w) \/ Check(w)
    \/ Create(w) \/ Write(w) \/ SetTimes(w) \/ StepFails(w) \/ KeepError(w)

Next ==
    \/ Generate
    \/ \E w \in 1..CPUs : Worker(w)
    \/ Finish

(* The loop of main ends; goroutines are scheduled fairly. *)
Fairness ==
    /\ WF_vars(Generate)
    /\ \A w \in 1..CPUs : WF_vars(Worker(w))
    /\ WF_vars(Finish)

Spec     == Init /\ [][Next]_vars
FairSpec == Spec /\ Fairness

-----------------------------------------------------------------------------
(* Properties.                                                             *)

Generated == {tasks[i].path : i \in DOMAIN tasks}

(* How long a file is by what the tool wrote: a file that was there before *)
(* and is not yet replaced does not count.                                 *)
Length(file) == Max({0} \cup {piece.upto : piece \in {q \in file : q.by # 0}})

(* The tool never writes more than --max-bytes, neither in the making nor  *)
(* afterwards, although formats add to the sizes that were chosen and      *)
(* files may be written over one another.                                  *)
LimitKept ==
    MaxBytes > 0 =>
        /\ total <= MaxBytes
        /\ SumFunction([p \in Generated |-> Length(disk[p])]) <= MaxBytes

(* A file that was there before is replaced only where its directory was   *)
(* not listed: names are drawn long before the files are written, and for  *)
(* all formats at once.                                                    *)
ListedFilesStay ==
    \A p \in OnDisk : p[1] \in Listed => disk[p] = OldFile /\ p \notin Generated

(* A text has its target size.  A document that its target leaves room for *)
(* is off by one line's markup at most, where markup is less than the      *)
(* text of a line: for targets of up to some megabytes, which the ten      *)
(* attempts suffice for.  Else they go back and forth, and end with a      *)
(* document without filler, whatever its target.                           *)
SizesNearTarget ==
    \A i \in DOMAIN tasks :
        LET t == tasks[i]
            f == Formats[t.path[2]]
        IN  CASE f.line = 0 -> t.size = t.target
              [] f.line > 0 /\ (t.target <= f.base \/ f.adds >= f.line) -> t.size = f.base
              [] OTHER -> t.size \in (t.target - f.adds)..(t.target + f.adds)

(* The tool ends with 0 only when every file it made up was written, whole *)
(* by one of the tasks for it unless two tasks share its path; and an      *)
(* error is never reported without the task that failed.                   *)
ExitCodeRight ==
    /\ exit = "0" => \A i \in DOMAIN tasks :
          /\ disk[tasks[i].path] # NoFile
          /\ (\A j \in DOMAIN tasks \ {i} : tasks[j].path # tasks[i].path) =>
                 disk[tasks[i].path] = {[by |-> i, upto |-> tasks[i].size]}
    /\ exit = "1" => execErr \in DOMAIN tasks

(* The tool always ends, whatever fails: every worker gets to the end of   *)
(* the channel, after errors too, and the sender can close it.             *)
ToolEnds == <>(phase = "done")
===========================================================================
