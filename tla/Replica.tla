------------------------------ MODULE Replica ------------------------------
(***************************************************************************)
(* Sync runs over two real trees: scanner.Scan snapshots them and plans,   *)
(* reading the contents of small files into batches; the workers of the    *)
(* pool carry the plan out (copyFile, copyBatch, tryZeroCopy and           *)
(* os.RemoveAll of internal/worker), files being written block by block    *)
(* and not atomically, and report a hash of what they copied.  A task may  *)
(* fail, what was written may turn out at the end to be lost, the process  *)
(* may be killed, the user edits files and runs the command again.         *)
(*                                                                         *)
(* The contents of a file is the sequence of its blocks, each known by the *)
(* version it belongs to; version v is written by the user as SizeOf[v]    *)
(* blocks.  The hash of some contents is the contents.  The modification   *)
(* time of a file is that of its last write by anyone: copies do not carry *)
(* over the time of their source.  Files are all in one directory (for     *)
(* others see Trees), when a batch is full is left to module Batcher, and  *)
(* the way results travel to module Pool.                                  *)
(***************************************************************************)
EXTENDS SyncPlan, Sequences, FiniteSets, SequencesExt

CONSTANTS
    Keys, Versions, SizeOf, Workers,
    Scenarios, (* by name: the mode; how many files make a batch, 0 if     *)
               (* batching is off; whether the zero-copy path is tried     *)
               (* first (on Linux, with no bandwidth limit) and whether    *)
               (* the kernel may refuse it: "no", "yes", "mayFail"; the    *)
               (* trees at first; the edits the user may make, as sides    *)
               (* and versions; whether the user does not wait for a run   *)
               (* to end; and bounds for TLC on runs, edits, failures,     *)
               (* kills, lost writes                                       *)
    Absent,    (* no such file                                             *)
    NoOp       (* no task                                                  *)

Sides == {"src", "dst"}
Files == [blocks : Seq(Versions), mtime : Nat]

(* Trees with no file that was written later than at time t. *)
IsTrees(tree, t) ==
    /\ tree \in [Sides -> [Keys -> Files \cup {Absent}]]
    /\ \A side \in Sides, k \in Keys : tree[side][k] # Absent => tree[side][k].mtime <= t

ASSUME ReplicaAssumption ==
    /\ Absent \notin Files
    /\ Keys \subseteq Nat /\ IsFiniteSet(Keys)
    /\ SizeOf \in [Versions -> Nat]
    /\ \A n \in DOMAIN Scenarios :
          LET c == Scenarios[n]
          IN  /\ c.mode \in {"update", "mirror", "sync"}
              /\ c.zeroCopy \in {"no", "yes", "mayFail"} /\ c.duringRun \in BOOLEAN
              /\ c.edits \subseteq {"src", "dst"} \X Versions
              /\ {c.batch, c.maxRuns, c.maxEdits, c.maxFailures, c.maxKills, c.maxLost}
                    \subseteq Nat
              /\ \A tree \in c.trees : IsTrees(tree, 10)

Other(side) == IF side = "src" THEN "dst" ELSE "src"

VARIABLES
    scenario,  (* which of the scenarios this is                           *)
    fs,        (* fs[side][k]: the file at key k, or Absent                *)
    now,       (* the time, which every write advances                     *)
    plan,      (* the tasks not yet received by a worker, in order         *)
    wk,        (* wk[w]: what worker w does                                *)
    running,   (* a run is under way                                       *)
    failures,  (* the tasks of the run that failed, and its scan           *)
    outcome,   (* how the last run ended                                   *)
    snap,      (* the trees as the run found them                          *)
    reported,  (* the copies reported in the run, with their hashes        *)
    ignored,   (* in the run an error of Close was ignored                 *)
    edited,    (* the user has edited since the run started                *)
    counts     (* the runs, edits, kills and lost writes so far            *)

runVars == <<running, failures, outcome, snap, reported, ignored>>
vars    == <<scenario, fs, now, plan, wk, runVars, edited, counts>>

This == Scenarios[scenario]
Mode == This.mode

File(v, t) == [blocks |-> [i \in 1..SizeOf[v] |-> v], mtime |-> t]

Idle == [pc |-> "idle", op |-> NoOp, entry |-> 0, size |-> 0, written |-> 0,
         hashed |-> <<>>, plain |-> FALSE]

Init ==
    /\ scenario \in DOMAIN Scenarios
    /\ fs \in This.trees
    /\ now = 10
    /\ plan = <<>>
    /\ wk = [w \in Workers |-> Idle]
    /\ running = FALSE
    /\ failures = 0
    /\ outcome = "none"
    /\ snap = fs
    /\ reported = {}
    /\ ignored = FALSE
    /\ edited = FALSE
    /\ counts = [runs |-> 0, edits |-> 0, kills |-> 0, lost |-> 0]

-----------------------------------------------------------------------------
(* The scan: what a snapshot knows of a side, and the tasks in the order   *)
(* in which Scan sends them.                                               *)

FilesOf(tree) == {k \in Keys : tree[k] # Absent}

SnapshotOf(tree) ==
    [k \in FilesOf(tree) |-> [size |-> Len(tree[k].blocks), mtime |-> tree[k].mtime]]

Op(kind, from, keys) == [kind |-> kind, from |-> from, keys |-> keys, members |-> <<>>]

(* Each key of s by itself, or This.batch of them at a time. *)
Tasks(kind, from, s) ==
    IF kind = "delete" \/ This.batch = 0
    THEN [i \in DOMAIN s |-> Op(kind, from, <<s[i]>>)]
    ELSE [i \in 1..(Len(s) + This.batch - 1) \div This.batch |->
             Op("batch", from, SubSeq(s, This.batch * (i - 1) + 1,
                                      IF This.batch * i < Len(s) THEN This.batch * i ELSE Len(s)))]

Sorted(S) ==
    CHOOSE s \in [1..Cardinality(S) -> S] : \A i, j \in DOMAIN s : i < j => s[i] < s[j]

Plan ==
    LET s == SnapshotOf(fs["src"])
        d == SnapshotOf(fs["dst"])
    IN  Tasks("copy", "src", Sorted(Forward(s, d))) \o
        CASE Mode = "update" -> <<>>
          [] Mode = "mirror" -> Tasks("delete", "src", Sorted(Extras(s, d)))
          [] Mode = "sync"   -> Tasks("copy", "dst", Sorted(Extras(s, d)) \o Sorted(Newer(s, d)))

StartRun ==
    /\ ~running
    /\ counts.runs < This.maxRuns
    /\ counts' = [counts EXCEPT !.runs = @ + 1]
    /\ running' = TRUE
    /\ plan' = Plan
    /\ failures' = 0
    /\ outcome' = "none"
    /\ snap' = fs
    /\ reported' = {}
    /\ ignored' = FALSE
    /\ edited' = FALSE
    /\ UNCHANGED <<scenario, fs, now, wk>>

(* A batch is sent when its archive has all its files. *)
Ready(op) == op.kind = "batch" => Len(op.members) = Len(op.keys)

(* The scanner, when the tasks before it have been received, reads the     *)
(* next file into the batch; the scan fails if the file does not have the  *)
(* size of the snapshot any more.                                          *)
Fill ==
    /\ running
    /\ plan # <<>> /\ ~Ready(Head(plan))
    /\ LET op == Head(plan)
           k  == op.keys[Len(op.members) + 1]
           f  == fs[op.from][k]
       IN  IF f # Absent /\ Len(f.blocks) = Len(snap[op.from][k].blocks)
           THEN /\ plan' = [plan EXCEPT ![1].members = Append(@, f.blocks)]
                /\ UNCHANGED failures
           ELSE /\ plan' = <<>>
                /\ failures' = failures + 1
    /\ UNCHANGED <<scenario, fs, now, wk, running, outcome, snap, reported, ignored,
                   edited, counts>>

-----------------------------------------------------------------------------
(* The workers. *)

At(w, pc) == running /\ wk[w].pc = pc

(* The file that worker w reads, and the one it writes. *)
Key(w)     == wk[w].op.keys[wk[w].entry]
SrcFile(w) == fs[wk[w].op.from][Key(w)]
DstSide(w) == Other(wk[w].op.from)
DstFile(w) == fs[DstSide(w)][Key(w)]

Write(w, file) ==
    /\ fs' = [fs EXCEPT ![DstSide(w)][Key(w)] = file]
    /\ now' = now + 1

FirstStep(op) ==
    CASE op.kind = "copy" -> "open" [] op.kind = "batch" -> "create" [] OTHER -> "delete"

Receive(w) ==
    /\ At(w, "idle")
    /\ plan # <<>> /\ Ready(Head(plan))
    /\ plan' = Tail(plan)
    /\ wk' = [wk EXCEPT ![w] =
                 [Idle EXCEPT !.op = Head(plan), !.entry = 1, !.pc = FirstStep(Head(plan)),
                              !.plain = Head(plan).kind = "batch" \/ This.zeroCopy = "no"]]
    /\ UNCHANGED <<scenario, fs, now, runVars, edited, counts>>

(* os.Open and, on the zero-copy path, Stat: the size is what it is now. *)
Open(w) ==
    /\ At(w, "open")
    /\ SrcFile(w) # Absent
    /\ wk' = [wk EXCEPT ![w].pc = "create", ![w].size = Len(SrcFile(w).blocks)]
    /\ UNCHANGED <<scenario, fs, now, plan, runVars, edited, counts>>

(* os.Create: the destination is truncated. *)
Create(w) ==
    /\ At(w, "create")
    /\ Write(w, [blocks |-> <<>>, mtime |-> now + 1])
    /\ wk' = [wk EXCEPT ![w].pc = "copy", ![w].written = 0, ![w].hashed = <<>>]
    /\ UNCHANGED <<scenario, plan, runVars, edited, counts>>

(* What there is to read: the member of the archive, or the file itself. *)
Source(w) ==
    IF wk[w].op.kind = "batch" THEN wk[w].op.members[wk[w].entry]
    ELSE IF SrcFile(w) = Absent THEN <<>>
    ELSE SrcFile(w).blocks

MoreToRead(w) == wk[w].written < Len(Source(w))

(* The zero-copy loop stops at the size it started with, the plain one at  *)
(* the end of the file.                                                    *)
WantsMore(w) == wk[w].plain \/ wk[w].written < wk[w].size

CopyBlock(w) ==
    /\ At(w, "copy")
    /\ WantsMore(w) /\ MoreToRead(w)
    /\ DstFile(w) # Absent
    /\ LET block == Source(w)[wk[w].written + 1]
       IN  /\ Write(w, [blocks |-> Append(DstFile(w).blocks, block), mtime |-> now + 1])
           /\ wk' = [wk EXCEPT ![w].written = @ + 1,
                               ![w].hashed = IF wk[w].plain THEN Append(@, block) ELSE @]
    /\ UNCHANGED <<scenario, plan, runVars, edited, counts>>

(* sendfile is not supported here: remove the file and start again, plain. *)
FallBack(w) ==
    /\ At(w, "copy")
    /\ This.zeroCopy = "mayFail"
    /\ ~wk[w].plain /\ wk[w].written < wk[w].size
    /\ Write(w, Absent)
    /\ wk' = [wk EXCEPT ![w].pc = "open", ![w].plain = TRUE]
    /\ UNCHANGED <<scenario, plan, runVars, edited, counts>>

AllWritten(w) ==
    /\ At(w, "copy")
    /\ IF wk[w].plain THEN ~MoreToRead(w) ELSE wk[w].written >= wk[w].size

(* Mutated form of HashOf: the source is read once more on every path. *)
HashOfReread(w) == Source(w)

(* The hash is taken of the blocks as they pass by, of the archive, or on  *)
(* the zero-copy path of the source, which is read once more.              *)
HashOf(w) == IF wk[w].plain THEN wk[w].hashed ELSE Source(w)

Reports(w) ==
    IF wk[w].op.kind = "batch"
    THEN {[side |-> DstSide(w), key |-> wk[w].op.keys[i], hash |-> wk[w].op.members[i],
           reread |-> FALSE] : i \in DOMAIN wk[w].op.keys}
    ELSE {[side |-> DstSide(w), key |-> Key(w), hash |-> HashOf(w),
           reread |-> ~wk[w].plain]}

Finish(w) == wk' = [wk EXCEPT ![w] = Idle]

LastEntry(w) == wk[w].entry = Len(wk[w].op.keys)

(* The next file of the batch, or the end of the task. *)
CopyDone(w) ==
    /\ AllWritten(w)
    /\ IF LastEntry(w)
       THEN Finish(w) /\ reported' = reported \cup Reports(w)
       ELSE /\ wk' = [wk EXCEPT ![w].pc = "create", ![w].entry = @ + 1]
            /\ UNCHANGED reported
    /\ UNCHANGED <<scenario, fs, now, plan, running, failures, outcome, snap, ignored,
                   edited, counts>>

(* Mutated form of CloseReported: the zero-copy path does not Sync. *)
CloseReportedBatch(w) == wk[w].op.kind = "batch"

(* Sync on the zero-copy path and Close in copyBatch report a write that   *)
(* failed late; the deferred Close in copyFile is not looked at.           *)
CloseReported(w) == wk[w].op.kind = "batch" \/ ~wk[w].plain

(* The end of the file that was written is lost after all. *)
WriteLost(w) ==
    /\ AllWritten(w)
    /\ counts.lost < This.maxLost
    /\ counts' = [counts EXCEPT !.lost = @ + 1]
    /\ DstFile(w) # Absent /\ DstFile(w).blocks # <<>>
    /\ Write(w, [blocks |-> Front(DstFile(w).blocks), mtime |-> now + 1])
    /\ Finish(w)
    /\ IF CloseReported(w)
       THEN failures' = failures + 1 /\ UNCHANGED <<reported, ignored>>
       ELSE /\ ignored' = wk[w].plain
            /\ reported' = reported \cup Reports(w)
            /\ UNCHANGED failures
    /\ UNCHANGED <<scenario, plan, running, outcome, snap, edited>>

Delete(w) ==
    /\ At(w, "delete")
    /\ Write(w, Absent)
    /\ Finish(w)
    /\ UNCHANGED <<scenario, plan, runVars, edited, counts>>

(* The source is gone, or on the zero-copy path shorter than it was        *)
(* (io.ErrShortWrite): the copy fails and leaves what it wrote.            *)
SourceFails(w) ==
    \/ wk[w].pc = "open" /\ SrcFile(w) = Absent
    \/ wk[w].pc = "copy" /\ WantsMore(w) /\ ~wk[w].plain /\ ~MoreToRead(w)

(* Mutated form of TaskFails: a task that fails counts as done. *)
TaskFailsSilently(w) ==
    /\ running /\ wk[w].pc # "idle"
    /\ SourceFails(w) \/ failures < This.maxFailures
    /\ Finish(w)
    /\ UNCHANGED <<scenario, fs, now, plan, runVars, edited, counts>>

(* That, or an error of the file system at any step: the files of a batch  *)
(* before the one that fails stay, and none of them is reported.           *)
TaskFails(w) ==
    /\ running /\ wk[w].pc # "idle"
    /\ SourceFails(w) \/ failures < This.maxFailures
    /\ failures' = failures + 1
    /\ Finish(w)
    /\ UNCHANGED <<scenario, fs, now, plan, running, outcome, snap, reported, ignored,
                   edited, counts>>

Worker(w) ==
    \/ Receive(w) \/ Open(w) \/ Create(w) \/ CopyBlock(w) \/ FallBack(w)
    \/ CopyDone(w) \/ WriteLost(w) \/ Delete(w) \/ TaskFails(w)

-----------------------------------------------------------------------------
(* The end of a run. *)

EndRun ==
    /\ running
    /\ plan = <<>>
    /\ \A w \in Workers : wk[w].pc = "idle"
    /\ running' = FALSE
    /\ outcome' = IF failures = 0 THEN "ok" ELSE "failed"
    /\ UNCHANGED <<scenario, fs, now, plan, wk, failures, snap, reported, ignored, edited,
                   counts>>

(* The process is killed; the files stay as they are. *)
Kill ==
    /\ running
    /\ counts.kills < This.maxKills
    /\ counts' = [counts EXCEPT !.kills = @ + 1]
    /\ running' = FALSE
    /\ outcome' = "killed"
    /\ plan' = <<>>
    /\ wk' = [w \in Workers |-> Idle]
    /\ UNCHANGED <<scenario, fs, now, failures, snap, reported, ignored, edited>>

(* The user writes some version of a file. *)
Edit(side, k, v) ==
    /\ running => This.duringRun
    /\ counts.edits < This.maxEdits
    /\ counts' = [counts EXCEPT !.edits = @ + 1]
    /\ fs' = [fs EXCEPT ![side][k] = File(v, now + 1)]
    /\ now' = now + 1
    /\ edited' = TRUE
    /\ UNCHANGED <<scenario, plan, wk, runVars>>

Next ==
    \/ StartRun \/ Fill \/ EndRun \/ Kill
    \/ \E w \in Workers : Worker(w)
    \/ \E e \in This.edits, k \in Keys : Edit(e[1], k, e[2])

Spec == Init /\ [][Next]_vars

-----------------------------------------------------------------------------
(* Properties.                                                             *)

Equal(f, g) == (f = Absent <=> g = Absent) /\ (f # Absent => f.blocks = g.blocks)

OneWay == Mode # "sync"

(* Every file that the scan of these trees takes for a copy is one. *)
NoFalse(tree) ==
    LET s == SnapshotOf(tree["src"])
        d == SnapshotOf(tree["dst"])
    IN  \A k \in DOMAIN s \cap DOMAIN d :
            ShouldCopy(s[k], d[k]) \/ tree["src"][k].blocks = tree["dst"][k].blocks

(* The sides on which the user edits files. *)
EditedSides == {e[1] : e \in This.edits}

(* Whatever failed, was lost or was killed, and in the middle of a copy    *)
(* too, a file of the destination that the next scan will take for a copy  *)
(* of its source is one: an unfinished copy never looks complete, nor does *)
(* one whose last write was lost.  Left out are mode sync, where the       *)
(* destination may have newer files of its own, and a user who edits the   *)
(* destination or does not wait for the run to end.                        *)
NoFalseCopy ==
    OneWay /\ ~This.duringRun /\ EditedSides \subseteq {"src"} => NoFalse(fs)

(* The last run exited with 0 and the user has edited nothing since it     *)
(* began.                                                                  *)
Clean == ~running /\ outcome = "ok" /\ ~edited

(* Modes update and mirror: after a clean run the destination has every    *)
(* file of the source with its contents, and in mode mirror no other,      *)
(* whatever happened in earlier runs, in the middle of a batch too; unless *)
(* copyFile ignored in this run that Close failed, or the run found a file *)
(* that only looked like a copy, which NoFalseCopy says it does not.       *)
CleanRunConverges ==
    Clean /\ OneWay /\ ~ignored /\ NoFalse(snap) =>
        /\ \A k \in FilesOf(fs["src"]) : Equal(fs["src"][k], fs["dst"][k])
        /\ Mode = "mirror" => FilesOf(fs["dst"]) = FilesOf(fs["src"])

(* The keys that the run copies in both directions, in mode sync: the      *)
(* newer file has another size.                                            *)
BothWays ==
    LET s == SnapshotOf(snap["src"])
        d == SnapshotOf(snap["dst"])
    IN  IF Mode = "sync" THEN Forward(s, d) \cap Newer(s, d) ELSE {}

(* The hash reported for a copy is that of the contents it left, on the    *)
(* plain path and in batches even if the source is edited or overwritten   *)
(* meanwhile; the zero-copy path, which reads the source again, vouches    *)
(* for it only if nothing was edited since the run began and the source is *)
(* not itself the destination of another task.  A user who edits the copy  *)
(* and an ignored error of Close make any hash wrong.                      *)
ReportsTrue ==
    ~ignored => \A r \in reported :
        /\ edited => ~r.reread /\ r.side \notin EditedSides
        /\ r.reread => r.key \notin BothWays
        => /\ fs[r.side][r.key] # Absent
           /\ fs[r.side][r.key].blocks = r.hash

(* What the run should have spread for key k: the newer of the two files   *)
(* it found, in mode sync.                                                 *)
Newest(k) ==
    LET s == snap["src"][k]
        d == snap["dst"][k]
    IN  IF s = Absent THEN d
        ELSE IF d = Absent THEN s
        ELSE IF d.mtime > s.mtime THEN d ELSE s

(* Mode sync (docs/cli/scan.md:19: newer files are copied in either        *)
(* direction): after a clean run both sides have the newer of the two      *)
(* versions of each file.  It takes files of equal sizes: see              *)
(* replica_sync_loses.                                                     *)
NewestWins ==
    Clean /\ ~OneWay /\ ~ignored =>
        \A k \in Keys, side \in Sides : Equal(fs[side][k], Newest(k))

(* Modes update and mirror: a clean run leaves nothing for the next one to *)
(* do (docs/cli/scan.md:75, identical trees produce zero tasks), as a copy *)
(* that is newer than its source is as good as one that has its time.  In  *)
(* mode sync it does not hold: the copies are copied back.                 *)
OneWaySettles == Clean /\ OneWay /\ ~ignored => Plan = <<>>
=============================================================================
