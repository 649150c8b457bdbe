-------------------------------- MODULE Scan --------------------------------
(***************************************************************************)
(* scanner.Scan (internal/scanner/scanner.go): snapshot both trees, then   *)
(* send one task after another for what has to be copied, and in mode      *)
(* mirror deleted, or in mode sync copied back.  The snapshots are taken   *)
(* once; files change afterwards, which shows in the lengths that the      *)
(* batcher reads.                                                          *)
(*                                                                         *)
(* A key stands for its rank in the order of strings.  The receiver of the *)
(* channel is always ready here; what the receivers do meanwhile is in     *)
(* SyncRun and Replica.                                                    *)
(***************************************************************************)
EXTENDS Batcher, SyncPlan, Tuning

CONSTANTS
    Keys,       (* the paths below the roots                               *)
    Below,      (* Below[k]: the keys of the paths strictly below that of k*)
    KeyLen,     (* the length of each path                                 *)
    Scenarios   (* for each of some names the mode, the options that may be*)
                (* given, the trees there may be at the source and at the  *)
                (* destination, and what there may be to read of a file    *)
                (* when it is added, if it has changed                     *)

(* A path is that of a file or of a directory, and what is above either is *)
(* a directory.                                                            *)
IsTree(t) ==
    /\ t.dirs \cup DOMAIN t.files \subseteq Keys
    /\ t.dirs \cap DOMAIN t.files = {}
    /\ \A k \in DOMAIN t.files :
          t.files[k].size \in Nat /\ t.files[k].mtime \in Nat /\ t.files[k].link \in BOOLEAN
    /\ \A p \in Keys : Below[p] \cap (t.dirs \cup DOMAIN t.files) # {} => p \in t.dirs

ASSUME ScanAssumption ==
    /\ Keys \subseteq Nat /\ IsFiniteSet(Keys)
    /\ Below \in [Keys -> SUBSET Keys]
    /\ KeyLen \in [Keys -> Nat]
    /\ \A k \in Keys : \A b \in Below[k] : KeyLen[k] < KeyLen[b]
    /\ \A n \in DOMAIN Scenarios :
          /\ Scenarios[n].mode \in {"update", "mirror", "sync"}
          /\ Scenarios[n].changes \subseteq Nat \cup {Unreadable}
          /\ \A t \in Scenarios[n].srcTrees \cup Scenarios[n].dstTrees : IsTree(t)
          /\ Scenarios[n].opts \subseteq
                [threshold : Int, maxFiles : Int, maxBytes : Int, auto : BOOLEAN]

VARIABLES
    scenario,   (* the name of the scenario                                *)
    src, dst,   (* the snapshots                                           *)
    pc,         (* where Scan is                                           *)
    todo        (* the keys its current loop has not come to               *)

given    == <<scenario, src, dst, opts>>
scanVars == <<given, pc, todo, batcherVars>>

This == Scenarios[scenario]
Mode == This.mode

ScanInit ==
    /\ scenario \in DOMAIN Scenarios
    /\ src \in This.srcTrees
    /\ dst \in This.dstTrees
    /\ opts \in This.opts
    /\ pc = "snapshot"
    /\ todo = {}
    /\ BatcherInit

-----------------------------------------------------------------------------
(* snapshot: a root that does not exist counts as an empty tree.  One that *)
(* is not a directory, or that cannot be walked, is an error.              *)
SnapshotOf(tree) ==
    IF tree.root = "missing"
    THEN [files |-> [k \in {} |-> {}], dirs |-> {}]
    ELSE [files |-> tree.files, dirs |-> tree.dirs]

Walkable(tree) == tree.root \in {"missing", "dir"}

(* sort.Strings on the keys, which stand for their ranks (SetToSortSeq     *)
(* would enumerate all sequences of S).                                    *)
Sorted(S) ==
    [i \in 1..Cardinality(S) |->
        CHOOSE k \in S : Cardinality({j \in S : j < k}) = i - 1]

(* The sizes of the files of a snapshot. *)
SizesOf(files) == [k \in DOMAIN files |-> files[k].size]

(* Both snapshots; with that of the source the options are tuned.          *)
Snapshot ==
    /\ pc = "snapshot"
    /\ IF Walkable(src) /\ Walkable(dst)
       THEN LET files == SnapshotOf(src).files
            IN  /\ pc' = "forward"
                /\ todo' = DOMAIN files
                /\ opts' = Tuned(opts, SizesOf(files))
                /\ UNCHANGED err
       ELSE /\ pc' = "done"
            /\ err' = "snapshot"
            /\ UNCHANGED <<todo, opts>>
    /\ UNCHANGED <<scenario, src, dst, batch, out>>

SrcFiles == SnapshotOf(src).files
DstFiles == SnapshotOf(dst).files
SrcDirs  == SnapshotOf(src).dirs
DstDirs  == SnapshotOf(dst).dirs

(* The copy of file k, seen in a snapshot with metadata f, away from side. *)
CopyOf(side, k, f) == [from |-> side, key |-> k, size |-> f.size, link |-> f.link]

(* Loops over sorted keys take the least one. *)
Next1 == CHOOSE k \in todo : \A j \in todo : k <= j

(* A loop goes on after key k, unless an error ends Scan. *)
Proceed(k) ==
    /\ todo' = todo \ {k}
    /\ pc' = IF err' = "none" THEN pc ELSE "done"
    /\ UNCHANGED given

Handle(k, needed, c) ==
    /\ IF needed
       THEN \E n \in {c.size} \cup This.changes : Add(c, n)
       ELSE UNCHANGED batcherVars
    /\ Proceed(k)

NeedsCopy(k) == k \in DOMAIN DstFiles => ShouldCopy(SrcFiles[k], DstFiles[k])

ForwardStep ==
    /\ pc = "forward" /\ todo # {}
    /\ Handle(Next1, NeedsCopy(Next1), CopyOf("src", Next1, SrcFiles[Next1]))

(* The batcher is flushed at the end of the loop; the mode decides what    *)
(* comes next.                                                             *)
ForwardEnd ==
    /\ pc = "forward" /\ todo = {}
    /\ Flush
    /\ IF err' # "none"
       THEN pc' = "done" /\ UNCHANGED todo
       ELSE CASE Mode = "update" -> pc' = "done" /\ UNCHANGED todo
              [] Mode = "mirror" -> /\ pc' = "deleteFiles"
                                    /\ todo' = Extras(SrcFiles, DstFiles)
              [] Mode = "sync"   -> /\ pc' = "missing"
                                    /\ todo' = DOMAIN DstFiles
    /\ UNCHANGED given

(* enqueueMirrorDeletes: the files in the order of a map iteration, that   *)
(* is in any order.                                                        *)
DeleteFile ==
    /\ pc = "deleteFiles"
    /\ \E k \in todo :
          /\ out' = Append(out, DeleteTask(k))
          /\ todo' = todo \ {k}
    /\ UNCHANGED <<given, pc, batch, err>>

(* Mutated form of DeleteFilesEnd: directories are never deleted. *)
DeleteFilesEndDone ==
    /\ pc = "deleteFiles" /\ todo = {}
    /\ pc' = "done"
    /\ UNCHANGED <<given, todo, batcherVars>>

DeleteFilesEnd ==
    /\ pc = "deleteFiles" /\ todo = {}
    /\ pc' = "deleteDirs"
    /\ todo' = DstDirs \ SrcDirs
    /\ UNCHANGED <<given, batcherVars>>

(* Mutated form of Longest: the shortest paths first. *)
Shortest == {k \in todo : \A j \in todo : KeyLen[j] >= KeyLen[k]}

(* The directories by decreasing length of their paths, those of the same  *)
(* length in any order.                                                    *)
Longest == {k \in todo : \A j \in todo : KeyLen[j] <= KeyLen[k]}

DeleteDir ==
    /\ pc = "deleteDirs"
    /\ \E k \in Longest :
          /\ out' = Append(out, DeleteTask(k))
          /\ todo' = todo \ {k}
    /\ UNCHANGED <<given, pc, batch, err>>

DeleteDirsEnd ==
    /\ pc = "deleteDirs" /\ todo = {}
    /\ pc' = "done"
    /\ UNCHANGED <<given, todo, batcherVars>>

(* enqueueSyncTasks: first what the source does not have. *)
MissingStep ==
    /\ pc = "missing" /\ todo # {}
    /\ Handle(Next1, Next1 \notin DOMAIN SrcFiles,
              CopyOf("dst", Next1, DstFiles[Next1]))

MissingEnd ==
    /\ pc = "missing" /\ todo = {}
    /\ pc' = "newer"
    /\ todo' = DOMAIN SrcFiles
    /\ UNCHANGED <<given, batcherVars>>

(* Then the files of which the destination has the newer version. *)
NewerStep ==
    /\ pc = "newer" /\ todo # {}
    /\ LET common == Next1 \in DOMAIN DstFiles
       IN  Handle(Next1,
                  common /\ DstFiles[Next1].mtime > SrcFiles[Next1].mtime,
                  IF common THEN CopyOf("dst", Next1, DstFiles[Next1]) ELSE {})

NewerEnd ==
    /\ pc = "newer" /\ todo = {}
    /\ Flush
    /\ pc' = "done"
    /\ UNCHANGED <<given, todo>>

Next ==
    \/ Snapshot
    \/ ForwardStep \/ ForwardEnd
    \/ DeleteFile \/ DeleteFilesEnd
    \/ DeleteDir \/ DeleteDirsEnd
    \/ MissingStep \/ MissingEnd
    \/ NewerStep \/ NewerEnd

Spec == ScanInit /\ [][Next]_scanVars

-----------------------------------------------------------------------------
(* Properties.                                                             *)

Copies == [from : {"src", "dst"}, key : Keys, size : Nat, link : BOOLEAN]

(* The bytes of some copies. *)
Total(copies) == SumFunction([i \in DOMAIN copies |-> copies[i].size])

(* Types, and the agreement of the three counts that describe a batch. *)
TypeOK ==
    /\ pc \in {"snapshot", "forward", "deleteFiles", "deleteDirs", "missing",
              "newer", "done"}
    /\ todo \subseteq Keys
    /\ err \in {"none", "snapshot", "open", "short", "long"}
    /\ batch.entries \in Seq(Copies)
    /\ Len(batch.members) = Len(batch.entries)
    /\ batch.totalBytes = Total(batch.entries)
    /\ batch.entries # <<>> => batch.open

IsBatch(t) == t.action = "copyBatch"
Batches    == {out[i] : i \in {j \in DOMAIN out : IsBatch(out[j])}}

(* The single operations that a task stands for, those of all tasks sent,  *)
(* and those followed by what is still in the batch; each in order.        *)
OpOf(c)      == [from |-> c.from, key |-> c.key]
OpSeq(cs)    == [j \in DOMAIN cs |-> OpOf(cs[j])]
OpsIn(t)     == IF t.action = "delete" THEN <<[from |-> "delete", key |-> t.key]>>
                ELSE OpSeq(t.copies)
LogOf(tasks) == FlattenSeq([i \in DOMAIN tasks |-> OpsIn(tasks[i])])
Emitted      == LogOf(out) \o OpSeq(batch.entries)

ForwardPlan == Sorted(Forward(SrcFiles, DstFiles))

BackwardPlan ==
    IF Mode = "sync"
    THEN Sorted(Extras(SrcFiles, DstFiles)) \o Sorted(Newer(SrcFiles, DstFiles))
    ELSE <<>>

OpsAlong(side, keys) == [i \in DOMAIN keys |-> [from |-> side, key |-> keys[i]]]

CopyPlan == OpsAlong("src", ForwardPlan) \o OpsAlong("dst", BackwardPlan)

DeletePlan ==
    IF Mode = "mirror"
    THEN Extras(SrcFiles, DstFiles) \cup (DstDirs \ SrcDirs)
    ELSE {}

Ops(side, keys) == {[from |-> side, key |-> k] : k \in keys}

(* Whatever is batched, flushed or dropped after an error, and in whatever *)
(* order maps are iterated: the operations sent, followed by those still   *)
(* in the batch, are at any time the beginning of the plan that the modes  *)
(* define, with no operation skipped, repeated or overtaken: forward       *)
(* copies in key order, then copies back in key order or the deletes, each *)
(* once.                                                                   *)
FollowsPlan ==
    LET copies == DOMAIN CopyPlan
    IN  /\ \A i \in DOMAIN Emitted :
              IF i \in copies THEN Emitted[i] = CopyPlan[i]
              ELSE Emitted[i] \in Ops("delete", DeletePlan)
        /\ \A i, j \in DOMAIN Emitted \ copies : Emitted[i] = Emitted[j] => i = j

(* The operations of the plan, and those that have been sent. *)
Planned ==
    Ops("src", Forward(SrcFiles, DstFiles))
    \cup Ops("dst", IF Mode = "sync"
                    THEN Extras(SrcFiles, DstFiles) \cup Newer(SrcFiles, DstFiles)
                    ELSE {})
    \cup Ops("delete", DeletePlan)

OpsOf(t) ==
    IF t.action = "delete" THEN Ops("delete", {t.key})
    ELSE {[from |-> t.copies[i].from, key |-> t.copies[i].key] : i \in DOMAIN t.copies}

Sent == UNION {OpsOf(out[i]) : i \in DOMAIN out}

(* What the commands rely on: Scan sends nothing outside its plan and ends *)
(* without an error only when all of it has been sent, with no copy left   *)
(* in the batch and no directory left to delete, through whichever of its  *)
(* five loops and early returns it comes to its end.                       *)
Contract == INSTANCE ScanContract WITH
    plan    <- Planned,
    sent    <- Sent,
    outcome <- IF pc # "done" THEN "none"
               ELSE IF err = "none" THEN "ok" ELSE "failed"

ImplementsContract == Contract!Spec

(* The delete of a directory is never sent before that of what is below    *)
(* it, so that whoever carries the deletes out in the order in which they  *)
(* are sent finds every path still there.  Several workers may not: what   *)
(* they do to the same directories is in module Trees.                     *)
ChildrenFirst ==
    \A i, j \in DOMAIN out :
        i < j /\ out[i].action = "delete" /\ out[j].action = "delete"
            => out[j].key \notin Below[out[i].key]

(* An archive that is sent has one member per entry, and each holds what   *)
(* its header promises: a file that shrinks, grows or vanishes between the *)
(* snapshot and its addition makes Scan fail, it does not end up cut off   *)
(* in a batch.                                                             *)
ArchivesWhole ==
    \A t \in Batches :
        /\ Len(t.members) = Len(t.copies)
        /\ \A i \in DOMAIN t.members : t.members[i].written = t.members[i].size

(* A batch is neither empty nor over a limit, except that a single file    *)
(* may be larger than BatchMaxBytes; a batch that has reached a limit is   *)
(* not kept.                                                               *)
BatchesBounded ==
    /\ \A t \in Batches :
          /\ Len(t.copies) > 0
          /\ opts.maxFiles > 0 => Len(t.copies) <= opts.maxFiles
          /\ opts.maxBytes > 0 => Total(t.copies) <= opts.maxBytes \/ Len(t.copies) = 1
          /\ \A i \in DOMAIN t.copies : t.copies[i].size <= opts.threshold
    /\ err = "none" => ~ReachedLimits(batch)

Sizes   == SizesOf(SrcFiles)
IsTuned == opts \notin This.opts

(* Limits that were tuned never contradict each other: a batch has room    *)
(* for four of the largest files that are batched, so that the exception   *)
(* of a file larger than a whole batch cannot occur; it has room for as    *)
(* many files of average size as it may have; and all of them stay between *)
(* their bounds, whatever the sizes are.                                   *)
LimitsAgree ==
    IsTuned =>
        /\ opts.threshold \in MinThreshold .. SmallFileCutoff
        /\ opts.maxFiles \in 8 .. 512
        /\ opts.maxBytes \in MB .. 8 * MB
        /\ 4 * opts.threshold <= opts.maxBytes
        /\ opts.maxFiles * AvgSmall(Small(Sizes)) <= opts.maxBytes

(* In whatever order the map gave the sizes, at least nine in ten of the   *)
(* small files are batched.                                                *)
MostSmallFilesBatched ==
    LET small == {i \in DOMAIN Sizes : Sizes[i] <= SmallFileCutoff}
    IN  IsTuned =>
            10 * Cardinality({i \in small : Sizes[i] <= opts.threshold})
                >= 9 * Cardinality(small)
=============================================================================
