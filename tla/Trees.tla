-------------------------------- MODULE Trees --------------------------------
(***************************************************************************)
(* Sync runs in one file system with directories: the source and the       *)
(* destination are two places in it, named by paths as they were typed.    *)
(* scanner.Scan snapshots both and plans, and the workers of the pool make *)
(* directories, copy files and delete whole trees (copyFile, deletePath),  *)
(* one system call at a time.  A file may be where the other tree has a    *)
(* directory, and deletes and copies of one run may come in each other's   *)
(* way.  Tasks may fail, runs may be killed and are repeated.              *)
(*                                                                         *)
(* A copy creates its file, empty, and then writes it, in one step: copies *)
(* block by block and edits by the user are in module Replica, batches in  *)
(* Batcher.  What a run writes gets the number of the run as its time.     *)
(***************************************************************************)
EXTENDS Paths, SyncPlan, FiniteSets

CONSTANTS
    Nodes,      (* the places there are, as sequences of names             *)
    Workers,
    Scenarios,  (* by name: the mode, the paths given for the source and   *)
                (* the destination, the working directory, the file systems*)
                (* there may be at first, and bounds for TLC on runs,      *)
                (* failures and kills                                      *)
    Absent, Dir, NoOp

ASSUME TreesAssumption ==
    /\ \A p \in Nodes : p # <<>> /\ (Len(p) > 1 => Front(p) \in Nodes)
    /\ \A n \in DOMAIN Scenarios : Scenarios[n].mode \in {"update", "mirror", "sync"}

VARIABLES
    scenario,  (* which of the scenarios this is                           *)
    fs,        (* fs[p]: Absent, Dir or a file                             *)
    plan,      (* the tasks not yet received, as a sequence of sets: those *)
               (* of a set come in any order, after the sets before        *)
    wk,        (* wk[w]: what worker w does                                *)
    running,   (* a run is under way                                       *)
    failures,  (* the tasks of the run that failed, and its scan           *)
    outcome,   (* how the last run ended                                   *)
    snap,      (* the file system as the run found it                      *)
    calm,      (* the runs in a row without a fault from outside           *)
    counts     (* runs, faults, kills so far                               *)

runVars == <<running, failures, outcome, snap, calm, counts>>
vars    == <<scenario, fs, plan, wk, runVars>>

This == Scenarios[scenario]
Mode == This.mode

Where(p) == Location(This.cwd, p)

IsFile(f) == f \notin {Absent, Dir}
File(v, t) == [ver |-> v, size |-> 1, mtime |-> t]

(* The places from the top down to p, without p. *)
Above(p)   == {SubSeq(p, 1, i) : i \in 1..(Len(p) - 1)}
AtOrBelow(p) == {q \in Nodes : IsPrefix(p, q)}

Idle == [pc |-> "idle", op |-> NoOp]

Init ==
    /\ scenario \in DOMAIN Scenarios
    /\ fs \in This.systems
    /\ plan = <<>>
    /\ wk = [w \in Workers |-> Idle]
    /\ running = FALSE /\ failures = 0 /\ outcome = "none"
    /\ snap = fs
    /\ calm = 0
    /\ counts = [runs |-> 0, faults |-> 0, kills |-> 0]

-----------------------------------------------------------------------------
(* The scan. *)

SrcTop == Where(Clean(This.src))
DstTop == Where(DstRoot(This.src, This.dst))

(* snapshot: a root may be missing, but neither it nor anything above it   *)
(* may be a file.                                                          *)
Walkable(root) == \A p \in Above(root) \cup {root} : ~IsFile(fs[p])

(* By key, the files below a root with their paths; the directories.       *)
KeyOf(root, p) == WithPrefix(This.src, SubSeq(p, Len(root) + 1, Len(p)))

Below(root) == AtOrBelow(root) \ {root}

FilesBelow(root) ==
    LET places == {p \in Below(root) : IsFile(fs[p])}
    IN  [k \in {KeyOf(root, p) : p \in places} |->
            LET p == CHOOSE q \in places : KeyOf(root, q) = k
            IN  [path |-> p, size |-> fs[p].size, mtime |-> fs[p].mtime]]

DirsBelow(root) == {KeyOf(root, p) : p \in {q \in Below(root) : fs[q] = Dir}}

Copy(from, to)  == [kind |-> "copy", from |-> from, to |-> to]
DeleteOf(p)     == [kind |-> "delete", from |-> p, to |-> p]
AtDst(k)        == Where(DstPath(This.dst, k))
CopyBack(d, k)  == {Copy(d[k].path, Where(p)) : p \in SrcPathForKey(This.src, k)}

(* Mutated form of Deletes: directories are left. *)
DeletesOfFiles(s, d) == <<{DeleteOf(d[k].path) : k \in Extras(s, d)}>>

(* enqueueMirrorDeletes: the files, then the directories, longest first.   *)
(* The names are all of one length here.                                   *)
Deletes(s, d) ==
    LET dirs == DirsBelow(DstTop) \ DirsBelow(SrcTop)
        most == Max({Len(k) : k \in dirs} \cup {0})
    IN  <<{DeleteOf(d[k].path) : k \in Extras(s, d)}>> \o
        [i \in 1..most |->
            {DeleteOf(AtDst(k)) : k \in {e \in dirs : Len(e) = most + 1 - i}}]

(* The order of the copies is that of module Scan, and left open here. *)
Plan ==
    LET s == FilesBelow(SrcTop)
        d == FilesBelow(DstTop)
    IN  <<{Copy(s[k].path, AtDst(k)) : k \in Forward(s, d)}>> \o
        CASE Mode = "update" -> <<>>
          [] Mode = "mirror" -> Deletes(s, d)
          [] Mode = "sync"   -> <<UNION {CopyBack(d, k) : k \in Extras(s, d)},
                                  UNION {CopyBack(d, k) : k \in Newer(s, d)}>>

NotEmpty(s) == SelectSeq(s, LAMBDA S : S # {})

StartRun ==
    /\ ~running
    /\ counts.runs < This.maxRuns
    /\ counts' = [counts EXCEPT !.runs = @ + 1]
    /\ running' = TRUE
    /\ IF Walkable(SrcTop) /\ Walkable(DstTop)
       THEN plan' = NotEmpty(Plan) /\ failures' = 0
       ELSE plan' = <<>> /\ failures' = 1
    /\ outcome' = "none"
    /\ snap' = fs
    /\ UNCHANGED <<scenario, fs, wk, calm>>

-----------------------------------------------------------------------------
(* The workers. *)

Pc(w) == wk[w].pc
To(w) == wk[w].op.to

Goto(w, pc) == wk' = [wk EXCEPT ![w].pc = pc]
Finish(w)   == wk' = [wk EXCEPT ![w] = Idle]
Set(p, f)   == fs' = [fs EXCEPT ![p] = f]

Receive(w) ==
    /\ running /\ Pc(w) = "idle"
    /\ plan # <<>>
    /\ \E op \in Head(plan) :
          /\ plan' = NotEmpty([plan EXCEPT ![1] = @ \ {op}])
          /\ wk' = [wk EXCEPT ![w] = [pc |-> IF op.kind = "copy" THEN "mkdir" ELSE "remove",
                                      op |-> op]]
    /\ UNCHANGED <<scenario, fs, runVars>>

Missing(w) == {p \in Above(To(w)) : fs[p] = Absent}

(* os.MkdirAll: the missing directories from the top down. *)
Mkdir(w) ==
    /\ Pc(w) = "mkdir"
    /\ \A p \in Above(To(w)) : ~IsFile(fs[p])
    /\ IF Missing(w) = {}
       THEN Goto(w, "create") /\ UNCHANGED fs
       ELSE /\ \E p \in Missing(w) : Above(p) \cap Missing(w) = {} /\ Set(p, Dir)
            /\ UNCHANGED wk
    /\ UNCHANGED <<scenario, plan, runVars>>

(* os.Open and os.Create: an existing file is truncated. *)
Create(w) ==
    /\ Pc(w) = "create"
    /\ IsFile(fs[wk[w].op.from])
    /\ \A p \in Above(To(w)) : fs[p] = Dir
    /\ fs[To(w)] # Dir
    /\ Set(To(w), [ver |-> "none", size |-> 0, mtime |-> 10 + counts.runs])
    /\ Goto(w, "write")
    /\ UNCHANGED <<scenario, plan, runVars>>

(* A file that was removed meanwhile is written all the same, and lost. *)
Write(w) ==
    /\ Pc(w) = "write"
    /\ LET from == fs[wk[w].op.from]
       IN  IF IsFile(fs[To(w)]) /\ IsFile(from)
           THEN Set(To(w), [from EXCEPT !.mtime = 10 + counts.runs])
           ELSE UNCHANGED fs
    /\ Finish(w)
    /\ UNCHANGED <<scenario, plan, runVars>>

Leaves(p) ==
    LET there == {q \in AtOrBelow(p) : fs[q] # Absent}
    IN  {q \in there : \A r \in there : q \notin Above(r)}

(* os.RemoveAll: what is there goes, leaf after leaf, the path itself in   *)
(* the end; nothing being there is no error.                               *)
RemoveStep(w) ==
    /\ Pc(w) = "remove"
    /\ \A p \in Above(To(w)) : ~IsFile(fs[p])
    /\ IF Leaves(To(w)) = {}
       THEN Finish(w) /\ UNCHANGED fs
       ELSE \E q \in Leaves(To(w)) :
               /\ Set(q, Absent)
               /\ IF q = To(w) THEN Finish(w) ELSE UNCHANGED wk
    /\ UNCHANGED <<scenario, plan, runVars>>

(* Something of the other kind is in the way, or something is gone. *)
Blocked(w) ==
    \/ Pc(w) \in {"mkdir", "remove"} /\ \E p \in Above(To(w)) : IsFile(fs[p])
    \/ /\ Pc(w) = "create"
       /\ \/ ~IsFile(fs[wk[w].op.from])
          \/ fs[To(w)] = Dir
          \/ \E p \in Above(To(w)) : fs[p] # Dir

(* That, or an error from outside at any step. *)
TaskFails(w) ==
    /\ Pc(w) # "idle"
    /\ \/ Blocked(w) /\ UNCHANGED counts
       \/ counts.faults < This.maxFaults /\ counts' = [counts EXCEPT !.faults = @ + 1]
    /\ failures' = failures + 1
    /\ calm' = IF Blocked(w) THEN calm ELSE -1
    /\ Finish(w)
    /\ UNCHANGED <<scenario, fs, plan, running, outcome, snap>>

Worker(w) ==
    Receive(w) \/ Mkdir(w) \/ Create(w) \/ Write(w) \/ RemoveStep(w) \/ TaskFails(w)

-----------------------------------------------------------------------------
EndRun ==
    /\ running
    /\ plan = <<>> /\ \A w \in Workers : Pc(w) = "idle"
    /\ running' = FALSE
    /\ outcome' = IF failures = 0 THEN "ok" ELSE "failed"
    /\ calm' = calm + 1
    /\ UNCHANGED <<scenario, fs, plan, wk, failures, snap, counts>>

Kill ==
    /\ running
    /\ counts.kills < This.maxKills
    /\ counts' = [counts EXCEPT !.kills = @ + 1]
    /\ running' = FALSE
    /\ outcome' = "killed"
    /\ calm' = 0
    /\ plan' = <<>>
    /\ wk' = [w \in Workers |-> Idle]
    /\ UNCHANGED <<scenario, fs, failures, snap>>

Next ==
    \/ StartRun \/ EndRun \/ Kill
    \/ \E w \in Workers : Worker(w)

Spec == Init /\ [][Next]_vars

-----------------------------------------------------------------------------
(* Properties.  The counterpart of a place is said here without keys and   *)
(* prefixes: the source goes into the destination under its own name       *)
(* unless its path ends with a separator or is that of the working         *)
(* directory or of the root.                                               *)

Given(p) == Where(Clean(p))

Named == ~This.src.trailing /\ Clean(This.src).parts # <<>>
Image == Given(This.dst) \o (IF Named THEN <<Last(SrcTop)>> ELSE <<>>)

Counterpart(p, from, to) == to \o SubSeq(p, Len(from) + 1, Len(p))

Existing(f, top, Test(_)) == {p \in AtOrBelow(top) \ {top} : Test(f[p])}

There(f, p) == IF p \in Nodes THEN f[p] ELSE Absent

SameKind(f, g) == (f = Dir <=> g = Dir) /\ (IsFile(f) <=> IsFile(g))

(* Below the image of the source what may change does; in mode sync also   *)
(* below the source.  Outside only missing directories above it are made.  *)
MayChange(p) ==
    \/ IsPrefix(Image, p)
    \/ Mode = "sync" /\ IsPrefix(SrcTop, p)
    \/ p \in Above(Image) /\ fs[p] = Absent /\ fs'[p] = Dir

(* No step of a run touches anything but the image of the source at the    *)
(* destination (in mode sync, and the source), whatever the form of the    *)
(* two paths; and what a run removes, it removes in mode mirror and        *)
(* because the source had nothing of that kind there.                      *)
OnlyImageChanges ==
    [][\A p \in Nodes : fs'[p] # fs[p] =>
          /\ MayChange(p)
          /\ fs'[p] = Absent =>
                /\ Mode = "mirror"
                /\ ~SameKind(snap[p], There(snap, Counterpart(p, Image, SrcTop)))]_vars

(* The files that a run removes are below the destination, and the source  *)
(* has no file in their place: docs/man/syncopa-core.1:56 has mode mirror  *)
(* delete what exists only at the destination.  It does not hold where the *)
(* source is given as .., which the tree that is compared takes for a name *)
(* to go into at the destination, and so for the parent of it.             *)
RemovesAtDestination ==
    [][\A p \in Nodes : IsFile(fs[p]) /\ fs'[p] = Absent =>
          /\ IsPrefix(Given(This.dst), p)
          /\ ~IsFile(There(snap, Counterpart(p, Image, SrcTop)))]_vars

Clean1Way == ~running /\ outcome = "ok" /\ Mode # "sync"

(* After a run of mode update or mirror that exits with 0 every file of    *)
(* the source is in its place at the destination with its contents; in     *)
(* mode mirror there is nothing else but directories the source has too.   *)
TreesConverge ==
    Clean1Way =>
        /\ \A p \in Existing(fs, SrcTop, IsFile) :
              LET q == There(fs, Counterpart(p, SrcTop, Image))
              IN  IsFile(q) /\ q.ver = fs[p].ver
        /\ Mode = "mirror" => \A q \in Existing(fs, Image, LAMBDA f : f # Absent) :
              SameKind(fs[q], There(fs, Counterpart(q, Image, SrcTop)))

(* In mode sync both trees have the same files afterwards, with the same   *)
(* contents, wherever the paths have put them.                             *)
SyncMeets ==
    ~running /\ outcome = "ok" /\ Mode = "sync" =>
        LET same(p, q) == IsFile(There(fs, q)) /\ fs[q].ver = fs[p].ver
        IN  /\ \A p \in Existing(fs, SrcTop, IsFile) : same(p, Counterpart(p, SrcTop, Image))
            /\ \A q \in Existing(fs, Image, IsFile) : same(q, Counterpart(q, Image, SrcTop))

(* Mode mirror: a file may be in the way of a directory or the other way   *)
(* round, so that copies fail that come before the delete of what is in    *)
(* their way, and a delete that comes after a copy.  But the run makes the *)
(* way free: of two runs in a row without a fault from outside the second  *)
(* one succeeds, whatever earlier runs left behind.                        *)
TwoRunsSuffice == Mode = "mirror" /\ ~running /\ calm >= 2 => outcome = "ok"
==============================================================================
