----------------------------- MODULE MCReplica -----------------------------
(* Instances of Replica for TLC: two files, two workers.                   *)
EXTENDS Replica, TLC

(* Workers are interchangeable; only invariants are checked. *)
Symmetry == Permutations(Workers)

MCKeys     == {1, 2}
MCVersions == {"short", "long", "longer", "other"}
MCSizeOf   == [v \in MCVersions |-> CASE v = "short" -> 1 [] v = "longer" -> 3 [] OTHER -> 2]

Tree(a, b) == [k \in MCKeys |-> IF k = 1 THEN a ELSE b]

Short == File("short", 1)
Long  == File("long", 1)

(* One-way modes: the source has both files and the destination none; or   *)
(* the source lacks one that the destination has.                          *)
OneWayTrees ==
    {[src |-> Tree(Short, Long), dst |-> Tree(Absent, Absent)],
     [src |-> Tree(Short, Absent), dst |-> Tree(Absent, File("long", 2))]}

(* Mode sync: each file on one side, or on both at different times. *)
SyncTrees(v) ==
    {[src |-> Tree(Long, a), dst |-> Tree(b, File("other", 2))] :
        a \in {Absent, File(v, 1), File(v, 3)},
        b \in {Absent, File("other", 2), File("other", 0)}}

Quiet ==
    [mode |-> "sync", batch |-> 0, zeroCopy |-> "no", trees |-> SyncTrees("long"),
     edits |-> {}, duringRun |-> FALSE,
     maxRuns |-> 1, maxEdits |-> 0, maxFailures |-> 0, maxKills |-> 0, maxLost |-> 0]

(* The first run fails or is killed, or the user edits after it: an edit   *)
(* changes the size of a file or only its contents.                        *)
Update ==
    [Quiet EXCEPT !.mode = "update", !.zeroCopy = "mayFail", !.trees = OneWayTrees,
                  !.edits = {<<"src", "long">>, <<"src", "other">>},
                  !.maxRuns = 2, !.maxEdits = 1, !.maxFailures = 1]

Mirror == [Update EXCEPT !.mode = "mirror", !.zeroCopy = "no", !.edits = {<<"src", "other">>},
                         !.maxFailures = 0, !.maxKills = 1]

(* Batches of two files; a task of them fails, or its last write is lost. *)
Batched == [Update EXCEPT !.batch = 2, !.maxLost = 1]

(* A write that is lost on either path, and the run that repairs it. *)
Lossy == [Update EXCEPT !.edits = {}, !.maxFailures = 0, !.maxLost = 1]

(* The user edits while the run goes on, and another run follows. *)
Live  == [Update EXCEPT !.duringRun = TRUE, !.maxFailures = 0]

PassingScenarios ==
    [update  |-> Update,
     mirror  |-> Mirror,
     batched |-> Batched,
     lossy   |-> Lossy,
     live    |-> Live,
     liveBatch |-> [Live EXCEPT !.batch = 2],
     sync      |-> [Quiet EXCEPT !.zeroCopy = "mayFail", !.maxFailures = 1, !.maxKills = 1],
     syncBatch |-> [Quiet EXCEPT !.batch = 2, !.maxFailures = 1, !.maxKills = 1]]

MixedSync == [sync |-> [Quiet EXCEPT !.trees = SyncTrees("longer")]]
=============================================================================
