----------------------------- MODULE MCSyncRun -----------------------------
(* Instances of SyncRun for TLC: a plan of three tasks.                    *)
EXTENDS SyncRun

MCTasks == 1..3
MCKind  == <<"copy", "delete", "copyBatch">>
MCBytes == <<1, 0, 2>>
============================================================================
