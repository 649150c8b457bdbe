------------------------------ MODULE MCPool ------------------------------
(* Instances of Pool for TLC: four tasks, one of each kind at least.       *)
EXTENDS Pool

MCTasks == 1..4
MCKind  == <<"copyBatch", "delete", "copy", "delete">>
MCBytes == <<2, 0, 1, 0>>
============================================================================
