---------------------------- MODULE MCReports ----------------------------
(* Instances of Reports for TLC: a file, two batches of which one has the  *)
(* destination of the file, a delete, and an action that is not known; the *)
(* durations are no whole numbers of milliseconds.                         *)
EXTENDS Reports

Outcome(action, dst, bytes, nanos, entries) ==
    [action |-> action, dst |-> dst, bytes |-> bytes, nanos |-> nanos, entries |-> entries]

MCOutcomes ==
    { Outcome("copy", 2, 7, 35, <<>>),
      Outcome("copy_batch", 1, 3, 19, <<1, 2>>),
      Outcome("copy_batch", 2, 4, 20, <<4>>),
      Outcome("delete", 1, 0, 9, <<>>),
      Outcome("unknown", 1, 5, 10, <<>>) }
============================================================================
