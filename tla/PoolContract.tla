--------------------------- MODULE PoolContract ---------------------------
(***************************************************************************)
(* What a caller of worker.Pool.Run (internal/worker/pool.go) relies on:   *)
(* every task taken from the channel is executed once, and Run answers     *)
(* only after the channel is closed and every task taken has finished,     *)
(* with a report of exactly the tasks that succeeded and with the error of *)
(* one of those that failed, if any did.  How the work is spread over      *)
(* goroutines and how outcomes travel back is not visible here.            *)
(***************************************************************************)

CONSTANTS
    Tasks,      (* the tasks a run may be handed                           *)
    NoTask      (* the absence of a task, and of an error                  *)

VARIABLES
    open,       (* the caller may still hand over tasks                    *)
    given,      (* the tasks taken from the channel                        *)
    ok,         (* those whose execution succeeded                         *)
    bad,        (* those whose execution failed                            *)
    returned,   (* Run has returned                                        *)
    reported,   (* the tasks listed in the report Run returned             *)
    err         (* the task whose error Run returned, or NoTask            *)

vars == <<open, given, ok, bad, returned, reported, err>>

Init ==
    /\ open = TRUE
    /\ given = {} /\ ok = {} /\ bad = {}
    /\ returned = FALSE /\ reported = {} /\ err = NoTask

(* A task is taken from the channel; no task is taken twice. *)
Take(t) ==
    /\ open
    /\ t \notin given
    /\ given' = given \cup {t}
    /\ UNCHANGED <<open, ok, bad, returned, reported, err>>

(* The caller closes the channel. *)
Close ==
    /\ open
    /\ open' = FALSE
    /\ UNCHANGED <<given, ok, bad, returned, reported, err>>

(* A task taken is executed, once, and succeeds or fails. *)
Succeed(t) ==
    /\ t \in given \ (ok \cup bad)
    /\ ok' = ok \cup {t}
    /\ UNCHANGED <<open, given, bad, returned, reported, err>>

Fail(t) ==
    /\ t \in given \ (ok \cup bad)
    /\ bad' = bad \cup {t}
    /\ UNCHANGED <<open, given, ok, returned, reported, err>>

(* Run answers for all the tasks, and for no others. *)
Return ==
    /\ ~open /\ ~returned
    /\ given = ok \cup bad
    /\ returned' = TRUE
    /\ reported' = ok
    /\ IF bad = {} THEN err' = NoTask ELSE err' \in bad
    /\ UNCHANGED <<open, given, ok, bad>>

Next ==
    \/ \E t \in Tasks : Take(t) \/ Succeed(t) \/ Fail(t)
    \/ Close
    \/ Return

Spec == Init /\ [][Next]_vars
============================================================================
