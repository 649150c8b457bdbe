---------------------------- MODULE ScanContract ----------------------------
(***************************************************************************)
(* What the commands (internal/cli/scansync.go) rely on of scanner.Scan:   *)
(* it hands over work of its plan, piece by piece and none of it twice,    *)
(* and returns once; it returns nil only when nothing of the plan is left. *)
(* How the work is packed in tasks, and in which order it comes, is not    *)
(* visible here.                                                           *)
(***************************************************************************)

VARIABLES
    plan,     (* the operations that the two trees call for                *)
    sent,     (* those handed over                                         *)
    outcome   (* "none" while Scan runs, then "ok" or "failed"             *)

vars == <<plan, sent, outcome>>

Init == sent = {} /\ outcome = "none"

(* Some more of the plan is handed over; Scan may end, in success only     *)
(* with the plan complete.                                                 *)
Go ==
    /\ outcome = "none"
    /\ sent \subseteq sent' /\ sent' \subseteq plan
    /\ outcome' \in {"none", "ok", "failed"}
    /\ outcome' = "ok" => sent' = plan
    /\ UNCHANGED plan

Spec == Init /\ [][Go]_vars
=============================================================================
