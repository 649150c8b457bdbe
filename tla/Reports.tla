------------------------------ MODULE Reports ------------------------------
(***************************************************************************)
(* The report of a run as an orchestrator keeps it: results of tasks come  *)
(* as messages of agents (distrib/messages.go), are recorded               *)
(* (worker/report.go), and the report is stored and rebuilt                *)
(* (worker/report_enterprise.go).                                          *)
(*                                                                         *)
(* A result holds a slice of entries, that is a reference to an array, and *)
(* whoever holds the slice may write to the array.  The arrays are         *)
(* therefore kept in a heap, and a conversion says whether it makes a new  *)
(* array or shares the one it was given.  A slice without entries, as all  *)
(* results but batches have, is one of an array without entries.           *)
(*                                                                         *)
(* The caller is not in the repository: it calls the exported functions in *)
(* any order, on one message at a time, and goes on using what it holds.   *)
(***************************************************************************)
EXTENDS Integers, Sequences, FiniteSets, Functions

CONSTANTS
    Outcomes,    (* what agents measure: action, dst, bytes, nanos and the
                    sizes of a batch's entries                             *)
    Milli,       (* nanoseconds in a millisecond                           *)
    Scribble,    (* what the caller writes into an array                   *)
    MaxRecords,  (* bound: results recorded                                *)
    MaxArrays,   (* bound: arrays made                                     *)
    None         (* nothing there                                          *)

ASSUME ReportsAssumption ==
    /\ \A o \in Outcomes : /\ o.bytes \in Nat /\ o.nanos \in Nat /\ o.entries \in Seq(Nat)
                           /\ o.action \in {"copy", "copy_batch", "delete", "unknown"}
    /\ Milli \in Nat \ {0} /\ Scribble \in Nat

VARIABLES
    heap,      (* heap[a]: the entries of array a                          *)
    message,   (* the TaskReportMessage at hand                            *)
    result,    (* the TaskReport at hand                                   *)
    report,    (* the Report                                               *)
    listed,    (* what Copies returned last                                *)
    stored,    (* the ReportSnapshot made last                             *)
    measured,  (* history: the outcomes counted by the report              *)
    kept       (* history: the outcomes counted by the snapshot            *)

vars == <<heap, message, result, report, listed, stored, measured, kept>>

Empty == [copies |-> <<>>, deletes |-> <<>>, total |-> 0, completed |-> FALSE]

(* NewReport *)
Init ==
    /\ heap = <<>>
    /\ message = None /\ result = None
    /\ report = Empty
    /\ listed = <<>> /\ stored = None
    /\ measured = <<>> /\ kept = <<>>

-----------------------------------------------------------------------------
(* Slices. *)

Entries(r) == heap[r.array]

(* Mutated form of Clones: the arrays are shared. *)
ClonesShallow(rs, after) == rs

(* cloneTaskReport of each of rs: arrays of their own, after the given.    *)
Clones(rs, after) == [i \in DOMAIN rs |-> [rs[i] EXCEPT !.array = after + i]]

(* What is in the arrays of those clones. *)
Arrays(rs) == [i \in DOMAIN rs |-> Entries(rs[i])]

Clone(r) == Clones(<<r>>, Len(heap))[1]

Room(rs) == Len(heap) + Len(rs) <= MaxArrays

-----------------------------------------------------------------------------
(* distrib: a message and what becomes of it. *)

(* Duration.Milliseconds *)
ToMilli(nanos) == nanos \div Milli

(* An agent has the result of a task and calls ReportToMessage, which      *)
(* copies the entries; an agent may also send an action that is not known. *)
ReportToMessage ==
    /\ message = None /\ Len(measured) < MaxRecords /\ Len(heap) < MaxArrays
    /\ \E o \in Outcomes :
          /\ heap' = Append(heap, o.entries)
          /\ message' = [of |-> o, action |-> o.action, dst |-> o.dst, bytes |-> o.bytes,
                         milli |-> ToMilli(o.nanos),
                         array |-> Len(heap) + 1]
    /\ UNCHANGED <<result, report, listed, stored, measured, kept>>

(* actionFromString *)
Known(action) == action \in {"copy", "copy_batch", "delete"}

(* ToTaskReport copies the entries again, or returns an error. *)
ToTaskReport ==
    /\ message # None /\ result = None /\ Room(<<message>>)
    /\ IF Known(message.action)
       THEN /\ result' = [of |-> message.of, action |-> message.action,
                          dst |-> message.dst, bytes |-> message.bytes,
                          nanos |-> message.milli * Milli, array |-> Clone(message).array]
            /\ heap' = heap \o Arrays(<<message>>)
            /\ UNCHANGED message
       ELSE message' = None /\ UNCHANGED <<result, heap>>
    /\ UNCHANGED <<report, listed, stored, measured, kept>>

-----------------------------------------------------------------------------
(* worker.Report *)

(* Mutated form of Add: batches are listed, but not added up. *)
AddFilesOnly(r) ==
    IF r.action = "delete"
    THEN [report EXCEPT !.deletes = Append(@, Clone(r))]
    ELSE [report EXCEPT !.copies = Append(@, Clone(r)),
                        !.total = IF r.action = "copy" THEN @ + r.bytes ELSE @]

Add(r) ==
    IF r.action = "delete"
    THEN [report EXCEPT !.deletes = Append(@, Clone(r))]
    ELSE [report EXCEPT !.copies = Append(@, Clone(r)), !.total = @ + r.bytes]

(* Record; the caller still has the message and the result for a while. *)
Record ==
    /\ result # None /\ Len(measured) < MaxRecords /\ Room(<<result>>)
    /\ report' = Add(result)
    /\ heap' = heap \o Arrays(<<result>>)
    /\ measured' = Append(measured, result.of)
    /\ UNCHANGED <<message, result, listed, stored, kept>>

(* The caller takes the next message. *)
Release ==
    /\ result # None
    /\ message' = None /\ result' = None
    /\ UNCHANGED <<heap, report, listed, stored, measured, kept>>

(* sort.Slice by destination, which keeps no order among equal ones. *)
Orders(rs) ==
    {s \in {[i \in DOMAIN rs |-> rs[p[i]]] : p \in Bijection(DOMAIN rs, DOMAIN rs)} :
        \A i, j \in DOMAIN rs : i < j => s[i].dst <= s[j].dst}

(* markComplete; more may be recorded after it, and it may be called again *)
Finalize ==
    /\ \E c \in Orders(report.copies), d \in Orders(report.deletes) :
          report' = [report EXCEPT !.copies = c, !.deletes = d, !.completed = TRUE]
    /\ UNCHANGED <<heap, message, result, listed, stored, measured, kept>>

(* Copies; Deletes does the same with the other list, which has no arrays. *)
Copies ==
    /\ Room(report.copies)
    /\ listed' = Clones(report.copies, Len(heap))
    /\ heap' = heap \o Arrays(report.copies)
    /\ UNCHANGED <<message, result, report, stored, measured, kept>>

(* Clones of both lists of a report or a snapshot. *)
Both(r) ==
    [r EXCEPT !.copies = Clones(@, Len(heap)),
              !.deletes = Clones(@, Len(heap) + Len(r.copies))]

Snapshot ==
    /\ Room(report.copies \o report.deletes)
    /\ stored' = Both(report)
    /\ heap' = heap \o Arrays(report.copies \o report.deletes)
    /\ kept' = measured
    /\ UNCHANGED <<message, result, report, listed, measured>>

ReportFromSnapshot ==
    /\ stored # None
    /\ Room(stored.copies \o stored.deletes)
    /\ report' = Both(stored)
    /\ heap' = heap \o Arrays(stored.copies \o stored.deletes)
    /\ measured' = kept
    /\ UNCHANGED <<message, result, listed, stored, kept>>

-----------------------------------------------------------------------------
(* The caller writes to an array that it has by one of its own slices; as  *)
(* a bound, once.                                                          *)

Slices ==
    {r.array : r \in {message, result} \ {None}}
    \cup {listed[i].array : i \in DOMAIN listed}
    \cup (IF stored = None THEN {} ELSE {stored.copies[i].array : i \in DOMAIN stored.copies})

Write ==
    /\ \A a \in DOMAIN heap : Scribble \notin Range(heap[a])
    /\ \E a \in Slices :
          \E i \in DOMAIN heap[a] : heap' = [heap EXCEPT ![a][i] = Scribble]
    /\ UNCHANGED <<message, result, report, listed, stored, measured, kept>>

Next ==
    \/ ReportToMessage \/ ToTaskReport \/ Record \/ Release
    \/ Finalize \/ Copies \/ Snapshot \/ ReportFromSnapshot
    \/ Write

Spec == Init /\ [][Next]_vars

-----------------------------------------------------------------------------
(* Properties.                                                             *)

Objects == {"message", "result", "report", "listed", "stored"}

(* The results an object has, and the entries they show. *)
Results(o) ==
    CASE o = "message" -> IF message = None THEN <<>> ELSE <<message>>
      [] o = "result"  -> IF result = None THEN <<>> ELSE <<result>>
      [] o = "report"  -> report.copies \o report.deletes
      [] o = "listed"  -> listed
      [] o = "stored"  -> IF stored = None THEN <<>> ELSE stored.copies \o stored.deletes

Shown(o) == [i \in DOMAIN Results(o) |-> Entries(Results(o)[i])]

(* A write to the entries of one object is seen in that object alone, and  *)
(* never in the report: messages, results, lists and snapshots are         *)
(* detached from it and from each other, in whatever order they were made. *)
Detached ==
    [][Write => /\ Shown("report")' = Shown("report")
                /\ Cardinality({o \in Objects : Shown(o)' # Shown(o)}) <= 1]_vars

(* What is known of an outcome after it went through a message. *)
Sent(o) == [action |-> o.action, dst |-> o.dst, bytes |-> o.bytes,
            nanos |-> Milli * (o.nanos \div Milli)]

Fields(r) == [action |-> r.action, dst |-> r.dst, bytes |-> r.bytes, nanos |-> r.nanos]

(* How often each value of op occurs at the places I of s. *)
Tally(s, I, op(_)) ==
    [v \in {op(s[i]) : i \in I} |-> Cardinality({i \in I : op(s[i]) = v})]

(* copyCount of an action with that many entries. *)
Files(action, entries) == IF action = "copy_batch" THEN entries ELSE 1

(* copiedFileCount *)
CopiedFileCount(rs) ==
    SumFunction([i \in DOMAIN rs |-> Files(rs[i].action, Len(Entries(rs[i])))])

Counts(r, outcomes) ==
    LET deleted == {i \in DOMAIN outcomes : outcomes[i].action = "delete"}
        copied  == DOMAIN outcomes \ deleted
    IN  /\ Tally(r.copies, DOMAIN r.copies, Fields) = Tally(outcomes, copied, Sent)
        /\ Tally(r.deletes, DOMAIN r.deletes, Fields) = Tally(outcomes, deleted, Sent)
        /\ r.total = SumFunction([i \in copied |-> outcomes[i].bytes])
        /\ CopiedFileCount(r.copies) = SumFunction([i \in copied |->
               Files(outcomes[i].action, Len(outcomes[i].entries))])

(* The report counts exactly the outcomes recorded, each as it was         *)
(* measured but for the fraction of a millisecond, with the bytes and the  *)
(* files they add up to: through messages, finalizing, storing, rebuilding *)
(* and recording after that.  The snapshot counts what it was made of.     *)
AsMeasured ==
    /\ Counts(report, measured)
    /\ stored # None => Counts(stored, kept)
=============================================================================
