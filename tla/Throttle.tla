----------------------------- MODULE Throttle -----------------------------
(***************************************************************************)
(* copyWithBandwidth of worker/executor.go in each of the workers of a     *)
(* pool: a chunk is read, the worker sleeps until the chunk is due, and    *)
(* the chunk is written.                                                   *)
(*                                                                         *)
(* The start of a copy and what it has written are variables of the call:  *)
(* every file, and every entry of a batch, starts anew, and the workers    *)
(* know nothing of each other.  Time is counted in the unit of             *)
(* time.Duration; Second is the number of units in a second.               *)
(***************************************************************************)
EXTENDS Integers, FiniteSets, Functions

CONSTANTS
    Workers,    (* the workers of the pool                                 *)
    Limits,     (* what --bandwidth may be                                 *)
    Second,     (* time.Second                                             *)
    FullBuffer, (* 32 * 1024                                               *)
    FileSizes,  (* the sizes of files and batch entries                    *)
    MaxCopies,  (* bound: the copies of a worker                           *)
    MaxTime     (* bound: the time that is looked at                       *)

ASSUME ThrottleAssumption ==
    /\ Limits \subseteq Int
    /\ Second \in Nat \ {0}
    /\ FullBuffer \in Nat \ {0}
    /\ FileSizes \subseteq Nat
    /\ MaxCopies \in Nat /\ MaxTime \in Nat

VARIABLES
    limit,    (* the executor's BandwidthLimit                             *)
    now,      (* the clock                                                 *)
    pc,       (* pc[w]: "idle", "read", "pace" or "write"                  *)
    left,     (* left[w]: the bytes of the file not yet read               *)
    start,    (* start[w]: when the copy started                           *)
    written,  (* written[w]: the bytes it has written                      *)
    chunk,    (* chunk[w]: the bytes in the buffer                         *)
    wake,     (* wake[w]: when the sleep before the write may end          *)
    copies,   (* history: copies[w]: the copies that w has begun           *)
    total     (* history: total[w]: the bytes that w has written           *)

vars == <<limit, now, pc, left, start, written, chunk, wake, copies, total>>

TypeOK ==
    /\ limit \in Limits /\ now \in Nat
    /\ pc \in [Workers -> {"idle", "read", "pace", "write"}]
    /\ left \in [Workers -> Nat] /\ start \in [Workers -> Nat]
    /\ written \in [Workers -> Nat] /\ chunk \in [Workers -> Nat]
    /\ wake \in [Workers -> Nat]
    /\ copies \in [Workers -> Nat] /\ total \in [Workers -> Nat]

Zero == [w \in Workers |-> 0]

Init ==
    /\ limit \in Limits
    /\ now = 0
    /\ pc = [w \in Workers |-> "idle"]
    /\ left = Zero /\ start = Zero /\ written = Zero
    /\ chunk = Zero /\ wake = Zero
    /\ copies = Zero /\ total = Zero

(* Mutated form of BufSize: the buffer is not cut to the limit. *)
BufSizeFull == FullBuffer

(* A second's worth of bytes at most. *)
BufSize == IF limit > 0 /\ FullBuffer > limit THEN limit ELSE FullBuffer

(* A Duration from a float64: the fraction of a unit is cut off. *)
Due(bytes) == (bytes * Second) \div limit

(* Open the next file. *)
Begin(w) ==
    /\ pc[w] = "idle" /\ copies[w] < MaxCopies
    /\ \E size \in FileSizes : left' = [left EXCEPT ![w] = size]
    /\ start' = [start EXCEPT ![w] = now]
    /\ written' = [written EXCEPT ![w] = 0]
    /\ copies' = [copies EXCEPT ![w] = @ + 1]
    /\ pc' = [pc EXCEPT ![w] = "read"]
    /\ UNCHANGED <<limit, now, chunk, wake, total>>

(* Read fills some of the buffer; it takes any time. *)
Read(w) ==
    /\ pc[w] = "read"
    /\ \E n \in 1..BufSize :
          /\ n <= left[w]
          /\ chunk' = [chunk EXCEPT ![w] = n]
          /\ left' = [left EXCEPT ![w] = @ - n]
    /\ pc' = [pc EXCEPT ![w] = "pace"]
    /\ UNCHANGED <<limit, now, start, written, wake, copies, total>>

(* The end of the file, or an error of reading; what is left is dropped.   *)
EndCopy(w) ==
    /\ pc[w] = "read"
    /\ pc' = [pc EXCEPT ![w] = "idle"]
    /\ left' = [left EXCEPT ![w] = 0]
    /\ UNCHANGED <<limit, now, start, written, chunk, wake, copies, total>>

(* Mutated form of WakeAt: the chunk at hand is not counted. *)
WakeAtWritten(w) ==
    IF limit <= 0 THEN now
    ELSE IF Due(written[w]) > now - start[w] THEN start[w] + Due(written[w]) ELSE now

(* Sleep for what is missing; at once without a limit. *)
WakeAt(w) ==
    IF limit <= 0 THEN now
    ELSE IF Due(written[w] + chunk[w]) > now - start[w]
         THEN start[w] + Due(written[w] + chunk[w])
         ELSE now

Pace(w) ==
    /\ pc[w] = "pace"
    /\ wake' = [wake EXCEPT ![w] = WakeAt(w)]
    /\ pc' = [pc EXCEPT ![w] = "write"]
    /\ UNCHANGED <<limit, now, left, start, written, chunk, copies, total>>

(* A write of less than the chunk is an error, which ends the copy. *)
Write(w) ==
    /\ pc[w] = "write"
    /\ now >= wake[w]
    /\ \E n \in 0..chunk[w] :
          /\ written' = [written EXCEPT ![w] = @ + n]
          /\ total' = [total EXCEPT ![w] = @ + n]
          /\ pc' = [pc EXCEPT ![w] = IF n = chunk[w] THEN "read" ELSE "idle"]
          /\ left' = [left EXCEPT ![w] = IF n = chunk[w] THEN @ ELSE 0]
    /\ chunk' = [chunk EXCEPT ![w] = 0]
    /\ wake' = [wake EXCEPT ![w] = 0]
    /\ UNCHANGED <<limit, now, start, copies>>

Tick ==
    /\ now < MaxTime
    /\ now' = now + 1
    /\ UNCHANGED <<limit, pc, left, start, written, chunk, wake, copies, total>>

Worker(w) == Begin(w) \/ Read(w) \/ EndCopy(w) \/ Pace(w) \/ Write(w)

Next == Tick \/ \E w \in Workers : Worker(w)

Spec == Init /\ [][Next]_vars

-----------------------------------------------------------------------------
(* Properties.                                                             *)

(* Over the whole run so far, whatever its copies and their errors, no     *)
(* worker has written more than the limit allows for the time that has     *)
(* passed, but for one unit of time per copy that rounding gives away.  It *)
(* is a bound on each worker: a pool may write that much times the number  *)
(* of its workers, which is more than --bandwidth says.                    *)
RateKept ==
    limit > 0 => \A w \in Workers : total[w] * Second <= (now + copies[w]) * limit

(* A worker that sleeps goes on within a second, however small the limit   *)
(* and however large the file: the buffer never holds more than a second   *)
(* has room for.                                                           *)
SleepsShort ==
    \A w \in Workers : pc[w] = "write" => wake[w] <= now + Second
=============================================================================
