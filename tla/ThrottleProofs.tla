--------------------------- MODULE ThrottleProofs ---------------------------
(***************************************************************************)
(* Proofs about Throttle, for any limits, sizes, buffers and units of      *)
(* time, and any number of workers.  The products of bytes and time are    *)
(* not linear; FoldTheorems says all that is needed of them.               *)
(***************************************************************************)
EXTENDS Throttle, FoldTheorems

-----------------------------------------------------------------------------
(* The inductive invariant.  RateKept alone is not inductive: while a copy *)
(* is under way its own bytes are bounded by its own time, and those of    *)
(* the copies before it by the time until it started.                      *)

(* The bytes of the copies before the one under way. *)
Before(w) == total[w] - written[w]

BetweenCopies(w) == total[w] * Second <= (now + copies[w]) * limit

InCopy(w) ==
    /\ copies[w] >= 1 /\ start[w] <= now /\ written[w] <= total[w]
    /\ Before(w) * Second <= (start[w] + copies[w] - 1) * limit
    /\ written[w] * Second < (now - start[w] + 1) * limit

(* A chunk that may be written when the sleep is over. *)
ChunkDue(w) ==
    /\ start[w] <= wake[w]
    /\ (written[w] + chunk[w]) * Second < (wake[w] - start[w] + 1) * limit

PaceOf(w) ==
    /\ pc[w] = "idle" => BetweenCopies(w)
    /\ pc[w] # "idle" => InCopy(w)
    /\ pc[w] \in {"pace", "write"} => chunk[w] <= limit
    /\ pc[w] = "write" => ChunkDue(w)

PaceInv == /\ limit > 0 => \A w \in Workers : PaceOf(w)
           /\ SleepsShort

IInv == TypeOK /\ PaceInv

(* The types of the variables of one worker, as the arithmetic needs them. *)
LEMMA WorkerTypes ==
    ASSUME TypeOK, NEW w \in Workers
    PROVE  /\ limit \in Int /\ now \in Nat /\ Second \in Nat \ {0}
           /\ left[w] \in Nat /\ start[w] \in Nat /\ written[w] \in Nat
           /\ chunk[w] \in Nat /\ wake[w] \in Nat /\ copies[w] \in Nat
           /\ total[w] \in Nat
BY ThrottleAssumption DEF ThrottleAssumption, TypeOK

(* The parts of what a worker has written, before this copy and in it, add *)
(* up to RateKept.                                                         *)
LEMMA InCopyIsSlow ==
    ASSUME TypeOK, limit > 0, NEW w \in Workers, InCopy(w)
    PROVE  BetweenCopies(w)
<1> DEFINE b == Before(w)
           e == written[w]
<1>1. /\ b \in Nat /\ e \in Nat /\ total[w] = b + e /\ Second \in Nat
      /\ limit \in Nat /\ now \in Nat /\ start[w] \in Nat /\ copies[w] \in Nat
    BY WorkerTypes DEF InCopy, Before
<1>2. total[w] * Second = b * Second + e * Second
    BY <1>1, TimesSum
<1>3. (now + copies[w]) * limit
         = (start[w] + copies[w] - 1) * limit + (now - start[w] + 1) * limit
  <2>1. now + copies[w] = (start[w] + copies[w] - 1) + (now - start[w] + 1)
      BY <1>1
  <2>2. start[w] + copies[w] - 1 \in Int /\ now - start[w] + 1 \in Int
      BY <1>1
  <2> QED BY <1>1, <2>1, <2>2, TimesSum
<1>4. b * Second <= (start[w] + copies[w] - 1) * limit
    BY DEF InCopy
<1>5. e * Second < (now - start[w] + 1) * limit
    BY DEF InCopy
<1>6. /\ b * Second \in Int /\ e * Second \in Int
      /\ (start[w] + copies[w] - 1) * limit \in Int /\ (now - start[w] + 1) * limit \in Int
    BY <1>1
<1> HIDE DEF b, e
<1>7. b * Second + e * Second
         <= (start[w] + copies[w] - 1) * limit + (now - start[w] + 1) * limit
    BY <1>4, <1>5, <1>6
<1> QED BY <1>2, <1>3, <1>7 DEF BetweenCopies

(* A worker that does nothing while the clock goes on stays in its bounds. *)
LEMMA TimePasses ==
    ASSUME TypeOK, limit > 0, NEW w \in Workers, PaceOf(w),
           UNCHANGED <<limit, pc, start, written, chunk, wake, copies, total>>,
           now' \in Nat, now <= now'
    PROVE  PaceOf(w)'
<1>1. /\ limit \in Nat /\ now \in Nat /\ start[w] \in Nat /\ copies[w] \in Nat
      /\ total[w] \in Nat /\ written[w] \in Nat /\ Second \in Nat
    BY WorkerTypes
<1>2. BetweenCopies(w) => BetweenCopies(w)'
  <2>1. (now + copies[w]) * limit <= (now' + copies[w]) * limit
      BY <1>1, TimesMonotone
  <2>2. total[w] * Second \in Int /\ (now + copies[w]) * limit \in Int
        /\ (now' + copies[w]) * limit \in Int
      BY <1>1
  <2> QED BY <2>1, <2>2 DEF BetweenCopies
<1>3. InCopy(w) => InCopy(w)'
  <2>1. (now - start[w] + 1) * limit <= (now' - start[w] + 1) * limit
      BY <1>1, TimesMonotone
  <2>2. written[w] * Second \in Int /\ (now - start[w] + 1) * limit \in Int
        /\ (now' - start[w] + 1) * limit \in Int
      BY <1>1
  <2>3. InCopy(w) => written[w] * Second < (now' - start[w] + 1) * limit
      BY <2>1, <2>2 DEF InCopy
  <2>4. InCopy(w) => start[w] <= now'
      BY <1>1 DEF InCopy
  <2> QED BY <2>3, <2>4 DEF InCopy, Before
<1>4. ChunkDue(w) => ChunkDue(w)'
    BY DEF ChunkDue
<1> QED BY <1>2, <1>3, <1>4 DEF PaceOf

(* A worker is not touched by the steps of another. *)
LEMMA OthersKept ==
    ASSUME NEW v \in Workers, PaceOf(v), UNCHANGED <<limit, now>>,
           pc'[v] = pc[v], start'[v] = start[v], written'[v] = written[v],
           chunk'[v] = chunk[v], wake'[v] = wake[v], copies'[v] = copies[v],
           total'[v] = total[v]
    PROVE  PaceOf(v)'
BY DEF PaceOf, BetweenCopies, InCopy, ChunkDue, Before

-----------------------------------------------------------------------------
(* The steps.                                                              *)

LEMMA BufSizeRange ==
    ASSUME TypeOK
    PROVE  BufSize \in Nat \ {0} /\ (limit > 0 => BufSize <= limit)
BY ThrottleAssumption DEF ThrottleAssumption, TypeOK, BufSize

LEMMA InitInv == Init => IInv
<1> SUFFICES ASSUME Init PROVE IInv
    OBVIOUS
<1>1. TypeOK
    BY DEF Init, TypeOK, Zero
<1>2. ASSUME limit > 0, NEW w \in Workers PROVE PaceOf(w)
    BY <1>1, <1>2, WorkerTypes DEF Init, Zero, PaceOf, BetweenCopies
<1> QED BY <1>1, <1>2 DEF IInv, PaceInv, SleepsShort, Init

LEMMA TickInv == ASSUME IInv, Tick PROVE IInv'
<1>1. now \in Nat /\ now' = now + 1
      /\ UNCHANGED <<limit, pc, left, start, written, chunk, wake, copies, total>>
    BY DEF Tick, IInv, TypeOK
<1>2. TypeOK'
    BY <1>1 DEF IInv, TypeOK
<1>3. ASSUME limit' > 0, NEW w \in Workers PROVE PaceOf(w)'
    BY <1>1, <1>3, TimePasses DEF IInv, PaceInv
<1>4. SleepsShort'
    BY <1>1, WorkerTypes DEF IInv, PaceInv, SleepsShort
<1> QED BY <1>2, <1>3, <1>4 DEF IInv, PaceInv

LEMMA BeginInv == ASSUME IInv, NEW w \in Workers, Begin(w) PROVE IInv'
<1>1. /\ pc[w] = "idle" /\ pc' = [pc EXCEPT ![w] = "read"]
      /\ start' = [start EXCEPT ![w] = now] /\ written' = [written EXCEPT ![w] = 0]
      /\ copies' = [copies EXCEPT ![w] = copies[w] + 1]
      /\ UNCHANGED <<limit, now, chunk, wake, total>>
    BY DEF Begin
<1>2. TypeOK'
  <2>1. PICK size \in FileSizes : left' = [left EXCEPT ![w] = size]
      BY DEF Begin
  <2>2. size \in Nat
      BY ThrottleAssumption DEF ThrottleAssumption
  <2>3. /\ limit \in Limits /\ now \in Nat /\ chunk \in [Workers -> Nat]
        /\ wake \in [Workers -> Nat] /\ total \in [Workers -> Nat]
        /\ start' \in [Workers -> Nat] /\ written' \in [Workers -> Nat]
        /\ left' \in [Workers -> Nat]
      BY <1>1, <2>1, <2>2 DEF IInv, TypeOK
  <2>4. /\ copies' \in [Workers -> Nat]
        /\ pc' \in [Workers -> {"idle", "read", "pace", "write"}]
      BY <1>1 DEF IInv, TypeOK
  <2> QED BY <1>1, <2>3, <2>4 DEF TypeOK
<1>3. /\ pc'[w] = "read" /\ start'[w] = now /\ written'[w] = 0
      /\ copies'[w] = copies[w] + 1 /\ total'[w] = total[w]
    BY <1>1 DEF IInv, TypeOK
<1>4. ASSUME limit' > 0, NEW v \in Workers PROVE PaceOf(v)'
  <2>1. CASE v # w
      BY <1>1, <1>4, <2>1, OthersKept DEF IInv, PaceInv, TypeOK
  <2>2. CASE v = w
    <3>1. BetweenCopies(w) /\ limit > 0
        BY <1>1, <1>4 DEF IInv, PaceInv, PaceOf
    <3>2. /\ now \in Nat /\ limit \in Nat /\ copies[w] \in Nat /\ total[w] \in Nat
          /\ Second \in Nat
        BY <3>1, WorkerTypes DEF IInv
    <3>3. Before(w)' = total[w] /\ start'[w] + copies'[w] - 1 = now + copies[w]
        BY <1>3, <3>2 DEF Before
    <3>4. 0 * Second < (now - now + 1) * limit
        BY <3>1, <3>2
    <3>5. InCopy(w)'
        BY <1>1, <1>3, <3>1, <3>2, <3>3, <3>4 DEF InCopy, BetweenCopies
    <3> QED BY <1>3, <2>2, <3>5 DEF PaceOf
  <2> QED BY <2>1, <2>2
<1>5. SleepsShort'
    BY <1>1 DEF IInv, TypeOK, PaceInv, SleepsShort
<1> QED BY <1>2, <1>4, <1>5 DEF IInv, PaceInv

(* A chunk has no more bytes than a second has room for. *)
LEMMA ReadInv == ASSUME IInv, NEW w \in Workers, Read(w) PROVE IInv'
<1>1. PICK n \in 1..BufSize :
          /\ n <= left[w]
          /\ chunk' = [chunk EXCEPT ![w] = n]
          /\ left' = [left EXCEPT ![w] = left[w] - n]
    BY DEF Read
<1>2. /\ pc[w] = "read" /\ pc' = [pc EXCEPT ![w] = "pace"]
      /\ UNCHANGED <<limit, now, start, written, wake, copies, total>>
    BY DEF Read
<1>3. n \in Nat /\ (limit > 0 => n <= limit)
  <2>1. BufSize \in Nat \ {0} /\ (limit > 0 => BufSize <= limit) /\ limit \in Int
      BY BufSizeRange, WorkerTypes DEF IInv
  <2> QED BY <2>1
<1>4. TypeOK'
    BY <1>1, <1>2, <1>3 DEF IInv, TypeOK
<1>5. ASSUME limit' > 0, NEW v \in Workers PROVE PaceOf(v)'
  <2>1. CASE v # w
      BY <1>1, <1>2, <1>5, <2>1, OthersKept DEF IInv, PaceInv, TypeOK
  <2>2. CASE v = w
    <3>1. InCopy(w) /\ limit > 0
        BY <1>2, <1>5 DEF IInv, PaceInv, PaceOf
    <3>2. InCopy(w)'
        BY <1>2, <3>1 DEF InCopy, Before
    <3> QED BY <1>1, <1>2, <1>3, <2>2, <3>1, <3>2 DEF PaceOf, IInv, TypeOK
  <2> QED BY <2>1, <2>2
<1>6. SleepsShort'
    BY <1>2 DEF IInv, TypeOK, PaceInv, SleepsShort
<1> QED BY <1>4, <1>5, <1>6 DEF IInv, PaceInv

LEMMA EndCopyInv == ASSUME IInv, NEW w \in Workers, EndCopy(w) PROVE IInv'
<1>1. /\ pc[w] = "read" /\ pc' = [pc EXCEPT ![w] = "idle"]
      /\ left' = [left EXCEPT ![w] = 0]
      /\ UNCHANGED <<limit, now, start, written, chunk, wake, copies, total>>
    BY DEF EndCopy
<1>2. TypeOK'
    BY <1>1 DEF IInv, TypeOK
<1>3. ASSUME limit' > 0, NEW v \in Workers PROVE PaceOf(v)'
  <2>1. CASE v # w
      BY <1>1, <1>3, <2>1, OthersKept DEF IInv, PaceInv, TypeOK
  <2>2. CASE v = w
    <3>1. BetweenCopies(w)
        BY <1>1, <1>3, InCopyIsSlow DEF IInv, PaceInv, PaceOf
    <3> QED BY <1>1, <2>2, <3>1 DEF PaceOf, BetweenCopies, IInv, TypeOK
  <2> QED BY <2>1, <2>2
<1>4. SleepsShort'
    BY <1>1 DEF IInv, TypeOK, PaceInv, SleepsShort
<1> QED BY <1>2, <1>3, <1>4 DEF IInv, PaceInv

(* The sleep is as long as the chunk needs, and no longer than a second.   *)
LEMMA WakeIsDue ==
    ASSUME IInv, NEW w \in Workers, limit > 0, InCopy(w), chunk[w] <= limit
    PROVE  /\ WakeAt(w) \in Nat /\ start[w] <= WakeAt(w) /\ WakeAt(w) <= now + Second
           /\ (written[w] + chunk[w]) * Second < (WakeAt(w) - start[w] + 1) * limit
<1> DEFINE b == written[w] + chunk[w]
           d == (b * Second) \div limit
           t == now - start[w]
<1>1. /\ limit \in Nat \ {0} /\ now \in Nat /\ start[w] \in Nat /\ written[w] \in Nat
      /\ chunk[w] \in Nat /\ Second \in Nat \ {0} /\ t \in Nat /\ start[w] <= now
    BY WorkerTypes DEF IInv, InCopy
<1>2. b \in Nat /\ b * Second \in Nat
    BY <1>1
<1>3. d \in Nat /\ d * limit <= b * Second /\ b * Second < (d + 1) * limit
    BY <1>1, <1>2, DivRange
<1>4. WakeAt(w) = IF d > t THEN start[w] + d ELSE now
    BY <1>1 DEF WakeAt, Due
<1>5. d < t + 1 + Second
  <2>1. b * Second = written[w] * Second + chunk[w] * Second
      BY <1>1, TimesSum
  <2>2. chunk[w] * Second <= limit * Second
      BY <1>1, TimesMonotone
  <2>3. written[w] * Second < (t + 1) * limit
      BY DEF InCopy
  <2>4. (t + 1 + Second) * limit = (t + 1) * limit + Second * limit
      BY <1>1, TimesSum
  <2>5. limit * Second = Second * limit
      BY <1>1
  <2>6. /\ b * Second \in Int /\ written[w] * Second \in Int /\ chunk[w] * Second \in Int
        /\ limit * Second \in Int /\ (t + 1) * limit \in Int /\ d * limit \in Int
      BY <1>1, <1>2, <1>3
  <2> HIDE DEF b, d, t
  <2>7. d * limit < (t + 1 + Second) * limit
      BY <1>3, <2>1, <2>2, <2>3, <2>4, <2>5, <2>6
  <2> QED BY <1>1, <1>3, <2>7, TimesCancel
<1>6. CASE d > t
  <2>1. WakeAt(w) = start[w] + d /\ WakeAt(w) - start[w] + 1 = d + 1
      BY <1>1, <1>3, <1>4, <1>6
  <2> HIDE DEF d
  <2> QED BY <1>1, <1>3, <1>5, <2>1
<1>7. CASE ~(d > t)
  <2>1. WakeAt(w) = now
      BY <1>4, <1>7
  <2>2. (d + 1) * limit <= (t + 1) * limit
      BY <1>1, <1>3, <1>7, TimesMonotone
  <2>3. (d + 1) * limit \in Int /\ (t + 1) * limit \in Int
      BY <1>1, <1>3
  <2>4. b * Second < (t + 1) * limit
      BY <1>2, <1>3, <2>2, <2>3
  <2> QED BY <1>1, <2>1, <2>4
<1> QED BY <1>6, <1>7

LEMMA PaceStepInv == ASSUME IInv, NEW w \in Workers, Pace(w) PROVE IInv'
<1>1. /\ pc[w] = "pace" /\ pc' = [pc EXCEPT ![w] = "write"]
      /\ wake' = [wake EXCEPT ![w] = WakeAt(w)]
      /\ UNCHANGED <<limit, now, left, start, written, chunk, copies, total>>
    BY DEF Pace
<1>2. limit > 0 => InCopy(w) /\ chunk[w] <= limit
    BY <1>1 DEF IInv, PaceInv, PaceOf
<1>3. WakeAt(w) \in Nat /\ WakeAt(w) <= now + Second
  <2>1. CASE limit > 0
      BY <1>2, <2>1, WakeIsDue
  <2>2. CASE ~(limit > 0)
    <3>1. limit \in Int /\ now \in Nat /\ Second \in Nat
        BY WorkerTypes DEF IInv
    <3> QED BY <2>2, <3>1 DEF WakeAt
  <2> QED BY <2>1, <2>2
<1>4. TypeOK'
    BY <1>1, <1>3 DEF IInv, TypeOK
<1>5. wake'[w] = WakeAt(w) /\ pc'[w] = "write"
    BY <1>1 DEF IInv, TypeOK
<1>6. ASSUME limit' > 0, NEW v \in Workers PROVE PaceOf(v)'
  <2>1. CASE v # w
      BY <1>1, <1>6, <2>1, OthersKept DEF IInv, PaceInv, TypeOK
  <2>2. CASE v = w
    <3>1. InCopy(w)'
        BY <1>1, <1>2, <1>6 DEF InCopy, Before
    <3>2. ChunkDue(w)'
        BY <1>1, <1>2, <1>5, <1>6, WakeIsDue DEF ChunkDue
    <3> QED BY <1>1, <1>2, <1>5, <1>6, <2>2, <3>1, <3>2 DEF PaceOf
  <2> QED BY <2>1, <2>2
<1>7. SleepsShort'
    BY <1>1, <1>3 DEF IInv, TypeOK, PaceInv, SleepsShort
<1> QED BY <1>4, <1>6, <1>7 DEF IInv, PaceInv

(* What is written, of a chunk whose time has come, stays within the time  *)
(* of the copy, if all of it is written or only a part.                    *)
LEMMA WriteInv == ASSUME IInv, NEW w \in Workers, Write(w) PROVE IInv'
<1>1. pc[w] = "write" /\ now >= wake[w] /\ UNCHANGED <<limit, now, start, copies>>
      /\ chunk' = [chunk EXCEPT ![w] = 0] /\ wake' = [wake EXCEPT ![w] = 0]
    BY DEF Write
<1>2. PICK n \in 0..chunk[w] :
          /\ written' = [written EXCEPT ![w] = written[w] + n]
          /\ total' = [total EXCEPT ![w] = total[w] + n]
          /\ pc' = [pc EXCEPT ![w] = IF n = chunk[w] THEN "read" ELSE "idle"]
          /\ left' = [left EXCEPT ![w] = IF n = chunk[w] THEN left[w] ELSE 0]
    BY DEF Write
<1>3. /\ now \in Nat /\ start[w] \in Nat /\ written[w] \in Nat /\ chunk[w] \in Nat
      /\ wake[w] \in Nat /\ total[w] \in Nat /\ copies[w] \in Nat
      /\ Second \in Nat \ {0} /\ limit \in Int
      /\ n \in Nat /\ n <= chunk[w]
    BY WorkerTypes DEF IInv
<1>4. TypeOK'
    BY <1>1, <1>2, <1>3 DEF IInv, TypeOK
<1>5. /\ written'[w] = written[w] + n /\ total'[w] = total[w] + n
      /\ pc'[w] \in {"read", "idle"}
    BY <1>2 DEF IInv, TypeOK
<1>6. ASSUME limit' > 0, NEW v \in Workers PROVE PaceOf(v)'
  <2>1. CASE v # w
      BY <1>1, <1>2, <1>6, <2>1, OthersKept DEF IInv, PaceInv, TypeOK
  <2>2. CASE v = w
    <3>1. InCopy(w) /\ ChunkDue(w) /\ limit > 0
        BY <1>1, <1>6 DEF IInv, PaceInv, PaceOf
    <3>2. (written[w] + n) * Second <= (written[w] + chunk[w]) * Second
        BY <1>3, TimesMonotone
    <3>3. (wake[w] - start[w] + 1) * limit <= (now - start[w] + 1) * limit
      <4>1. /\ wake[w] - start[w] + 1 \in Int /\ now - start[w] + 1 \in Int
            /\ wake[w] - start[w] + 1 <= now - start[w] + 1 /\ limit \in Nat
          BY <1>1, <1>3, <3>1
      <4> QED BY <4>1, TimesMonotone
    <3>4. (written[w] + n) * Second < (now - start[w] + 1) * limit
      <4>1. /\ (written[w] + n) * Second \in Int
            /\ (written[w] + chunk[w]) * Second \in Int
            /\ (wake[w] - start[w] + 1) * limit \in Int
            /\ (now - start[w] + 1) * limit \in Int
          BY <1>3
      <4> QED BY <3>1, <3>2, <3>3, <4>1 DEF ChunkDue
    <3>5. Before(w)' = Before(w) /\ written'[w] <= total'[w]
        BY <1>3, <1>5, <3>1 DEF Before, InCopy
    <3>6. InCopy(w)'
        BY <1>1, <1>5, <3>1, <3>4, <3>5 DEF InCopy
    <3>7. (TypeOK /\ limit > 0 /\ InCopy(w) => BetweenCopies(w))'
        BY InCopyIsSlow, PTL
    <3>8. BetweenCopies(w)'
        BY <1>4, <1>6, <3>6, <3>7
    <3> QED BY <1>5, <2>2, <3>6, <3>8 DEF PaceOf
  <2> QED BY <2>1, <2>2
<1>7. SleepsShort'
    BY <1>1, <1>2, <1>5 DEF IInv, TypeOK, PaceInv, SleepsShort
<1> QED BY <1>4, <1>6, <1>7 DEF IInv, PaceInv

(* Every step keeps the invariant: one case for each action. *)
LEMMA StepInv == IInv /\ [Next]_vars => IInv'
<1> SUFFICES ASSUME IInv, [Next]_vars PROVE IInv'
    OBVIOUS
<1>1. CASE Tick
    BY <1>1, TickInv
<1>2. ASSUME NEW w \in Workers, Worker(w) PROVE IInv'
    BY <1>2, BeginInv, ReadInv, EndCopyInv, PaceStepInv, WriteInv DEF Worker
<1>3. CASE UNCHANGED vars
  <2>1. UNCHANGED <<limit, now, pc, left, start, written, chunk, wake, copies, total>>
      BY <1>3 DEF vars
  <2>2. TypeOK'
      BY <2>1 DEF IInv, TypeOK
  <2>3. ASSUME limit' > 0, NEW v \in Workers PROVE PaceOf(v)'
      BY <2>1, <2>3, OthersKept DEF IInv, PaceInv
  <2> QED BY <2>1, <2>2, <2>3 DEF IInv, PaceInv, SleepsShort
<1> QED BY <1>1, <1>2, <1>3 DEF Next

-----------------------------------------------------------------------------
(* The properties.                                                         *)

THEOREM IInvariance == Spec => []IInv
BY InitInv, StepInv, PTL DEF Spec

(* No worker ever exceeds the limit but for the rounding of each copy,     *)
(* whatever the limit, the sizes, the lengths of reads and the errors.     *)
THEOREM RateIsKept == Spec => []RateKept
<1>1. IInv => RateKept
    BY InCopyIsSlow DEF IInv, PaceInv, PaceOf, BetweenCopies, RateKept
<1> QED BY <1>1, IInvariance, PTL

(* No sleep is longer than a second, however small the limit.              *)
THEOREM SleepsAreShort == Spec => []SleepsShort
<1>1. IInv => SleepsShort
    BY DEF IInv, PaceInv
<1> QED BY <1>1, IInvariance, PTL
=============================================================================
