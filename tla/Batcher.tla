------------------------------ MODULE Batcher ------------------------------
(***************************************************************************)
(* copyBatcher (internal/scanner/scanner.go): consecutive copies of small  *)
(* files are packed in one copyBatch task that carries a tar archive of    *)
(* their contents.  The size of a file is known from the snapshot; its     *)
(* contents are read when the file is added, so they may have another      *)
(* length by then, or the file may be gone.                                *)
(*                                                                         *)
(* A copy is a record with the key of the file, the side it is copied      *)
(* from, its size in the snapshot and whether it is a symbolic link.  Of   *)
(* the archive only the length of each member is kept.                     *)
(***************************************************************************)
EXTENDS Integers, Sequences

CONSTANT
    Unreadable  (* instead of a length: the file cannot be opened          *)

ASSUME BatcherAssumption == Unreadable \notin Nat

VARIABLES
    opts,   (* Options: threshold, maxFiles and maxBytes, where a limit    *)
            (* that is not positive is none                                *)
    batch,  (* the batch being built                                       *)
    out,    (* the tasks sent so far                                       *)
    err     (* what made Add or Flush fail, "none" if nothing did          *)

batcherVars == <<batch, out, err>>

(* reset: no entries, no bytes, no tar writer.  members[i] is what the     *)
(* archive promises for entry i in its header and what was written.        *)
Empty == [open |-> FALSE, entries |-> <<>>, members |-> <<>>, totalBytes |-> 0]

BatcherInit == batch = Empty /\ out = <<>> /\ err = "none"

(* The tasks of type task.Task. *)
CopyTask(c)   == [action |-> "copy", copies |-> <<c>>]
BatchTask(b)  == [action |-> "copyBatch", copies |-> b.entries, members |-> b.members]
DeleteTask(k) == [action |-> "delete", key |-> k]

-----------------------------------------------------------------------------
Enabled == opts.threshold > 0

CanAdd(size) ==
    /\ opts.maxFiles > 0 => Len(batch.entries) < opts.maxFiles
    /\ opts.maxBytes > 0 => batch.totalBytes + size <= opts.maxBytes

ReachedLimits(b) ==
    \/ opts.maxFiles > 0 /\ Len(b.entries) >= opts.maxFiles
    \/ opts.maxBytes > 0 /\ b.totalBytes >= opts.maxBytes

(* tar.FileInfoHeader: the header of a symbolic link promises no content. *)
HeaderSize(c) == IF c.link THEN 0 ELSE c.size

(* Mutated form of LastShort: the errors of the tar writer are ignored. *)
LastShortNever(b) == FALSE

(* archive/tar: neither the next header nor the end of the archive can be  *)
(* written while the last member is short of what its header promises.     *)
LastShort(b) ==
    /\ b.members # <<>>
    /\ LET m == b.members[Len(b.members)] IN m.written < m.size

(* Flush of batch b: fails, or sends what there is; b is empty afterwards. *)
FlushFails(b) == b.entries # <<>> /\ LastShort(b)
Flushed(b)    == IF b.entries = <<>> THEN <<>> ELSE <<BatchTask(b)>>

Fail(e, sent, b) ==
    /\ err' = e
    /\ out' = out \o sent
    /\ batch' = b

Flush ==
    IF Enabled /\ FlushFails(batch)
    THEN Fail("short", <<>>, batch)
    ELSE /\ out' = out \o Flushed(batch)
         /\ batch' = Empty
         /\ UNCHANGED err

-----------------------------------------------------------------------------
(* Add: batching is off. *)
AddUnbatched(c) ==
    /\ ~Enabled
    /\ out' = Append(out, CopyTask(c))
    /\ UNCHANGED <<batch, err>>

(* Mutated form of AddLarge: a large file overtakes the batch. *)
AddLargeFirst(c) ==
    /\ Enabled
    /\ c.size > opts.threshold
    /\ out' = Append(out, CopyTask(c))
    /\ UNCHANGED <<batch, err>>

(* Add: a large file is copied on its own, after the batch. *)
AddLarge(c) ==
    /\ Enabled
    /\ c.size > opts.threshold
    /\ IF FlushFails(batch)
       THEN Fail("short", <<>>, batch)
       ELSE /\ out' = out \o Append(Flushed(batch), CopyTask(c))
            /\ batch' = Empty
            /\ UNCHANGED err

(* Mutated form of Extended: the bytes written are counted. *)
ExtendedByWritten(b, c, n) ==
    [open |-> TRUE,
     entries |-> Append(b.entries, c),
     members |-> Append(b.members, [size |-> HeaderSize(c), written |-> n]),
     totalBytes |-> b.totalBytes + n]

(* Batch b with the copy c, of whose contents n bytes fitted the archive. *)
Extended(b, c, n) ==
    [open |-> TRUE,
     entries |-> Append(b.entries, c),
     members |-> Append(b.members, [size |-> HeaderSize(c), written |-> n]),
     totalBytes |-> b.totalBytes + c.size]

(* Mutated form of Store: the limits are not looked at after an addition. *)
StoreUnchecked(b, c, n, sent) ==
    /\ batch' = Extended(b, c, n)
    /\ out' = out \o sent
    /\ UNCHANGED err

(* The end of Add: the batch is sent as soon as it reaches a limit. *)
Store(b, c, n, sent) ==
    LET e == Extended(b, c, n)
    IN  IF ~ReachedLimits(e)
        THEN /\ batch' = e
             /\ out' = out \o sent
             /\ UNCHANGED err
        ELSE IF FlushFails(e)
        THEN Fail("short", sent, e)
        ELSE /\ out' = out \o sent \o Flushed(e)
             /\ batch' = Empty
             /\ UNCHANGED err

(* Add: a small file, of which n bytes are there to be read. *)
AddSmall(c, n) ==
    LET full == ~CanAdd(c.size)
        b    == IF full THEN Empty ELSE batch
        sent == IF full THEN Flushed(batch) ELSE <<>>
    IN  /\ Enabled
        /\ c.size <= opts.threshold
        /\ IF full /\ FlushFails(batch) THEN Fail("short", <<>>, batch)
           ELSE IF n = Unreadable       THEN Fail("open", sent, [b EXCEPT !.open = TRUE])
           ELSE IF LastShort(b)         THEN Fail("short", sent, Empty)
           ELSE IF n > HeaderSize(c)    THEN Fail("long", sent, Empty)
           ELSE Store(b, c, n, sent)

Add(c, n) == AddUnbatched(c) \/ AddLarge(c) \/ AddSmall(c, n)
============================================================================
