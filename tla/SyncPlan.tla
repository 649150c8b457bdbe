----------------------------- MODULE SyncPlan -----------------------------
(***************************************************************************)
(* What scanner.Scan (internal/scanner/scanner.go) decides to do about two *)
(* trees, as a function of their snapshots.  A snapshot maps the key of    *)
(* each file, its path below the root, to its size and modification time,  *)
(* and is accompanied by the set of keys of the directories.               *)
(***************************************************************************)
EXTENDS Integers

(* Mutated form of ShouldCopy: the sizes are not compared. *)
ShouldCopyByTime(s, d) == s.mtime > d.mtime

(* Equal sizes and a time that is not later count as equal contents. *)
ShouldCopy(s, d) == s.size # d.size \/ s.mtime > d.mtime

(* The files copied from source to destination, in every mode. *)
Forward(src, dst) ==
    {k \in DOMAIN src : k \in DOMAIN dst => ShouldCopy(src[k], dst[k])}

(* The keys of one tree that the other does not have. *)
Extras(src, dst) == DOMAIN dst \ DOMAIN src

(* Mutated form of Newer: the comparison the wrong way round. *)
NewerSwapped(src, dst) ==
    {k \in DOMAIN src \cap DOMAIN dst : dst[k].mtime < src[k].mtime}

(* Mode sync: the common files copied from destination to source. *)
Newer(src, dst) ==
    {k \in DOMAIN src \cap DOMAIN dst : dst[k].mtime > src[k].mtime}
============================================================================
