-------------------------------- MODULE Paths --------------------------------
(***************************************************************************)
(* What internal/scanner/scanner.go and internal/cli/scansync.go make of   *)
(* the two paths of a command line, and the functions of path/filepath     *)
(* they use for it.  A path is its parts and whether it is absolute; of a  *)
(* path as it was typed, also whether it ends with a separator.  The path  *)
(* without parts is "/" or ".".                                            *)
(***************************************************************************)
EXTENDS Integers, Sequences, SequencesExt

(* One more part, after the parts so far: nothing is above the root, and   *)
(* only a relative path may go up from where it starts.                    *)
Enter(abs, parts, c) ==
    CASE c = "."  -> parts
      [] c = ".." -> IF parts # <<>> /\ Last(parts) # ".." THEN Front(parts)
                     ELSE IF abs THEN parts
                     ELSE Append(parts, "..")
      [] OTHER    -> Append(parts, c)

Clean(p) ==
    [abs   |-> p.abs,
     parts |-> FoldLeft(LAMBDA parts, c : Enter(p.abs, parts, c), <<>>, p.parts)]

Join(p, parts) == Clean([p EXCEPT !.parts = @ \o parts])

Base(p) == IF p.parts # <<>> THEN Last(p.parts) ELSE IF p.abs THEN "/" ELSE "."

(* Where the kernel finds path p from the working directory cwd. *)
Location(cwd, p) == Clean([abs |-> TRUE, parts |-> IF p.abs THEN p.parts ELSE cwd \o p.parts]).parts

-----------------------------------------------------------------------------
(* Without a separator at its end the source goes into the destination     *)
(* under its own name, if it has one.                                      *)
IncludeDir(src) == ~src.trailing /\ Base(Clean(src)) \notin {"/", "."}

Prefix(src) == IF IncludeDir(src) THEN <<Base(Clean(src))>> ELSE <<>>

(* Mutated form of DstRoot: the whole destination is compared. *)
DstRootWhole(src, dst) == Clean(dst)

(* The directory whose snapshot is compared with that of the source. *)
DstRoot(src, dst) == Join(Clean(dst), Prefix(src))

(* Mutated form of WithPrefix: the prefix is dropped. *)
WithPrefixNone(src, rel) == rel

(* withPrefix: the key of what is at rel below the root of either side. *)
WithPrefix(src, rel) == Join([abs |-> FALSE, parts |-> Prefix(src)], rel).parts

DstPath(dst, key) == Join(Clean(dst), key)

(* Mutated form of SrcPathForKey: the prefix is not taken off. *)
SrcPathForKeyWhole(src, key) == {Join(Clean(src), key)}

(* The path of a key at the source, or none. *)
SrcPathForKey(src, key) ==
    IF ~IncludeDir(src)                THEN {Join(Clean(src), key)}
    ELSE IF key = Prefix(src)          THEN {Clean(src)}
    ELSE IF ~IsPrefix(Prefix(src), key) THEN {}
    ELSE {Join(Clean(src), Tail(key))}
==============================================================================
