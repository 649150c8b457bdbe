------------------------------ MODULE MCTrees ------------------------------
(* Instances of Trees for TLC: the trees have a place "a", which may be a  *)
(* file, an empty directory, or one with a file "x" or with a directory    *)
(* "x" and a file in it; and maybe a file "b".                             *)
EXTENDS Trees, TLC

Symmetry == Permutations(Workers)

Path(parts)  == [abs |-> FALSE, parts |-> parts, trailing |-> FALSE]
Slash(parts) == [Path(parts) EXCEPT !.trailing = TRUE]

W == <<"w">>
S == <<"w", "s">>
D == <<"w", "d">>
E == <<"w", "d", "s">>

Tree == {<<>>, <<"a">>, <<"a", "x">>, <<"a", "x", "y">>, <<"b">>}
MCNodes == {top \o t : top \in {W, S, D, E, S \o <<"s">>, E \o <<"s">>}, t \in Tree}

(* What there may be below a root, as functions on Tree. *)
Shapes(f, g) ==
    {[t \in Tree |-> CASE t = <<>> -> Dir [] t = <<"b">> -> b [] OTHER -> a[Len(t)]] :
        a \in {<<Absent, Absent, Absent>>, <<f, Absent, Absent>>, <<Dir, Absent, Absent>>,
              <<Dir, f, Absent>>, <<Dir, Dir, f>>},
        b \in {Absent, g}}

(* The file systems with one of the trees at the source and another below  *)
(* top, which may be missing.                                              *)
System(s, top, d) ==
    [p \in MCNodes |->
        CASE \E t \in Tree : p = S \o t   -> s[SubSeq(p, 3, Len(p))]
          [] \E t \in Tree : p = top \o t -> d[SubSeq(p, Len(top) + 1, Len(p))]
          [] p \in Above(top)             -> Dir
          [] OTHER                        -> Absent]

NoTree == [t \in Tree |-> Absent]

Systems(top, dsts) ==
    {System(s, top, d) : s \in Shapes(File("new", 5), File("new", 5)), d \in dsts}

Old(t)   == Shapes(File("old", t), File("old", t)) \cup {NoTree}

Mirror ==
    [mode |-> "mirror", src |-> Path(<<"s">>), dst |-> Path(<<"d">>), cwd |-> W,
     systems |-> Systems(E, Old(0)), maxRuns |-> 2, maxFaults |-> 0, maxKills |-> 0]

Few == {System(s, E, d) : s \in {[NoTree EXCEPT ![<<>>] = Dir, ![<<"a">>] = File("new", 5)]},
                          d \in {[NoTree EXCEPT ![<<>>] = Dir, ![<<"a">>] = Dir, ![<<"a", "x">>] = File("old", 0)]}}

MCScenarios ==
    [mirror |-> Mirror,
     slash  |-> [Mirror EXCEPT !.src = Slash(<<"..", "w", "s">>), !.systems = Systems(D, Old(0)), !.maxRuns = 1],
     dot    |-> [Mirror EXCEPT !.src = Path(<<".">>), !.dst = Path(<<"..", "d", ".">>), !.cwd = S,
                               !.systems = Systems(D, Old(0)), !.mode = "update", !.maxRuns = 1],
     faults |-> [Mirror EXCEPT !.systems = Few, !.maxRuns = 3, !.maxFaults = 1, !.maxKills = 1],
     sync   |-> [Mirror EXCEPT !.mode = "sync", !.systems = Systems(E, Old(0) \cup Old(7)), !.maxRuns = 1]]

(* The source is given as the parent of the working directory. *)
UpScenarios ==
    [up |-> [Mirror EXCEPT !.src = Path(<<"..">>), !.cwd = S \o <<"a">>,
                           !.dst = Path(<<"..", "..", "d">>), !.maxRuns = 1,
                           !.systems = {f \in Systems(E, Old(0)) : f[S \o <<"a">>] = Dir}]]
==============================================================================
