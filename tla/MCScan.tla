------------------------------ MODULE MCScan ------------------------------
(* Instances of Scan for TLC.                                              *)
EXTENDS Scan

MCKeys   == 1..13
DeepKeys == 1..4

(* The paths: 1 = "a", 2 = "a/b", 3 = "a/b/c", 4 = "bb", then others. *)
MCBelow  == [k \in MCKeys |-> CASE k = 1 -> {2, 3} [] k = 2 -> {3} [] OTHER -> {}]
MCKeyLen == <<1, 3, 5, 2, 2, 2, 2, 2, 2, 2, 2, 2, 2>>

File(size, mtime) == [size |-> size, mtime |-> mtime, link |-> FALSE]
Link              == [size |-> 1, mtime |-> 1, link |-> TRUE]

Root(kind, dirs, files) == [root |-> kind, dirs |-> dirs, files |-> files]
NoTree(kind)            == Root(kind, {}, [k \in {} |-> {}])

(* The trees of some of the given files under some of the given keys. *)
Flat(keys, files) ==
    {Root("dir", {}, f) : f \in UNION {[S -> files] : S \in SUBSET keys}}

(* Every tree over the four paths: of directories and one kind of file. *)
Deep ==
    {t \in {Root("dir", d, [k \in S |-> File(1, 1)]) : d, S \in SUBSET DeepKeys} :
        /\ t.dirs \cap DOMAIN t.files = {}
        /\ \A p \in DeepKeys : \A k \in MCBelow[p] :
              k \in t.dirs \cup DOMAIN t.files => p \in t.dirs}

NoLimits == [threshold |-> 0, maxFiles |-> 0, maxBytes |-> 0, auto |-> FALSE]
Limits   == [threshold |-> 3, maxFiles |-> 2, maxBytes |-> 2, auto |-> FALSE]
Auto     == [NoLimits EXCEPT !.auto = TRUE]

(* Batches: files that are empty, small, over the cap of a batch alone,    *)
(* too large for one; copies back that are small and large.                *)
Batched ==
    [mode |-> "sync", opts |-> {Limits},
     srcTrees |-> Flat(4..6, {File(0, 1), File(1, 1), File(3, 1), File(4, 1)}),
     dstTrees |-> Flat(4..6, {File(1, 0), File(1, 2)}),
     changes |-> {0, 1, 3}]

(* Files that change or vanish before they are read, links, bad roots. *)
Races ==
    [mode |-> "update", opts |-> {[Limits EXCEPT !.maxFiles = 0]},
     srcTrees |-> Flat(4..6, {File(0, 1), File(1, 1), File(3, 1), Link}) \cup
                  {NoTree("missing"), NoTree("file")},
     dstTrees |-> {NoTree("missing"), NoTree("unreadable")},
     changes |-> {0, 1, 2, 3, Unreadable}]

(* Deletes. *)
Mirror ==
    [mode |-> "mirror", opts |-> {NoLimits},
     srcTrees |-> Deep \cup {NoTree("missing")}, dstTrees |-> Deep,
     changes |-> {}]

(* Limits that are tuned: three files are not enough to tune from; of four *)
(* the ninth decile is the largest, of ten it is not.  Sizes on both sides *)
(* of each bound, listed largest first, or with the least one moved to the *)
(* front.                                                                  *)
FileSizes == <<SmallFileCutoff + 1, SmallFileCutoff, 20000, 3000, 0>>

Counts == {c \in [1..5 -> 0..10] : c[1] + c[2] + c[3] + c[4] + c[5] \in {3, 4, 10}}

Listing(c) == FlattenSeq([i \in 1..5 |-> [j \in 1..c[i] |-> FileSizes[i]]])
Turned(s)  == <<Last(s)>> \o Front(s)

TreeOf(s) == Root("dir", {}, [k \in 4..(Len(s) + 3) |-> File(s[k - 3], 1)])

Tuning10 ==
    [mode |-> "update", opts |-> {Auto},
     srcTrees |-> UNION {{TreeOf(Listing(c)), TreeOf(Turned(Listing(c)))} : c \in Counts},
     dstTrees |-> {NoTree("missing")},
     changes |-> {}]

MCScenarios == [batched |-> Batched, races |-> Races, mirror |-> Mirror, tuned |-> Tuning10]
===========================================================================
