---------------------------- MODULE ConfigProofs ----------------------------
(***************************************************************************)
(* Proofs about Config, for files of any length: every line counts where   *)
(* its writer put it, a file that is loaded is sound, and the tokens and   *)
(* the mounts of an agent are those that the file gives it.                *)
(***************************************************************************)
EXTENDS Config, FoldTheorems

-----------------------------------------------------------------------------
(* The reading of a file f, as Config states it of the variable file.      *)

HeadersIn(f, i)  == {j \in 1..i : f[j].line = "section"}
LastHeader(f, i) == CHOOSE j \in HeadersIn(f, i) : \A h \in HeadersIn(f, i) : h <= j
HeaderIn(f, i)   == f[LastHeader(f, i)]

EntriesIn(f, kind, name, key) ==
    {i \in DOMAIN f :
        /\ f[i].line = "entry" /\ f[i].key = key
        /\ HeadersIn(f, i) # {}
        /\ HeaderIn(f, i).kind = kind /\ HeaderIn(f, i).name = name}

ValuesIn(f, kind, name, key) == {f[i].value : i \in EntriesIn(f, kind, name, key)}

LastIn(f, kind, name, key) ==
    LET E == EntriesIn(f, kind, name, key)
    IN  IF E = {} THEN Empty ELSE f[CHOOSE i \in E : \A j \in E : j <= i].value

DeclaredIn(f, kind) ==
    {f[i].name : i \in {j \in DOMAIN f : f[j].line = "section" /\ f[j].kind = kind}}

LEMMA Readings ==
    /\ \A kind, name, key :
          /\ Entries(kind, name, key) = EntriesIn(file, kind, name, key)
          /\ Values(kind, name, key) = ValuesIn(file, kind, name, key)
          /\ LastValue(kind, name, key) = LastIn(file, kind, name, key)
    /\ \A kind : Declared(kind) = DeclaredIn(file, kind)
<1>1. \A i : Headers(i) = HeadersIn(file, i) /\ HeaderOf(i) = HeaderIn(file, i)
    BY DEF Headers, HeadersIn, HeaderOf, HeaderIn, LastHeader
<1>2. \A kind, name, key : Entries(kind, name, key) = EntriesIn(file, kind, name, key)
    BY <1>1 DEF Entries, EntriesIn
<1>3. \A kind, name, key : Values(kind, name, key) = ValuesIn(file, kind, name, key)
    BY <1>2 DEF Values, ValuesIn
<1>4. \A kind, name, key : LastValue(kind, name, key) = LastIn(file, kind, name, key)
  <2> TAKE kind, name, key
  <2> DEFINE E == Entries(kind, name, key)
  <2>1. EntriesIn(file, kind, name, key) = E
      BY <1>2
  <2> HIDE DEF E
  <2>2. LastIn(file, kind, name, key)
            = IF E = {} THEN Empty ELSE file[CHOOSE i \in E : \A j \in E : j <= i].value
      BY <2>1 DEF LastIn
  <2> QED BY <2>2 DEF LastValue, E
<1>5. \A kind : Declared(kind) = DeclaredIn(file, kind)
    BY DEF Declared, DeclaredIn
<1> QED BY <1>2, <1>3, <1>4, <1>5

(* A set of numbers up to n that is not empty has a greatest one.          *)
LEMMA Greatest ==
    ASSUME NEW n \in Nat, NEW S, S \subseteq 1..n, S # {}
    PROVE  LET m == CHOOSE i \in S : \A j \in S : j <= i
           IN  m \in S /\ \A j \in S : j <= m
<1> DEFINE T == {n - j : j \in S}
<1>1. T \subseteq Nat /\ T # {}
  <2>1. \A j \in 1..n : n - j \in Nat
      OBVIOUS
  <2>2. \A j \in S : n - j \in Nat
      BY <2>1
  <2> QED BY <2>2
<1>2. PICK x \in T : \A y \in T : x <= y
    BY <1>1, NatLeast
<1>3. PICK m \in S : x = n - m
    BY <1>2
<1>4. ASSUME NEW j \in S PROVE j <= m
  <2>1. n - m <= n - j
      BY <1>2, <1>3
  <2>2. j \in Int /\ m \in Int
      OBVIOUS
  <2> QED BY <2>1, <2>2
<1> QED BY <1>3, <1>4

LEMMA LastHeaders ==
    ASSUME NEW f, NEW n \in Nat, HeadersIn(f, n) # {}
    PROVE  /\ LastHeader(f, n) \in 1..n /\ HeaderIn(f, n).line = "section"
           /\ \A h \in HeadersIn(f, n) : h <= LastHeader(f, n)
<1>1. HeadersIn(f, n) \subseteq 1..n
    BY DEF HeadersIn
<1>2. /\ LastHeader(f, n) \in HeadersIn(f, n)
      /\ \A h \in HeadersIn(f, n) : h <= LastHeader(f, n)
    BY <1>1, Greatest DEF LastHeader
<1> QED BY <1>2 DEF HeadersIn, HeaderIn

(* What one more line changes.                                             *)
LEMMA OneMore ==
    ASSUME NEW T, NEW f \in Seq(T), NEW l \in T
    PROVE  LET g == Append(f, l)
               n == Len(f)
           IN  /\ g \in Seq(T) /\ n \in Nat /\ Len(g) = n + 1
               /\ DOMAIN f = 1..n /\ DOMAIN g = 1..(n + 1)
               /\ \A i \in 1..n : g[i] = f[i]
               /\ g[n + 1] = l
               /\ 1..(n + 1) = (1..n) \cup {n + 1}
<1>1. \A n \in Nat : 1..(n + 1) = (1..n) \cup {n + 1}
    OBVIOUS
<1> QED BY <1>1

LEMMA HeadersKept ==
    ASSUME NEW f, NEW g, NEW n \in Nat, NEW i \in 1..n, \A j \in 1..n : g[j] = f[j]
    PROVE  /\ HeadersIn(g, i) = HeadersIn(f, i)
           /\ HeadersIn(f, i) # {} => HeaderIn(g, i) = HeaderIn(f, i)
<1>1. \A j \in 1..i : j \in 1..n
    OBVIOUS
<1>2. HeadersIn(g, i) = HeadersIn(f, i)
    BY <1>1 DEF HeadersIn
<1>3. LastHeader(g, i) = LastHeader(f, i)
    BY <1>2 DEF LastHeader
<1>4. HeadersIn(f, i) # {} => LastHeader(f, i) \in 1..n
    BY <1>1, LastHeaders
<1> QED BY <1>2, <1>3, <1>4 DEF HeaderIn

(* The header that counts for what follows the last line.                  *)
LEMMA HeaderNow ==
    ASSUME NEW T, NEW f \in Seq(T), NEW l \in T
    PROVE  LET g == Append(f, l)
               n == Len(f)
           IN  IF l.line = "section"
               THEN HeadersIn(g, n + 1) # {} /\ HeaderIn(g, n + 1) = l
               ELSE /\ HeadersIn(g, n + 1) = HeadersIn(f, n)
                    /\ HeadersIn(f, n) # {} => HeaderIn(g, n + 1) = HeaderIn(f, n)
<1> DEFINE g == Append(f, l)
           n == Len(f)
           H == HeadersIn(g, n + 1)
<1>1. /\ n \in Nat /\ g[n + 1] = l
      /\ \A i \in 1..n : g[i] = f[i]
      /\ 1..(n + 1) = (1..n) \cup {n + 1}
    BY OneMore
<1> HIDE DEF g, n
<1>2. H = HeadersIn(f, n) \cup (IF l.line = "section" THEN {n + 1} ELSE {})
    BY <1>1 DEF HeadersIn
<1>3. CASE l.line = "section"
  <2>1. n + 1 \in H /\ n + 1 \in Nat
      BY <1>1, <1>2, <1>3
  <2>2. LastHeader(g, n + 1) \in 1..(n + 1) /\ n + 1 <= LastHeader(g, n + 1)
      BY <2>1, LastHeaders
  <2>3. LastHeader(g, n + 1) = n + 1
      BY <1>1, <2>2
  <2> QED BY <1>1, <1>3, <2>1, <2>3 DEF HeaderIn, g, n
<1>4. CASE l.line # "section"
  <2>1. H = HeadersIn(f, n)
      BY <1>2, <1>4
  <2>2. LastHeader(g, n + 1) = LastHeader(f, n)
      BY <2>1 DEF LastHeader
  <2>3. HeadersIn(f, n) # {} => LastHeader(f, n) \in 1..n
      BY <1>1, LastHeaders
  <2> QED BY <1>1, <1>4, <2>1, <2>2, <2>3 DEF HeaderIn, g, n
<1> QED BY <1>3, <1>4

(* Line l after the lines f is an entry for that key in that section.      *)
IsNew(f, l, kind, name, key) ==
    /\ l.line = "entry" /\ l.key = key
    /\ HeadersIn(f, Len(f)) # {}
    /\ HeaderIn(f, Len(f)).kind = kind /\ HeaderIn(f, Len(f)).name = name

LEMMA EntriesGrow ==
    ASSUME NEW T, NEW f \in Seq(T), NEW l \in T, NEW kind, NEW name, NEW key
    PROVE  /\ EntriesIn(f, kind, name, key) \subseteq 1..Len(f)
           /\ EntriesIn(Append(f, l), kind, name, key)
                  = EntriesIn(f, kind, name, key)
                      \cup (IF IsNew(f, l, kind, name, key) THEN {Len(f) + 1} ELSE {})
<1> DEFINE g == Append(f, l)
           n == Len(f)
           In(h, i) == /\ h[i].line = "entry" /\ h[i].key = key
                       /\ HeadersIn(h, i) # {}
                       /\ HeaderIn(h, i).kind = kind /\ HeaderIn(h, i).name = name
<1>1. /\ n \in Nat /\ DOMAIN f = 1..n /\ DOMAIN g = (1..n) \cup {n + 1}
      /\ g[n + 1] = l /\ \A i \in 1..n : g[i] = f[i]
    BY OneMore
<1>2. EntriesIn(f, kind, name, key) = {i \in 1..n : In(f, i)}
    BY <1>1 DEF EntriesIn
<1>3. EntriesIn(g, kind, name, key) = {i \in (1..n) \cup {n + 1} : In(g, i)}
    BY <1>1 DEF EntriesIn
<1>4. In(g, n + 1) <=> IsNew(f, l, kind, name, key)
  <2>1. l.line = "entry" =>
            /\ HeadersIn(g, n + 1) = HeadersIn(f, n)
            /\ HeadersIn(f, n) # {} => HeaderIn(g, n + 1) = HeaderIn(f, n)
      BY HeaderNow
  <2>2. g[n + 1] = l
      BY <1>1
  <2> HIDE DEF g, n
  <2> QED BY <2>1, <2>2 DEF IsNew, n
<1> HIDE DEF g, n
<1>5. ASSUME NEW i \in 1..n PROVE In(g, i) <=> In(f, i)
  <2>1. /\ HeadersIn(g, i) = HeadersIn(f, i)
        /\ HeadersIn(f, i) # {} => HeaderIn(g, i) = HeaderIn(f, i)
      BY <1>1, HeadersKept
  <2> QED BY <1>1, <2>1
<1> HIDE DEF In
<1>6. {i \in (1..n) \cup {n + 1} : In(g, i)}
          = {i \in 1..n : In(f, i)} \cup (IF In(g, n + 1) THEN {n + 1} ELSE {})
    BY <1>5
<1> QED BY <1>2, <1>3, <1>4, <1>6 DEF g, n

(* A new entry adds its value, and is the last one.                        *)
LEMMA ValuesGrow ==
    ASSUME NEW T, NEW f \in Seq(T), NEW l \in T, NEW kind, NEW name, NEW key
    PROVE  LET g == Append(f, l)
           IN  IF IsNew(f, l, kind, name, key)
               THEN /\ ValuesIn(g, kind, name, key) = ValuesIn(f, kind, name, key) \cup {l.value}
                    /\ LastIn(g, kind, name, key) = l.value
               ELSE /\ ValuesIn(g, kind, name, key) = ValuesIn(f, kind, name, key)
                    /\ LastIn(g, kind, name, key) = LastIn(f, kind, name, key)
<1> DEFINE g == Append(f, l)
           n == Len(f)
           E == EntriesIn(f, kind, name, key)
           F == EntriesIn(g, kind, name, key)
           isNew == IsNew(f, l, kind, name, key)
           Top(S) == CHOOSE i \in S : \A j \in S : j <= i
<1>1. /\ n \in Nat /\ g[n + 1] = l /\ \A i \in 1..n : g[i] = f[i]
    BY OneMore
<1>2. E \subseteq 1..n /\ F = E \cup (IF isNew THEN {n + 1} ELSE {})
    BY EntriesGrow
<1>3. /\ ValuesIn(f, kind, name, key) = {f[i].value : i \in E}
      /\ ValuesIn(g, kind, name, key) = {g[i].value : i \in F}
      /\ LastIn(f, kind, name, key) = IF E = {} THEN Empty ELSE f[Top(E)].value
      /\ LastIn(g, kind, name, key) = IF F = {} THEN Empty ELSE g[Top(F)].value
    BY DEF ValuesIn, LastIn
<1> HIDE DEF g, n, E, F, isNew
<1>4. CASE isNew
  <2>1. F = E \cup {n + 1} /\ F \subseteq 1..(n + 1) /\ n + 1 \in Nat
      BY <1>1, <1>2, <1>4
  <2>2. Top(F) \in F /\ \A j \in F : j <= Top(F)
      BY <2>1, Greatest
  <2>3. Top(F) = n + 1
    <3> DEFINE m == Top(F)
    <3>1. m \in 1..(n + 1) /\ n + 1 <= m
        BY <2>1, <2>2
    <3> HIDE DEF m
    <3>2. m = n + 1
        BY <1>1, <3>1
    <3> QED BY <3>2 DEF m
  <2>4. {g[i].value : i \in F} = {f[i].value : i \in E} \cup {l.value}
      BY <1>1, <1>2, <2>1
  <2> HIDE DEF Top
  <2>5. F # {}
      BY <2>1
  <2> QED BY <1>1, <1>3, <1>4, <2>3, <2>4, <2>5 DEF g, isNew
<1>5. CASE ~isNew
  <2>1. F = E
      BY <1>2, <1>5
  <2>2. {g[i].value : i \in F} = {f[i].value : i \in E}
      BY <1>1, <1>2, <2>1
  <2>3. E # {} => Top(E) \in 1..n
    <3>1. E # {} => Top(E) \in E
        BY <1>1, <1>2, Greatest
    <3> QED BY <1>2, <3>1
  <2> HIDE DEF Top
  <2> QED BY <1>1, <1>3, <1>5, <2>1, <2>2, <2>3 DEF g, isNew
<1> QED BY <1>4, <1>5

LEMMA DeclaredGrow ==
    ASSUME NEW T, NEW f \in Seq(T), NEW l \in T, NEW kind
    PROVE  /\ l.line = "section" /\ l.kind = kind =>
                 DeclaredIn(Append(f, l), kind) = DeclaredIn(f, kind) \cup {l.name}
           /\ ~(l.line = "section" /\ l.kind = kind) =>
                 DeclaredIn(Append(f, l), kind) = DeclaredIn(f, kind)
<1> DEFINE g == Append(f, l)
           n == Len(f)
<1>1. /\ n \in Nat /\ DOMAIN f = 1..n /\ DOMAIN g = (1..n) \cup {n + 1}
      /\ g[n + 1] = l /\ \A i \in 1..n : g[i] = f[i]
    BY OneMore
<1> HIDE DEF g, n
<1>2. n + 1 \notin 1..n
    BY <1>1
<1>3. CASE l.line = "section" /\ l.kind = kind
  <2>1. DeclaredIn(g, kind) = DeclaredIn(f, kind) \cup {l.name}
      BY <1>1, <1>3 DEF DeclaredIn
  <2> QED BY <1>3, <2>1 DEF g
<1>4. CASE ~(l.line = "section" /\ l.kind = kind)
  <2>1. DeclaredIn(g, kind) = DeclaredIn(f, kind)
      BY <1>1, <1>2, <1>4 DEF DeclaredIn
  <2> QED BY <1>4, <2>1 DEF g
<1> QED BY <1>3, <1>4

(* What has entries is declared: the header of an entry is in the file.    *)
LEMMA EntriesDeclared ==
    ASSUME NEW T, NEW f \in Seq(T), NEW kind, NEW name, NEW key,
           EntriesIn(f, kind, name, key) # {}
    PROVE  name \in DeclaredIn(f, kind)
<1>1. PICK i \in 1..Len(f) : /\ HeadersIn(f, i) # {}
                             /\ HeaderIn(f, i).kind = kind /\ HeaderIn(f, i).name = name
    BY DEF EntriesIn
<1>2. LastHeader(f, i) \in 1..i /\ HeaderIn(f, i).line = "section"
    BY <1>1, LastHeaders
<1>3. LastHeader(f, i) \in DOMAIN f
    BY <1>2
<1> QED BY <1>1, <1>2, <1>3 DEF HeaderIn, DeclaredIn

-----------------------------------------------------------------------------
(* The invariant.                                                          *)

LineValues == {l.value : l \in Lines}
Tables     == {"nfs", "agent", "pool"}

(* The section that the parser is in is that of the last header.           *)
SectionAt(f, s) ==
    IF HeadersIn(f, Len(f)) = {} THEN s.kind = "root"
    ELSE /\ s.kind = HeaderIn(f, Len(f)).kind
         /\ s.name = HeaderIn(f, Len(f)).name

(* A table of the configuration has what the file says.                    *)
Agrees(f, kind, table) ==
    /\ DOMAIN table = DeclaredIn(f, kind)
    /\ \A n \in DOMAIN table :
          /\ DOMAIN table[n] = Scalars(kind) \cup Lists(kind)
          /\ \A key \in Scalars(kind) : table[n][key] = LastIn(f, kind, n, key)
          /\ \A key \in Lists(kind) :
                /\ table[n][key] \in Seq(LineValues)
                /\ Range(table[n][key]) = ValuesIn(f, kind, n, key)

ControlAgrees(f, control) ==
    /\ control \in Seq(LineValues)
    /\ Range(control) = ValuesIn(f, "control", Empty, "token")

LinesInOrder(f) ==
    \A i \in DOMAIN f : /\ f[i].line # "malformed"
                        /\ f[i].line = "section" => SectionOK(f[i])

(* What holds while every line so far was in order.                        *)
Read(f, c, s) ==
    /\ SectionAt(f, s)
    /\ LinesInOrder(f)
    /\ DOMAIN c = {"control", "servers", "agents", "pools"}
    /\ ControlAgrees(f, c.control)
    /\ Agrees(f, "nfs", c.servers)
    /\ Agrees(f, "agent", c.agents)
    /\ Agrees(f, "pool", c.pools)

ParseInv ==
    /\ file \in Seq(Lines)
    /\ phase \in {"parse", "loaded", "rejected", "answered", "refused"}
    /\ phase # "rejected" => Read(file, cfg, section)
    /\ phase \in {"loaded", "answered", "refused"} => Valid

IInv == ParseInv /\ TokensExact /\ MountsExact

-----------------------------------------------------------------------------
(* One more line, and what it does to a table.                             *)

LEMMA Disjoint == \A kind : Scalars(kind) \cap Lists(kind) = {}
BY DEF Scalars, Lists

(* In which section a new entry is.                                        *)
LEMMA NewIn ==
    ASSUME NEW f, NEW l, NEW s, SectionAt(f, s), l.line = "entry",
           NEW kind, kind # "root", NEW name, NEW key
    PROVE  IsNew(f, l, kind, name, key) <=> s.kind = kind /\ s.name = name /\ l.key = key
BY DEF IsNew, SectionAt

LEMMA SectionMoves ==
    ASSUME NEW f \in Seq(Lines), NEW l \in Lines, NEW s, SectionAt(f, s)
    PROVE  /\ l.line # "section" => SectionAt(Append(f, l), s)
           /\ l.line = "section" =>
                 SectionAt(Append(f, l), [kind |-> l.kind, name |-> l.name])
<1> DEFINE g == Append(f, l)
           n == Len(f)
<1>1. Len(g) = n + 1
    BY OneMore
<1>2. IF l.line = "section"
      THEN HeadersIn(g, n + 1) # {} /\ HeaderIn(g, n + 1) = l
      ELSE /\ HeadersIn(g, n + 1) = HeadersIn(f, n)
           /\ HeadersIn(f, n) # {} => HeaderIn(g, n + 1) = HeaderIn(f, n)
    BY HeaderNow
<1> HIDE DEF g
<1>3. l.line # "section" => SectionAt(g, s)
    BY <1>1, <1>2 DEF SectionAt
<1>4. l.line = "section" => SectionAt(g, [kind |-> l.kind, name |-> l.name])
    BY <1>1, <1>2 DEF SectionAt
<1> QED BY <1>3, <1>4 DEF g

LEMMA StillInOrder ==
    ASSUME NEW f \in Seq(Lines), NEW l \in Lines, LinesInOrder(f), l.line # "malformed",
           l.line = "section" => SectionOK(l)
    PROVE  LinesInOrder(Append(f, l))
<1> DEFINE g == Append(f, l)
           n == Len(f)
<1>1. /\ DOMAIN f = 1..n /\ DOMAIN g = (1..n) \cup {n + 1}
      /\ g[n + 1] = l /\ \A i \in 1..n : g[i] = f[i]
    BY OneMore
<1> HIDE DEF g, n
<1>2. LinesInOrder(g)
    BY <1>1 DEF LinesInOrder
<1> QED BY <1>2 DEF g

LEMMA RangeAppend ==
    ASSUME NEW T, NEW s \in Seq(T), NEW v \in T
    PROVE  Append(s, v) \in Seq(T) /\ Range(Append(s, v)) = Range(s) \cup {v}
<1> DEFINE t == Append(s, v)
           n == Len(s)
<1>1. /\ DOMAIN s = 1..n /\ DOMAIN t = (1..n) \cup {n + 1} /\ t \in Seq(T)
      /\ t[n + 1] = v /\ \A i \in 1..n : t[i] = s[i]
    BY OneMore
<1> HIDE DEF t, n
<1>2. Range(t) = Range(s) \cup {v}
    BY <1>1 DEF Range
<1> QED BY <1>1, <1>2 DEF t

(* A line that is for another table.                                       *)
LEMMA TableKept ==
    ASSUME NEW f \in Seq(Lines), NEW l \in Lines, NEW kind \in Tables, NEW table,
           Agrees(f, kind, table), NEW s, SectionAt(f, s),
           \/ l.line = "section" /\ l.kind # kind
           \/ l.line = "entry" /\ s.kind # kind
    PROVE  Agrees(Append(f, l), kind, table)
<1> DEFINE g == Append(f, l)
<1>1. DeclaredIn(g, kind) = DeclaredIn(f, kind)
  <2>1. ~(l.line = "section" /\ l.kind = kind)
      OBVIOUS
  <2> QED BY <2>1, DeclaredGrow
<1>2. ASSUME NEW n, NEW key
      PROVE  /\ ValuesIn(g, kind, n, key) = ValuesIn(f, kind, n, key)
             /\ LastIn(g, kind, n, key) = LastIn(f, kind, n, key)
  <2>1. ~IsNew(f, l, kind, n, key)
    <3>1. CASE l.line = "section"
        BY <3>1 DEF IsNew
    <3>2. CASE l.line = "entry" /\ s.kind # kind
      <4>1. kind # "root"
          BY DEF Tables
      <4>2. IsNew(f, l, kind, n, key) <=> s.kind = kind /\ s.name = n /\ l.key = key
          BY <3>2, <4>1, NewIn
      <4> QED BY <3>2, <4>2
    <3> QED BY <3>1, <3>2
  <2> QED BY <2>1, ValuesGrow
<1> HIDE DEF g
<1>3. Agrees(g, kind, table)
    BY <1>1, <1>2 DEF Agrees
<1> QED BY <1>3 DEF g

(* The header of a section of the table.                                   *)
IsFresh(kind, new) ==
    /\ DOMAIN new = Scalars(kind) \cup Lists(kind)
    /\ \A key \in Scalars(kind) : new[key] = Empty
    /\ \A key \in Lists(kind) : new[key] = <<>>

LEMMA FreshRecords ==
    IsFresh("nfs", NoServer) /\ IsFresh("agent", NoAgent) /\ IsFresh("pool", NoPool)
BY DEF IsFresh, NoServer, NoAgent, NoPool, Scalars, Lists

LEMMA TableOpened ==
    ASSUME NEW f \in Seq(Lines), NEW l \in Lines, NEW kind \in Tables, NEW table,
           Agrees(f, kind, table), l.line = "section", l.kind = kind,
           NEW new, IsFresh(kind, new)
    PROVE  Agrees(Append(f, l), kind, Opened(table, l.name, new))
<1> DEFINE g == Append(f, l)
           o == Opened(table, l.name, new)
<1>1. DeclaredIn(g, kind) = DeclaredIn(f, kind) \cup {l.name}
    BY DeclaredGrow
<1>2. ASSUME NEW n, NEW key
      PROVE  /\ ValuesIn(g, kind, n, key) = ValuesIn(f, kind, n, key)
             /\ LastIn(g, kind, n, key) = LastIn(f, kind, n, key)
  <2>1. ~IsNew(f, l, kind, n, key)
      BY DEF IsNew
  <2> QED BY <2>1, ValuesGrow
<1>3. DOMAIN o = DeclaredIn(g, kind)
    BY <1>1 DEF Opened, Agrees
<1>4. ASSUME NEW n \in DOMAIN o
      PROVE  /\ DOMAIN o[n] = Scalars(kind) \cup Lists(kind)
             /\ \A key \in Scalars(kind) : o[n][key] = LastIn(g, kind, n, key)
             /\ \A key \in Lists(kind) :
                   /\ o[n][key] \in Seq(LineValues)
                   /\ Range(o[n][key]) = ValuesIn(g, kind, n, key)
  <2>1. CASE n \in DOMAIN table
    <3>1. o[n] = table[n]
        BY <2>1 DEF Opened
    <3> HIDE DEF o, g
    <3> QED BY <1>2, <2>1, <3>1 DEF Agrees
  <2>2. CASE n \notin DOMAIN table
    <3>1. o[n] = new
        BY <2>2 DEF Opened
    <3>2. \A key : EntriesIn(f, kind, n, key) = {}
        BY <2>2, EntriesDeclared DEF Agrees
    <3>3. \A key : ValuesIn(f, kind, n, key) = {} /\ LastIn(f, kind, n, key) = Empty
        BY <3>2 DEF ValuesIn, LastIn
    <3>4. <<>> \in Seq(LineValues) /\ Range(<<>>) = {}
        BY DEF Range
    <3> HIDE DEF o, g
    <3> QED BY <1>2, <3>1, <3>3, <3>4 DEF IsFresh
  <2> QED BY <2>1, <2>2
<1> HIDE DEF g, o
<1>5. Agrees(g, kind, o)
    BY <1>3, <1>4 DEF Agrees
<1> QED BY <1>5 DEF g, o

(* An entry of a section of the table.                                     *)
LEMMA TableEntered ==
    ASSUME NEW f \in Seq(Lines), NEW l \in Lines, NEW kind \in Tables, NEW table,
           Agrees(f, kind, table), NEW s, SectionAt(f, s), s.kind = kind,
           l.line = "entry", l.key \in Scalars(kind) \cup Lists(kind), s.name \in DOMAIN table,
           NEW r, r = [table[s.name] EXCEPT ![l.key] =
                          IF l.key \in Lists(kind) THEN Append(@, l.value) ELSE l.value]
    PROVE  Agrees(Append(f, l), kind, [table EXCEPT ![s.name] = r])
<1> DEFINE g == Append(f, l)
           e == [table EXCEPT ![s.name] = r]
<1>1. DeclaredIn(g, kind) = DeclaredIn(f, kind) /\ DOMAIN e = DOMAIN table
  <2> HIDE DEF e
  <2>1. DeclaredIn(Append(f, l), kind) = DeclaredIn(f, kind)
      BY DeclaredGrow
  <2>2. DOMAIN e = DOMAIN table
      BY DEF e
  <2> QED BY <2>1, <2>2
<1>2. ASSUME NEW n, NEW key
      PROVE  IF n = s.name /\ key = l.key
             THEN /\ ValuesIn(g, kind, n, key) = ValuesIn(f, kind, n, key) \cup {l.value}
                  /\ LastIn(g, kind, n, key) = l.value
             ELSE /\ ValuesIn(g, kind, n, key) = ValuesIn(f, kind, n, key)
                  /\ LastIn(g, kind, n, key) = LastIn(f, kind, n, key)
  <2>1. IsNew(f, l, kind, n, key) <=> n = s.name /\ key = l.key
    <3>1. kind # "root"
        BY DEF Tables
    <3>2. IsNew(f, l, kind, n, key) <=> s.kind = kind /\ s.name = n /\ l.key = key
        BY <3>1, NewIn
    <3> QED BY <3>2
  <2> QED BY <2>1, ValuesGrow
<1> HIDE DEF g
<1>3. ASSUME NEW n \in DOMAIN e
      PROVE  /\ DOMAIN e[n] = Scalars(kind) \cup Lists(kind)
             /\ \A key \in Scalars(kind) : e[n][key] = LastIn(g, kind, n, key)
             /\ \A key \in Lists(kind) :
                   /\ e[n][key] \in Seq(LineValues)
                   /\ Range(e[n][key]) = ValuesIn(g, kind, n, key)
  <2>1. /\ DOMAIN table[n] = Scalars(kind) \cup Lists(kind)
        /\ \A key \in Scalars(kind) : table[n][key] = LastIn(f, kind, n, key)
        /\ \A key \in Lists(kind) :
              /\ table[n][key] \in Seq(LineValues)
              /\ Range(table[n][key]) = ValuesIn(f, kind, n, key)
      BY <1>1 DEF Agrees
  <2>2. CASE n # s.name
    <3>1. e[n] = table[n]
        BY <1>1, <2>2
    <3> HIDE DEF e
    <3> QED BY <1>2, <2>1, <2>2, <3>1
  <2>3. CASE n = s.name
    <3>1. e[n] = r
        BY <1>1, <2>3
    <3>2. DOMAIN r = Scalars(kind) \cup Lists(kind)
        BY <2>1, <2>3
    <3>3. \A key \in Scalars(kind) \cup Lists(kind) :
              r[key] = IF key # l.key THEN table[n][key]
                       ELSE IF key \in Lists(kind) THEN Append(table[n][key], l.value)
                       ELSE l.value
        BY <2>1, <2>3
    <3> HIDE DEF e
    <3>4. ASSUME NEW key \in Scalars(kind) PROVE r[key] = LastIn(g, kind, n, key)
      <4>1. key \notin Lists(kind)
          BY Disjoint
      <4> QED BY <1>2, <2>1, <2>3, <3>3, <4>1
    <3>5. ASSUME NEW key \in Lists(kind)
          PROVE  r[key] \in Seq(LineValues) /\ Range(r[key]) = ValuesIn(g, kind, n, key)
      <4>1. CASE key # l.key
          BY <1>2, <2>1, <3>3, <4>1
      <4>2. CASE key = l.key
        <5>1. l.value \in LineValues
            BY DEF LineValues
        <5>2. r[key] = Append(table[n][key], l.value)
            BY <3>3, <4>2
        <5>3. table[n][key] \in Seq(LineValues) /\ Range(table[n][key]) = ValuesIn(f, kind, n, key)
            BY <2>1
        <5>4. /\ Append(table[n][key], l.value) \in Seq(LineValues)
              /\ Range(Append(table[n][key], l.value)) = Range(table[n][key]) \cup {l.value}
            BY <5>1, <5>3, RangeAppend
        <5> QED BY <1>2, <2>3, <4>2, <5>2, <5>3, <5>4
      <4> QED BY <4>1, <4>2
    <3> QED BY <3>1, <3>2, <3>4, <3>5
  <2> QED BY <2>2, <2>3
<1> HIDE DEF e
<1>4. Agrees(g, kind, e)
    BY <1>1, <1>3 DEF Agrees
<1> QED BY <1>4 DEF g, e

-----------------------------------------------------------------------------
(* The steps.                                                              *)

(* The section that is open is in its table.                               *)
LEMMA SectionOpen ==
    ASSUME NEW f \in Seq(Lines), NEW s, SectionAt(f, s), LinesInOrder(f), s.kind # "root"
    PROVE  /\ s.name \in DeclaredIn(f, s.kind)
           /\ s.kind = "control" => s.name = Empty
<1> DEFINE n == Len(f)
           h == LastHeader(f, n)
<1>1. HeadersIn(f, n) # {} /\ n \in Nat /\ DOMAIN f = 1..n
    BY DEF SectionAt
<1>2. h \in DOMAIN f /\ HeaderIn(f, n) = f[h] /\ f[h].line = "section"
    BY <1>1, LastHeaders DEF HeaderIn
<1>3. s.kind = f[h].kind /\ s.name = f[h].name
    BY <1>1, <1>2 DEF SectionAt
<1> HIDE DEF h
<1>4. SectionOK(f[h])
    BY <1>2 DEF LinesInOrder
<1> QED BY <1>2, <1>3, <1>4 DEF DeclaredIn, SectionOK, Named

LEMMA ControlKept ==
    ASSUME NEW f \in Seq(Lines), NEW l \in Lines, NEW control, ControlAgrees(f, control),
           NEW s, SectionAt(f, s), l.line = "section" \/ (l.line = "entry" /\ s.kind # "control")
    PROVE  ControlAgrees(Append(f, l), control)
<1>1. ~IsNew(f, l, "control", Empty, "token")
  <2>1. CASE l.line = "section"
      BY <2>1 DEF IsNew
  <2>2. CASE l.line = "entry" /\ s.kind # "control"
    <3>1. IsNew(f, l, "control", Empty, "token")
              <=> s.kind = "control" /\ s.name = Empty /\ l.key = "token"
        BY <2>2, NewIn
    <3> QED BY <2>2, <3>1
  <2> QED BY <2>1, <2>2
<1>2. ValuesIn(Append(f, l), "control", Empty, "token") = ValuesIn(f, "control", Empty, "token")
    BY <1>1, ValuesGrow
<1> QED BY <1>2 DEF ControlAgrees

LEMMA EnterReads ==
    ASSUME file \in Seq(Lines), Read(file, cfg, section), NEW l \in Lines, EnterSection(l),
           file' = Append(file, l)
    PROVE  Read(file', cfg', section')
<1>1. l.line = "section" /\ SectionOK(l) /\ section' = [kind |-> l.kind, name |-> l.name]
    BY DEF EnterSection
<1>2. l.kind \in {"control", "nfs", "agent", "pool"}
    BY <1>1 DEF SectionOK, Named
<1>3. SectionAt(file, section) /\ LinesInOrder(file) /\ ControlAgrees(file, cfg.control)
      /\ Agrees(file, "nfs", cfg.servers) /\ Agrees(file, "agent", cfg.agents)
      /\ Agrees(file, "pool", cfg.pools)
      /\ DOMAIN cfg = {"control", "servers", "agents", "pools"}
    BY DEF Read
<1>4. SectionAt(file', section')
    BY <1>1, <1>3, SectionMoves
<1>5. LinesInOrder(file')
    BY <1>1, <1>3, StillInOrder
<1>6. DOMAIN cfg' = DOMAIN cfg /\ cfg'.control = cfg.control
    BY <1>1, <1>2, <1>3 DEF EnterSection
<1>7. ControlAgrees(file', cfg.control)
    BY <1>1, <1>3, ControlKept
<1>8. cfg'.servers = IF l.kind = "nfs" THEN Opened(cfg.servers, l.name, NoServer) ELSE cfg.servers
    BY <1>1, <1>2, <1>3 DEF EnterSection
<1>9. cfg'.agents = IF l.kind = "agent" THEN Opened(cfg.agents, l.name, NoAgent) ELSE cfg.agents
    BY <1>1, <1>2, <1>3 DEF EnterSection
<1>10. cfg'.pools = IF l.kind = "pool" THEN Opened(cfg.pools, l.name, NoPool) ELSE cfg.pools
    BY <1>1, <1>2, <1>3 DEF EnterSection
<1>11. Agrees(file', "nfs", cfg'.servers)
  <2>1. CASE l.kind = "nfs"
    <3>1. Agrees(Append(file, l), "nfs", Opened(cfg.servers, l.name, NoServer))
        BY <1>1, <1>3, <2>1, FreshRecords, TableOpened DEF Tables
    <3> QED BY <1>8, <2>1, <3>1
  <2>2. CASE l.kind # "nfs"
    <3>1. Agrees(Append(file, l), "nfs", cfg.servers)
        BY <1>1, <1>3, <2>2, TableKept DEF Tables
    <3> QED BY <1>8, <2>2, <3>1
  <2> QED BY <2>1, <2>2
<1>12. Agrees(file', "agent", cfg'.agents)
  <2>1. CASE l.kind = "agent"
    <3>1. Agrees(Append(file, l), "agent", Opened(cfg.agents, l.name, NoAgent))
        BY <1>1, <1>3, <2>1, FreshRecords, TableOpened DEF Tables
    <3> QED BY <1>9, <2>1, <3>1
  <2>2. CASE l.kind # "agent"
    <3>1. Agrees(Append(file, l), "agent", cfg.agents)
        BY <1>1, <1>3, <2>2, TableKept DEF Tables
    <3> QED BY <1>9, <2>2, <3>1
  <2> QED BY <2>1, <2>2
<1>13. Agrees(file', "pool", cfg'.pools)
  <2>1. CASE l.kind = "pool"
    <3>1. Agrees(Append(file, l), "pool", Opened(cfg.pools, l.name, NoPool))
        BY <1>1, <1>3, <2>1, FreshRecords, TableOpened DEF Tables
    <3> QED BY <1>10, <2>1, <3>1
  <2>2. CASE l.kind # "pool"
    <3>1. Agrees(Append(file, l), "pool", cfg.pools)
        BY <1>1, <1>3, <2>2, TableKept DEF Tables
    <3> QED BY <1>10, <2>2, <3>1
  <2> QED BY <2>1, <2>2
<1> QED BY <1>3, <1>4, <1>5, <1>6, <1>7, <1>11, <1>12, <1>13 DEF Read

LEMMA EntryReads ==
    ASSUME file \in Seq(Lines), Read(file, cfg, section), NEW l \in Lines, SetEntry(l),
           file' = Append(file, l)
    PROVE  Read(file', cfg', section')
<1> DEFINE k == section.kind
           m == section.name
<1>1. l.line = "entry" /\ EntryOK(l) /\ section' = section
    BY DEF SetEntry
<1>2. /\ k \in {"control", "nfs", "agent", "pool"}
      /\ k = "control" => l.key = "token"
      /\ k # "control" => l.key \in Scalars(k) \cup Lists(k)
    BY <1>1 DEF EntryOK, Scalars, Lists
<1>3. SectionAt(file, section) /\ LinesInOrder(file) /\ ControlAgrees(file, cfg.control)
      /\ Agrees(file, "nfs", cfg.servers) /\ Agrees(file, "agent", cfg.agents)
      /\ Agrees(file, "pool", cfg.pools)
      /\ DOMAIN cfg = {"control", "servers", "agents", "pools"}
    BY DEF Read
<1>4. SectionAt(file', section')
    BY <1>1, <1>3, SectionMoves
<1>5. LinesInOrder(file')
    BY <1>1, <1>3, StillInOrder
<1>6. m \in DeclaredIn(file, k) /\ (k = "control" => m = Empty)
    BY <1>2, <1>3, SectionOpen
<1>7. DOMAIN cfg' = DOMAIN cfg
    BY <1>2, <1>3 DEF SetEntry
<1>8. cfg'.control = IF k = "control" THEN Append(cfg.control, l.value) ELSE cfg.control
    BY <1>2, <1>3 DEF SetEntry
<1> DEFINE r(table) == [table[m] EXCEPT ![l.key] =
                            IF l.key \in Lists(k) THEN Append(@, l.value) ELSE l.value]
           e(table) == [table EXCEPT ![m] = r(table)]
<1>9. cfg'.servers = IF k = "nfs" THEN e(cfg.servers) ELSE cfg.servers
    BY <1>2, <1>3 DEF SetEntry, With
<1>10. cfg'.agents = IF k = "agent" THEN e(cfg.agents) ELSE cfg.agents
    BY <1>2, <1>3 DEF SetEntry, With
<1>11. cfg'.pools = IF k = "pool" THEN e(cfg.pools) ELSE cfg.pools
    BY <1>2, <1>3 DEF SetEntry, With
<1>12. ControlAgrees(file', cfg'.control)
  <2>1. CASE k = "control"
    <3>1. IsNew(file, l, "control", Empty, "token")
              <=> k = "control" /\ m = Empty /\ l.key = "token"
        BY <1>1, <1>3, NewIn
    <3>2. ValuesIn(Append(file, l), "control", Empty, "token")
              = ValuesIn(file, "control", Empty, "token") \cup {l.value}
        BY <1>2, <1>6, <2>1, <3>1, ValuesGrow
    <3>3. l.value \in LineValues
        BY DEF LineValues
    <3>4. cfg.control \in Seq(LineValues)
          /\ Range(cfg.control) = ValuesIn(file, "control", Empty, "token")
        BY <1>3 DEF ControlAgrees
    <3>5. /\ Append(cfg.control, l.value) \in Seq(LineValues)
          /\ Range(Append(cfg.control, l.value)) = Range(cfg.control) \cup {l.value}
        BY <3>3, <3>4, RangeAppend
    <3> QED BY <1>8, <2>1, <3>2, <3>4, <3>5 DEF ControlAgrees
  <2>2. CASE k # "control"
    <3>1. ControlAgrees(Append(file, l), cfg.control)
        BY <1>1, <1>3, <2>2, ControlKept
    <3> QED BY <1>8, <2>2, <3>1
  <2> QED BY <2>1, <2>2
<1>13. ASSUME NEW kind \in Tables, NEW table, Agrees(file, kind, table)
       PROVE  Agrees(Append(file, l), kind, IF k = kind THEN e(table) ELSE table)
  <2>1. CASE k = kind
    <3>1. l.key \in Scalars(kind) \cup Lists(kind) /\ m \in DOMAIN table
        BY <1>2, <1>6, <1>13, <2>1 DEF Tables, Agrees
    <3> DEFINE new == r(table)
    <3>2. new = [table[m] EXCEPT ![l.key] =
                     IF l.key \in Lists(kind) THEN Append(@, l.value) ELSE l.value]
        BY <2>1
    <3> HIDE DEF new
    <3>3. Agrees(Append(file, l), kind, [table EXCEPT ![m] = new])
        BY <1>1, <1>3, <1>13, <2>1, <3>1, <3>2, TableEntered
    <3> QED BY <2>1, <3>3 DEF new
  <2>2. CASE k # kind
    <3>1. Agrees(Append(file, l), kind, table)
        BY <1>1, <1>3, <1>13, <2>2, TableKept
    <3> QED BY <2>2, <3>1
  <2> QED BY <2>1, <2>2
<1> HIDE DEF e
<1>14. Agrees(file', "nfs", cfg'.servers)
  <2>1. Agrees(Append(file, l), "nfs", IF k = "nfs" THEN e(cfg.servers) ELSE cfg.servers)
      BY <1>3, <1>13 DEF Tables
  <2> QED BY <1>9, <2>1
<1>15. Agrees(file', "agent", cfg'.agents)
  <2>1. Agrees(Append(file, l), "agent", IF k = "agent" THEN e(cfg.agents) ELSE cfg.agents)
      BY <1>3, <1>13 DEF Tables
  <2> QED BY <1>10, <2>1
<1>16. Agrees(file', "pool", cfg'.pools)
  <2>1. Agrees(Append(file, l), "pool", IF k = "pool" THEN e(cfg.pools) ELSE cfg.pools)
      BY <1>3, <1>13 DEF Tables
  <2> QED BY <1>11, <2>1
<1> QED BY <1>3, <1>4, <1>5, <1>7, <1>12, <1>14, <1>15, <1>16 DEF Read

-----------------------------------------------------------------------------
(* Tokens.                                                                 *)

(* What the configuration has of an agent is what the file has, nothing    *)
(* included.                                                               *)
LEMMA AgentAgrees ==
    ASSUME file \in Seq(Lines), Read(file, cfg, section), NEW a
    PROVE  /\ AgentOf(a).token = LastValue("agent", a, "token")
           /\ Range(AgentOf(a).pools) = Values("agent", a, "pools")
           /\ Range(AgentOf(a).nfs) = Values("agent", a, "nfs")
           /\ AgentOf(a).pools \in Seq(LineValues) /\ AgentOf(a).nfs \in Seq(LineValues)
<1>1. Agrees(file, "agent", cfg.agents)
    BY DEF Read
<1>2. CASE a \in DOMAIN cfg.agents
  <2>1. AgentOf(a) = cfg.agents[a]
      BY <1>2 DEF AgentOf
  <2>2. cfg.agents[a]["token"] = LastIn(file, "agent", a, "token")
        /\ Range(cfg.agents[a]["pools"]) = ValuesIn(file, "agent", a, "pools")
        /\ Range(cfg.agents[a]["nfs"]) = ValuesIn(file, "agent", a, "nfs")
        /\ cfg.agents[a]["pools"] \in Seq(LineValues) /\ cfg.agents[a]["nfs"] \in Seq(LineValues)
      BY <1>1, <1>2 DEF Agrees, Scalars, Lists
  <2> QED BY <2>1, <2>2, Readings
<1>3. CASE a \notin DOMAIN cfg.agents
  <2>1. AgentOf(a) = NoAgent
      BY <1>3 DEF AgentOf
  <2>2. \A key : EntriesIn(file, "agent", a, key) = {}
      BY <1>1, <1>3, EntriesDeclared DEF Agrees
  <2>3. \A key : LastIn(file, "agent", a, key) = Empty /\ ValuesIn(file, "agent", a, key) = {}
      BY <2>2 DEF LastIn, ValuesIn
  <2>4. /\ NoAgent.token = Empty /\ NoAgent.pools = <<>> /\ NoAgent.nfs = <<>>
        /\ Range(<<>>) = {} /\ <<>> \in Seq(LineValues)
      BY DEF NoAgent, Range
  <2> QED BY <2>1, <2>3, <2>4, Readings
<1> QED BY <1>2, <1>3

LEMMA TokensAgree ==
    ASSUME file \in Seq(Lines), Read(file, cfg, section), NEW a
    PROVE  AllowedTokens(a) = Trimmed({LastValue("agent", a, "token")} \cup
                                      {LastValue("pool", p, "token") : p \in Membership(a)})
<1>1. Agrees(file, "pool", cfg.pools)
    BY DEF Read
<1>2. DOMAIN cfg.pools = Declared("pool")
    BY <1>1, Readings DEF Agrees
<1>3. ASSUME NEW p \in DOMAIN cfg.pools
      PROVE  /\ cfg.pools[p].token = LastValue("pool", p, "token")
             /\ Range(cfg.pools[p].agents) = Values("pool", p, "agents")
  <2>1. cfg.pools[p]["token"] = LastIn(file, "pool", p, "token")
        /\ Range(cfg.pools[p]["agents"]) = ValuesIn(file, "pool", p, "agents")
      BY <1>1 DEF Agrees, Scalars, Lists
  <2> QED BY <2>1, Readings
<1>4. AgentOf(a).token = LastValue("agent", a, "token")
      /\ Range(AgentOf(a).pools) = Values("agent", a, "pools")
    BY AgentAgrees
<1>5. Listed(a) \cup Joined(a) = Membership(a)
    BY <1>2, <1>3, <1>4 DEF Listed, Joined, Membership
<1>6. Membership(a) \subseteq DOMAIN cfg.pools
    BY <1>2 DEF Membership
<1>7. {cfg.pools[p].token : p \in Membership(a)} = {LastValue("pool", p, "token") : p \in Membership(a)}
    BY <1>3, <1>6
<1> QED BY <1>4, <1>5, <1>7 DEF AllowedTokens

-----------------------------------------------------------------------------
(* Mounts.                                                                 *)

(* The mounts after each of the names.                                     *)
Adds(F, names) ==
    /\ F[0] = <<>>
    /\ \A i \in 1..Len(names) : F[i] = AddServer(F[i - 1], names[i])

AddAll(names) == FoldLeft(AddServer, <<>>, names)

TrimmedOf(T) == {Trim[x] : x \in T}

LEMMA AddType ==
    ASSUME NEW T, NEW x \in T, NEW s \in Seq(TrimmedOf(T))
    PROVE  AddServer(s, x) \in Seq(TrimmedOf(T))
BY DEF AddServer, TrimmedOf

LEMMA AddingServers ==
    ASSUME NEW T, NEW names \in Seq(T)
    PROVE  \E F \in [0..Len(names) -> Seq(TrimmedOf(T))] :
              Adds(F, names) /\ AddAll(names) = F[Len(names)]
<1> DEFINE n == Len(names)
           X == Seq(TrimmedOf(T))
           S == 1..n
           step == [p \in S \X X |-> AddServer(p[2], names[p[1]])]
           chosen == [s \in SUBSET S |-> Max(s)]
<1>1. n \in Nat /\ DOMAIN names = S /\ \A i \in S : names[i] \in T
    OBVIOUS
<1>2. IsFiniteSet(S)
    BY <1>1, FS_Interval
<1>3. \A x \in S, v \in X : step[<<x, v>>] = AddServer(v, names[x]) /\ step[<<x, v>>] \in X
  <2> TAKE x \in S, v \in X
  <2>1. AddServer(v, names[x]) \in X
      BY <1>1, AddType
  <2> HIDE DEF S, X
  <2> QED BY <2>1
<1>4. <<>> \in X
    OBVIOUS
<1>5. IsChoice(chosen, S)
  <2> SUFFICES ASSUME NEW s \in SUBSET S, s # {} PROVE Max(s) \in s
      BY DEF IsChoice
  <2> DEFINE K == {n - j : j \in s}
  <2>1. \A j \in s : n - j \in Nat /\ j \in Int
      BY <1>1
  <2>2. PICK x \in K : \A y \in K : x <= y
    <3>1. K \subseteq Nat /\ K # {}
        BY <2>1
    <3> QED BY <3>1, NatLeast
  <2>3. PICK m \in s : x = n - m
      BY <2>2
  <2>4. ASSUME NEW j \in s PROVE m >= j
    <3>1. n - m <= n - j /\ j \in Int /\ m \in Int
        BY <2>1, <2>2, <2>3
    <3> QED BY <1>1, <3>1
  <2> QED BY <2>4 DEF Max
<1> HIDE DEF step
<1>6. PICK iter \in [SUBSET S -> X] : IsFold(iter, S, <<>>, chosen, step)
  <2> HIDE DEF S, X, chosen
  <2> QED BY <1>2, <1>3, <1>4, <1>5, FoldExists
<1>7. \A s \in SUBSET S : s # {} => chosen[s] \in S /\ chosen[s] = Max(s)
    BY <1>5 DEF IsChoice
<1> DEFINE IsIter(g) ==
               g = [s \in SUBSET S |->
                       IF s = {} THEN <<>>
                       ELSE AddServer(g[s \ {Max(s)}], names[Max(s)])]
<1>8. AddAll(names) = (CHOOSE g : IsIter(g))[S]
  <2>1. AddAll(names) = (CHOOSE g : g = [s \in SUBSET DOMAIN names |->
                                           IF s = {} THEN <<>>
                                           ELSE AddServer(g[s \ {Max(s)}], names[Max(s)])])
                         [DOMAIN names]
      BY DEF AddAll, FoldLeft, MapThenFoldSet
  <2> QED BY <1>1, <2>1
<1>9. IsIter(iter)
  <2> SUFFICES ASSUME NEW s \in SUBSET S, s # {}
               PROVE  step[<<chosen[s], iter[s \ {chosen[s]}]>>]
                          = AddServer(iter[s \ {Max(s)}], names[Max(s)])
      BY <1>6 DEF IsFold
  <2>1. chosen[s] \in S /\ chosen[s] = Max(s)
      BY <1>7
  <2>2. iter[s \ {Max(s)}] \in X
      BY <1>6
  <2> HIDE DEF S, X, chosen
  <2> QED BY <1>3, <2>1, <2>2
<1> DEFINE Q == CHOOSE g : IsIter(g)
<1>10. IsIter(Q)
    BY <1>9
<1> HIDE DEF Q
<1>11. ASSUME NEW g, IsIter(g), NEW i \in 1..n
       PROVE  g[1..i] = AddServer(g[1..(i - 1)], names[i])
  <2>1. i \in Nat /\ i # 0 /\ 1..i \in SUBSET S /\ 1..i # {}
      BY <1>1
  <2>2. Max(1..i) = i /\ (1..i) \ {i} = 1..(i - 1)
      BY <2>1, GreatestIndex
  <2>3. g[1..i] = AddServer(g[(1..i) \ {Max(1..i)}], names[Max(1..i)])
      BY <1>11, <2>1
  <2> QED BY <2>2, <2>3
<1>12. ASSUME NEW g, IsIter(g) PROVE g[1..0] = <<>>
    BY <1>12
<1> DEFINE F == [i \in 0..n |-> iter[1..i]]
           R == [i \in 0..n |-> Q[1..i]]
<1>13. \A i \in 0..n : F[i] = iter[1..i] /\ R[i] = Q[1..i] /\ 1..i \in SUBSET S
    BY <1>1
<1>14. 0 \in 0..n /\ n \in 0..n /\ \A i \in 1..n : i \in 0..n /\ i - 1 \in 0..n
    BY <1>1
<1>15. F \in [0..n -> X]
    BY <1>6, <1>13
<1> HIDE DEF F, R, S, X, IsIter
<1>16. F[0] = <<>> /\ R[0] = <<>>
    BY <1>9, <1>10, <1>12, <1>13, <1>14
<1>17. \A i \in 1..n : /\ F[i] = AddServer(F[i - 1], names[i])
                       /\ R[i] = AddServer(R[i - 1], names[i])
    BY <1>9, <1>10, <1>11, <1>13, <1>14
<1>18. InStep(R, F, n)
    BY <1>16, <1>17 DEF InStep
<1>19. R[n] = F[n]
  <2> HIDE DEF n
  <2> QED BY <1>1, <1>14, <1>18, IterateUnique DEF SameUpTo
<1>20. AddAll(names) = F[n]
    BY <1>8, <1>13, <1>14, <1>19 DEF Q, S
<1>21. Adds(F, names)
    BY <1>16, <1>17 DEF Adds
<1> QED BY <1>15, <1>20, <1>21 DEF X

(* Sequence t goes on from s.                                              *)
GoesOn(s, t) ==
    /\ Len(s) <= Len(t)
    /\ \A i \in 1..Len(s) : t[i] = s[i]

LEMMA AddOne ==
    ASSUME NEW T, NEW x \in T, NEW s \in Seq(TrimmedOf(T)), IsInjective(s)
    PROVE  /\ IsInjective(AddServer(s, x)) /\ GoesOn(s, AddServer(s, x))
           /\ Range(AddServer(s, x)) = Range(s) \cup Trimmed({x})
<1> DEFINE y == Trim[x]
           g == Append(s, y)
           n == Len(s)
<1>1. Trimmed({x}) = {y} \ {Empty}
    BY DEF Trimmed
<1>2. CASE y = Empty \/ y \in Range(s)
  <2>1. AddServer(s, x) = s
      BY <1>2 DEF AddServer
  <2>2. GoesOn(s, s)
      BY DEF GoesOn
  <2>3. Range(s) = Range(s) \cup Trimmed({x})
      BY <1>1, <1>2
  <2> QED BY <2>1, <2>2, <2>3
<1>3. CASE y # Empty /\ y \notin Range(s)
  <2>1. AddServer(s, x) = g
      BY <1>3 DEF AddServer
  <2>2. /\ n \in Nat /\ DOMAIN s = 1..n /\ DOMAIN g = (1..n) \cup {n + 1} /\ Len(g) = n + 1
        /\ g[n + 1] = y /\ \A i \in 1..n : g[i] = s[i]
    <3>1. s \in Seq(TrimmedOf(T) \cup {y})
        OBVIOUS
    <3> QED BY <3>1, OneIndexMore
  <2> HIDE DEF g, n, y
  <2>3. \A i \in 1..n : s[i] # y
      BY <1>3, <2>2 DEF Range
  <2>4. ASSUME NEW i \in DOMAIN g, NEW j \in DOMAIN g, g[i] = g[j] PROVE i = j
    <3>1. CASE i \in 1..n /\ j \in 1..n
        BY <2>2, <2>4, <3>1 DEF IsInjective
    <3>2. CASE i = n + 1 \/ j = n + 1
        BY <2>2, <2>3, <2>4, <3>2
    <3> QED BY <2>2, <3>1, <3>2
  <2>5. IsInjective(g)
      BY <2>4 DEF IsInjective
  <2>6. Range(g) = Range(s) \cup {y}
      BY <2>2 DEF Range
  <2>7. GoesOn(s, g)
      BY <2>2 DEF GoesOn, n
  <2> QED BY <1>1, <1>3, <2>1, <2>5, <2>6, <2>7
<1> QED BY <1>2, <1>3

(* The names so far.                                                       *)
UpTo(names, i) == {names[j] : j \in 1..i}

LEMMA AddedSoFar ==
    ASSUME NEW T, NEW names \in Seq(T), NEW F \in [0..Len(names) -> Seq(TrimmedOf(T))],
           Adds(F, names), NEW k \in 0..Len(names)
    PROVE  /\ IsInjective(F[k]) /\ Range(F[k]) = Trimmed(UpTo(names, k))
           /\ GoesOn(F[k], F[Len(names)])
<1> DEFINE n == Len(names)
           Good(i) == IsInjective(F[i]) /\ Range(F[i]) = Trimmed(UpTo(names, i))
           D == {i \in Nat : i <= n => Good(i)}
           E == {i \in Nat : i <= n /\ k <= i => GoesOn(F[k], F[i])}
<1>1. n \in Nat /\ k \in Nat /\ k <= n /\ \A i \in 1..n : names[i] \in T
    OBVIOUS
<1>2. \A i \in 0..n : F[i] \in Seq(TrimmedOf(T))
    OBVIOUS
<1>3. F[0] = <<>> /\ \A i \in 1..n : F[i] = AddServer(F[i - 1], names[i])
    BY DEF Adds
<1> HIDE DEF n
<1>4. 0 \in D
  <2>1. IsInjective(<<>>) /\ Range(<<>>) = {}
      BY DEF IsInjective, Range
  <2>2. Trimmed(UpTo(names, 0)) = {}
      BY DEF Trimmed, UpTo
  <2> QED BY <1>3, <2>1, <2>2
<1>5. ASSUME NEW i \in Nat, i + 1 <= n
      PROVE  /\ i \in 0..n /\ i + 1 \in 0..n /\ i <= n /\ names[i + 1] \in T
             /\ F[i + 1] = AddServer(F[i], names[i + 1])
  <2>1. i + 1 \in 1..n /\ (i + 1) - 1 = i
      BY <1>1, <1>5
  <2>2. F[i + 1] = AddServer(F[(i + 1) - 1], names[i + 1])
      BY <1>3, <2>1
  <2> QED BY <1>1, <1>5, <2>1, <2>2
<1>6. ASSUME NEW i \in Nat, i \in D PROVE i + 1 \in D
  <2>1. SUFFICES ASSUME i + 1 <= n PROVE Good(i + 1)
      OBVIOUS
  <2>2. Good(i)
      BY <1>5, <1>6, <2>1
  <2> DEFINE x == names[i + 1]
             s == F[i]
  <2>3. s \in Seq(TrimmedOf(T)) /\ x \in T /\ F[i + 1] = AddServer(s, x)
      BY <1>2, <1>5, <2>1
  <2>4. IsInjective(s) /\ Range(s) = Trimmed(UpTo(names, i))
      BY <2>2
  <2>5. UpTo(names, i + 1) = UpTo(names, i) \cup {x}
    <3>1. 1..(i + 1) = (1..i) \cup {i + 1}
        OBVIOUS
    <3> QED BY <3>1 DEF UpTo
  <2> HIDE DEF s, x
  <2>6. IsInjective(AddServer(s, x)) /\ Range(AddServer(s, x)) = Range(s) \cup Trimmed({x})
      BY <2>3, <2>4, AddOne
  <2>7. Trimmed(UpTo(names, i + 1)) = Trimmed(UpTo(names, i)) \cup Trimmed({x})
      BY <2>5 DEF Trimmed
  <2> QED BY <2>3, <2>4, <2>6, <2>7
<1> HIDE DEF Good
<1>7. \A i \in 0..n : Good(i)
  <2> HIDE DEF D
  <2>1. Nat \subseteq D
      BY <1>4, <1>6, NatClosure
  <2> QED BY <1>1, <2>1 DEF D
<1>8. 0 \in E
    BY <1>1 DEF GoesOn
<1>9. ASSUME NEW i \in Nat, i \in E PROVE i + 1 \in E
  <2>1. SUFFICES ASSUME i + 1 <= n, k <= i + 1 PROVE GoesOn(F[k], F[i + 1])
      OBVIOUS
  <2>2. CASE k = i + 1
      BY <2>2 DEF GoesOn
  <2>3. CASE k # i + 1
    <3>1. k <= i
        BY <1>1, <2>1, <2>3
    <3>2. GoesOn(F[k], F[i])
        BY <1>5, <1>9, <2>1, <3>1
    <3> DEFINE x == names[i + 1]
               s == F[i]
    <3>3. s \in Seq(TrimmedOf(T)) /\ x \in T /\ F[i + 1] = AddServer(s, x) /\ IsInjective(s)
        BY <1>2, <1>5, <1>7, <2>1 DEF Good
    <3> HIDE DEF s, x
    <3>4. GoesOn(s, F[i + 1])
        BY <3>3, AddOne
    <3>5. \A a \in 0..n : Len(F[a]) \in Nat
        BY <1>2
    <3>6. Len(F[k]) <= Len(s) /\ Len(s) <= Len(F[i + 1])
        BY <3>2, <3>4 DEF GoesOn, s
    <3>7. Len(F[k]) \in Nat /\ Len(s) \in Nat /\ Len(F[i + 1]) \in Nat
        BY <1>1, <1>5, <2>1, <3>5 DEF s
    <3>8. ASSUME NEW a \in 1..Len(F[k]) PROVE F[i + 1][a] = F[k][a]
      <4>1. a \in 1..Len(s)
          BY <3>6, <3>7
      <4> QED BY <3>2, <3>4, <4>1 DEF GoesOn, s
    <3> QED BY <3>6, <3>7, <3>8 DEF GoesOn
  <2> QED BY <2>2, <2>3
<1> HIDE DEF E
<1>10. n \in E
    BY <1>1, <1>8, <1>9, NatClosure
<1> QED BY <1>1, <1>7, <1>10 DEF E, Good, n

(* What is mounted: every server once, those of s before the others.       *)
LEMMA AddedMounts ==
    ASSUME NEW T, NEW s \in Seq(T), NEW t \in Seq(T), NEW m, m = AddAll(s \o t)
    PROVE  /\ IsInjective(m)
           /\ Range(m) = Trimmed(Range(s) \cup Range(t))
           /\ \A i, j \in DOMAIN m :
                 m[j] \in Trimmed(Range(s)) /\ i < j => m[i] \in Trimmed(Range(s))
<1> DEFINE names == s \o t
           n == Len(names)
           k == Len(s)
<1>1. /\ names \in Seq(T) /\ n \in Nat /\ k \in 0..n /\ DOMAIN names = 1..n
      /\ DOMAIN s = 1..k /\ \A i \in 1..k : names[i] = s[i]
    OBVIOUS
<1>2. Range(names) = Range(s) \cup Range(t)
    BY RangeJoined
<1> HIDE DEF names, n, k
<1>3. PICK F \in [0..n -> Seq(TrimmedOf(T))] : Adds(F, names) /\ m = F[n]
    BY <1>1, AddingServers DEF n, names
<1>4. /\ IsInjective(F[n]) /\ Range(F[n]) = Trimmed(UpTo(names, n))
      /\ Range(F[k]) = Trimmed(UpTo(names, k)) /\ GoesOn(F[k], F[n])
  <2>1. n \in 0..n
      BY <1>1
  <2> QED BY <1>1, <1>3, <2>1, AddedSoFar DEF n
<1>5. UpTo(names, n) = Range(names) /\ UpTo(names, k) = Range(s)
    BY <1>1 DEF UpTo, Range
<1>6. ASSUME NEW i \in DOMAIN m, NEW j \in DOMAIN m, m[j] \in Trimmed(Range(s)), i < j
      PROVE  m[i] \in Trimmed(Range(s))
  <2> DEFINE own == F[k]
             q == Len(own)
  <2>1. own \in Seq(TrimmedOf(T)) /\ m \in Seq(TrimmedOf(T))
      BY <1>1, <1>3
  <2>2. q \in Nat /\ DOMAIN own = 1..q /\ Len(m) \in Nat /\ DOMAIN m = 1..Len(m)
      BY <2>1
  <2>3. q <= Len(m) /\ (\A a \in 1..q : m[a] = own[a]) /\ Range(own) = Trimmed(Range(s))
      BY <1>3, <1>4, <1>5 DEF GoesOn
  <2> HIDE DEF own, q
  <2>4. PICK a \in 1..q : own[a] = m[j]
      BY <1>6, <2>2, <2>3 DEF Range
  <2>5. m[a] = m[j] /\ a \in DOMAIN m
      BY <2>2, <2>3, <2>4
  <2>6. a = j
      BY <1>3, <1>4, <2>5 DEF IsInjective
  <2>7. i \in 1..q
      BY <1>6, <2>2, <2>6
  <2>8. m[i] = own[i] /\ own[i] \in Range(own)
      BY <2>2, <2>3, <2>7 DEF Range
  <2> QED BY <2>3, <2>8
<1> QED BY <1>2, <1>3, <1>4, <1>5, <1>6

(* An order in which the map of pools is iterated has every pool.          *)
LEMMA OrderHasAll ==
    ASSUME NEW D, IsFiniteSet(D), NEW order \in SetToSeqs(D)
    PROVE  order \in Seq(D) /\ Range(order) = D
<1> DEFINE n == Cardinality(D)
<1>1. n \in Nat
    BY FS_CardinalityType
<1>2. order \in [1..n -> D] /\ \A i, j \in 1..n : i # j => order[i] # order[j]
    BY DEF SetToSeqs
<1>3. IsFiniteSet(1..n) /\ Cardinality(1..n) = n
  <2> HIDE DEF n
  <2>1. /\ IsFiniteSet(1..n) /\ Cardinality(1..n) = IF 1 > n THEN 0 ELSE n - 1 + 1
      BY <1>1, FS_Interval
  <2> QED BY <1>1, <2>1
<1>4. order \in Injection(1..n, D)
  <2> HIDE DEF n
  <2> QED BY <1>2 DEF Injection, IsInjective
<1>5. order \in Surjection(1..n, D)
  <2>1. Cardinality(1..n) = Cardinality(D) <=> order \in Surjection(1..n, D)
      BY <1>4, FS_Injection
  <2> QED BY <1>3, <2>1
<1> HIDE DEF n
<1>6. order \in Seq(D)
    BY <1>1, <1>2
<1>7. Range(order) = D
    BY <1>2, <1>5 DEF Range, Surjection
<1> QED BY <1>6, <1>7

(* A file declares finitely many sections.                                 *)
LEMMA DeclaredFinite ==
    ASSUME NEW f \in Seq(Lines), NEW kind PROVE IsFiniteSet(DeclaredIn(f, kind))
<1> DEFINE S == {j \in DOMAIN f : f[j].line = "section" /\ f[j].kind = kind}
           g == [i \in S |-> f[i].name]
           T == DeclaredIn(f, kind)
<1>1. IsFiniteSet(S)
  <2>1. Len(f) \in Nat /\ DOMAIN f = 1..Len(f) /\ 1 \in Int
      OBVIOUS
  <2>2. IsFiniteSet(DOMAIN f)
      BY <2>1, FS_Interval
  <2>3. S \in SUBSET DOMAIN f
      OBVIOUS
  <2> QED BY <2>2, <2>3, FS_Subset
<1>2. T = {f[i].name : i \in S}
    BY DEF DeclaredIn
<1> HIDE DEF S, T
<1>3. g \in Surjection(S, T)
    BY <1>2 DEF Surjection
<1> QED BY <1>1, <1>3, FS_Surjection DEF T

(* Every pool that is declared has a list of servers.                      *)
HasServers(pools) == \A p \in DOMAIN pools : pools[p].nfs \in Seq(LineValues)

LEMMA ServersFound ==
    ASSUME HasServers(cfg.pools), NEW S \in SUBSET DOMAIN cfg.pools,
           NEW V, NEW pools \in Seq(V)
    PROVE  /\ ServersOf(pools, S) \in Seq(LineValues)
           /\ Range(ServersOf(pools, S)) = UNION {Range(cfg.pools[p].nfs) : p \in Range(pools) \cap S}
<1> DEFINE n == Len(pools)
           s == [i \in DOMAIN pools |-> IF pools[i] \in S THEN cfg.pools[pools[i]].nfs ELSE <<>>]
<1>1. n \in Nat /\ DOMAIN pools = 1..n
    OBVIOUS
<1>2. ASSUME NEW i \in 1..n
      PROVE  /\ pools[i] \in S => s[i] = cfg.pools[pools[i]].nfs
             /\ pools[i] \notin S => s[i] = <<>>
             /\ s[i] \in Seq(LineValues)
  <2>1. s[i] = IF pools[i] \in S THEN cfg.pools[pools[i]].nfs ELSE <<>>
      BY <1>1
  <2>2. <<>> \in Seq(LineValues)
      OBVIOUS
  <2>3. pools[i] \in S => cfg.pools[pools[i]].nfs \in Seq(LineValues)
      BY DEF HasServers
  <2> HIDE DEF s
  <2> QED BY <2>1, <2>2, <2>3
<1>3. DOMAIN s = 1..n
    BY <1>1
<1>4. ServersOf(pools, S) = FlattenSeq(s)
    BY DEF ServersOf
<1> HIDE DEF s, n
<1>5. s \in Seq(Seq(LineValues)) /\ Len(s) = n
  <2>1. s = [i \in 1..n |-> IF pools[i] \in S THEN cfg.pools[pools[i]].nfs ELSE <<>>]
      BY <1>1 DEF s
  <2>2. s \in [1..n -> Seq(LineValues)]
      BY <1>2, <2>1
  <2> QED BY <1>1, <2>2
<1>6. FlattenSeq(s) \in Seq(LineValues)
    BY <1>5, FlattenType
<1>7. Range(FlattenSeq(s)) = UNION {Range(s[j]) : j \in 1..n}
    BY <1>5, FlattenRange DEF RangesUpTo
<1>8. UNION {Range(s[j]) : j \in 1..n} = UNION {Range(cfg.pools[p].nfs) : p \in Range(pools) \cap S}
  <2>1. ASSUME NEW j \in 1..n, NEW x \in Range(s[j])
        PROVE  \E p \in Range(pools) \cap S : x \in Range(cfg.pools[p].nfs)
    <3>1. CASE pools[j] \in S
      <4>1. pools[j] \in Range(pools)
          BY <1>1 DEF Range
      <4> QED BY <1>2, <2>1, <3>1, <4>1
    <3>2. CASE pools[j] \notin S
      <4>1. s[j] = <<>> /\ Range(<<>>) = {}
          BY <1>2, <3>2 DEF Range
      <4> QED BY <2>1, <4>1
    <3> QED BY <3>1, <3>2
  <2>2. ASSUME NEW p \in Range(pools) \cap S, NEW x \in Range(cfg.pools[p].nfs)
        PROVE  \E j \in 1..n : x \in Range(s[j])
    <3>1. PICK j \in 1..n : pools[j] = p
        BY <1>1 DEF Range
    <3>2. s[j] = cfg.pools[p].nfs
        BY <1>2, <3>1
    <3>3. x \in Range(s[j])
        BY <3>2
    <3> QED BY <3>1, <3>3
  <2> DEFINE A == UNION {Range(s[j]) : j \in 1..n}
             B == UNION {Range(cfg.pools[p].nfs) : p \in Range(pools) \cap S}
  <2>3. A \subseteq B
      BY <2>1
  <2>4. B \subseteq A
    <3> SUFFICES ASSUME NEW x \in B PROVE x \in A
        OBVIOUS
    <3>1. PICK p \in Range(pools) \cap S : x \in Range(cfg.pools[p].nfs)
        OBVIOUS
    <3> QED BY <2>2, <3>1
  <2> QED BY <2>3, <2>4
<1> QED BY <1>4, <1>6, <1>7, <1>8

(* Whatever the order, the servers that an agent wants are those that the  *)
(* file gives it and its pools, its own before the others.                 *)
PoolServers(a) == UNION {Values("pool", p, "nfs") : p \in Membership(a)}

LEMMA ServersWanted ==
    ASSUME file \in Seq(Lines), Read(file, cfg, section), NEW a,
           NEW order \in SetToSeqs(DOMAIN cfg.pools)
    PROVE  \E own, others \in Seq(LineValues) :
              /\ Wanted(a, order) = own \o others
              /\ Range(own) = Values("agent", a, "nfs")
              /\ Range(own) \cup Range(others) = Values("agent", a, "nfs") \cup PoolServers(a)
<1> DEFINE D == DOMAIN cfg.pools
           own == AgentOf(a).nfs
           named == ServersOf(AgentOf(a).pools, D)
           joined == ServersOf(order, Joined(a))
<1>1. Agrees(file, "pool", cfg.pools)
    BY DEF Read
<1>2. D = Declared("pool") /\ IsFiniteSet(D)
  <2>1. D = DeclaredIn(file, "pool")
      BY <1>1 DEF Agrees
  <2> QED BY <2>1, Readings, DeclaredFinite
<1>3. ASSUME NEW p \in D
      PROVE  /\ cfg.pools[p].nfs \in Seq(LineValues)
             /\ Range(cfg.pools[p].nfs) = Values("pool", p, "nfs")
             /\ Range(cfg.pools[p].agents) = Values("pool", p, "agents")
  <2>1. /\ cfg.pools[p]["nfs"] \in Seq(LineValues)
        /\ Range(cfg.pools[p]["nfs"]) = ValuesIn(file, "pool", p, "nfs")
        /\ Range(cfg.pools[p]["agents"]) = ValuesIn(file, "pool", p, "agents")
      BY <1>1 DEF Agrees, Lists
  <2> QED BY <2>1, Readings
<1>4. /\ own \in Seq(LineValues) /\ Range(own) = Values("agent", a, "nfs")
      /\ AgentOf(a).pools \in Seq(LineValues)
      /\ Range(AgentOf(a).pools) = Values("agent", a, "pools")
    BY AgentAgrees
<1>5. HasServers(cfg.pools)
    BY <1>3 DEF HasServers
<1>6. order \in Seq(D) /\ Range(order) = D
    BY <1>2, OrderHasAll
<1>7. Joined(a) \in SUBSET D /\ D \in SUBSET D
    BY DEF Joined
<1> HIDE DEF D
<1>8. /\ named \in Seq(LineValues)
      /\ Range(named) = UNION {Range(cfg.pools[p].nfs) : p \in Range(AgentOf(a).pools) \cap D}
    BY <1>4, <1>5, <1>7, ServersFound DEF D
<1>9. /\ joined \in Seq(LineValues)
      /\ Range(joined) = UNION {Range(cfg.pools[p].nfs) : p \in Range(order) \cap Joined(a)}
    BY <1>5, <1>6, <1>7, ServersFound DEF D
<1>10. Wanted(a, order) = own \o named \o joined
    BY DEF Wanted, D
<1> HIDE DEF own, named, joined
<1>11. named \o joined \in Seq(LineValues) /\ own \o named \o joined = own \o (named \o joined)
    BY <1>4, <1>8, <1>9
<1>12. Range(named \o joined) = Range(named) \cup Range(joined)
    BY <1>8, <1>9, RangeJoined
<1>13. Membership(a) = (Range(AgentOf(a).pools) \cap D) \cup (Range(order) \cap Joined(a))
    BY <1>2, <1>3, <1>4, <1>6, <1>7 DEF Membership, Joined, D
<1>14. Membership(a) \subseteq D
    BY <1>2 DEF Membership
<1>15. PoolServers(a) = UNION {Range(cfg.pools[p].nfs) : p \in Membership(a)}
    BY <1>3, <1>14 DEF PoolServers
<1>16. Range(named) \cup Range(joined) = PoolServers(a)
    BY <1>8, <1>9, <1>13, <1>15
<1> QED BY <1>4, <1>10, <1>11, <1>12, <1>16

(* What MountsExact says of the mounts m.                                  *)
MountsRight(m, own, others) ==
    /\ IsInjective(m)
    /\ Range(m) = Trimmed(own \cup others)
    /\ \A i, j \in DOMAIN m : m[j] \in Trimmed(own) /\ i < j => m[i] \in Trimmed(own)

LEMMA MountsAgree ==
    ASSUME file \in Seq(Lines), Read(file, cfg, section), NEW a,
           NEW order \in SetToSeqs(DOMAIN cfg.pools), NEW m, m = AddAll(Wanted(a, order))
    PROVE  MountsRight(m, Values("agent", a, "nfs"), PoolServers(a))
<1>1. PICK own, others \in Seq(LineValues) :
              /\ Wanted(a, order) = own \o others
              /\ Range(own) = Values("agent", a, "nfs")
              /\ Range(own) \cup Range(others) = Values("agent", a, "nfs") \cup PoolServers(a)
    BY ServersWanted
<1>2. m = AddAll(own \o others)
    BY <1>1
<1>3. /\ IsInjective(m)
      /\ Range(m) = Trimmed(Range(own) \cup Range(others))
      /\ \A i, j \in DOMAIN m :
            m[j] \in Trimmed(Range(own)) /\ i < j => m[i] \in Trimmed(Range(own))
    BY <1>2, AddedMounts
<1> QED BY <1>1, <1>3 DEF MountsRight
-----------------------------------------------------------------------------
(* The invariant is kept.                                                  *)

LEMMA InitInv == Init => IInv
<1> SUFFICES ASSUME Init PROVE IInv
    OBVIOUS
<1>1. /\ file = <<>> /\ section.kind = "root" /\ phase = "parse"
      /\ cfg = [control |-> <<>>, servers |-> Nothing, agents |-> Nothing, pools |-> Nothing]
    BY DEF Init
<1>2. DOMAIN file = {} /\ Len(file) = 0 /\ file \in Seq(Lines)
    BY <1>1
<1>3. HeadersIn(file, Len(file)) = {}
    BY <1>2 DEF HeadersIn
<1>4. \A kind, name, key : ValuesIn(file, kind, name, key) = {}
    BY <1>2 DEF ValuesIn, EntriesIn
<1>5. \A kind : DeclaredIn(file, kind) = {}
    BY <1>2 DEF DeclaredIn
<1>6. \A kind : Agrees(file, kind, Nothing)
    BY <1>5 DEF Agrees, Nothing
<1>7. ControlAgrees(file, <<>>)
    BY <1>4 DEF ControlAgrees, Range
<1>8. Read(file, cfg, section)
    BY <1>1, <1>2, <1>3, <1>6, <1>7 DEF Read, SectionAt, LinesInOrder
<1> QED BY <1>1, <1>2, <1>8 DEF IInv, ParseInv, TokensExact, MountsExact

LEMMA ReadLineInv == ASSUME IInv, ReadLine PROVE IInv'
<1>1. phase = "parse" /\ UNCHANGED <<agent, tokens, mounts>>
    BY DEF ReadLine
<1>2. PICK l \in Lines : (EnterSection(l) \/ SetEntry(l) \/ Reject(l)) /\ file' = Append(file, l)
    BY DEF ReadLine
<1>3. file \in Seq(Lines) /\ Read(file, cfg, section)
    BY <1>1 DEF IInv, ParseInv
<1>4. file' \in Seq(Lines)
    BY <1>2, <1>3
<1>5. CASE EnterSection(l) \/ SetEntry(l)
  <2>1. phase' = "parse"
      BY <1>1, <1>5 DEF EnterSection, SetEntry
  <2>2. Read(file', cfg', section')
      BY <1>2, <1>3, <1>5, EnterReads, EntryReads
  <2>3. Read(file, cfg, section)' = Read(file', cfg', section')
      OBVIOUS
  <2> QED BY <1>4, <2>1, <2>2 DEF IInv, ParseInv, TokensExact, MountsExact
<1>6. CASE Reject(l)
  <2>1. phase' = "rejected"
      BY <1>6 DEF Reject
  <2> QED BY <1>4, <2>1 DEF IInv, ParseInv, TokensExact, MountsExact
<1> QED BY <1>2, <1>5, <1>6

(* What the file says does not change when it is not read.                 *)
LEMMA ReadingKept ==
    ASSUME UNCHANGED <<file, cfg, section>>
    PROVE  /\ Read(file, cfg, section)' = Read(file, cfg, section)
           /\ Valid' = Valid
           /\ \A kind, name, key : /\ LastValue(kind, name, key)' = LastValue(kind, name, key)
                                   /\ Values(kind, name, key)' = Values(kind, name, key)
           /\ \A a : Membership(a)' = Membership(a) /\ PoolServers(a)' = PoolServers(a)
<1>1. Valid' = Valid
    BY DEF Valid
<1>2. \A i : Headers(i)' = Headers(i) /\ HeaderOf(i)' = HeaderOf(i)
    BY DEF Headers, HeaderOf
<1>3. \A kind, name, key : Entries(kind, name, key)' = Entries(kind, name, key)
    BY <1>2 DEF Entries
<1>4. \A kind, name, key : LastValue(kind, name, key)' = LastValue(kind, name, key)
  <2> TAKE kind, name, key
  <2> DEFINE E == Entries(kind, name, key)
             F == Entries(kind, name, key)'
             Latest(S) == CHOOSE i \in S : \A j \in S : j <= i
  <2>1. LastValue(kind, name, key) = IF E = {} THEN Empty ELSE file[Latest(E)].value
      BY DEF LastValue
  <2>2. LastValue(kind, name, key)' = IF F = {} THEN Empty ELSE file'[Latest(F)].value
      BY DEF LastValue
  <2>3. F = E
      BY <1>3
  <2> HIDE DEF E, F, Latest
  <2> QED BY <2>1, <2>2, <2>3
<1>5. \A kind, name, key : Values(kind, name, key)' = Values(kind, name, key)
    BY <1>3 DEF Values
<1>7. \A a : Membership(a)' = Membership(a)
    BY <1>5 DEF Membership, Declared
<1>8. \A a : PoolServers(a)' = PoolServers(a)
    BY <1>5, <1>7 DEF PoolServers
<1>6. Read(file, cfg, section)' = Read(file, cfg, section)
    BY DEF Read, SectionAt, LinesInOrder, SectionOK, ControlAgrees, Agrees
<1> QED BY <1>1, <1>4, <1>5, <1>6, <1>7, <1>8

LEMMA EndOfFileInv == ASSUME IInv, EndOfFile PROVE IInv'
<1>1. /\ phase = "parse" /\ phase' = IF Valid THEN "loaded" ELSE "rejected"
      /\ UNCHANGED <<file, cfg, section>>
    BY DEF EndOfFile
<1>2. Read(file, cfg, section)' = Read(file, cfg, section) /\ Valid' = Valid
    BY <1>1, ReadingKept
<1> QED BY <1>1, <1>2 DEF IInv, ParseInv, TokensExact, MountsExact

LEMMA AskInv == ASSUME IInv, NEW a \in AgentIDs, Ask(a) PROVE IInv'
<1>1. /\ phase = "loaded" /\ agent' = a /\ tokens' = AllowedTokens(a)
      /\ UNCHANGED <<file, cfg, section>> /\ phase' \in {"answered", "refused"}
    BY DEF Ask
<1>2. file \in Seq(Lines) /\ Read(file, cfg, section) /\ Valid
    BY <1>1 DEF IInv, ParseInv
<1>3. /\ Read(file, cfg, section)' = Read(file, cfg, section) /\ Valid' = Valid
      /\ \A kind, name, key : /\ LastValue(kind, name, key)' = LastValue(kind, name, key)
                              /\ Values(kind, name, key)' = Values(kind, name, key)
      /\ \A b : Membership(b)' = Membership(b) /\ PoolServers(b)' = PoolServers(b)
    BY <1>1, ReadingKept
<1>4. tokens' = Trimmed({LastValue("agent", a, "token")} \cup
                        {LastValue("pool", p, "token") : p \in Membership(a)})
    BY <1>1, <1>2, TokensAgree
<1>5. TokensExact'
    BY <1>1, <1>3, <1>4 DEF TokensExact, Trimmed
<1>6. MountsExact'
  <2>1. SUFFICES ASSUME phase' = "answered" PROVE MountsExact'
      BY DEF MountsExact
  <2>2. PICK order \in SetToSeqs(DOMAIN cfg.pools) :
               mounts' = FoldLeft(AddServer, <<>>, Wanted(a, order))
      BY <2>1 DEF Ask
  <2> DEFINE m == AddAll(Wanted(a, order))
  <2>3. mounts' = m
      BY <2>2 DEF AddAll
  <2> HIDE DEF m
  <2>4. MountsRight(m, Values("agent", a, "nfs"), PoolServers(a))
    <3>1. m = AddAll(Wanted(a, order))
        BY DEF m
    <3> QED BY <1>2, <3>1, MountsAgree
  <2>5. MountsRight(mounts', Values("agent", agent, "nfs")', PoolServers(agent)')
      BY <1>1, <1>3, <2>3, <2>4
  <2> QED BY <2>5 DEF MountsExact, MountsRight, PoolServers, Trimmed
<1> QED BY <1>1, <1>2, <1>3, <1>5, <1>6 DEF IInv, ParseInv

LEMMA StutterInv == ASSUME IInv, UNCHANGED vars PROVE IInv'
<1>1. UNCHANGED <<file, cfg, section, phase, agent, tokens, mounts>>
    BY DEF vars
<1>2. /\ Read(file, cfg, section)' = Read(file, cfg, section) /\ Valid' = Valid
      /\ \A kind, name, key : /\ LastValue(kind, name, key)' = LastValue(kind, name, key)
                              /\ Values(kind, name, key)' = Values(kind, name, key)
      /\ \A b : Membership(b)' = Membership(b) /\ PoolServers(b)' = PoolServers(b)
    BY <1>1, ReadingKept
<1>3. TokensExact'
    BY <1>1, <1>2 DEF IInv, TokensExact, Trimmed
<1>4. MountsExact'
  <2>1. SUFFICES ASSUME phase' = "answered" PROVE MountsExact'
      BY DEF MountsExact
  <2>2. MountsRight(mounts, Values("agent", agent, "nfs"), PoolServers(agent))
      BY <1>1, <2>1 DEF IInv, MountsExact, MountsRight, PoolServers, Trimmed
  <2>3. MountsRight(mounts', Values("agent", agent, "nfs")', PoolServers(agent)')
      BY <1>1, <1>2, <2>2
  <2> QED BY <2>3 DEF MountsExact, MountsRight, PoolServers, Trimmed
<1> QED BY <1>1, <1>2, <1>3, <1>4 DEF IInv, ParseInv

LEMMA StepInv == IInv /\ [Next]_vars => IInv'
BY ReadLineInv, EndOfFileInv, AskInv, StutterInv DEF Next

(* The invariant holds in every behaviour of Config.                       *)
THEOREM IInvariance == Spec => []IInv
BY InitInv, StepInv, PTL DEF Spec

-----------------------------------------------------------------------------
(* The properties.                                                         *)

(* No line of a file of any length is lost or counts under another name,   *)
(* however its sections alternate.                                         *)
THEOREM LinesAreKept == Spec => []LinesKept
<1>1. ASSUME IInv PROVE LinesKept
  <2>1. SUFFICES ASSUME phase \in {"parse", "loaded"}
                 PROVE  /\ DOMAIN cfg.servers = Declared("nfs")
                        /\ DOMAIN cfg.agents = Declared("agent")
                        /\ DOMAIN cfg.pools = Declared("pool")
                        /\ Range(cfg.control) = Values("control", Empty, "token")
                        /\ \A n \in Declared("nfs"), key \in {"host", "export", "mount"} :
                              cfg.servers[n][key] = LastValue("nfs", n, key)
                        /\ \A n \in Declared("agent") :
                              /\ cfg.agents[n].token = LastValue("agent", n, "token")
                              /\ Range(cfg.agents[n].nfs) = Values("agent", n, "nfs")
                              /\ Range(cfg.agents[n].pools) = Values("agent", n, "pools")
                        /\ \A n \in Declared("pool") :
                              /\ cfg.pools[n].token = LastValue("pool", n, "token")
                              /\ Range(cfg.pools[n].nfs) = Values("pool", n, "nfs")
                              /\ Range(cfg.pools[n].agents) = Values("pool", n, "agents")
      BY DEF LinesKept
  <2>2. Read(file, cfg, section)
      BY <1>1, <2>1 DEF IInv, ParseInv
  <2>3. ControlAgrees(file, cfg.control) /\ Agrees(file, "nfs", cfg.servers)
        /\ Agrees(file, "agent", cfg.agents) /\ Agrees(file, "pool", cfg.pools)
      BY <2>2 DEF Read
  <2>4. DOMAIN cfg.servers = Declared("nfs") /\ DOMAIN cfg.agents = Declared("agent")
        /\ DOMAIN cfg.pools = Declared("pool")
        /\ Range(cfg.control) = Values("control", Empty, "token")
      BY <2>3, Readings DEF Agrees, ControlAgrees
  <2>5. \A n \in Declared("nfs"), key \in {"host", "export", "mount"} :
            cfg.servers[n][key] = LastValue("nfs", n, key)
      BY <2>3, <2>4, Readings DEF Agrees, Scalars
  <2>6. \A n \in Declared("agent") :
            /\ cfg.agents[n]["token"] = LastValue("agent", n, "token")
            /\ Range(cfg.agents[n]["nfs"]) = Values("agent", n, "nfs")
            /\ Range(cfg.agents[n]["pools"]) = Values("agent", n, "pools")
      BY <2>3, <2>4, Readings DEF Agrees, Scalars, Lists
  <2>7. \A n \in Declared("pool") :
            /\ cfg.pools[n]["token"] = LastValue("pool", n, "token")
            /\ Range(cfg.pools[n]["nfs"]) = Values("pool", n, "nfs")
            /\ Range(cfg.pools[n]["agents"]) = Values("pool", n, "agents")
      BY <2>3, <2>4, Readings DEF Agrees, Scalars, Lists
  <2> QED BY <2>4, <2>5, <2>6, <2>7
<1> QED BY <1>1, IInvariance, PTL

(* A file that is loaded has no malformed line, no blank control token and *)
(* no server without a name or one of its parts, whatever its later lines  *)
(* took back.                                                              *)
THEOREM LoadedFilesAreSound == Spec => []LoadedIsSound
<1>1. ASSUME IInv PROVE LoadedIsSound
  <2>1. SUFFICES ASSUME phase \in {"loaded", "answered", "refused"}
                 PROVE  /\ \A i \in DOMAIN file : file[i].line # "malformed"
                        /\ \A x \in Values("control", Empty, "token") : ~Blank(x)
                        /\ \A n \in Declared("nfs"), key \in {"host", "export", "mount"} :
                              n # Empty /\ ~Blank(LastValue("nfs", n, key))
      BY DEF LoadedIsSound
  <2>2. Read(file, cfg, section) /\ Valid
      BY <1>1, <2>1 DEF IInv, ParseInv
  <2>3. LinesInOrder(file) /\ ControlAgrees(file, cfg.control) /\ Agrees(file, "nfs", cfg.servers)
      BY <2>2 DEF Read
  <2>4. \A i \in DOMAIN file : file[i].line # "malformed"
      BY <2>3 DEF LinesInOrder
  <2>5. ASSUME NEW x \in Values("control", Empty, "token") PROVE ~Blank(x)
    <3>1. x \in Range(cfg.control)
        BY <2>3, Readings DEF ControlAgrees
    <3> QED BY <2>2, <3>1 DEF Valid, Range
  <2>6. ASSUME NEW n \in Declared("nfs"), NEW key \in {"host", "export", "mount"}
        PROVE  n # Empty /\ ~Blank(LastValue("nfs", n, key))
    <3>1. n \in DOMAIN cfg.servers /\ cfg.servers[n][key] = LastValue("nfs", n, key)
        BY <2>3, Readings DEF Agrees, Scalars
    <3>2. Complete(cfg.servers[n])
        BY <2>2, <3>1 DEF Valid
    <3>3. ~Blank(cfg.servers[n][key])
        BY <3>2 DEF Complete
    <3>4. n # Empty
      <4>1. PICK i \in DOMAIN file : /\ file[i].line = "section" /\ file[i].kind = "nfs"
                                     /\ file[i].name = n
          BY DEF Declared
      <4> QED BY <2>3, <4>1 DEF LinesInOrder, SectionOK, Named
    <3> QED BY <3>1, <3>3, <3>4
  <2> QED BY <2>4, <2>5, <2>6
<1> QED BY <1>1, IInvariance, PTL

(* Whatever the order in which the pools are iterated, an agent that is    *)
(* given mounts gets every server that it or one of its pools names, each  *)
(* once, and its own first.                                                *)
THEOREM MountsAreExact == Spec => []MountsExact
<1>1. IInv => MountsExact
    BY DEF IInv
<1> QED BY <1>1, IInvariance, PTL

(* An agent gets its own token and those of the pools it belongs to, as    *)
(* the file declares them on either side, and no other.                    *)
THEOREM TokensAreExact == Spec => []TokensExact
<1>1. IInv => TokensExact
    BY DEF IInv
<1> QED BY <1>1, IInvariance, PTL
=============================================================================
