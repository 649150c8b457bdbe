---------------------------- MODULE ReportProofs ----------------------------
(***************************************************************************)
(* Proofs about Reports, for any outcomes and any numbers of results and   *)
(* arrays: whoever writes to an array that it has is seen by nobody else,  *)
(* and a report counts what was measured.                                  *)
(***************************************************************************)
EXTENDS Reports, FoldTheorems

-----------------------------------------------------------------------------
(* The inductive invariant.                                                *)

Actions == {"copy", "copy_batch", "delete", "unknown"}
Dsts    == {o.dst : o \in Outcomes}

Message == [of : Outcomes, action : Actions, dst : Dsts, bytes : Nat, milli : Nat, array : Nat]
Result  == [of : Outcomes, action : Actions, dst : Dsts, bytes : Nat, nanos : Nat, array : Nat]
Listing == [copies : Seq(Result), deletes : Seq(Result), total : Nat, completed : BOOLEAN]

(* What has results, with the two lists of a report or a snapshot apart.   *)
Holders == {"message", "result", "copies", "deletes", "listed", "stored", "storedDeletes"}

Held(h) ==
    CASE h = "message"       -> IF message = None THEN <<>> ELSE <<message>>
      [] h = "result"        -> IF result = None THEN <<>> ELSE <<result>>
      [] h = "copies"        -> report.copies
      [] h = "deletes"       -> report.deletes
      [] h = "listed"        -> listed
      [] h = "stored"        -> IF stored = None THEN <<>> ELSE stored.copies
      [] h = "storedDeletes" -> IF stored = None THEN <<>> ELSE stored.deletes

(* Every array has one owner, and one place there.                         *)
In(rs)    == {rs[i].array : i \in DOMAIN rs}
Apart(rs) == \A i, j \in DOMAIN rs : rs[i].array = rs[j].array => i = j

Owned ==
    /\ \A h \in Holders : In(Held(h)) \subseteq DOMAIN heap /\ Apart(Held(h))
    /\ \A h, k \in Holders : h # k => In(Held(h)) \cap In(Held(k)) = {}

(* What results say, and how many entries their arrays have.               *)
Whole(r) == r.array \in DOMAIN heap /\ Len(heap[r.array]) = Len(r.of.entries)
Good(r)  == r \in Result /\ Fields(r) = Sent(r.of) /\ Whole(r)

AllGood(rs) == \A i \in DOMAIN rs : Good(rs[i])

GoodMessage ==
    /\ message \in Message /\ Whole(message)
    /\ message.action = message.of.action /\ message.dst = message.of.dst
    /\ message.bytes = message.of.bytes /\ message.milli = ToMilli(message.of.nanos)

Says ==
    /\ heap \in Seq(Seq(Nat))
    /\ message # None => GoodMessage
    /\ result # None => Good(result)
    /\ listed \in Seq(Result) /\ AllGood(listed)

(* A list has the results of just the outcomes at the places I.            *)
Matches(rs, outcomes, I) ==
    \E b \in Bijection(DOMAIN rs, I) : \A i \in DOMAIN rs : rs[i].of = outcomes[b[i]]

Deleted(outcomes) == {i \in DOMAIN outcomes : outcomes[i].action = "delete"}
Copied(outcomes)  == DOMAIN outcomes \ Deleted(outcomes)
BytesOf(outcomes) == [i \in DOMAIN outcomes |-> outcomes[i].bytes]

Lists(r, outcomes) ==
    /\ r \in Listing /\ outcomes \in Seq(Outcomes)
    /\ AllGood(r.copies) /\ AllGood(r.deletes)
    /\ Matches(r.copies, outcomes, Copied(outcomes))
    /\ Matches(r.deletes, outcomes, Deleted(outcomes))
    /\ r.total = SumFunctionOnSet(BytesOf(outcomes), Copied(outcomes))

IInv ==
    /\ Says /\ Owned
    /\ Lists(report, measured)
    /\ stored # None => Lists(stored, kept)

-----------------------------------------------------------------------------
(* Arrays and clones.                                                      *)

(* New arrays leave the old ones as they are.                              *)
Larger(big, old) == DOMAIN old \subseteq DOMAIN big /\ \A a \in DOMAIN old : big[a] = old[a]

(* As they are, but for what a caller writes into them.                    *)
AsLong(big, old) ==
    DOMAIN old \subseteq DOMAIN big /\ \A a \in DOMAIN old : Len(big[a]) = Len(old[a])

LEMMA LargerAsLong == ASSUME NEW big, NEW old, Larger(big, old) PROVE AsLong(big, old)
BY DEF Larger, AsLong

IsGrown(big, old, new) == big = old \o new

Grown(big, old, new) ==
    /\ big \in Seq(Seq(Nat)) /\ Larger(big, old) /\ Len(big) = Len(old) + Len(new)
    /\ Len(old) \in Nat /\ DOMAIN big = 1..Len(big) /\ DOMAIN old = 1..Len(old)
    /\ \A j \in DOMAIN new : /\ Len(old) + j \in DOMAIN big /\ big[Len(old) + j] = new[j]
                             /\ Len(old) + j \notin DOMAIN old

LEMMA HeapGrows ==
    ASSUME NEW old \in Seq(Seq(Nat)), NEW new \in Seq(Seq(Nat)), NEW big, IsGrown(big, old, new)
    PROVE  Grown(big, old, new)
<1>1. /\ big \in Seq(Seq(Nat)) /\ Len(big) = Len(old) + Len(new)
      /\ Len(old) \in Nat /\ Len(new) \in Nat
      /\ DOMAIN big = 1..Len(big) /\ DOMAIN old = 1..Len(old) /\ DOMAIN new = 1..Len(new)
    BY DEF IsGrown
<1>2. \A a \in 1..Len(old) : a \in 1..Len(big) /\ big[a] = old[a]
    BY <1>1 DEF IsGrown
<1>3. \A j \in 1..Len(new) : big[Len(old) + j] = new[j]
  <2> TAKE j \in 1..Len(new)
  <2>1. Len(old) + j \in 1..(Len(old) + Len(new)) /\ ~ (Len(old) + j <= Len(old))
        /\ Len(old) + j - Len(old) = j
      BY <1>1
  <2> QED BY <2>1 DEF IsGrown
<1>4. \A j \in 1..Len(new) : Len(old) + j \in 1..Len(big) /\ Len(old) + j \notin 1..Len(old)
    BY <1>1
<1> QED BY <1>1, <1>2, <1>3, <1>4 DEF Larger, Grown

(* What results say stays true.                                            *)
LEMMA GoodKept ==
    ASSUME AsLong(heap', heap), NEW rs, AllGood(rs) PROVE AllGood(rs)'
<1> SUFFICES ASSUME NEW i \in DOMAIN rs PROVE Good(rs[i])'
    BY DEF AllGood
<1>1. Good(rs[i])
    BY DEF AllGood
<1>2. Whole(rs[i])'
    BY <1>1 DEF Good, Whole, AsLong
<1> QED BY <1>1, <1>2 DEF Good

(* The arrays after the given place get what those of rs hold.             *)
Receives(rs, after) ==
    \A i \in DOMAIN rs : after + i \in DOMAIN heap' /\ heap'[after + i] = heap[rs[i].array]

LEMMA ArraysGrow ==
    ASSUME heap \in Seq(Seq(Nat)), NEW T, NEW rs \in Seq(T),
           \A i \in DOMAIN rs : rs[i].array \in DOMAIN heap, heap' = heap \o Arrays(rs)
    PROVE  /\ heap' \in Seq(Seq(Nat)) /\ Larger(heap', heap) /\ Receives(rs, Len(heap))
           /\ Len(heap') = Len(heap) + Len(rs) /\ Len(heap) \in Nat /\ Len(rs) \in Nat
           /\ DOMAIN heap' = 1..Len(heap') /\ DOMAIN heap = 1..Len(heap)
<1> DEFINE new == Arrays(rs)
<1>1. \A i \in DOMAIN rs : new[i] = heap[rs[i].array] /\ heap[rs[i].array] \in Seq(Nat)
    BY DEF Arrays, Entries
<1>2. DOMAIN new = 1..Len(rs) /\ DOMAIN rs = 1..Len(rs) /\ Len(rs) \in Nat
    BY DEF Arrays
<1>3. new \in Seq(Seq(Nat)) /\ Len(new) = Len(rs)
  <2>1. new = [i \in 1..Len(rs) |-> heap[rs[i].array]]
      BY <1>2 DEF Arrays, Entries
  <2> HIDE DEF new
  <2>2. \A i \in 1..Len(rs) : heap[rs[i].array] \in Seq(Nat)
      BY <1>1, <1>2
  <2> QED BY <1>2, <2>1, <2>2
<1>4. IsGrown(heap', heap, new)
    BY DEF IsGrown
<1> HIDE DEF new
<1>5. Grown(heap', heap, new)
    BY <1>3, <1>4, HeapGrows
<1>6. /\ heap' \in Seq(Seq(Nat)) /\ Larger(heap', heap) /\ Len(heap') = Len(heap) + Len(new)
      /\ Len(heap) \in Nat /\ DOMAIN heap' = 1..Len(heap') /\ DOMAIN heap = 1..Len(heap)
      /\ \A j \in DOMAIN new : Len(heap) + j \in DOMAIN heap' /\ heap'[Len(heap) + j] = new[j]
    BY <1>5 DEF Grown
<1>7. Receives(rs, Len(heap))
    BY <1>1, <1>2, <1>6 DEF Receives
<1> QED BY <1>2, <1>3, <1>6, <1>7

(* Clones are as what they were made of, in arrays of their own.           *)
Copy(cs, rs, after) ==
    /\ cs \in Seq(Result) /\ DOMAIN cs = DOMAIN rs
    /\ \A i \in DOMAIN rs : /\ cs[i].array = after + i /\ cs[i].of = rs[i].of
                            /\ Fields(cs[i]) = Fields(rs[i])
    /\ Apart(cs) /\ In(cs) = (after + 1)..(after + Len(rs))

LEMMA CloneFacts ==
    ASSUME NEW rs \in Seq(Result), NEW after \in Nat, NEW cs, cs = Clones(rs, after)
    PROVE  Copy(cs, rs, after)
<1>1. Len(rs) \in Nat /\ DOMAIN rs = 1..Len(rs) /\ \A i \in 1..Len(rs) : rs[i] \in Result
    OBVIOUS
<1>2. DOMAIN cs = 1..Len(rs) /\ \A i \in 1..Len(rs) : cs[i] = [rs[i] EXCEPT !.array = after + i]
    BY <1>1 DEF Clones
<1>3. ASSUME NEW i \in 1..Len(rs)
      PROVE  /\ cs[i] \in Result /\ cs[i].array = after + i /\ cs[i].of = rs[i].of
             /\ Fields(cs[i]) = Fields(rs[i])
  <2>1. rs[i] \in Result /\ cs[i] = [rs[i] EXCEPT !.array = after + i] /\ after + i \in Nat
      BY <1>1, <1>2
  <2>2. cs[i] \in Result /\ cs[i].array = after + i /\ cs[i].of = rs[i].of
      BY <2>1 DEF Result
  <2>3. /\ cs[i].action = rs[i].action /\ cs[i].dst = rs[i].dst /\ cs[i].bytes = rs[i].bytes
        /\ cs[i].nanos = rs[i].nanos
      BY <2>1 DEF Result
  <2> QED BY <2>2, <2>3 DEF Fields
<1>4. cs \in Seq(Result) /\ Len(cs) = Len(rs)
  <2>1. cs = [i \in 1..Len(rs) |-> [rs[i] EXCEPT !.array = after + i]]
      BY <1>1 DEF Clones
  <2>2. \A i \in 1..Len(rs) : [rs[i] EXCEPT !.array = after + i] \in Result
      BY <1>2, <1>3
  <2> QED BY <1>1, <2>1, <2>2
<1>5. Apart(cs)
    BY <1>1, <1>2, <1>3 DEF Apart
<1>6. In(cs) = (after + 1)..(after + Len(rs))
  <2>1. \A i \in 1..Len(rs) : after + i \in (after + 1)..(after + Len(rs))
      BY <1>1
  <2>2. \A a \in (after + 1)..(after + Len(rs)) : a - after \in 1..Len(rs) /\ a = after + (a - after)
      BY <1>1
  <2> QED BY <1>2, <1>3, <2>1, <2>2 DEF In
<1> QED BY <1>1, <1>2, <1>3, <1>4, <1>5, <1>6 DEF Copy

LEMMA CloneGood ==
    ASSUME NEW rs \in Seq(Result), AllGood(rs), NEW after \in Nat, Receives(rs, after),
           NEW cs, cs = Clones(rs, after)
    PROVE  AllGood(cs)'
<1>1. /\ cs \in Seq(Result) /\ DOMAIN cs = DOMAIN rs
      /\ \A i \in DOMAIN rs : /\ cs[i].array = after + i /\ cs[i].of = rs[i].of
                              /\ Fields(cs[i]) = Fields(rs[i])
    BY CloneFacts DEF Copy
<1> SUFFICES ASSUME NEW i \in DOMAIN rs PROVE Good(cs[i])'
    BY <1>1 DEF AllGood
<1>2. Good(rs[i])
    BY DEF AllGood
<1>3. cs[i] \in Result
    BY <1>1
<1>4. Fields(cs[i]) = Sent(cs[i].of)
    BY <1>1, <1>2 DEF Good
<1>5. Whole(cs[i])'
    BY <1>1, <1>2 DEF Receives, Good, Whole
<1> QED BY <1>3, <1>4, <1>5 DEF Good

(* Two lists, one after the other.                                         *)
IsJoined(all, rs, ds) ==
    /\ all \in Seq(Result) /\ Len(all) = Len(rs) + Len(ds)
    /\ \A i \in DOMAIN rs : i \in DOMAIN all /\ all[i] = rs[i]
    /\ \A i \in DOMAIN ds : Len(rs) + i \in DOMAIN all /\ all[Len(rs) + i] = ds[i]
    /\ \A j \in DOMAIN all : \/ j \in DOMAIN rs /\ all[j] = rs[j]
                             \/ j - Len(rs) \in DOMAIN ds /\ all[j] = ds[j - Len(rs)]

LEMMA Joined ==
    ASSUME NEW rs \in Seq(Result), NEW ds \in Seq(Result)
    PROVE  IsJoined(rs \o ds, rs, ds)
<1> SUFFICES ASSUME NEW all, all = rs \o ds PROVE IsJoined(all, rs, ds)
    OBVIOUS
<1>1. /\ all \in Seq(Result) /\ Len(all) = Len(rs) + Len(ds)
      /\ Len(rs) \in Nat /\ Len(ds) \in Nat
      /\ DOMAIN all = 1..Len(all) /\ DOMAIN rs = 1..Len(rs) /\ DOMAIN ds = 1..Len(ds)
    OBVIOUS
<1>2. \A i \in 1..Len(rs) : i \in 1..Len(all) /\ all[i] = rs[i]
    BY <1>1
<1>3. \A i \in 1..Len(ds) : Len(rs) + i \in 1..Len(all) /\ all[Len(rs) + i] = ds[i]
  <2> TAKE i \in 1..Len(ds)
  <2>1. Len(rs) + i \in 1..(Len(rs) + Len(ds)) /\ ~ (Len(rs) + i <= Len(rs))
        /\ Len(rs) + i - Len(rs) = i
      BY <1>1
  <2> QED BY <1>1, <2>1
<1>4. \A j \in 1..Len(all) : \/ j \in 1..Len(rs) /\ all[j] = rs[j]
                             \/ j - Len(rs) \in 1..Len(ds) /\ all[j] = ds[j - Len(rs)]
    BY <1>1
<1> QED BY <1>1, <1>2, <1>3, <1>4 DEF IsJoined

(* The arrays of two lists are added.                                      *)
GrownByBoth(rs, ds) == heap' = heap \o Arrays(rs \o ds)

BothReceive(rs, ds) ==
    /\ heap' \in Seq(Seq(Nat)) /\ Larger(heap', heap)
    /\ Receives(rs, Len(heap)) /\ Receives(ds, Len(heap) + Len(rs))
    /\ Len(heap) \in Nat /\ Len(rs) \in Nat /\ Len(heap') \in Nat
    /\ Len(heap') = Len(heap) + Len(rs) + Len(ds) /\ Len(heap) + Len(rs) <= Len(heap')
    /\ DOMAIN heap' = 1..Len(heap') /\ DOMAIN heap = 1..Len(heap)

LEMMA BothGrow ==
    ASSUME heap \in Seq(Seq(Nat)), NEW rs \in Seq(Result), NEW ds \in Seq(Result),
           \A i \in DOMAIN rs : rs[i].array \in DOMAIN heap,
           \A i \in DOMAIN ds : ds[i].array \in DOMAIN heap, GrownByBoth(rs, ds)
    PROVE  BothReceive(rs, ds)
<1> DEFINE all == rs \o ds
<1>1. IsJoined(all, rs, ds) /\ heap' = heap \o Arrays(all)
    BY Joined DEF GrownByBoth
<1>2. Len(rs) \in Nat /\ Len(ds) \in Nat /\ DOMAIN rs = 1..Len(rs) /\ DOMAIN ds = 1..Len(ds)
    OBVIOUS
<1> HIDE DEF all
<1>3. all \in Seq(Result) /\ Len(all) = Len(rs) + Len(ds)
    BY <1>1 DEF IsJoined
<1>4. \A j \in DOMAIN all : all[j].array \in DOMAIN heap
    BY <1>1 DEF IsJoined
<1>5. /\ heap' \in Seq(Seq(Nat)) /\ Larger(heap', heap) /\ Receives(all, Len(heap))
      /\ Len(heap') = Len(heap) + Len(all) /\ Len(heap) \in Nat
      /\ DOMAIN heap' = 1..Len(heap') /\ DOMAIN heap = 1..Len(heap)
    BY <1>1, <1>3, <1>4, ArraysGrow
<1>6. Receives(rs, Len(heap))
    BY <1>1, <1>5 DEF Receives, IsJoined
<1>7. Receives(ds, Len(heap) + Len(rs))
  <2> SUFFICES ASSUME NEW i \in DOMAIN ds
               PROVE  /\ Len(heap) + Len(rs) + i \in DOMAIN heap'
                      /\ heap'[Len(heap) + Len(rs) + i] = heap[ds[i].array]
      BY DEF Receives
  <2>1. Len(rs) + i \in DOMAIN all /\ all[Len(rs) + i] = ds[i]
      BY <1>1 DEF IsJoined
  <2>2. Len(heap) + Len(rs) + i = Len(heap) + (Len(rs) + i)
      BY <1>2, <1>5
  <2> QED BY <1>5, <2>1, <2>2 DEF Receives
<1>8. /\ Len(heap') = Len(heap) + Len(rs) + Len(ds) /\ Len(heap) + Len(rs) <= Len(heap')
      /\ Len(heap') \in Nat
    BY <1>2, <1>3, <1>5
<1> QED BY <1>2, <1>5, <1>6, <1>7, <1>8 DEF BothReceive

-----------------------------------------------------------------------------
(* Owners.                                                                 *)

(* Holders that have what they had and new arrays of their own.            *)
LEMMA OwnedNext ==
    ASSUME Owned, DOMAIN heap \subseteq DOMAIN heap', NEW fresh,
           \A h \in Holders : /\ In(Held(h)') \subseteq In(Held(h)) \cup fresh[h]
                              /\ Apart(Held(h)')
                              /\ fresh[h] \subseteq DOMAIN heap' \ DOMAIN heap,
           \A h, k \in Holders : h # k => fresh[h] \cap fresh[k] = {}
    PROVE  Owned'
<1>1. \A h \in Holders : In(Held(h)) \subseteq DOMAIN heap
    BY DEF Owned
<1>2. ASSUME NEW h \in Holders PROVE In(Held(h)') \subseteq DOMAIN heap'
    BY <1>1
<1>3. ASSUME NEW h \in Holders, NEW k \in Holders, h # k
      PROVE  In(Held(h)') \cap In(Held(k)') = {}
  <2>1. In(Held(h)) \cap In(Held(k)) = {}
      BY <1>3 DEF Owned
  <2>2. fresh[h] \cap fresh[k] = {}
      BY <1>3
  <2> QED BY <1>1, <2>1, <2>2
<1> QED BY <1>2, <1>3 DEF Owned, In, Apart

(* A list with one more element, at n.                                     *)
IsMore(as, rs, r, n) == as = Append(rs, r) /\ n = Len(rs) + 1

Extended(as, rs, r, n) ==
    /\ as \in Seq(Result) /\ DOMAIN as = DOMAIN rs \cup {n}
    /\ n \notin DOMAIN rs /\ as[n] = r /\ \A i \in DOMAIN rs : as[i] = rs[i]
    /\ In(as) = In(rs) \cup {r.array}
    /\ Apart(rs) /\ r.array \notin In(rs) => Apart(as)

LEMMA InAppended ==
    ASSUME NEW rs \in Seq(Result), NEW r \in Result, NEW as, NEW n, IsMore(as, rs, r, n)
    PROVE  Extended(as, rs, r, n)
<1>1. /\ as \in Seq(Result) /\ DOMAIN as = DOMAIN rs \cup {n}
      /\ n \notin DOMAIN rs /\ as[n] = r
      /\ \A i \in DOMAIN rs : as[i] = rs[i]
  <2>1. /\ as \in Seq(Result) /\ Len(rs) \in Nat /\ DOMAIN rs = 1..Len(rs)
        /\ Len(as) = Len(rs) + 1 /\ n = Len(rs) + 1
        /\ DOMAIN as = (1..Len(rs)) \cup {Len(rs) + 1} /\ Len(rs) + 1 \notin 1..Len(rs)
        /\ as[Len(rs) + 1] = r /\ \A i \in 1..Len(rs) : as[i] = rs[i]
      BY OneIndexMore DEF IsMore
  <2> QED BY <2>1
<1>2. In(as) = In(rs) \cup {r.array}
  <2>1. \A i \in DOMAIN as : as[i].array \in In(rs) \cup {r.array}
      BY <1>1 DEF In
  <2>2. \A i \in DOMAIN rs : rs[i].array = as[i].array /\ i \in DOMAIN as
      BY <1>1
  <2>3. r.array = as[n].array /\ n \in DOMAIN as
      BY <1>1
  <2> QED BY <2>1, <2>2, <2>3 DEF In
<1>3. Apart(rs) /\ r.array \notin In(rs) => Apart(as)
    BY <1>1 DEF In, Apart
<1> QED BY <1>1, <1>2, <1>3 DEF Extended

-----------------------------------------------------------------------------
(* Lists and what was measured.                                            *)

(* A list still matches when its results are cloned, put in another order  *)
(* or joined by one more.                                                  *)
LEMMA MatchesSame ==
    ASSUME NEW rs, NEW cs, NEW outs, NEW more, NEW I, Matches(rs, outs, I),
           DOMAIN cs = DOMAIN rs, \A i \in DOMAIN rs : cs[i].of = rs[i].of,
           \A k \in I : more[k] = outs[k]
    PROVE  Matches(cs, more, I)
<1>1. PICK b \in Bijection(DOMAIN rs, I) : \A i \in DOMAIN rs : rs[i].of = outs[b[i]]
    BY DEF Matches
<1>2. \A i \in DOMAIN rs : b[i] \in I
    BY DEF Bijection, Injection
<1> QED BY <1>1, <1>2 DEF Matches

LEMMA MatchesPermuted ==
    ASSUME NEW rs, NEW outs, NEW I, Matches(rs, outs, I),
           NEW p \in Bijection(DOMAIN rs, DOMAIN rs), NEW cs,
           cs = [i \in DOMAIN rs |-> rs[p[i]]]
    PROVE  Matches(cs, outs, I)
<1>1. PICK b \in Bijection(DOMAIN rs, I) : \A i \in DOMAIN rs : rs[i].of = outs[b[i]]
    BY DEF Matches
<1> DEFINE q == [i \in DOMAIN rs |-> b[p[i]]]
<1>2. /\ p \in [DOMAIN rs -> DOMAIN rs] /\ b \in [DOMAIN rs -> I]
      /\ \A i, j \in DOMAIN rs : p[i] = p[j] => i = j
      /\ \A i, j \in DOMAIN rs : b[i] = b[j] => i = j
      /\ \A i \in DOMAIN rs : \E j \in DOMAIN rs : p[j] = i
      /\ \A k \in I : \E j \in DOMAIN rs : b[j] = k
    BY DEF Bijection, Injection, Surjection, IsInjective
<1>3. q \in [DOMAIN rs -> I] /\ \A i \in DOMAIN rs : q[i] = b[p[i]]
    BY <1>2
<1>4. \A i, j \in DOMAIN rs : q[i] = q[j] => i = j
    BY <1>2, <1>3
<1>5. \A k \in I : \E j \in DOMAIN rs : q[j] = k
    BY <1>2, <1>3
<1> HIDE DEF q
<1>6. q \in Bijection(DOMAIN cs, I)
    BY <1>3, <1>4, <1>5 DEF Bijection, Injection, Surjection, IsInjective
<1>7. \A i \in DOMAIN cs : cs[i].of = outs[q[i]]
    BY <1>1, <1>2, <1>3
<1> QED BY <1>6, <1>7 DEF Matches

IsWith(J, I, m) == J = I \cup {m} /\ m \notin I

LEMMA MatchesAppended ==
    ASSUME NEW rs, NEW outs, NEW I, Matches(rs, outs, I),
           NEW as, NEW r, NEW n, Extended(as, rs, r, n),
           NEW more, NEW m, NEW J, IsWith(J, I, m),
           \A k \in I : more[k] = outs[k], r.of = more[m]
    PROVE  Matches(as, more, J)
<1>1. /\ DOMAIN as = DOMAIN rs \cup {n} /\ n \notin DOMAIN rs /\ as[n] = r
      /\ \A i \in DOMAIN rs : as[i] = rs[i] /\ as[i].of = rs[i].of
    BY DEF Extended
<1>2. J = I \cup {m} /\ m \notin I
    BY DEF IsWith
<1>3. PICK b \in Bijection(DOMAIN rs, I) : \A i \in DOMAIN rs : rs[i].of = outs[b[i]]
    BY DEF Matches
<1> DEFINE q == [i \in DOMAIN as |-> IF i = n THEN m ELSE b[i]]
<1>4. /\ b \in [DOMAIN rs -> I] /\ \A i, j \in DOMAIN rs : b[i] = b[j] => i = j
      /\ \A k \in I : \E j \in DOMAIN rs : b[j] = k
    BY DEF Bijection, Injection, Surjection, IsInjective
<1>5. q \in [DOMAIN as -> J] /\ q[n] = m /\ \A i \in DOMAIN rs : q[i] = b[i]
    BY <1>1, <1>2, <1>4
<1> HIDE DEF q
<1>6. \A i, j \in DOMAIN as : q[i] = q[j] => i = j
    BY <1>1, <1>2, <1>4, <1>5
<1>7. \A k \in J : \E j \in DOMAIN as : q[j] = k
    BY <1>1, <1>2, <1>4, <1>5
<1>8. q \in Bijection(DOMAIN as, J)
    BY <1>5, <1>6, <1>7 DEF Bijection, Injection, Surjection, IsInjective
<1>9. ASSUME NEW i \in DOMAIN as PROVE as[i].of = more[q[i]]
  <2>1. CASE i = n
      BY <1>1, <1>5, <2>1
  <2>2. CASE i # n
    <3>1. i \in DOMAIN rs /\ q[i] = b[i] /\ b[i] \in I
        BY <1>1, <1>4, <1>5, <2>2
    <3>2. as[i].of = rs[i].of /\ rs[i].of = outs[b[i]] /\ more[b[i]] = outs[b[i]]
        BY <1>1, <1>3, <3>1
    <3> QED BY <3>1, <3>2
  <2> QED BY <2>1, <2>2
<1> QED BY <1>8, <1>9 DEF Matches

(* What keeps the lengths of the arrays keeps the rest.                     *)
LEMMA ListsKept ==
    ASSUME AsLong(heap', heap), UNCHANGED <<report, measured>>, Lists(report, measured)
    PROVE  Lists(report, measured)'
BY GoodKept DEF Lists

LEMMA StoredKept ==
    ASSUME AsLong(heap', heap), UNCHANGED <<stored, kept>>, stored # None => Lists(stored, kept)
    PROVE  (stored # None => Lists(stored, kept))'
BY GoodKept DEF Lists

LEMMA SaysKept ==
    ASSUME AsLong(heap', heap), heap' \in Seq(Seq(Nat)), Says,
           message' \in {message, None}, result' \in {result, None}, UNCHANGED listed
    PROVE  Says'
<1>1. message # None => GoodMessage
    BY DEF Says
<1>2. (message # None => GoodMessage)'
    BY <1>1 DEF GoodMessage, Whole, AsLong
<1>3. (result # None => Good(result))'
    BY DEF Says, Good, Whole, AsLong
<1>4. (listed \in Seq(Result) /\ AllGood(listed))'
    BY GoodKept DEF Says
<1> QED BY <1>2, <1>3, <1>4 DEF Says

-----------------------------------------------------------------------------
(* The steps.                                                              *)

LEMMA InitInv == Init => IInv
<1> SUFFICES ASSUME Init PROVE IInv
    OBVIOUS
<1>1. /\ heap = <<>> /\ message = None /\ result = None /\ report = Empty /\ listed = <<>>
      /\ stored = None /\ measured = <<>>
    BY DEF Init
<1>2. \A T : <<>> \in Seq(T)
    OBVIOUS
<1>3. DOMAIN <<>> = {}
    OBVIOUS
<1>4. Says
    BY <1>1, <1>2, <1>3 DEF Says, AllGood
<1>5. Empty \in Listing
    BY <1>2 DEF Empty, Listing
<1>6. Owned
  <2>1. \A h \in Holders : Held(h) = <<>>
      BY <1>1 DEF Holders, Held, Empty
  <2> QED BY <1>3, <2>1 DEF Owned, In, Apart
<1>7. Matches(<<>>, <<>>, {})
  <2> DEFINE b == [i \in {} |-> 0]
  <2>1. b \in Bijection({}, {})
      BY DEF Bijection, Injection, Surjection, IsInjective
  <2> QED BY <1>3, <2>1 DEF Matches
<1>8. SumFunctionOnSet(BytesOf(<<>>), {}) = 0
    BY SumEmpty
<1>9. Copied(<<>>) = {} /\ Deleted(<<>>) = {}
    BY <1>3 DEF Copied, Deleted
<1>10. Empty.copies = <<>> /\ Empty.deletes = <<>> /\ Empty.total = 0
    BY DEF Empty
<1>11. Lists(report, measured)
    BY <1>1, <1>2, <1>3, <1>5, <1>7, <1>8, <1>9, <1>10 DEF Lists, AllGood
<1> QED BY <1>1, <1>4, <1>6, <1>11 DEF IInv

(* One holder gets new arrays, or has none; the others are as before.      *)
LEMMA OwnedOne ==
    ASSUME Owned, DOMAIN heap \subseteq DOMAIN heap', NEW one \in Holders, NEW fresh,
           \A h \in Holders \ {one} : Held(h)' = Held(h),
           In(Held(one)') \subseteq In(Held(one)) \cup fresh, Apart(Held(one)'),
           fresh \subseteq DOMAIN heap' \ DOMAIN heap
    PROVE  Owned'
<1> DEFINE news == [h \in Holders |-> IF h = one THEN fresh ELSE {}]
<1>1. news[one] = fresh /\ \A h \in Holders \ {one} : news[h] = {}
    OBVIOUS
<1> HIDE DEF news
<1>2. ASSUME NEW h \in Holders
      PROVE  /\ In(Held(h)') \subseteq In(Held(h)) \cup news[h]
             /\ Apart(Held(h)')
             /\ news[h] \subseteq DOMAIN heap' \ DOMAIN heap
  <2>1. CASE h = one
      BY <1>1, <2>1
  <2>2. CASE h # one
    <3>1. Held(h)' = Held(h) /\ Apart(Held(h)) /\ news[h] = {}
        BY <1>1, <2>2 DEF Owned
    <3> QED BY <3>1
  <2> QED BY <2>1, <2>2
<1>3. \A h, k \in Holders : h # k => news[h] \cap news[k] = {}
    BY <1>1
<1> QED BY <1>2, <1>3, OwnedNext

LEMMA ReportToMessageInv == ASSUME IInv, ReportToMessage PROVE IInv'
<1>1. PICK o \in Outcomes :
          /\ heap' = Append(heap, o.entries)
          /\ message' = [of |-> o, action |-> o.action, dst |-> o.dst, bytes |-> o.bytes,
                         milli |-> ToMilli(o.nanos), array |-> Len(heap) + 1]
    BY DEF ReportToMessage
<1>2. message = None /\ UNCHANGED <<result, report, listed, stored, measured, kept>>
    BY DEF ReportToMessage
<1>3. heap \in Seq(Seq(Nat)) /\ o.entries \in Seq(Nat)
    BY ReportsAssumption DEF IInv, Says
<1> DEFINE n == Len(heap) + 1
<1>4. /\ heap' \in Seq(Seq(Nat)) /\ DOMAIN heap' = DOMAIN heap \cup {n} /\ n \notin DOMAIN heap
      /\ n \in Nat /\ heap'[n] = o.entries /\ \A a \in DOMAIN heap : heap'[a] = heap[a]
  <2>1. /\ Len(heap) \in Nat /\ DOMAIN heap = 1..Len(heap) /\ Append(heap, o.entries) \in Seq(Seq(Nat))
        /\ DOMAIN Append(heap, o.entries) = (1..Len(heap)) \cup {n}
        /\ Append(heap, o.entries)[n] = o.entries
        /\ \A a \in 1..Len(heap) : Append(heap, o.entries)[a] = heap[a]
      BY <1>3, OneIndexMore
  <2> QED BY <1>1, <2>1
<1> HIDE DEF n
<1>5. AsLong(heap', heap)
    BY <1>4 DEF AsLong
<1>6. GoodMessage'
  <2>1. ToMilli(o.nanos) \in Nat
      BY ReportsAssumption, DivRange DEF ToMilli
  <2>2. message' \in Message
      BY <1>1, <1>4, <2>1, ReportsAssumption DEF Message, Actions, Dsts, n
  <2>3. message'.array = n /\ message'.of = o
      BY <1>1 DEF n
  <2> QED BY <1>1, <1>4, <2>2, <2>3 DEF GoodMessage, Whole
<1>7. Says'
  <2>1. (result # None => Good(result))'
      BY <1>2, <1>5 DEF IInv, Says, Good, Whole, AsLong
  <2>2. (listed \in Seq(Result) /\ AllGood(listed))'
      BY <1>2, <1>5, GoodKept DEF IInv, Says
  <2> QED BY <1>4, <1>6, <2>1, <2>2 DEF Says
<1>8. Owned'
  <2>1. \A h \in Holders \ {"message"} : Held(h)' = Held(h)
      BY <1>2 DEF Holders, Held
  <2>2. Held("message")' = <<>> \/ Held("message")' = <<message'>>
      BY DEF Held
  <2>3. Held("message") = <<>>
      BY <1>2 DEF Held
  <2>4. message'.array = n
      BY <1>1 DEF n
  <2>5. In(Held("message")') \subseteq {n} /\ Apart(Held("message")')
      BY <2>2, <2>4 DEF In, Apart
  <2> QED BY <1>4, <2>1, <2>5, OwnedOne DEF IInv, Holders
<1>9. Lists(report, measured)'
    BY <1>2, <1>5, ListsKept DEF IInv
<1>10. (stored # None => Lists(stored, kept))'
    BY <1>2, <1>5, StoredKept DEF IInv
<1> QED BY <1>7, <1>8, <1>9, <1>10 DEF IInv

(* The clone of one message or result.                                     *)
LEMMA OneClone ==
    ASSUME heap \in Seq(Seq(Nat)), NEW T, NEW r \in T, "array" \in DOMAIN r,
           r.array \in DOMAIN heap, heap' = heap \o Arrays(<<r>>), NEW n, n = Len(heap) + 1
    PROVE  /\ heap' \in Seq(Seq(Nat)) /\ AsLong(heap', heap) /\ n \in DOMAIN heap' \ DOMAIN heap
           /\ n \in Nat /\ heap'[n] = heap[r.array] /\ Clone(r) = [r EXCEPT !.array = n]
<1> DEFINE rs == <<r>>
<1>1. rs \in Seq(T) /\ DOMAIN rs = {1} /\ rs[1] = r /\ heap' = heap \o Arrays(rs)
    OBVIOUS
<1>2. Clone(r) = [r EXCEPT !.array = n]
    BY <1>1 DEF Clone, Clones
<1> HIDE DEF rs
<1>3. /\ heap' \in Seq(Seq(Nat)) /\ Larger(heap', heap) /\ Receives(rs, Len(heap))
      /\ Len(heap) \in Nat /\ DOMAIN heap = 1..Len(heap)
    BY <1>1, ArraysGrow
<1>4. n \in DOMAIN heap' /\ heap'[n] = heap[r.array]
    BY <1>1, <1>3 DEF Receives
<1>5. n \notin DOMAIN heap /\ n \in Nat
    BY <1>3
<1>6. AsLong(heap', heap)
    BY <1>3, LargerAsLong
<1> QED BY <1>2, <1>3, <1>4, <1>5, <1>6

LEMMA ToTaskReportInv == ASSUME IInv, ToTaskReport PROVE IInv'
<1>1. message # None /\ result = None /\ UNCHANGED <<report, listed, stored, measured, kept>>
    BY DEF ToTaskReport
<1>2. GoodMessage /\ heap \in Seq(Seq(Nat)) /\ Owned /\ Says
    BY <1>1 DEF IInv, Says
<1>3. CASE ~ Known(message.action)
  <2>1. message' = None /\ UNCHANGED <<result, heap>>
      BY <1>3 DEF ToTaskReport
  <2>2. AsLong(heap', heap)
      BY <2>1 DEF AsLong
  <2>3. Says'
      BY <1>1, <1>2, <2>1, <2>2, SaysKept
  <2>4. Owned'
    <3>1. \A h \in Holders \ {"message"} : Held(h)' = Held(h)
        BY <1>1, <2>1 DEF Holders, Held
    <3>2. Held("message")' = <<>>
        BY <2>1 DEF Held
    <3>3. In(Held("message")') \subseteq {} /\ Apart(Held("message")')
        BY <3>2 DEF In, Apart
    <3> QED BY <1>2, <2>1, <3>1, <3>3, OwnedOne DEF Holders
  <2> QED BY <1>1, <2>2, <2>3, <2>4, ListsKept, StoredKept DEF IInv
<1>4. CASE Known(message.action)
  <2> DEFINE n == Len(heap) + 1
  <2>1. /\ result' = [of |-> message.of, action |-> message.action, dst |-> message.dst,
                      bytes |-> message.bytes, nanos |-> message.milli * Milli,
                      array |-> Clone(message).array]
        /\ heap' = heap \o Arrays(<<message>>) /\ message' = message
      BY <1>4 DEF ToTaskReport
  <2>2. message \in Message /\ "array" \in DOMAIN message /\ message.array \in DOMAIN heap
        /\ Len(heap[message.array]) = Len(message.of.entries)
      BY <1>2 DEF GoodMessage, Whole, Message
  <2>3. /\ heap' \in Seq(Seq(Nat)) /\ AsLong(heap', heap) /\ n \in DOMAIN heap' \ DOMAIN heap
        /\ n \in Nat /\ heap'[n] = heap[message.array]
        /\ Clone(message) = [message EXCEPT !.array = n]
      BY <1>2, <2>1, <2>2, OneClone
  <2> HIDE DEF n
  <2>4. result'.array = n
      BY <2>1, <2>2, <2>3
  <2>5. Good(result)'
    <3>1. message.milli \in Nat /\ Milli \in Nat /\ message.milli * Milli \in Nat
        BY <2>2, ReportsAssumption DEF Message
    <3>2. result' \in Result
        BY <2>1, <2>2, <2>3, <2>4, <3>1 DEF Result, Message
    <3>3. message.milli * Milli = Milli * (message.of.nanos \div Milli)
      <4>1. message.milli = message.of.nanos \div Milli
          BY <1>2 DEF GoodMessage, ToMilli
      <4>2. \A a, b \in Nat : a * b = b * a
          OBVIOUS
      <4> QED BY <3>1, <4>1, <4>2
    <3>4. result'.of = message.of
        BY <2>1
    <3>5. Fields(result') = Sent(message.of)
        BY <1>2, <2>1, <3>3 DEF GoodMessage, Fields, Sent
    <3>6. Whole(result)'
        BY <2>2, <2>3, <2>4, <3>4 DEF Whole
    <3> QED BY <3>2, <3>4, <3>5, <3>6 DEF Good
  <2>6. Says'
    <3>1. (message # None => GoodMessage)'
        BY <1>2, <2>1, <2>3 DEF GoodMessage, Whole, AsLong
    <3>2. (listed \in Seq(Result) /\ AllGood(listed))'
        BY <1>1, <1>2, <2>3, GoodKept DEF Says
    <3> QED BY <2>3, <2>5, <3>1, <3>2 DEF Says
  <2>7. Owned'
    <3>1. \A h \in Holders \ {"result"} : Held(h)' = Held(h)
        BY <1>1, <2>1 DEF Holders, Held
    <3>2. Held("result")' = <<>> \/ Held("result")' = <<result'>>
        BY DEF Held
    <3>3. In(Held("result")') \subseteq {n} /\ Apart(Held("result")')
        BY <2>4, <3>2 DEF In, Apart
    <3> QED BY <1>2, <2>3, <3>1, <3>3, OwnedOne DEF Holders, AsLong
  <2> QED BY <1>1, <2>3, <2>6, <2>7, ListsKept, StoredKept DEF IInv
<1> QED BY <1>3, <1>4

LEMMA ReleaseInv == ASSUME IInv, Release PROVE IInv'
<1>1. message' = None /\ result' = None /\ UNCHANGED <<heap, report, listed, stored, measured, kept>>
    BY DEF Release
<1>2. AsLong(heap', heap) /\ heap' \in Seq(Seq(Nat))
    BY <1>1 DEF AsLong, IInv, Says
<1>3. Says'
    BY <1>1, <1>2, SaysKept DEF IInv
<1>4. Owned'
  <2> DEFINE none == [h \in Holders |-> {}]
  <2>1. ASSUME NEW h \in Holders PROVE Held(h)' = Held(h) \/ Held(h)' = <<>>
      BY <1>1 DEF Holders, Held
  <2>2. In(<<>>) = {} /\ Apart(<<>>)
      BY DEF In, Apart
  <2>3. ASSUME NEW h \in Holders
        PROVE  In(Held(h)') \subseteq In(Held(h)) \cup none[h] /\ Apart(Held(h)')
    <3>1. Apart(Held(h))
        BY DEF IInv, Owned
    <3> QED BY <2>1, <2>2, <3>1
  <2>4. \A h \in Holders : none[h] = {}
      OBVIOUS
  <2> HIDE DEF none
  <2> QED BY <1>1, <2>3, <2>4, OwnedNext DEF IInv
<1> QED BY <1>1, <1>2, <1>3, <1>4, ListsKept, StoredKept DEF IInv

(* One more outcome.                                                       *)
LEMMA MeasuredMore ==
    ASSUME NEW outs \in Seq(Outcomes), NEW o \in Outcomes, NEW more, NEW m,
           IsMore(more, outs, o, m)
    PROVE  /\ more \in Seq(Outcomes) /\ m \notin DOMAIN outs /\ more[m] = o
           /\ \A k \in DOMAIN outs : more[k] = outs[k]
           /\ o.action = "delete" => /\ Deleted(more) = Deleted(outs) \cup {m}
                                     /\ Copied(more) = Copied(outs)
           /\ o.action # "delete" => /\ Deleted(more) = Deleted(outs)
                                     /\ Copied(more) = Copied(outs) \cup {m}
<1>1. /\ more \in Seq(Outcomes) /\ m \notin DOMAIN outs /\ more[m] = o
      /\ \A k \in DOMAIN outs : more[k] = outs[k]
      /\ DOMAIN more = DOMAIN outs \cup {m}
  <2>1. /\ Len(outs) \in Nat /\ DOMAIN outs = 1..Len(outs) /\ more \in Seq(Outcomes)
        /\ DOMAIN more = (1..Len(outs)) \cup {m} /\ more[m] = o
        /\ \A k \in 1..Len(outs) : more[k] = outs[k] /\ m = Len(outs) + 1
      BY OneIndexMore DEF IsMore
  <2> QED BY <2>1
<1>2. o.action = "delete" => Deleted(more) = Deleted(outs) \cup {m}
    BY <1>1 DEF Deleted
<1>3. o.action # "delete" => Deleted(more) = Deleted(outs)
    BY <1>1 DEF Deleted
<1>4. Deleted(outs) \subseteq DOMAIN outs
    BY DEF Deleted
<1> QED BY <1>1, <1>2, <1>3, <1>4 DEF Copied

(* The bytes of what was copied.                                           *)
LEMMA BytesNat ==
    ASSUME NEW outs \in Seq(Outcomes)
    PROVE  /\ IsFiniteSet(Copied(outs)) /\ NatValued(BytesOf(outs), Copied(outs))
           /\ SumFunctionOnSet(BytesOf(outs), Copied(outs)) \in Nat
<1>1. DOMAIN outs = 1..Len(outs) /\ Len(outs) \in Nat
    OBVIOUS
<1>2. IsFiniteSet(Copied(outs))
  <2>1. IsFiniteSet(DOMAIN outs)
      BY <1>1, FS_Interval
  <2>2. Copied(outs) \subseteq DOMAIN outs
      BY DEF Copied
  <2> QED BY <2>1, <2>2, FS_Subset
<1>3. NatValued(BytesOf(outs), Copied(outs))
  <2>1. \A i \in DOMAIN outs : outs[i] \in Outcomes
      BY <1>1
  <2> QED BY <2>1, ReportsAssumption DEF NatValued, BytesOf, Copied
<1> QED BY <1>2, <1>3, SumType

LEMMA BytesMore ==
    ASSUME NEW outs \in Seq(Outcomes), NEW o \in Outcomes, NEW more, NEW m,
           IsMore(more, outs, o, m)
    PROVE  SumFunctionOnSet(BytesOf(more), Copied(more)) =
               SumFunctionOnSet(BytesOf(outs), Copied(outs))
               + IF o.action = "delete" THEN 0 ELSE o.bytes
<1> DEFINE f == BytesOf(outs)
           g == BytesOf(more)
           S == Copied(outs)
<1>1. /\ more \in Seq(Outcomes) /\ m \notin DOMAIN outs /\ more[m] = o
      /\ \A k \in DOMAIN outs : more[k] = outs[k]
      /\ o.action = "delete" => Copied(more) = S
      /\ o.action # "delete" => Copied(more) = S \cup {m}
    BY MeasuredMore
<1>2. S \subseteq DOMAIN outs /\ Copied(more) \subseteq DOMAIN more
    BY DEF Copied
<1>3. /\ IsFiniteSet(S) /\ NatValued(f, S) /\ SumFunctionOnSet(f, S) \in Nat
      /\ NatValued(g, Copied(more))
    BY <1>1, BytesNat
<1>4. \A k \in S : f[k] = g[k]
  <2>1. S \subseteq Copied(more)
      BY <1>1
  <2> QED BY <1>1, <1>2, <2>1 DEF BytesOf
<1> HIDE DEF f, g, S
<1>5. SumFunctionOnSet(f, S) = SumFunctionOnSet(g, S)
    BY <1>3, <1>4, SumSame
<1>6. CASE o.action = "delete"
    BY <1>1, <1>3, <1>5, <1>6 DEF f, g, S
<1>7. CASE o.action # "delete"
  <2>1. Copied(more) = S \cup {m} /\ m \notin S
      BY <1>1, <1>2, <1>7
  <2>2. NatValued(g, S \cup {m})
      BY <1>3, <2>1
  <2>3. SumFunctionOnSet(g, S \cup {m}) = SumFunctionOnSet(g, S) + g[m]
      BY <1>3, <2>1, <2>2, SumInsert
  <2>4. g[m] = o.bytes
      BY <1>1, <1>2, <2>1 DEF g, BytesOf
  <2> QED BY <1>5, <1>7, <2>1, <2>3, <2>4 DEF f, g, S
<1> QED BY <1>6, <1>7

LEMMA RecordInv == ASSUME IInv, Record PROVE IInv'
<1> SUFFICES ASSUME NEW n, n = Len(heap) + 1, NEW o, o = result.of, NEW c, c = Clone(result),
                    NEW m, m = Len(measured) + 1, NEW more, more = measured',
                    NEW copies, copies = report.copies, NEW deletes, deletes = report.deletes
             PROVE  IInv'
    OBVIOUS
<1>1. /\ result # None /\ report' = Add(result) /\ heap' = heap \o Arrays(<<result>>)
      /\ measured' = Append(measured, o) /\ UNCHANGED <<message, result, listed, stored, kept>>
    BY DEF Record
<1>2. Good(result) /\ heap \in Seq(Seq(Nat)) /\ Owned /\ Says /\ Lists(report, measured)
    BY <1>1 DEF IInv, Says
<1>3. /\ result \in Result /\ "array" \in DOMAIN result /\ result.array \in DOMAIN heap
      /\ Len(heap[result.array]) = Len(o.entries) /\ o \in Outcomes
      /\ result.action = o.action /\ result.bytes = o.bytes /\ o.bytes \in Nat
    BY <1>2, ReportsAssumption DEF Good, Whole, Result, Fields, Sent
<1>4. /\ heap' \in Seq(Seq(Nat)) /\ AsLong(heap', heap) /\ n \in DOMAIN heap' \ DOMAIN heap
      /\ n \in Nat /\ heap'[n] = heap[result.array]
      /\ c = [result EXCEPT !.array = n]
    BY <1>1, <1>2, <1>3, OneClone
<1>5. c \in Result /\ c.array = n /\ c.of = o /\ Fields(c) = Fields(result)
    BY <1>3, <1>4 DEF Result, Fields
<1>6. Good(c)'
  <2>1. Whole(c)'
      BY <1>3, <1>4, <1>5 DEF Whole
  <2> QED BY <1>2, <1>5, <2>1 DEF Good
<1>7. /\ report \in Listing /\ copies \in Seq(Result) /\ deletes \in Seq(Result)
      /\ report.total \in Nat /\ AllGood(copies)' /\ AllGood(deletes)'
      /\ measured \in Seq(Outcomes)
      /\ Matches(copies, measured, Copied(measured))
      /\ Matches(deletes, measured, Deleted(measured))
      /\ report.total = SumFunctionOnSet(BytesOf(measured), Copied(measured))
  <2>1. AllGood(copies) /\ AllGood(deletes) /\ report \in Listing
      BY <1>2 DEF Lists
  <2>2. AllGood(copies)' /\ AllGood(deletes)'
      BY <1>4, <2>1, GoodKept
  <2> QED BY <1>2, <2>1, <2>2 DEF Lists, Listing
<1>8. Says'
    BY <1>1, <1>2, <1>4, SaysKept
<1>9. (stored # None => Lists(stored, kept))'
    BY <1>1, <1>4, StoredKept DEF IInv
<1>10. /\ more \in Seq(Outcomes) /\ m \notin DOMAIN measured /\ more[m] = o
       /\ \A k \in DOMAIN measured : more[k] = measured[k]
       /\ o.action = "delete" => /\ Deleted(more) = Deleted(measured) \cup {m}
                                 /\ Copied(more) = Copied(measured)
       /\ o.action # "delete" => /\ Deleted(more) = Deleted(measured)
                                 /\ Copied(more) = Copied(measured) \cup {m}
  <2>1. IsMore(more, measured, o, m)
      BY <1>1 DEF IsMore
  <2> QED BY <1>3, <1>7, <2>1, MeasuredMore
<1>11. SumFunctionOnSet(BytesOf(more), Copied(more)) =
           report.total + IF o.action = "delete" THEN 0 ELSE o.bytes
  <2>1. IsMore(more, measured, o, m)
      BY <1>1 DEF IsMore
  <2> QED BY <1>3, <1>7, <2>1, BytesMore
<1>12. Copied(measured) \subseteq DOMAIN measured /\ Deleted(measured) \subseteq DOMAIN measured
    BY DEF Copied, Deleted
(* Either list gets the clone, and its outcome.                            *)
<1>13. ASSUME NEW rs \in Seq(Result), AllGood(rs)', NEW as, NEW k, IsMore(as, rs, c, k),
              NEW I, I \subseteq DOMAIN measured, Matches(rs, measured, I),
              NEW J, IsWith(J, I, m)
       PROVE  Extended(as, rs, c, k) /\ AllGood(as)' /\ Matches(as, more, J)
  <2>1. Extended(as, rs, c, k)
      BY <1>5, <1>13, InAppended
  <2>2. AllGood(as)'
      BY <1>6, <1>13, <2>1 DEF AllGood, Extended
  <2>3. Matches(as, more, J)
    <3>1. c.of = more[m] /\ \A j \in I : more[j] = measured[j]
        BY <1>5, <1>10, <1>13
    <3> QED BY <1>13, <2>1, <3>1, MatchesAppended
  <2> QED BY <2>1, <2>2, <2>3
<1>14. /\ In(copies) \subseteq DOMAIN heap /\ Apart(copies)
       /\ In(deletes) \subseteq DOMAIN heap /\ Apart(deletes)
  <2>1. Held("copies") = copies /\ Held("deletes") = deletes
      BY DEF Held
  <2> QED BY <1>2, <2>1 DEF Owned, Holders
<1>15. CASE o.action = "delete"
  <2>1. report' = [report EXCEPT !.deletes = Append(@, c)]
      BY <1>1, <1>3, <1>15 DEF Add
  <2>2. /\ report'.copies = copies /\ report'.deletes = Append(deletes, c)
        /\ report'.total = report.total /\ report'.completed = report.completed
        /\ report'.completed \in BOOLEAN
        /\ report' = [copies |-> copies, deletes |-> Append(deletes, c), total |-> report.total,
                      completed |-> report.completed]
      BY <1>7, <2>1 DEF Listing
  <2>3. PICK as, k : as = Append(deletes, c) /\ IsMore(as, deletes, c, k)
      BY DEF IsMore
  <2>4. /\ as \in Seq(Result) /\ AllGood(as)' /\ Matches(as, more, Deleted(more))
        /\ In(as) = In(deletes) \cup {n} /\ Apart(as)
    <3>1. IsWith(Deleted(more), Deleted(measured), m)
        BY <1>10, <1>12, <1>15 DEF IsWith
    <3>2. Extended(as, deletes, c, k) /\ AllGood(as)' /\ Matches(as, more, Deleted(more))
        BY <1>7, <1>12, <1>13, <2>3, <3>1
    <3> QED BY <1>4, <1>5, <1>14, <3>2 DEF Extended
  <2>5. Matches(copies, more, Copied(more))
      BY <1>7, <1>10, <1>12, <1>15, MatchesSame
  <2>6. Lists(report, measured)'
    <3>1. report' \in Listing
        BY <1>7, <2>2, <2>3, <2>4 DEF Listing
    <3>2. AllGood(report.copies)' /\ AllGood(report.deletes)'
        BY <1>7, <2>2, <2>3, <2>4
    <3> QED BY <1>7, <1>10, <1>11, <1>15, <2>2, <2>3, <2>4, <2>5, <3>1, <3>2 DEF Lists
  <2>7. Owned'
    <3>1. \A h \in Holders \ {"deletes"} : Held(h)' = Held(h)
        BY <1>1, <2>2 DEF Holders, Held
    <3>2. Held("deletes")' = as /\ Held("deletes") = deletes
        BY <2>2, <2>3 DEF Held
    <3> QED BY <1>2, <1>4, <2>4, <3>1, <3>2, OwnedOne DEF Holders, AsLong
  <2> QED BY <1>8, <1>9, <2>6, <2>7 DEF IInv
<1>16. CASE o.action # "delete"
  <2>1. report' = [report EXCEPT !.copies = Append(@, c), !.total = @ + result.bytes]
      BY <1>1, <1>3, <1>16 DEF Add
  <2>2. /\ report'.deletes = deletes /\ report'.copies = Append(copies, c)
        /\ report'.total = report.total + o.bytes /\ report.completed \in BOOLEAN
        /\ report' = [copies |-> Append(copies, c), deletes |-> deletes,
                      total |-> report.total + o.bytes, completed |-> report.completed]
      BY <1>3, <1>7, <2>1 DEF Listing
  <2>3. PICK as, k : as = Append(copies, c) /\ IsMore(as, copies, c, k)
      BY DEF IsMore
  <2>4. /\ as \in Seq(Result) /\ AllGood(as)' /\ Matches(as, more, Copied(more))
        /\ In(as) = In(copies) \cup {n} /\ Apart(as)
    <3>1. IsWith(Copied(more), Copied(measured), m)
        BY <1>10, <1>12, <1>16 DEF IsWith
    <3>2. Extended(as, copies, c, k) /\ AllGood(as)' /\ Matches(as, more, Copied(more))
        BY <1>7, <1>12, <1>13, <2>3, <3>1
    <3> QED BY <1>4, <1>5, <1>14, <3>2 DEF Extended
  <2>5. Matches(deletes, more, Deleted(more))
      BY <1>7, <1>10, <1>12, <1>16, MatchesSame
  <2>6. Lists(report, measured)'
    <3>1. report' \in Listing
        BY <1>3, <1>7, <2>2, <2>3, <2>4 DEF Listing
    <3>2. AllGood(report.copies)' /\ AllGood(report.deletes)'
        BY <1>7, <2>2, <2>3, <2>4
    <3> QED BY <1>7, <1>10, <1>11, <1>16, <2>2, <2>3, <2>4, <2>5, <3>1, <3>2 DEF Lists
  <2>7. Owned'
    <3>1. \A h \in Holders \ {"copies"} : Held(h)' = Held(h)
        BY <1>1, <2>2 DEF Holders, Held
    <3>2. Held("copies")' = as /\ Held("copies") = copies
        BY <2>2, <2>3 DEF Held
    <3> QED BY <1>2, <1>4, <2>4, <3>1, <3>2, OwnedOne DEF Holders, AsLong
  <2> QED BY <1>8, <1>9, <2>6, <2>7 DEF IInv
<1> QED BY <1>15, <1>16

(* What Finalize makes of a list.                                          *)
LEMMA Reordered ==
    ASSUME NEW rs \in Seq(Result), AllGood(rs), NEW cs \in Orders(rs),
           NEW outs, NEW I, Matches(rs, outs, I)
    PROVE  /\ cs \in Seq(Result) /\ AllGood(cs) /\ Matches(cs, outs, I)
           /\ In(cs) \subseteq In(rs) /\ (Apart(rs) => Apart(cs))
<1>1. PICK p \in Bijection(DOMAIN rs, DOMAIN rs) : cs = [i \in DOMAIN rs |-> rs[p[i]]]
    BY DEF Orders
<1>2. Matches(cs, outs, I)
    BY <1>1, MatchesPermuted
<1>3. /\ \A i \in DOMAIN rs : p[i] \in DOMAIN rs
      /\ \A i, j \in DOMAIN rs : p[i] = p[j] => i = j
    BY DEF Bijection, Injection, IsInjective
<1>4. DOMAIN cs = DOMAIN rs /\ \A i \in DOMAIN rs : cs[i] = rs[p[i]]
    BY <1>1
<1>5. cs \in Seq(Result)
  <2>1. Len(rs) \in Nat /\ DOMAIN rs = 1..Len(rs) /\ \A i \in 1..Len(rs) : rs[i] \in Result
      OBVIOUS
  <2>2. cs = [i \in 1..Len(rs) |-> rs[p[i]]] /\ \A i \in 1..Len(rs) : rs[p[i]] \in Result
      BY <1>1, <1>3, <2>1
  <2> QED BY <2>1, <2>2
<1>6. AllGood(cs)
    BY <1>3, <1>4 DEF AllGood
<1>7. In(cs) \subseteq In(rs)
    BY <1>3, <1>4 DEF In
<1>8. Apart(rs) => Apart(cs)
  <2> SUFFICES ASSUME Apart(rs), NEW i \in DOMAIN rs, NEW j \in DOMAIN rs,
                      cs[i].array = cs[j].array
               PROVE  i = j
      BY <1>4 DEF Apart
  <2>1. p[i] \in DOMAIN rs /\ p[j] \in DOMAIN rs /\ rs[p[i]].array = rs[p[j]].array
      BY <1>3, <1>4
  <2>2. p[i] = p[j]
      BY <2>1 DEF Apart
  <2> QED BY <1>3, <2>2
<1> QED BY <1>2, <1>5, <1>6, <1>7, <1>8

LEMMA FinalizeInv == ASSUME IInv, Finalize PROVE IInv'
<1> SUFFICES ASSUME NEW copies, copies = report.copies, NEW deletes, deletes = report.deletes
             PROVE  IInv'
    OBVIOUS
<1>1. PICK c \in Orders(copies), d \in Orders(deletes) :
          report' = [report EXCEPT !.copies = c, !.deletes = d, !.completed = TRUE]
    BY DEF Finalize
<1>2. UNCHANGED <<heap, message, result, listed, stored, measured, kept>>
    BY DEF Finalize
<1>3. Lists(report, measured) /\ Says /\ Owned
    BY DEF IInv
<1>4. /\ report \in Listing /\ copies \in Seq(Result) /\ deletes \in Seq(Result)
      /\ AllGood(copies) /\ AllGood(deletes)
      /\ Matches(copies, measured, Copied(measured))
      /\ Matches(deletes, measured, Deleted(measured))
    BY <1>3 DEF Lists, Listing
<1>5. /\ c \in Seq(Result) /\ AllGood(c) /\ Matches(c, measured, Copied(measured))
      /\ In(c) \subseteq In(copies) /\ (Apart(copies) => Apart(c))
    BY <1>1, <1>4, Reordered
<1>6. /\ d \in Seq(Result) /\ AllGood(d) /\ Matches(d, measured, Deleted(measured))
      /\ In(d) \subseteq In(deletes) /\ (Apart(deletes) => Apart(d))
    BY <1>1, <1>4, Reordered
<1>7. /\ report'.copies = c /\ report'.deletes = d /\ report'.total = report.total
      /\ report' \in Listing
    BY <1>1, <1>4, <1>5, <1>6 DEF Listing
<1>8. AsLong(heap', heap) /\ heap' \in Seq(Seq(Nat))
    BY <1>2, <1>3 DEF AsLong, Says
<1>9. Says'
    BY <1>2, <1>3, <1>8, SaysKept
<1>10. Lists(report, measured)'
  <2>1. AllGood(c)' /\ AllGood(d)'
      BY <1>5, <1>6, <1>8, GoodKept
  <2> QED BY <1>2, <1>3, <1>5, <1>6, <1>7, <2>1 DEF Lists
<1>11. Owned'
  <2> DEFINE none == [h \in Holders |-> {}]
  <2>1. Held("copies") = copies /\ Held("deletes") = deletes
      BY DEF Held
  <2>2. Held("copies")' = c /\ Held("deletes")' = d
      BY <1>7 DEF Held
  <2>3. \A h \in Holders \ {"copies", "deletes"} : Held(h)' = Held(h)
      BY <1>2 DEF Holders, Held
  <2>4. \A h \in Holders : Apart(Held(h))
      BY <1>3 DEF Owned
  <2>5. ASSUME NEW h \in Holders
        PROVE  In(Held(h)') \subseteq In(Held(h)) /\ Apart(Held(h)')
    <3>1. CASE h = "copies"
        BY <1>5, <2>1, <2>2, <2>4, <3>1
    <3>2. CASE h = "deletes"
        BY <1>6, <2>1, <2>2, <2>4, <3>2
    <3>3. CASE h \notin {"copies", "deletes"}
        BY <2>3, <2>4, <3>3
    <3> QED BY <3>1, <3>2, <3>3
  <2>6. \A h \in Holders : none[h] = {}
      OBVIOUS
  <2> HIDE DEF none
  <2> QED BY <1>2, <1>3, <2>5, <2>6, OwnedNext
<1> QED BY <1>2, <1>8, <1>9, <1>10, <1>11, StoredKept DEF IInv

LEMMA CopiesInv == ASSUME IInv, Copies PROVE IInv'
<1> SUFFICES ASSUME NEW rs, rs = report.copies, NEW cs, cs = listed',
                    NEW n, n = Len(heap), NEW new, new = (n + 1)..(n + Len(rs))
             PROVE  IInv'
    OBVIOUS
<1>1. /\ cs = Clones(rs, n) /\ heap' = heap \o Arrays(rs)
      /\ UNCHANGED <<message, result, report, stored, measured, kept>>
    BY DEF Copies
<1>2. Lists(report, measured) /\ Says /\ Owned /\ heap \in Seq(Seq(Nat))
    BY DEF IInv, Says
<1>3. rs \in Seq(Result) /\ AllGood(rs)
    BY <1>2 DEF Lists, Listing
<1>4. \A i \in DOMAIN rs : rs[i].array \in DOMAIN heap
    BY <1>3 DEF AllGood, Good, Whole
<1>5. /\ heap' \in Seq(Seq(Nat)) /\ Larger(heap', heap) /\ Receives(rs, n)
      /\ Len(heap') = n + Len(rs) /\ n \in Nat /\ Len(rs) \in Nat
      /\ DOMAIN heap' = 1..Len(heap') /\ DOMAIN heap = 1..n
    BY <1>1, <1>2, <1>3, <1>4, ArraysGrow
<1>6. cs \in Seq(Result) /\ Apart(cs) /\ In(cs) = new
    BY <1>1, <1>3, <1>5, CloneFacts DEF Copy
<1>7. AllGood(cs)'
    BY <1>1, <1>3, <1>5, CloneGood
<1>8. AsLong(heap', heap)
    BY <1>5, LargerAsLong
<1>9. Says'
  <2>1. (message # None => GoodMessage)'
      BY <1>1, <1>2, <1>8 DEF Says, GoodMessage, Whole, AsLong
  <2>2. (result # None => Good(result))'
      BY <1>1, <1>2, <1>8 DEF Says, Good, Whole, AsLong
  <2> QED BY <1>5, <1>6, <1>7, <2>1, <2>2 DEF Says
<1>10. Owned'
  <2>1. \A h \in Holders \ {"listed"} : Held(h)' = Held(h)
      BY <1>1 DEF Holders, Held
  <2>2. Held("listed")' = cs
      BY DEF Held
  <2>3. new \subseteq DOMAIN heap' \ DOMAIN heap
      BY <1>5
  <2> QED BY <1>2, <1>6, <1>8, <2>1, <2>2, <2>3, OwnedOne DEF Holders, AsLong
<1> QED BY <1>1, <1>2, <1>8, <1>9, <1>10, ListsKept, StoredKept DEF IInv

(* Clones of both lists.                                                   *)
Cloned(new, outs) ==
    /\ Lists(new, outs)' /\ heap' \in Seq(Seq(Nat)) /\ AsLong(heap', heap)
    /\ \E first, second \in SUBSET (DOMAIN heap' \ DOMAIN heap) :
          /\ first \cap second = {}
          /\ In(new.copies) = first /\ In(new.deletes) = second
          /\ Apart(new.copies) /\ Apart(new.deletes)

LEMMA TwoRanges ==
    ASSUME NEW n \in Nat, NEW k \in Nat, NEW m \in Nat, n <= k, k <= m
    PROVE  /\ (n + 1)..k \subseteq (1..m) \ (1..n) /\ (k + 1)..m \subseteq (1..m) \ (1..n)
           /\ ((n + 1)..k) \cap ((k + 1)..m) = {}
OBVIOUS

LEMMA BothCloned ==
    ASSUME heap \in Seq(Seq(Nat)), NEW r, NEW outs, Lists(r, outs), NEW new, new = Both(r),
           heap' = heap \o Arrays(r.copies \o r.deletes)
    PROVE  Cloned(new, outs)
<1> SUFFICES ASSUME NEW rs, rs = r.copies, NEW ds, ds = r.deletes, NEW n, n = Len(heap),
                    NEW k, k = n + Len(rs)
             PROVE  Cloned(new, outs)
    OBVIOUS
<1>1. /\ r \in Listing /\ rs \in Seq(Result) /\ ds \in Seq(Result) /\ AllGood(rs) /\ AllGood(ds)
      /\ Matches(rs, outs, Copied(outs)) /\ Matches(ds, outs, Deleted(outs))
      /\ r.total = SumFunctionOnSet(BytesOf(outs), Copied(outs)) /\ outs \in Seq(Outcomes)
    BY DEF Lists, Listing
<1>2. /\ \A i \in DOMAIN rs : rs[i].array \in DOMAIN heap
      /\ \A i \in DOMAIN ds : ds[i].array \in DOMAIN heap
    BY <1>1 DEF AllGood, Good, Whole
<1>3. /\ heap' \in Seq(Seq(Nat)) /\ Larger(heap', heap) /\ Receives(rs, n) /\ Receives(ds, k)
      /\ n \in Nat /\ Len(rs) \in Nat /\ k \in Nat /\ n <= k
      /\ Len(heap') \in Nat /\ Len(heap') = k + Len(ds) /\ k <= Len(heap')
      /\ DOMAIN heap' = 1..Len(heap') /\ DOMAIN heap = 1..n
  <2>1. GrownByBoth(rs, ds)
      BY DEF GrownByBoth
  <2>2. BothReceive(rs, ds)
      BY <1>1, <1>2, <2>1, BothGrow
  <2>3. n \in Nat /\ Len(rs) \in Nat /\ k \in Nat /\ n <= k
    <3>1. n \in Nat /\ Len(rs) \in Nat
        BY <2>2 DEF BothReceive
    <3> QED BY <3>1
  <2>4. Len(heap') \in Nat
      BY <2>2 DEF BothReceive
  <2>5. k <= Len(heap')
      BY <2>2 DEF BothReceive
  <2>6. /\ heap' \in Seq(Seq(Nat)) /\ Larger(heap', heap) /\ Receives(rs, n) /\ Receives(ds, k)
        /\ DOMAIN heap' = 1..Len(heap') /\ DOMAIN heap = 1..n
      BY <2>2 DEF BothReceive
  <2>7. Len(heap') = k + Len(ds)
      BY <2>2 DEF BothReceive
  <2> QED BY <2>3, <2>4, <2>5, <2>6, <2>7
<1>4. PICK cs, es : cs = Clones(rs, n) /\ es = Clones(ds, k)
    OBVIOUS
<1>5. Copy(cs, rs, n) /\ Copy(es, ds, k)
    BY <1>1, <1>3, <1>4, CloneFacts
<1>6. /\ cs \in Seq(Result) /\ DOMAIN cs = DOMAIN rs /\ \A i \in DOMAIN rs : cs[i].of = rs[i].of
      /\ es \in Seq(Result) /\ DOMAIN es = DOMAIN ds /\ \A i \in DOMAIN ds : es[i].of = ds[i].of
      /\ Apart(cs) /\ Apart(es)
    BY <1>5 DEF Copy
<1>7. AllGood(cs)' /\ AllGood(es)'
    BY <1>1, <1>3, <1>4, CloneGood
<1>8. AsLong(heap', heap)
    BY <1>3, LargerAsLong
<1>9. Matches(cs, outs, Copied(outs)) /\ Matches(es, outs, Deleted(outs))
    BY <1>1, <1>6, MatchesSame
<1>10. /\ new.copies = cs /\ new.deletes = es /\ new.total = r.total /\ new \in Listing
  <2>1. /\ r = [copies |-> rs, deletes |-> ds, total |-> r.total, completed |-> r.completed]
        /\ r.total \in Nat /\ r.completed \in BOOLEAN
      BY <1>1 DEF Listing
  <2>2. new = [r EXCEPT !.copies = cs, !.deletes = es]
      BY <1>4 DEF Both
  <2>3. new = [copies |-> cs, deletes |-> es, total |-> r.total, completed |-> r.completed]
      BY <2>1, <2>2
  <2> QED BY <1>6, <2>1, <2>3 DEF Listing
<1>11. Lists(new, outs)'
    BY <1>1, <1>7, <1>9, <1>10 DEF Lists
<1>12. PICK first, second : first = (n + 1)..k /\ second = (k + 1)..Len(heap')
    OBVIOUS
<1>13. /\ first \subseteq DOMAIN heap' \ DOMAIN heap /\ second \subseteq DOMAIN heap' \ DOMAIN heap
       /\ first \cap second = {}
  <2>1. PICK m : m = Len(heap')
      OBVIOUS
  <2>2. m \in Nat /\ k \in Nat /\ n \in Nat /\ n <= k /\ k <= m
      BY <1>3, <2>1
  <2>3. /\ (n + 1)..k \subseteq (1..m) \ (1..n) /\ (k + 1)..m \subseteq (1..m) \ (1..n)
        /\ ((n + 1)..k) \cap ((k + 1)..m) = {}
      BY <2>2, TwoRanges
  <2> QED BY <1>3, <1>12, <2>1, <2>3
<1>14. In(cs) = first /\ In(es) = second
    BY <1>3, <1>5, <1>12 DEF Copy
<1> QED BY <1>3, <1>6, <1>8, <1>10, <1>11, <1>13, <1>14 DEF Cloned

(* Two holders get new arrays, the one and the other.                      *)
LEMMA OwnedTwo ==
    ASSUME Owned, DOMAIN heap \subseteq DOMAIN heap', NEW one \in Holders, NEW two \in Holders,
           one # two, NEW first, NEW second,
           \A h \in Holders \ {one, two} : Held(h)' = Held(h),
           In(Held(one)') \subseteq first, Apart(Held(one)'),
           In(Held(two)') \subseteq second, Apart(Held(two)'),
           first \subseteq DOMAIN heap' \ DOMAIN heap,
           second \subseteq DOMAIN heap' \ DOMAIN heap, first \cap second = {}
    PROVE  Owned'
<1> DEFINE news == [h \in Holders |-> CASE h = one -> first [] h = two -> second [] OTHER -> {}]
<1>1. /\ news[one] = first /\ news[two] = second
      /\ \A h \in Holders \ {one, two} : news[h] = {}
    OBVIOUS
<1> HIDE DEF news
<1>2. ASSUME NEW h \in Holders
      PROVE  /\ In(Held(h)') \subseteq In(Held(h)) \cup news[h]
             /\ Apart(Held(h)')
             /\ news[h] \subseteq DOMAIN heap' \ DOMAIN heap
  <2>1. CASE h = one
      BY <1>1, <2>1
  <2>2. CASE h = two
      BY <1>1, <2>2
  <2>3. CASE h \notin {one, two}
    <3>1. Held(h)' = Held(h) /\ Apart(Held(h)) /\ news[h] = {}
        BY <1>1, <2>3 DEF Owned
    <3> QED BY <3>1
  <2> QED BY <2>1, <2>2, <2>3
<1>3. \A h, k \in Holders : h # k => news[h] \cap news[k] = {}
    BY <1>1
<1> QED BY <1>2, <1>3, OwnedNext

(* Nobody has another array than before.                                   *)
LEMMA OwnedSame ==
    ASSUME Owned, DOMAIN heap' = DOMAIN heap, \A h \in Holders : Held(h)' = Held(h)
    PROVE  Owned'
<1> DEFINE none == [h \in Holders |-> {}]
<1>1. \A h \in Holders : none[h] = {} /\ Apart(Held(h))
    BY DEF Owned
<1> HIDE DEF none
<1>2. ASSUME NEW h \in Holders
      PROVE  In(Held(h)') \subseteq In(Held(h)) /\ Apart(Held(h)')
    BY <1>1
<1> QED BY <1>1, <1>2, OwnedNext

LEMMA SnapshotInv == ASSUME IInv, Snapshot PROVE IInv'
<1> SUFFICES ASSUME NEW r, r = report, NEW new, new = stored', NEW outs, outs = measured
             PROVE  IInv'
    OBVIOUS
<1>1. /\ new = Both(r) /\ heap' = heap \o Arrays(r.copies \o r.deletes) /\ kept' = outs
      /\ UNCHANGED <<message, result, report, listed, measured>>
    BY DEF Snapshot
<1>2. Lists(r, outs) /\ Says /\ Owned /\ heap \in Seq(Seq(Nat))
    BY DEF IInv, Says
<1>3. Cloned(new, outs)
    BY <1>1, <1>2, BothCloned
<1>4. /\ Lists(new, outs)' /\ heap' \in Seq(Seq(Nat)) /\ AsLong(heap', heap)
    BY <1>3 DEF Cloned
<1>5. (stored # None => Lists(stored, kept))'
    BY <1>1, <1>4
<1>6. Owned'
  <2>1. PICK first, second \in SUBSET (DOMAIN heap' \ DOMAIN heap) :
          /\ first \cap second = {}
          /\ In(new.copies) = first /\ In(new.deletes) = second
          /\ Apart(new.copies) /\ Apart(new.deletes)
      BY <1>3 DEF Cloned
  <2>2. \A h \in Holders \ {"stored", "storedDeletes"} : Held(h)' = Held(h)
      BY <1>1 DEF Holders, Held
  <2>3. /\ Held("stored")' = <<>> \/ Held("stored")' = new.copies
        /\ Held("storedDeletes")' = <<>> \/ Held("storedDeletes")' = new.deletes
      BY DEF Held
  <2>4. In(<<>>) = {} /\ Apart(<<>>)
      BY DEF In, Apart
  <2>5. /\ In(Held("stored")') \subseteq first /\ Apart(Held("stored")')
        /\ In(Held("storedDeletes")') \subseteq second /\ Apart(Held("storedDeletes")')
      BY <2>1, <2>3, <2>4
  <2> QED BY <1>2, <1>4, <2>1, <2>2, <2>5, OwnedTwo DEF Holders, AsLong
<1> QED BY <1>1, <1>2, <1>4, <1>5, <1>6, SaysKept, ListsKept DEF IInv

LEMMA ReportFromSnapshotInv == ASSUME IInv, ReportFromSnapshot PROVE IInv'
<1> SUFFICES ASSUME NEW r, r = stored, NEW new, new = report', NEW outs, outs = kept
             PROVE  IInv'
    OBVIOUS
<1>1. /\ new = Both(r) /\ heap' = heap \o Arrays(r.copies \o r.deletes) /\ measured' = outs
      /\ stored # None /\ UNCHANGED <<message, result, listed, stored, kept>>
    BY DEF ReportFromSnapshot
<1>2. Lists(r, outs) /\ Says /\ Owned /\ heap \in Seq(Seq(Nat))
    BY <1>1 DEF IInv, Says
<1>3. Cloned(new, outs)
    BY <1>1, <1>2, BothCloned
<1>4. /\ Lists(new, outs)' /\ heap' \in Seq(Seq(Nat)) /\ AsLong(heap', heap)
    BY <1>3 DEF Cloned
<1>5. Lists(report, measured)'
    BY <1>1, <1>4
<1>6. Owned'
  <2>1. PICK first, second \in SUBSET (DOMAIN heap' \ DOMAIN heap) :
          /\ first \cap second = {}
          /\ In(new.copies) = first /\ In(new.deletes) = second
          /\ Apart(new.copies) /\ Apart(new.deletes)
      BY <1>3 DEF Cloned
  <2>2. \A h \in Holders \ {"copies", "deletes"} : Held(h)' = Held(h)
      BY <1>1 DEF Holders, Held
  <2>3. Held("copies")' = new.copies /\ Held("deletes")' = new.deletes
      BY DEF Held
  <2>4. /\ In(Held("copies")') \subseteq first /\ Apart(Held("copies")')
        /\ In(Held("deletes")') \subseteq second /\ Apart(Held("deletes")')
      BY <2>1, <2>3
  <2> QED BY <1>2, <1>4, <2>1, <2>2, <2>4, OwnedTwo DEF Holders, AsLong
<1> QED BY <1>1, <1>2, <1>4, <1>5, <1>6, SaysKept, StoredKept DEF IInv

(* A write leaves every array as long as it was.                           *)
LEMMA WriteKeeps ==
    ASSUME IInv, Write
    PROVE  /\ heap' \in Seq(Seq(Nat)) /\ DOMAIN heap' = DOMAIN heap /\ AsLong(heap', heap)
           /\ \E a \in Slices : \A b \in DOMAIN heap \ {a} : heap'[b] = heap[b]
<1>1. PICK a \in Slices : \E i \in DOMAIN heap[a] : heap' = [heap EXCEPT ![a][i] = Scribble]
    BY DEF Write
<1>2. PICK i \in DOMAIN heap[a] : heap' = [heap EXCEPT ![a][i] = Scribble]
    BY <1>1
<1>3. heap \in Seq(Seq(Nat))
    BY DEF IInv, Says
<1>4. \A b \in DOMAIN heap \ {a} : heap'[b] = heap[b]
    BY <1>2
<1>5. DOMAIN heap' = DOMAIN heap
    BY <1>2
<1>6. CASE a \in DOMAIN heap
  <2>1. heap[a] \in Seq(Nat) /\ heap'[a] = [heap[a] EXCEPT ![i] = Scribble]
      BY <1>2, <1>3, <1>6
  <2>2. heap'[a] \in Seq(Nat) /\ Len(heap'[a]) = Len(heap[a])
      BY <1>2, <2>1, ReportsAssumption
  <2>3. \A b \in DOMAIN heap : heap'[b] \in Seq(Nat) /\ Len(heap'[b]) = Len(heap[b])
    <3> TAKE b \in DOMAIN heap
    <3>1. CASE b = a
        BY <2>1, <2>2, <3>1
    <3>2. CASE b # a
      <4>1. heap'[b] = heap[b] /\ heap[b] \in Seq(Nat)
          BY <1>3, <1>4, <3>2
      <4> QED BY <4>1
    <3> QED BY <3>1, <3>2
  <2>4. heap' \in Seq(Seq(Nat))
    <3>1. DOMAIN heap = 1..Len(heap) /\ Len(heap) \in Nat
        BY <1>3
    <3>2. heap' = [b \in 1..Len(heap) |-> heap'[b]]
        BY <1>2, <1>5, <3>1
    <3>3. \A b \in 1..Len(heap) : heap'[b] \in Seq(Nat)
        BY <2>3, <3>1
    <3> QED BY <3>1, <3>2, <3>3
  <2> QED BY <1>2, <1>4, <1>5, <2>3, <2>4 DEF AsLong
<1>7. CASE a \notin DOMAIN heap
  <2>1. heap = [b \in 1..Len(heap) |-> heap[b]] /\ DOMAIN heap = 1..Len(heap)
      BY <1>3
  <2>2. heap' = heap
      BY <1>2, <1>7, <2>1
  <2> QED BY <1>2, <1>3, <2>2 DEF AsLong
<1> QED BY <1>6, <1>7

LEMMA WriteInv == ASSUME IInv, Write PROVE IInv'
<1>1. UNCHANGED <<message, result, report, listed, stored, measured, kept>>
    BY DEF Write
<1>2. heap' \in Seq(Seq(Nat)) /\ DOMAIN heap' = DOMAIN heap /\ AsLong(heap', heap)
    BY WriteKeeps
<1>3. Says' /\ Lists(report, measured)' /\ (stored # None => Lists(stored, kept))'
    BY <1>1, <1>2, SaysKept, ListsKept, StoredKept DEF IInv
<1>4. Owned'
  <2>1. \A h \in Holders : Held(h)' = Held(h)
      BY <1>1 DEF Holders, Held
  <2> QED BY <1>2, <2>1, OwnedSame DEF IInv
<1> QED BY <1>3, <1>4 DEF IInv

LEMMA StutterInv == ASSUME IInv, UNCHANGED vars PROVE IInv'
<1>1. UNCHANGED <<heap, message, result, report, listed, stored, measured, kept>>
    BY DEF vars
<1>2. heap' \in Seq(Seq(Nat)) /\ AsLong(heap', heap)
    BY <1>1 DEF IInv, Says, AsLong
<1>3. Says' /\ Lists(report, measured)' /\ (stored # None => Lists(stored, kept))'
    BY <1>1, <1>2, SaysKept, ListsKept, StoredKept DEF IInv
<1>4. Owned'
  <2>1. \A h \in Holders : Held(h)' = Held(h)
      BY <1>1 DEF Holders, Held
  <2> QED BY <1>1, <2>1, OwnedSame DEF IInv
<1> QED BY <1>3, <1>4 DEF IInv

LEMMA StepInv == ASSUME IInv, [Next]_vars PROVE IInv'
BY ReportToMessageInv, ToTaskReportInv, RecordInv, ReleaseInv, FinalizeInv, CopiesInv,
   SnapshotInv, ReportFromSnapshotInv, WriteInv, StutterInv DEF Next

(* What results say, who owns their arrays and what the lists match holds  *)
(* in every state.                                                         *)
THEOREM IInvariance == Spec => []IInv
BY InitInv, StepInv, PTL DEF Spec

-----------------------------------------------------------------------------
(* Whoever writes is seen by nobody else.                                  *)

(* The holders of which an object is made.                                 *)
Parts(o) ==
    CASE o = "report" -> {"copies", "deletes"}
      [] o = "stored" -> {"stored", "storedDeletes"}
      [] OTHER        -> {o}

(* An array shown by an object belongs to one of its parts.                *)
LEMMA PartsApart ==
    ASSUME NEW o \in Objects, NEW p \in Objects, o # p
    PROVE  Parts(o) \subseteq Holders /\ Parts(o) \cap Parts(p) = {}
BY DEF Objects, Holders, Parts

LEMMA InJoined ==
    ASSUME NEW rs \in Seq(Result), NEW ds \in Seq(Result)
    PROVE  \A a \in In(rs \o ds) : a \in In(rs) \/ a \in In(ds)
<1> SUFFICES ASSUME NEW all, IsJoined(all, rs, ds)
             PROVE  \A a \in In(all) : a \in In(rs) \/ a \in In(ds)
    BY Joined
<1> QED BY DEF In, IsJoined

LEMMA InParts ==
    ASSUME IInv, NEW o \in Objects, NEW a \in In(Results(o))
    PROVE  \E h \in Parts(o) : a \in In(Held(h))
<1>1. CASE o \in {"message", "result", "listed"}
  <2>1. Results(o) = Held(o) /\ Parts(o) = {o}
      BY <1>1 DEF Results, Held, Parts
  <2> QED BY <2>1
<1>2. CASE o = "report"
  <2> SUFFICES ASSUME NEW rs, rs = report.copies, NEW ds, ds = report.deletes
               PROVE  \E h \in Parts(o) : a \in In(Held(h))
      OBVIOUS
  <2>1. rs \in Seq(Result) /\ ds \in Seq(Result)
      BY DEF IInv, Lists, Listing
  <2>2. a \in In(rs \o ds)
      BY <1>2 DEF Results
  <2>3. Held("copies") = rs /\ Held("deletes") = ds
      BY DEF Held
  <2>4. Parts(o) = {"copies", "deletes"}
      BY <1>2 DEF Parts
  <2> QED BY <2>1, <2>2, <2>3, <2>4, InJoined
<1>3. CASE o = "stored"
  <2>1. CASE stored = None
    <3>1. Results(o) = <<>>
        BY <1>3, <2>1 DEF Results
    <3> QED BY <3>1 DEF In
  <2>2. CASE stored # None
    <3> SUFFICES ASSUME NEW rs, rs = stored.copies, NEW ds, ds = stored.deletes
                 PROVE  \E h \in Parts(o) : a \in In(Held(h))
        OBVIOUS
    <3>1. rs \in Seq(Result) /\ ds \in Seq(Result)
        BY <2>2 DEF IInv, Lists, Listing
    <3>2. a \in In(rs \o ds)
        BY <1>3, <2>2 DEF Results
    <3>3. Held("stored") = rs /\ Held("storedDeletes") = ds
        BY <2>2 DEF Held
    <3>4. Parts(o) = {"stored", "storedDeletes"}
        BY <1>3 DEF Parts
    <3> QED BY <3>1, <3>2, <3>3, <3>4, InJoined
  <2> QED BY <2>1, <2>2
<1> QED BY <1>1, <1>2, <1>3 DEF Objects

(* Arrays with other owners are as they were, and only one object has the  *)
(* array that is written.                                                  *)
LEMMA WriteIsSeenOnce ==
    ASSUME IInv, Write
    PROVE  /\ Shown("report")' = Shown("report")
           /\ Cardinality({o \in Objects : Shown(o)' # Shown(o)}) <= 1
<1>1. PICK a \in Slices : \A b \in DOMAIN heap \ {a} : heap'[b] = heap[b]
    BY WriteKeeps
<1>2. Owned
    BY DEF IInv
<1>3. ASSUME NEW o \in Objects PROVE Results(o)' = Results(o)
    BY DEF Write, Objects, Results
<1>4. ASSUME NEW o \in Objects, a \notin In(Results(o)) PROVE Shown(o)' = Shown(o)
  <2>1. PICK rs : rs = Results(o) /\ rs = Results(o)'
      BY <1>3
  <2>2. ASSUME NEW i \in DOMAIN rs PROVE heap'[rs[i].array] = heap[rs[i].array]
    <3>1. rs[i].array \in In(Results(o))
        BY <2>1 DEF In
    <3>2. Parts(o) \subseteq Holders
        BY DEF Objects, Holders, Parts
    <3>3. rs[i].array \in DOMAIN heap
        BY <1>2, <3>1, <3>2, InParts DEF Owned
    <3> QED BY <1>1, <1>4, <3>1, <3>3
  <2>3. Shown(o) = [i \in DOMAIN rs |-> heap[rs[i].array]]
      BY <2>1 DEF Shown, Entries
  <2>4. Shown(o)' = [i \in DOMAIN rs |-> heap'[rs[i].array]]
      BY <2>1 DEF Shown, Entries
  <2> QED BY <2>2, <2>3, <2>4
<1>5. PICK h \in {"message", "result", "listed", "stored"} : a \in In(Held(h))
  <2>1. CASE a \in {r.array : r \in {message, result} \ {None}}
    <3>1. \A r : In(<<r>>) = {r.array}
        BY DEF In
    <3>2. CASE message # None /\ a = message.array
        BY <3>1, <3>2 DEF Held
    <3>3. CASE result # None /\ a = result.array
        BY <3>1, <3>3 DEF Held
    <3> QED BY <2>1, <3>2, <3>3
  <2>2. CASE a \in {listed[i].array : i \in DOMAIN listed}
      BY <2>2 DEF In, Held
  <2>3. CASE stored # None /\ a \in {stored.copies[i].array : i \in DOMAIN stored.copies}
      BY <2>3 DEF In, Held
  <2> QED BY <2>1, <2>2, <2>3 DEF Slices
<1>6. a \notin In(Results("report"))
  <2> SUFFICES ASSUME a \in In(Results("report")) PROVE FALSE
      OBVIOUS
  <2>1. PICK k \in Parts("report") : a \in In(Held(k))
      BY InParts DEF Objects
  <2>2. h \in Holders /\ k \in Holders /\ h # k
      BY DEF Holders, Parts
  <2> QED BY <1>2, <1>5, <2>1, <2>2 DEF Owned
<1>7. Shown("report")' = Shown("report")
    BY <1>4, <1>6 DEF Objects
<1>8. ASSUME NEW o \in Objects, NEW p \in Objects, o # p,
             a \in In(Results(o)), a \in In(Results(p))
      PROVE  FALSE
  <2>1. PICK k \in Parts(o), l \in Parts(p) : a \in In(Held(k)) /\ a \in In(Held(l))
      BY <1>8, InParts
  <2>2. k \in Holders /\ l \in Holders /\ k # l
      BY <1>8, PartsApart
  <2> QED BY <1>2, <2>1, <2>2 DEF Owned
<1>9. Cardinality({o \in Objects : Shown(o)' # Shown(o)}) <= 1
  <2> SUFFICES ASSUME NEW seen, seen = {o \in Objects : Shown(o)' # Shown(o)}
               PROVE  Cardinality(seen) <= 1
      OBVIOUS
  <2>1. \A o, p \in seen : o = p
      BY <1>4, <1>8
  <2>2. seen = {} \/ \E o : seen = {o}
      BY <2>1
  <2>3. Cardinality({}) = 0 /\ \A o : Cardinality({o}) = 1
      BY FS_EmptySet, FS_Singleton
  <2>4. Cardinality(seen) = 0 \/ Cardinality(seen) = 1
      BY <2>2, <2>3
  <2> QED BY <2>4
<1> QED BY <1>7, <1>9

(* Detached: a write to the entries of one object is seen in that object   *)
(* alone and never in the report, as every array has one owner.            *)
THEOREM WritesAreDetached == Spec => Detached
<1>1. IInv /\ [Next]_vars =>
          [Write => /\ Shown("report")' = Shown("report")
                    /\ Cardinality({o \in Objects : Shown(o)' # Shown(o)}) <= 1]_vars
    BY WriteIsSeenOnce
<1> QED BY <1>1, IInvariance, PTL DEF Spec, Detached

-----------------------------------------------------------------------------
(* The report counts what was measured.                                    *)

(* A list shows each value as often as the outcomes at the places I do.    *)
LEMMA MatchesTally ==
    ASSUME NEW rs, IsFiniteSet(DOMAIN rs), AllGood(rs), NEW outs, NEW I, Matches(rs, outs, I)
    PROVE  Tally(rs, DOMAIN rs, Fields) = Tally(outs, I, Sent)
<1>1. PICK b \in Bijection(DOMAIN rs, I) : \A i \in DOMAIN rs : rs[i].of = outs[b[i]]
    BY DEF Matches
<1>2. /\ \A i \in DOMAIN rs : b[i] \in I
      /\ \A i, j \in DOMAIN rs : b[i] = b[j] => i = j
      /\ \A k \in I : \E i \in DOMAIN rs : b[i] = k
    BY DEF Bijection, Injection, Surjection, IsInjective
<1>3. \A i \in DOMAIN rs : Fields(rs[i]) = Sent(outs[b[i]])
  <2>1. \A i \in DOMAIN rs : Fields(rs[i]) = Sent(rs[i].of)
      BY DEF AllGood, Good
  <2> QED BY <1>1, <2>1
<1>4. {Fields(rs[i]) : i \in DOMAIN rs} = {Sent(outs[k]) : k \in I}
    BY <1>2, <1>3
<1>5. ASSUME NEW v
      PROVE  Cardinality({i \in DOMAIN rs : Fields(rs[i]) = v})
                 = Cardinality({k \in I : Sent(outs[k]) = v})
  <2> DEFINE A == {i \in DOMAIN rs : Fields(rs[i]) = v}
             B == {k \in I : Sent(outs[k]) = v}
             c == [i \in A |-> b[i]]
  <2>1. c \in [A -> B] /\ \A i \in A : c[i] = b[i]
      BY <1>2, <1>3
  <2>2. \A i, j \in A : c[i] = c[j] => i = j
      BY <1>2
  <2>3. \A k \in B : \E i \in A : c[i] = k
      BY <1>2, <1>3
  <2>4. IsFiniteSet(A)
      BY FS_Subset
  <2> HIDE DEF A, B, c
  <2>5. ExistsBijection(A, B)
      BY <2>1, <2>2, <2>3
         DEF ExistsBijection, Bijection, Injection, Surjection, IsInjective
  <2>6. Cardinality(A) = Cardinality(B)
      BY <2>4, <2>5, FS_Bijection
  <2> QED BY <2>6 DEF A, B
<1> QED BY <1>4, <1>5 DEF Tally

(* Its entries are as many as those that were measured.                    *)
LEMMA MatchesFiles ==
    ASSUME heap \in Seq(Seq(Nat)), NEW rs, IsFiniteSet(DOMAIN rs), AllGood(rs),
           NEW outs \in Seq(Outcomes), NEW I, IsFiniteSet(I), I \subseteq DOMAIN outs,
           Matches(rs, outs, I)
    PROVE  CopiedFileCount(rs) =
               SumFunction([k \in I |-> Files(outs[k].action, Len(outs[k].entries))])
<1>1. PICK b \in Bijection(DOMAIN rs, I) : \A i \in DOMAIN rs : rs[i].of = outs[b[i]]
    BY DEF Matches
<1> DEFINE f == [i \in DOMAIN rs |-> Files(rs[i].action, Len(Entries(rs[i])))]
           g == [k \in I |-> Files(outs[k].action, Len(outs[k].entries))]
<1>2. \A i \in DOMAIN rs : b[i] \in I
    BY DEF Bijection, Injection
<1>3. ASSUME NEW i \in DOMAIN rs PROVE f[i] = g[b[i]]
  <2>1. Good(rs[i])
      BY DEF AllGood
  <2>2. rs[i].action = outs[b[i]].action
      BY <1>1, <2>1 DEF Good, Fields, Sent
  <2>3. Len(Entries(rs[i])) = Len(outs[b[i]].entries)
      BY <1>1, <2>1 DEF Good, Whole, Entries
  <2> QED BY <1>2, <2>2, <2>3
<1>4. ASSUME NEW k \in I PROVE g[k] \in Nat
  <2>1. outs[k] \in Outcomes
      OBVIOUS
  <2>2. outs[k].entries \in Seq(Nat)
      BY <2>1, ReportsAssumption
  <2>3. Len(outs[k].entries) \in Nat
      BY <2>2
  <2> QED BY <2>3 DEF Files
<1>5. DOMAIN f = DOMAIN rs /\ DOMAIN g = I
    OBVIOUS
<1>6. CopiedFileCount(rs) = SumFunctionOnSet(f, DOMAIN rs)
    BY DEF CopiedFileCount, SumFunction
<1>7. SumFunction(g) = SumFunctionOnSet(g, I)
    BY <1>5 DEF SumFunction
<1> HIDE DEF f, g
<1>8. NatValued(f, DOMAIN rs) /\ NatValued(g, I)
    BY <1>2, <1>3, <1>4 DEF NatValued
<1>9. SumFunctionOnSet(f, DOMAIN rs) = SumFunctionOnSet(g, I)
    BY <1>3, <1>8, SumBijected
<1>10. CopiedFileCount(rs) = SumFunction(g)
    BY <1>6, <1>7, <1>9
<1> QED BY <1>10 DEF g

LEMMA ListsCount ==
    ASSUME heap \in Seq(Seq(Nat)), NEW r, NEW outs, Lists(r, outs)
    PROVE  Counts(r, outs)
<1>1. /\ r.copies \in Seq(Result) /\ r.deletes \in Seq(Result) /\ outs \in Seq(Outcomes)
      /\ AllGood(r.copies) /\ AllGood(r.deletes)
      /\ Matches(r.copies, outs, Copied(outs)) /\ Matches(r.deletes, outs, Deleted(outs))
      /\ r.total = SumFunctionOnSet(BytesOf(outs), Copied(outs))
    BY DEF Lists, Listing
<1>2. IsFiniteSet(DOMAIN r.copies) /\ IsFiniteSet(DOMAIN r.deletes)
  <2>1. ASSUME NEW rs \in Seq(Result) PROVE IsFiniteSet(DOMAIN rs)
    <3>1. DOMAIN rs = 1..Len(rs) /\ Len(rs) \in Nat
        OBVIOUS
    <3> QED BY <3>1, FS_Interval
  <2> QED BY <1>1, <2>1
<1>3. /\ IsFiniteSet(Copied(outs)) /\ Copied(outs) \subseteq DOMAIN outs
      /\ NatValued(BytesOf(outs), Copied(outs))
    BY <1>1, BytesNat DEF Copied
<1>4. Tally(r.copies, DOMAIN r.copies, Fields) = Tally(outs, Copied(outs), Sent)
    BY <1>1, <1>2, MatchesTally
<1>5. Tally(r.deletes, DOMAIN r.deletes, Fields) = Tally(outs, Deleted(outs), Sent)
    BY <1>1, <1>2, MatchesTally
<1>6. r.total = SumFunction([i \in Copied(outs) |-> outs[i].bytes])
  <2> DEFINE g == [i \in Copied(outs) |-> outs[i].bytes]
  <2>1. DOMAIN g = Copied(outs) /\ \A i \in Copied(outs) : BytesOf(outs)[i] = g[i]
      BY <1>3 DEF BytesOf
  <2> HIDE DEF g
  <2>2. SumFunctionOnSet(BytesOf(outs), Copied(outs)) = SumFunctionOnSet(g, Copied(outs))
      BY <1>3, <2>1, SumSame
  <2> QED BY <1>1, <2>1, <2>2 DEF SumFunction, g
<1>7. CopiedFileCount(r.copies) = SumFunction([i \in Copied(outs) |->
          Files(outs[i].action, Len(outs[i].entries))])
    BY <1>1, <1>2, <1>3, MatchesFiles
<1> QED BY <1>4, <1>5, <1>6, <1>7 DEF Counts, Copied, Deleted

(* AsMeasured: a report and a snapshot count exactly the outcomes that     *)
(* were recorded, with their bytes and their files.                        *)
THEOREM CountsAsMeasured == Spec => []AsMeasured
<1>1. IInv => AsMeasured
  <2> SUFFICES ASSUME IInv PROVE AsMeasured
      OBVIOUS
  <2>1. heap \in Seq(Seq(Nat)) /\ Lists(report, measured)
      BY DEF IInv, Says
  <2>2. Counts(report, measured)
      BY <2>1, ListsCount
  <2>3. stored # None => Counts(stored, kept)
      BY <2>1, ListsCount DEF IInv
  <2> QED BY <2>2, <2>3 DEF AsMeasured
<1> QED BY <1>1, IInvariance, PTL
=============================================================================
