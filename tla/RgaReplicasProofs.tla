------------------------- MODULE RgaReplicasProofs -------------------------
(***************************************************************************)
(* What the operations on a replicated growable array leave in every copy, *)
(* for any sessions, any text and any number of operations: the split      *)
(* links (LinksGenuine), what is deleted (DeletedExactly), the order of    *)
(* the elements (Materialized), that of equal histories (Agreement), and   *)
(* where a local edit goes (LocalIntent).                                  *)
(*                                                                         *)
(* The inductive invariant says of each copy what it is of the tree of the *)
(* insertions its session has seen: its chunks partition the elements,     *)
(* each is a run of the tree, its links lead along the tree, each element  *)
(* comes after its parent with only later ones between, and the tombstones *)
(* are the elements some operation deleted.  An order of that kind is      *)
(* unique, and the reference lists the elements in one.                    *)
(***************************************************************************)
EXTENDS RgaReplicas, SequenceTheorems, FiniteSetTheorems, WellFoundedInduction, TLAPS

\* The chunks a copy can consist of
Chunks == [sid : Sid, time : Nat, span : Nat \ {0}, del : BOOLEAN, s : Nat]

EndOf(c) == [sid |-> c.sid, time |-> EndTime(c)]
NextOf(e) == [sid |-> e.sid, time |-> e.time + 1]

\* par[e] is what e hangs below: an earlier element, or the node itself.
IsTree(par) ==
  /\ DOMAIN par \subseteq Stamp
  /\ \A e \in DOMAIN par : par[e] \in DOMAIN par \cup {Root} /\ par[e].time < e.time

\* Each element of E is in one chunk, and nothing else is.
Tiles(q, E) ==
  /\ q \in Seq(Chunks)
  /\ \A e \in Stamp : e \in E <=> \E k \in 1..Len(q) : ContainsId(q[k], e)
  /\ \A e \in E, k, m \in 1..Len(q) : ContainsId(q[k], e) /\ ContainsId(q[m], e) => k = m

\* Within a chunk each element hangs below the one before.
Runs(q, par) ==
  \A k \in 1..Len(q) : \A e \in Stamp :
    ContainsId(q[k], e) /\ ContainsId(q[k], NextOf(e)) => par[NextOf(e)] = e

\* The element after e was inserted after e.
Continued(par, e) == NextOf(e) \in DOMAIN par /\ par[NextOf(e)] = e

Linked(q, par) ==
  \A k \in 1..Len(q) : q[k].s = IF Continued(par, EndOf(q[k])) THEN EndTime(q[k]) + 1 ELSE 0

Precedes(q, x, y) ==
  \/ FindById(q, x) < FindById(q, y)
  \/ FindById(q, x) = FindById(q, y) /\ x.time < y.time

\* An element comes after what it hangs below; all between them are later.
InOrder(q, par) ==
  \A e \in DOMAIN par :
    /\ par[e] # Root => Precedes(q, par[e], e)
    /\ \A x \in DOMAIN par :
         Precedes(q, x, e) /\ (par[e] = Root \/ Precedes(q, par[e], x)) => Before(e, x)

IsCopy(q, par) == Tiles(q, DOMAIN par) /\ Runs(q, par) /\ Linked(q, par) /\ InOrder(q, par)

\* The tombstones are the elements of gone.
Marked(q, gone) ==
  \A k \in 1..Len(q) : \A e \in Stamp : ContainsId(q[k], e) => (q[k].del <=> e \in gone)

-----------------------------------------------------------------------------
(* Numbers, identifiers and sequences.                                     *)

LEMMA Least ==
  ASSUME NEW S \in SUBSET Nat, S # {}
  PROVE  \E m \in S : \A n \in S : m <= n
<1> DEFINE T == {0..n : n \in S}
<1>1. T \subseteq FiniteSubsetsOf(Nat) /\ T # {}
  <2>1. ASSUME NEW n \in S PROVE (0..n) \in SUBSET Nat /\ IsFiniteSet(0..n)
    BY FS_Interval
  <2> QED
    BY <2>1 DEF FiniteSubsetsOf
<1>2. PICK x \in T : \A y \in T : ~(<<y, x>> \in StrictSubsetOrdering(Nat))
  <2> HIDE DEF T
  <2> QED
    BY <1>1, FS_StrictSubsetOrderingWellFounded, WFMin
<1>3. PICK m \in S : x = 0..m
  OBVIOUS
<1>4. ASSUME NEW n \in S, n < m PROVE FALSE
  <2>1. (0..n) \subseteq (0..m) /\ m \in 0..m /\ m \notin 0..n
    BY <1>4
  <2>2. (0..n) # (0..m)
    BY <2>1
  <2>3. <<0..n, 0..m>> \in StrictSubsetOrdering(Nat)
    BY <2>1, <2>2 DEF StrictSubsetOrdering
  <2> QED
    BY <1>2, <1>3, <2>3
<1> QED
  BY <1>4

LEMMA MinOK ==
  ASSUME NEW S \in SUBSET Nat, S # {}
  PROVE  Min(S) \in S /\ \A n \in S : Min(S) <= n
BY Least DEF Min

\* Induction up to a number, with a set in place of a predicate.
LEMMA Upward ==
  ASSUME NEW n \in Nat, NEW S, 0 \in S, \A i \in 0..(n - 1) : i \in S => (i + 1) \in S
  PROVE  \A i \in 0..n : i \in S
<1> SUFFICES ASSUME {i \in 0..n : i \notin S} # {} PROVE FALSE
  OBVIOUS
<1>1. PICK m \in {i \in 0..n : i \notin S} : \A i \in {j \in 0..n : j \notin S} : m <= i
  <2>1. {i \in 0..n : i \notin S} \in SUBSET Nat
    OBVIOUS
  <2> QED
    BY <2>1, Least
<1>2. m # 0 /\ m - 1 \in 0..(n - 1) /\ m - 1 \in 0..n
  BY <1>1
<1>3. m - 1 \in S
  BY <1>1, <1>2
<1> QED
  BY <1>1, <1>2, <1>3

LEMMA StampFacts ==
  /\ \A a \in Stamp \cup {Root} : a = [sid |-> a.sid, time |-> a.time] /\ a.sid \in Nat /\ a.time \in Nat
  /\ \A a \in Stamp : a # Root /\ a.sid \in Sid
<1>1. ASSUME NEW a \in Stamp
      PROVE  a = [sid |-> a.sid, time |-> a.time] /\ a.sid \in Sid /\ a.sid \in Nat \ {0} /\ a.time \in Nat
  BY SidAssumption DEF Stamp
<1>2. Root = [sid |-> Root.sid, time |-> Root.time] /\ Root.sid = 0 /\ Root.time = 0
  BY DEF Root
<1> QED
  BY <1>1, <1>2

LEMMA SameStamp ==
  ASSUME NEW a \in Stamp \cup {Root}, NEW b \in Stamp \cup {Root}, a.sid = b.sid, a.time = b.time
  PROVE  a = b
<1>1. a = [sid |-> a.sid, time |-> a.time] /\ b = [sid |-> b.sid, time |-> b.time]
  BY StampFacts
<1> QED
  BY <1>1

LEMMA BeforeFacts ==
  /\ \A a \in Stamp : ~Before(a, a)
  /\ \A a, b \in Stamp : a # b /\ ~Before(a, b) => Before(b, a)
  /\ \A a, b, c \in Stamp : Before(a, b) /\ Before(b, c) => Before(a, c)
  /\ \A a, b \in Stamp : Before(a, b) => ~Before(b, a)
<1>1. \A a \in Stamp : a = [sid |-> a.sid, time |-> a.time] /\ a.sid \in Nat /\ a.time \in Nat
  BY StampFacts
<1> QED
  BY <1>1 DEF Before

LEMMA NextFacts ==
  ASSUME NEW e \in Stamp
  PROVE  NextOf(e) \in Stamp /\ NextOf(e).sid = e.sid /\ NextOf(e).time = e.time + 1 /\ NextOf(e) # e
BY SidAssumption DEF Stamp, NextOf

\* A chunk's first, last and other elements.
LEMMA ChunkFacts ==
  ASSUME NEW c \in Chunks
  PROVE  /\ c.sid \in Sid /\ c.sid \in Nat /\ c.time \in Nat /\ c.span \in Nat \ {0}
         /\ c.del \in BOOLEAN /\ c.s \in Nat
         /\ c = [sid |-> c.sid, time |-> c.time, span |-> c.span, del |-> c.del, s |-> c.s]
         /\ EndTime(c) \in Nat /\ c.time <= EndTime(c) /\ EndTime(c) + 1 = c.time + c.span
         /\ Id(c) \in Stamp /\ Id(c).sid = c.sid /\ Id(c).time = c.time
         /\ EndOf(c) \in Stamp /\ EndOf(c).sid = c.sid /\ EndOf(c).time = EndTime(c)
         /\ ContainsId(c, Id(c)) /\ ContainsId(c, EndOf(c)) /\ ~ContainsId(c, NextOf(EndOf(c)))
         /\ \A e \in Stamp : ContainsId(c, e) <=>
              e.sid = c.sid /\ c.time <= e.time /\ e.time <= EndTime(c)
<1>1. /\ c.sid \in Sid /\ c.sid \in Nat /\ c.time \in Nat /\ c.span \in Nat \ {0}
      /\ c.del \in BOOLEAN /\ c.s \in Nat
      /\ c = [sid |-> c.sid, time |-> c.time, span |-> c.span, del |-> c.del, s |-> c.s]
  BY SidAssumption DEF Chunks
<1>2. EndTime(c) \in Nat /\ c.time <= EndTime(c) /\ EndTime(c) + 1 = c.time + c.span
  BY <1>1 DEF EndTime
<1> HIDE DEF Chunks
<1>3. /\ Id(c) \in Stamp /\ Id(c).sid = c.sid /\ Id(c).time = c.time
      /\ EndOf(c) \in Stamp /\ EndOf(c).sid = c.sid /\ EndOf(c).time = EndTime(c)
  BY <1>1, <1>2 DEF Id, EndOf, Stamp
<1>4. NextOf(EndOf(c)).time = EndTime(c) + 1
  BY <1>3, NextFacts
<1>5. ContainsId(c, Id(c)) /\ ContainsId(c, EndOf(c)) /\ ~ContainsId(c, NextOf(EndOf(c)))
  BY <1>1, <1>2, <1>3, <1>4 DEF ContainsId
<1>6. ASSUME NEW e \in Stamp
      PROVE  ContainsId(c, e) <=> e.sid = c.sid /\ c.time <= e.time /\ e.time <= EndTime(c)
  <2>1. e.time \in Nat
    BY StampFacts
  <2> QED
    BY <1>1, <1>2, <2>1 DEF ContainsId
<1> QED
  BY <1>1, <1>2, <1>3, <1>5, <1>6

\* Putting one more element into a sequence
LEMMA InsertAtOK ==
  ASSUME NEW T, NEW q \in Seq(T), NEW j \in 1..(Len(q) + 1), NEW c \in T, NEW p, p = InsertAt(q, j, c)
  PROVE  /\ p \in Seq(T) /\ Len(p) = Len(q) + 1
         /\ \A i \in 1..Len(p) : p[i] = IF i < j THEN q[i] ELSE IF i = j THEN c ELSE q[i - 1]
<1>1. PICK n : n = Len(q)
  OBVIOUS
<1>2. n \in Nat /\ j \in 1..(n + 1)
  BY <1>1
<1>3. PICK a : a = SubSeq(q, 1, j - 1)
  OBVIOUS
<1>4. PICK b : b = SubSeq(q, j, n)
  OBVIOUS
<1>5. a \in Seq(T) /\ Len(a) = j - 1 /\ \A i \in 1..(j - 1) : a[i] = q[i]
  BY <1>1, <1>2, <1>3
<1>6. b \in Seq(T) /\ Len(b) = n - (j - 1) /\ \A i \in 1..(n - (j - 1)) : b[i] = q[(j - 1) + i]
  BY <1>1, <1>2, <1>4
<1>7. PICK d : d = Append(a, c)
  OBVIOUS
<1>8. d = a \o <<c>> /\ d \in Seq(T) /\ Len(d) = j /\ d[j] = c /\ \A i \in 1..(j - 1) : d[i] = q[i]
  BY <1>2, <1>5, <1>7, AppendProperties, AppendIsConcat
<1>9. p = d \o b
  BY <1>1, <1>3, <1>4, <1>8 DEF InsertAt
<1>10. /\ p \in Seq(T)
       /\ Len(p) = Len(d) + Len(b)
       /\ \A i \in 1..(Len(d) + Len(b)) : p[i] = IF i <= Len(d) THEN d[i] ELSE b[i - Len(d)]
  <2>1. d \in Seq(T) /\ b \in Seq(T)
    BY <1>6, <1>8
  <2>2. /\ d \o b \in Seq(T)
        /\ Len(d \o b) = Len(d) + Len(b)
        /\ \A i \in 1..(Len(d) + Len(b)) : (d \o b)[i] = IF i <= Len(d) THEN d[i] ELSE b[i - Len(d)]
    BY <2>1, ConcatProperties
  <2> QED
    BY <1>9, <2>2
<1>11. Len(p) = n + 1 /\ \A i \in 1..(n + 1) : p[i] = IF i <= j THEN d[i] ELSE b[i - j]
  <2>1. Len(d) = j /\ Len(b) = n - (j - 1) /\ j + (n - (j - 1)) = n + 1
    BY <1>2, <1>6, <1>8
  <2> QED
    BY <1>10, <2>1
<1>12. ASSUME NEW i \in (j + 1)..(n + 1) PROVE b[i - j] = q[i - 1]
  <2>1. i - j \in 1..(n - (j - 1)) /\ (j - 1) + (i - j) = i - 1
    BY <1>2
  <2> QED
    BY <1>6, <2>1
<1>13. \A i \in 1..(n + 1) : p[i] = IF i < j THEN q[i] ELSE IF i = j THEN c ELSE q[i - 1]
  BY <1>2, <1>8, <1>11, <1>12
<1> QED
  BY <1>1, <1>10, <1>11, <1>13

\* Taking one out
LEMMA RemoveAtOK ==
  ASSUME NEW T, NEW q \in Seq(T), NEW j \in 1..Len(q), NEW p, p = RemoveAt(q, j)
  PROVE  /\ p \in Seq(T) /\ Len(p) = Len(q) - 1
         /\ \A i \in 1..Len(p) : p[i] = IF i < j THEN q[i] ELSE q[i + 1]
<1>1. PICK n : n = Len(q)
  OBVIOUS
<1>2. n \in Nat /\ j \in 1..n
  BY <1>1
<1>3. PICK a : a = SubSeq(q, 1, j - 1)
  OBVIOUS
<1>4. PICK b : b = SubSeq(q, j + 1, n)
  OBVIOUS
<1>5. a \in Seq(T) /\ Len(a) = j - 1 /\ \A i \in 1..(j - 1) : a[i] = q[i]
  BY <1>1, <1>2, <1>3
<1>6. b \in Seq(T) /\ Len(b) = n - j /\ \A i \in 1..(n - j) : b[i] = q[j + i]
  BY <1>1, <1>2, <1>4
<1>7. p = a \o b
  BY <1>1, <1>3, <1>4 DEF RemoveAt
<1>8. /\ p \in Seq(T)
      /\ Len(p) = Len(a) + Len(b)
      /\ \A i \in 1..(Len(a) + Len(b)) : p[i] = IF i <= Len(a) THEN a[i] ELSE b[i - Len(a)]
  <2>1. a \in Seq(T) /\ b \in Seq(T)
    BY <1>5, <1>6
  <2>2. /\ a \o b \in Seq(T)
        /\ Len(a \o b) = Len(a) + Len(b)
        /\ \A i \in 1..(Len(a) + Len(b)) : (a \o b)[i] = IF i <= Len(a) THEN a[i] ELSE b[i - Len(a)]
    BY <2>1, ConcatProperties
  <2> QED
    BY <1>7, <2>2
<1>9. Len(p) = n - 1 /\ \A i \in 1..(n - 1) : p[i] = IF i <= j - 1 THEN a[i] ELSE b[i - (j - 1)]
  <2>1. Len(a) = j - 1 /\ Len(b) = n - j /\ (j - 1) + (n - j) = n - 1
    BY <1>2, <1>5, <1>6
  <2> QED
    BY <1>8, <2>1
<1>10. ASSUME NEW i \in j..(n - 1) PROVE b[i - (j - 1)] = q[i + 1]
  <2>1. i - (j - 1) \in 1..(n - j) /\ j + (i - (j - 1)) = i + 1
    BY <1>2
  <2> QED
    BY <1>6, <2>1
<1>11. \A i \in 1..(n - 1) : p[i] = IF i < j THEN q[i] ELSE q[i + 1]
  BY <1>2, <1>5, <1>9, <1>10
<1> QED
  BY <1>1, <1>8, <1>9, <1>11

\* Where an element is found
LEMMA FindOK ==
  ASSUME NEW q, NEW E, Tiles(q, E), NEW e \in E \cap Stamp
  PROVE  /\ FindById(q, e) \in 1..Len(q)
         /\ ContainsId(q[FindById(q, e)], e)
         /\ \A k \in 1..Len(q) : ContainsId(q[k], e) => k = FindById(q, e)
<1>1. PICK I : I = {i \in 1..Len(q) : ContainsId(q[i], e)}
  OBVIOUS
<1>2. I # {} /\ I \in SUBSET Nat
  BY <1>1 DEF Tiles
<1>3. FindById(q, e) = Min(I)
  BY <1>1, <1>2 DEF FindById, SelectInSeq
<1>4. FindById(q, e) \in I
  BY <1>2, <1>3, MinOK
<1> QED
  BY <1>1, <1>4 DEF Tiles

LEMMA FindNone ==
  ASSUME NEW q, NEW E, Tiles(q, E), NEW e \in Stamp, e \notin E
  PROVE  FindById(q, e) = 0
<1>1. {i \in 1..Len(q) : ContainsId(q[i], e)} = {}
  BY DEF Tiles
<1> QED
  BY <1>1 DEF FindById, SelectInSeq

\* The chunks of a copy, and the elements in them.
LEMMA TilesFacts ==
  ASSUME NEW q, NEW E, Tiles(q, E), E \subseteq Stamp
  PROVE  /\ Len(q) \in Nat /\ q \in Seq(Chunks)
         /\ \A k \in 1..Len(q) : /\ q[k] \in Chunks
                                 /\ Id(q[k]) \in E /\ EndOf(q[k]) \in E
                                 /\ FindById(q, Id(q[k])) = k /\ FindById(q, EndOf(q[k])) = k
                                 /\ \A e \in Stamp : ContainsId(q[k], e) <=> e \in E /\ FindById(q, e) = k
         /\ \A e \in E : FindById(q, e) \in 1..Len(q) /\ ContainsId(q[FindById(q, e)], e)
<1>1. q \in Seq(Chunks) /\ Len(q) \in Nat
  BY DEF Tiles
<1>2. ASSUME NEW k \in 1..Len(q), NEW e \in Stamp
      PROVE  ContainsId(q[k], e) <=> e \in E /\ FindById(q, e) = k
  <2>1. ContainsId(q[k], e) => e \in E
    BY DEF Tiles
  <2> QED
    BY <2>1, FindOK
<1>3. ASSUME NEW k \in 1..Len(q)
      PROVE  /\ q[k] \in Chunks
             /\ Id(q[k]) \in E /\ EndOf(q[k]) \in E
             /\ FindById(q, Id(q[k])) = k /\ FindById(q, EndOf(q[k])) = k
  <2>1. q[k] \in Chunks
    BY <1>1
  <2>2. Id(q[k]) \in Stamp /\ EndOf(q[k]) \in Stamp /\ ContainsId(q[k], Id(q[k])) /\ ContainsId(q[k], EndOf(q[k]))
    BY <2>1, ChunkFacts
  <2> QED
    BY <1>2, <2>1, <2>2
<1>4. \A e \in E : FindById(q, e) \in 1..Len(q) /\ ContainsId(q[FindById(q, e)], e)
  BY FindOK
<1> QED
  BY <1>1, <1>2, <1>3, <1>4

\* The order of the elements in a copy.
LEMMA PrecedesFacts ==
  ASSUME NEW q, NEW E, Tiles(q, E), E \subseteq Stamp
  PROVE  /\ \A x \in E : ~Precedes(q, x, x)
         /\ \A x, y \in E : x # y => Precedes(q, x, y) \/ Precedes(q, y, x)
         /\ \A x, y, z \in E : Precedes(q, x, y) /\ Precedes(q, y, z) => Precedes(q, x, z)
         /\ \A x, y \in E : Precedes(q, x, y) => ~Precedes(q, y, x)
<1>1. \A x \in E : FindById(q, x) \in Nat /\ x.time \in Nat
  BY TilesFacts, StampFacts
<1>2. ASSUME NEW x \in E, NEW y \in E, FindById(q, x) = FindById(q, y), x.time = y.time
      PROVE  x = y
  <2>1. PICK k \in 1..Len(q) : k = FindById(q, x)
    BY TilesFacts
  <2>2. ContainsId(q[k], x) /\ ContainsId(q[k], y)
    BY <1>2, <2>1, TilesFacts
  <2>3. x.sid = y.sid
    BY <2>2 DEF ContainsId
  <2> QED
    BY <1>2, <2>3, SameStamp
<1> QED
  BY <1>1, <1>2 DEF Precedes

\* A split link leads to a later chunk, which starts with the element that follows.
LEMMA LinkOK ==
  ASSUME NEW par, IsTree(par), NEW q, IsCopy(q, par), NEW k \in 1..Len(q),
         Continued(par, EndOf(q[k]))
  PROVE  /\ q[k].s = EndTime(q[k]) + 1 /\ q[k].s # 0
         /\ LinkIndex(q, k) \in (k + 1)..Len(q)
         /\ Id(q[LinkIndex(q, k)]) = NextOf(EndOf(q[k]))
<1>1. PICK e : e = EndOf(q[k])
  OBVIOUS
<1>2. PICK f : f = NextOf(e)
  OBVIOUS
<1>3. PICK m : m = FindById(q, f)
  OBVIOUS
<1>4. DOMAIN par \subseteq Stamp /\ Tiles(q, DOMAIN par)
  BY DEF IsTree, IsCopy
<1>5. q[k] \in Chunks /\ e \in DOMAIN par /\ e \in Stamp /\ FindById(q, e) = k
  BY <1>1, <1>4, TilesFacts
<1>6. f \in DOMAIN par /\ f \in Stamp /\ par[f] = e
  BY <1>1, <1>2, <1>4 DEF Continued
<1>7. /\ f.sid = q[k].sid /\ f.time = EndTime(q[k]) + 1 /\ f.time \in Nat /\ EndTime(q[k]) \in Nat
      /\ e.sid = q[k].sid /\ e.time = EndTime(q[k]) /\ ~ContainsId(q[k], f)
  BY <1>1, <1>2, <1>5, ChunkFacts, NextFacts
<1>8. m \in 1..Len(q) /\ q[m] \in Chunks /\ ContainsId(q[m], f)
  BY <1>3, <1>4, <1>6, TilesFacts
<1>9. m # k
  BY <1>7, <1>8
<1>10. q[m].sid = q[k].sid /\ q[m].time = f.time
  <2>1. q[m].sid = f.sid /\ q[m].time <= f.time /\ f.time <= EndTime(q[m]) /\ q[m].time \in Nat /\ EndTime(q[m]) \in Nat
    BY <1>6, <1>8, ChunkFacts
  <2>2. ASSUME q[m].time < f.time PROVE FALSE
    <3>1. q[m].sid = e.sid /\ q[m].time <= e.time /\ e.time <= EndTime(q[m])
      BY <1>7, <2>1, <2>2
    <3>2. ContainsId(q[m], e)
      BY <1>5, <1>8, <3>1, ChunkFacts
    <3> QED
      BY <1>4, <1>5, <1>8, <1>9, <3>2, TilesFacts
  <2> QED
    BY <1>7, <2>1, <2>2
<1>11. q[k].s = EndTime(q[k]) + 1 /\ q[k].s # 0
  BY <1>7 DEF IsCopy, Linked
<1>12. PICK I : I = {i \in 1..Len(q) : q[i].sid = q[k].sid /\ q[i].time = q[k].s}
  OBVIOUS
<1>13. I # {} /\ I \in SUBSET Nat /\ m \in I
  BY <1>7, <1>8, <1>10, <1>11, <1>12
<1>14. LinkIndex(q, k) = Min(I)
  BY <1>12, <1>13 DEF LinkIndex, SelectInSeq
<1>15. ASSUME NEW i \in I PROVE i = m /\ Id(q[i]) = f
  <2>1. i \in 1..Len(q) /\ q[i].sid = f.sid /\ q[i].time = f.time
    BY <1>7, <1>11, <1>12
  <2>2. q[i] \in Chunks /\ FindById(q, Id(q[i])) = i
    BY <1>4, <2>1, TilesFacts
  <2>3. Id(q[i]) \in Stamp /\ Id(q[i]).sid = f.sid /\ Id(q[i]).time = f.time
    BY <2>1, <2>2, ChunkFacts
  <2>4. Id(q[i]) = f
    BY <1>6, <2>3, SameStamp
  <2> QED
    BY <1>3, <2>2, <2>4
<1>16. LinkIndex(q, k) = m /\ Id(q[m]) = f
  BY <1>13, <1>14, <1>15, MinOK
<1>17. m > k
  <2>1. Precedes(q, e, f)
    BY <1>5, <1>6, StampFacts DEF IsCopy, InOrder
  <2> QED
    BY <1>3, <1>5, <1>8, <1>9, <2>1 DEF Precedes
<1>18. k \in Nat /\ Len(q) \in Nat
  BY <1>4, TilesFacts
<1> QED
  BY <1>1, <1>2, <1>8, <1>11, <1>16, <1>17, <1>18

\* A chunk whose start directly follows, in time and in the document, the end of its
\* neighbour was inserted there: else it would come before it.
LEMMA NeighboursOK ==
  ASSUME NEW par, IsTree(par), NEW q, IsCopy(q, par), NEW k \in 1..(Len(q) - 1),
         q[k].sid = q[k + 1].sid, EndTime(q[k]) + 1 = q[k + 1].time
  PROVE  /\ NextOf(EndOf(q[k])) = Id(q[k + 1])
         /\ Continued(par, EndOf(q[k]))
<1>1. PICK e : e = EndOf(q[k])
  OBVIOUS
<1>2. PICK f : f = Id(q[k + 1])
  OBVIOUS
<1>3. DOMAIN par \subseteq Stamp /\ Tiles(q, DOMAIN par)
  BY DEF IsTree, IsCopy
<1>4. k \in 1..Len(q) /\ (k + 1) \in 1..Len(q) /\ k \in Nat
  BY <1>3, TilesFacts
<1>5. /\ q[k] \in Chunks /\ e \in DOMAIN par /\ e \in Stamp /\ FindById(q, e) = k
      /\ e.sid = q[k].sid /\ e.time = EndTime(q[k]) /\ EndTime(q[k]) \in Nat
  <2>1. q[k] \in Chunks /\ e \in DOMAIN par /\ FindById(q, e) = k
    BY <1>1, <1>3, <1>4, TilesFacts
  <2> QED
    BY <1>1, <2>1, ChunkFacts
<1>6. /\ q[k + 1] \in Chunks /\ f \in DOMAIN par /\ f \in Stamp /\ FindById(q, f) = k + 1
      /\ f.sid = e.sid /\ f.time = e.time + 1 /\ f.time = q[k + 1].time
  <2>1. q[k + 1] \in Chunks /\ f \in DOMAIN par /\ FindById(q, f) = k + 1
    BY <1>2, <1>3, <1>4, TilesFacts
  <2>2. f \in Stamp /\ f.sid = q[k + 1].sid /\ f.time = q[k + 1].time
    BY <1>2, <2>1, ChunkFacts
  <2> QED
    BY <1>5, <2>1, <2>2
<1>7. f = NextOf(e)
  BY <1>5, <1>6, NextFacts, SameStamp
<1>8. ASSUME par[f] # e PROVE FALSE
  <2>1. PICK u : u = par[f]
    OBVIOUS
  <2>2. Precedes(q, e, f) /\ ~Before(f, e)
    BY <1>4, <1>5, <1>6 DEF Precedes, Before
  <2>3. u # Root /\ ~Precedes(q, u, e)
    BY <1>5, <1>6, <2>1, <2>2 DEF IsCopy, InOrder
  <2>4. u \in DOMAIN par /\ u \in Stamp /\ u # e /\ u.time < f.time
    BY <1>3, <1>6, <1>8, <2>1, <2>3 DEF IsTree
  <2>5. Precedes(q, e, u) /\ Precedes(q, u, f)
    BY <1>3, <1>5, <1>6, <2>1, <2>3, <2>4, PrecedesFacts DEF IsCopy, InOrder
  <2>6. PICK m : m = FindById(q, u)
    OBVIOUS
  <2>7. m \in 1..Len(q) /\ q[m] \in Chunks /\ ContainsId(q[m], u)
    BY <1>3, <2>4, <2>6, TilesFacts
  <2>8. m = k \/ m = k + 1
    BY <1>4, <1>5, <1>6, <2>5, <2>6, <2>7 DEF Precedes
  <2>9. CASE m = k
    <3>1. u.time <= e.time
      BY <1>5, <2>4, <2>7, <2>9, ChunkFacts
    <3> QED
      BY <1>5, <2>4, <2>5, <2>6, <2>9, <3>1, StampFacts DEF Precedes
  <2>10. CASE m = k + 1
    <3>1. u.time >= f.time
      BY <1>6, <2>4, <2>7, <2>10, ChunkFacts
    <3> QED
      BY <1>6, <2>4, <3>1, StampFacts
  <2> QED
    BY <2>8, <2>9, <2>10
<1> QED
  BY <1>1, <1>2, <1>6, <1>7, <1>8 DEF Continued

-----------------------------------------------------------------------------
(* How the chunks of a copy may change while it stays one.                 *)

\* Chunks that contain each element in one place tile the elements.
LEMMA TilesBy ==
  ASSUME NEW E, E \subseteq Stamp, NEW p \in Seq(Chunks), NEW at \in [E -> 1..Len(p)],
         \A e \in Stamp, m \in 1..Len(p) : ContainsId(p[m], e) <=> e \in E /\ at[e] = m
  PROVE  Tiles(p, E) /\ \A e \in E : FindById(p, e) = at[e]
<1>1. Tiles(p, E)
  BY DEF Tiles
<1>2. ASSUME NEW e \in E PROVE FindById(p, e) = at[e]
  BY <1>1, FindOK
<1> QED
  BY <1>1, <1>2

LEMMA OrderKept ==
  ASSUME NEW par, IsTree(par), NEW q, InOrder(q, par), NEW p,
         \A x, y \in DOMAIN par : Precedes(p, x, y) <=> Precedes(q, x, y)
  PROVE  InOrder(p, par)
BY DEF InOrder, IsTree

\* Only what is marked as deleted differs.
LEMMA AlikeOK ==
  ASSUME NEW par, IsTree(par), NEW q, IsCopy(q, par), NEW p \in Seq(Chunks), Len(p) = Len(q),
         \A k \in 1..Len(q) : /\ p[k].sid = q[k].sid /\ p[k].time = q[k].time
                              /\ p[k].span = q[k].span /\ p[k].s = q[k].s
  PROVE  IsCopy(p, par)
<1>1. DOMAIN par \subseteq Stamp /\ Tiles(q, DOMAIN par)
  BY DEF IsTree, IsCopy
<1>2. \A k \in 1..Len(q) : /\ EndTime(p[k]) = EndTime(q[k]) /\ EndOf(p[k]) = EndOf(q[k])
                           /\ \A e : ContainsId(p[k], e) <=> ContainsId(q[k], e)
  BY DEF EndTime, EndOf, ContainsId
<1>3. Tiles(p, DOMAIN par)
  BY <1>1, <1>2 DEF Tiles
<1>4. \A e \in DOMAIN par : FindById(p, e) = FindById(q, e)
  <2> SUFFICES ASSUME NEW e \in DOMAIN par PROVE FindById(p, e) = FindById(q, e)
    OBVIOUS
  <2>1. FindById(q, e) \in 1..Len(q) /\ ContainsId(q[FindById(q, e)], e)
    BY <1>1, TilesFacts
  <2>2. ContainsId(p[FindById(q, e)], e)
    BY <1>2, <2>1
  <2> QED
    BY <1>1, <1>3, <2>1, <2>2, FindOK
<1>5. InOrder(p, par)
  <2>1. \A x, y \in DOMAIN par : Precedes(p, x, y) <=> Precedes(q, x, y)
    BY <1>4 DEF Precedes
  <2> QED
    BY <2>1, OrderKept DEF IsCopy
<1>6. Runs(p, par)
  <2>1. Runs(q, par)
    BY DEF IsCopy
  <2> QED
    BY <1>2, <2>1 DEF Runs
<1>7. Linked(p, par)
  <2>1. Linked(q, par)
    BY DEF IsCopy
  <2>2. \A k \in 1..Len(q) : p[k].s = q[k].s
    OBVIOUS
  <2> QED
    BY <1>2, <2>1, <2>2 DEF Linked
<1> QED
  BY <1>3, <1>5, <1>6, <1>7 DEF IsCopy

\* A chunk is killed.
LEMMA KillOK ==
  ASSUME NEW par, IsTree(par), NEW q, IsCopy(q, par), NEW k \in 1..Len(q), NEW p, p = Kill(q, k)
  PROVE  /\ IsCopy(p, par) /\ Len(p) = Len(q)
         /\ \A i \in 1..Len(q) : /\ p[i].sid = q[i].sid /\ p[i].time = q[i].time
                                 /\ p[i].span = q[i].span /\ p[i].s = q[i].s
                                 /\ EndTime(p[i]) = EndTime(q[i])
         /\ \A gone : Marked(q, gone) => Marked(p, gone \cup {e \in Stamp : ContainsId(q[k], e)})
<1>1. DOMAIN par \subseteq Stamp /\ Tiles(q, DOMAIN par)
  BY DEF IsTree, IsCopy
<1>2. q \in Seq(Chunks) /\ Len(q) \in Nat /\ q[k] \in Chunks
  BY <1>1, TilesFacts
<1>3. PICK c : c = [q[k] EXCEPT !.del = TRUE]
  OBVIOUS
<1>4. /\ c \in Chunks /\ c.sid = q[k].sid /\ c.time = q[k].time
      /\ c.span = q[k].span /\ c.s = q[k].s /\ c.del = TRUE
  BY <1>2, <1>3 DEF Chunks
<1>5. p = [q EXCEPT ![k] = c]
  BY <1>3 DEF Kill
<1>6. p \in Seq(Chunks) /\ Len(p) = Len(q) /\ \A i \in 1..Len(q) : p[i] = IF i = k THEN c ELSE q[i]
  BY <1>2, <1>4, <1>5, ExceptSeq
<1>7. \A i \in 1..Len(q) : /\ p[i].sid = q[i].sid /\ p[i].time = q[i].time
                           /\ p[i].span = q[i].span /\ p[i].s = q[i].s
  BY <1>4, <1>6
<1>8. \A i \in 1..Len(q) : /\ EndTime(p[i]) = EndTime(q[i])
                           /\ \A e : ContainsId(p[i], e) <=> ContainsId(q[i], e)
  BY <1>7 DEF EndTime, ContainsId
<1>9. ASSUME NEW gone, Marked(q, gone)
      PROVE  Marked(p, gone \cup {e \in Stamp : ContainsId(q[k], e)})
  <2> SUFFICES ASSUME NEW i \in 1..Len(q), NEW e \in Stamp, ContainsId(q[i], e)
               PROVE  p[i].del <=> e \in gone \/ ContainsId(q[k], e)
    BY <1>6, <1>8 DEF Marked
  <2>1. CASE i = k
    BY <1>4, <1>6, <2>1
  <2>2. CASE i # k
    <3>1. ~ContainsId(q[k], e)
      BY <1>1, <2>2, TilesFacts
    <3> QED
      BY <1>6, <1>9, <2>2, <3>1 DEF Marked
  <2> QED
    BY <2>1, <2>2
<1> QED
  BY <1>6, <1>7, <1>8, <1>9, AlikeOK

\* A chunk is split in two.
LEMMA SplitOK ==
  ASSUME NEW par, IsTree(par), NEW q, IsCopy(q, par), NEW k \in 1..Len(q),
         NEW ticks \in 1..(q[k].span - 1), NEW p, p = SplitChunk(q, k, ticks)
  PROVE  /\ IsCopy(p, par) /\ Len(p) = Len(q) + 1
         /\ k \in 1..Len(p) /\ (k + 1) \in 1..Len(p)
         /\ \A i \in 1..(k - 1) : p[i] = q[i]
         /\ \A i \in (k + 1)..Len(q) : p[i + 1] = q[i]
         /\ p[k].sid = q[k].sid /\ p[k].time = q[k].time /\ EndTime(p[k]) = q[k].time + ticks - 1
         /\ p[k].del = q[k].del /\ p[k].span = ticks
         /\ p[k + 1].sid = q[k].sid /\ p[k + 1].time = q[k].time + ticks
         /\ EndTime(p[k + 1]) = EndTime(q[k]) /\ p[k + 1].del = q[k].del
         /\ \A gone : Marked(q, gone) => Marked(p, gone)
<1>1. DOMAIN par \subseteq Stamp /\ Tiles(q, DOMAIN par)
  BY DEF IsTree, IsCopy
<1>2. q \in Seq(Chunks) /\ Len(q) \in Nat /\ q[k] \in Chunks /\ k \in Nat
  BY <1>1, TilesFacts
<1>3. PICK c : c = q[k]
  OBVIOUS
<1>4. PICK left : left = [c EXCEPT !.span = ticks, !.s = c.time + ticks]
  OBVIOUS
<1>5. PICK right : right = [c EXCEPT !.time = @ + ticks, !.span = @ - ticks]
  OBVIOUS
<1>6. c \in Chunks /\ c.sid \in Sid /\ c.time \in Nat /\ c.span \in Nat /\ ticks \in Nat \ {0} /\ ticks < c.span
  <2>1. ticks \in 1..(c.span - 1)
    BY <1>3
  <2>2. c \in Chunks /\ c.sid \in Sid /\ c.time \in Nat /\ c.span \in Nat \ {0}
    BY <1>2, <1>3, ChunkFacts
  <2> QED
    BY <2>1, <2>2
<1>7. /\ left \in Chunks /\ left.sid = c.sid /\ left.time = c.time /\ left.span = ticks
      /\ left.del = c.del /\ left.s = c.time + ticks
  <2>1. c = [sid |-> c.sid, time |-> c.time, span |-> c.span, del |-> c.del, s |-> c.s] /\ c.del \in BOOLEAN
    BY <1>6, ChunkFacts
  <2>2. left = [sid |-> c.sid, time |-> c.time, span |-> ticks, del |-> c.del, s |-> c.time + ticks]
    BY <1>4, <2>1
  <2>3. c.time + ticks \in Nat
    BY <1>6
  <2> QED
    BY <1>6, <2>1, <2>2, <2>3 DEF Chunks
<1>8. /\ right \in Chunks /\ right.sid = c.sid /\ right.time = c.time + ticks /\ right.span = c.span - ticks
      /\ right.del = c.del /\ right.s = c.s
  <2>1. /\ c = [sid |-> c.sid, time |-> c.time, span |-> c.span, del |-> c.del, s |-> c.s]
        /\ c.del \in BOOLEAN /\ c.s \in Nat
    BY <1>6, ChunkFacts
  <2>2. right = [sid |-> c.sid, time |-> c.time + ticks, span |-> c.span - ticks, del |-> c.del, s |-> c.s]
    BY <1>5, <2>1
  <2>3. c.time + ticks \in Nat /\ c.span - ticks \in Nat \ {0}
    BY <1>6
  <2> QED
    BY <1>6, <2>1, <2>2, <2>3 DEF Chunks
<1>9. PICK h : h = [q EXCEPT ![k] = left]
  OBVIOUS
<1>10. h \in Seq(Chunks) /\ Len(h) = Len(q) /\ \A i \in 1..Len(q) : h[i] = IF i = k THEN left ELSE q[i]
  BY <1>2, <1>7, <1>9, ExceptSeq
<1>11. p = InsertAt(h, k + 1, right)
  BY <1>3, <1>4, <1>5, <1>9 DEF SplitChunk
<1>12. /\ p \in Seq(Chunks) /\ Len(p) = Len(q) + 1
       /\ \A i \in 1..Len(p) : p[i] = IF i < k + 1 THEN h[i] ELSE IF i = k + 1 THEN right ELSE h[i - 1]
  <2>1. (k + 1) \in 1..(Len(h) + 1) /\ h \in Seq(Chunks) /\ right \in Chunks /\ Len(h) = Len(q)
    BY <1>2, <1>8, <1>10
  <2>2. /\ p \in Seq(Chunks) /\ Len(p) = Len(h) + 1
        /\ \A i \in 1..Len(p) : p[i] = IF i < k + 1 THEN h[i] ELSE IF i = k + 1 THEN right ELSE h[i - 1]
    <3>1. PICK j : j = k + 1
      OBVIOUS
    <3>2. j \in 1..(Len(h) + 1) /\ h \in Seq(Chunks) /\ right \in Chunks /\ p = InsertAt(h, j, right)
      BY <1>11, <2>1, <3>1
    <3>3. /\ p \in Seq(Chunks) /\ Len(p) = Len(h) + 1
          /\ \A i \in 1..Len(p) : p[i] = IF i < j THEN h[i] ELSE IF i = j THEN right ELSE h[i - 1]
      BY <3>2, InsertAtOK, SMTT(30)
    <3> QED
      BY <3>1, <3>3
  <2> QED
    BY <2>1, <2>2
<1>13. /\ k \in 1..Len(p) /\ (k + 1) \in 1..Len(p)
       /\ p[k] = left /\ p[k + 1] = right
       /\ \A i \in 1..(k - 1) : p[i] = q[i]
       /\ \A i \in (k + 1)..Len(q) : p[i + 1] = q[i]
  <2>1. \A i \in (k + 1)..Len(q) : i + 1 \in 1..Len(p) /\ ~(i + 1 < k + 1) /\ i + 1 # k + 1 /\ (i + 1) - 1 = i /\ i # k
    BY <1>2, <1>12
  <2>2. \A i \in (k + 1)..Len(q) : p[i + 1] = q[i]
    BY <1>2, <1>10, <1>12, <2>1
  <2>3. k \in 1..Len(p) /\ (k + 1) \in 1..Len(p) /\ k < k + 1 /\ ~(k + 1 < k + 1)
    BY <1>2, <1>12
  <2>4. \A i \in 1..(k - 1) : i \in 1..Len(p) /\ i < k + 1 /\ i # k /\ i \in 1..Len(q)
    BY <1>2, <1>12
  <2> QED
    BY <1>2, <1>10, <1>12, <2>2, <2>3, <2>4
<1>14. EndTime(left) = c.time + ticks - 1 /\ EndTime(right) = EndTime(c)
  BY <1>6, <1>7, <1>8 DEF EndTime
<1>15. ASSUME NEW e \in Stamp
       PROVE  /\ ContainsId(left, e) <=> ContainsId(c, e) /\ e.time < c.time + ticks
              /\ ContainsId(right, e) <=> ContainsId(c, e) /\ ~(e.time < c.time + ticks)
  <2>1. e.time \in Nat
    BY StampFacts
  <2> QED
    BY <1>6, <1>7, <1>8, <2>1 DEF ContainsId
<1>16. PICK at : at = [e \in DOMAIN par |-> IF FindById(q, e) < k THEN FindById(q, e)
                                            ELSE IF FindById(q, e) = k /\ e.time < c.time + ticks THEN k
                                            ELSE FindById(q, e) + 1]
  OBVIOUS
<1>17. Tiles(p, DOMAIN par) /\ \A e \in DOMAIN par : FindById(p, e) = at[e]
  <2>1. ASSUME NEW e \in DOMAIN par PROVE at[e] \in 1..Len(p)
    <3>1. FindById(q, e) \in 1..Len(q)
      BY <1>1, TilesFacts
    <3> QED
      BY <1>2, <1>12, <1>16, <3>1
  <2>2. ASSUME NEW e \in Stamp, NEW m \in 1..Len(p)
        PROVE  ContainsId(p[m], e) <=> e \in DOMAIN par /\ at[e] = m
    <3>1. \A i \in 1..Len(q) : ContainsId(q[i], e) <=> e \in DOMAIN par /\ FindById(q, e) = i
      BY <1>1, TilesFacts
    <3>2. e \in DOMAIN par => FindById(q, e) \in 1..Len(q)
      BY <1>1, TilesFacts
    <3>3. CASE m < k
      <4>1. m \in 1..Len(q) /\ p[m] = q[m]
        BY <1>2, <1>13, <3>3
      <4> QED
        BY <1>2, <1>16, <3>1, <3>2, <3>3, <4>1
    <3>4. CASE m = k
      BY <1>2, <1>3, <1>13, <1>15, <1>16, <3>1, <3>2, <3>4
    <3>5. CASE m = k + 1
      BY <1>2, <1>3, <1>13, <1>15, <1>16, <3>1, <3>2, <3>5
    <3>6. CASE m > k + 1
      <4>1. m - 1 \in (k + 1)..Len(q) /\ m - 1 \in 1..Len(q) /\ (m - 1) + 1 = m
        BY <1>2, <1>12, <3>6
      <4>2. p[m] = q[m - 1]
        BY <1>13, <4>1
      <4>3. ContainsId(p[m], e) <=> e \in DOMAIN par /\ FindById(q, e) = m - 1
        BY <3>1, <4>1, <4>2
      <4>4. e \in DOMAIN par => (at[e] = m <=> FindById(q, e) = m - 1)
        BY <1>2, <1>16, <3>2, <3>6, <4>1
      <4> QED
        BY <4>3, <4>4
    <3> QED
      BY <1>2, <3>3, <3>4, <3>5, <3>6
  <2> QED
    <3>1. p \in Seq(Chunks)
      BY <1>12
    <3>2. at \in [DOMAIN par -> 1..Len(p)]
      BY <1>16, <2>1
    <3> QED
      BY <1>1, <2>2, <3>1, <3>2, TilesBy
<1>18. InOrder(p, par)
  <2>1. ASSUME NEW x \in DOMAIN par, NEW y \in DOMAIN par PROVE Precedes(p, x, y) <=> Precedes(q, x, y)
    <3>1. FindById(q, x) \in 1..Len(q) /\ FindById(q, y) \in 1..Len(q) /\ x.time \in Nat /\ y.time \in Nat
      BY <1>1, TilesFacts, StampFacts
    <3>2. FindById(p, x) = at[x] /\ FindById(p, y) = at[y]
      BY <1>17
    <3> QED
      BY <1>2, <1>6, <1>16, <3>1, <3>2 DEF Precedes
  <2> QED
    BY <2>1, OrderKept DEF IsCopy
<1>19. ASSUME NEW m \in 1..Len(p)
       PROVE  \E i \in 1..Len(q) : /\ \A e \in Stamp : ContainsId(p[m], e) => ContainsId(q[i], e)
                                   /\ p[m].del = q[i].del
                                   /\ m # k => p[m].s = q[i].s /\ EndOf(p[m]) = EndOf(q[i]) /\ EndTime(p[m]) = EndTime(q[i])
  <2>1. CASE m < k
    BY <1>2, <1>13, <2>1
  <2>2. CASE m = k
    BY <1>2, <1>3, <1>7, <1>13, <1>15, <2>2
  <2>3. CASE m = k + 1
    BY <1>2, <1>3, <1>8, <1>13, <1>14, <1>15, <2>3 DEF EndOf
  <2>4. CASE m > k + 1
    <3>1. m - 1 \in (k + 1)..Len(q) /\ m - 1 \in 1..Len(q) /\ (m - 1) + 1 = m
      BY <1>2, <1>12, <2>4
    <3>2. p[m] = q[m - 1]
      BY <1>13, <3>1
    <3> QED
      BY <3>1, <3>2
  <2> QED
    BY <1>2, <2>1, <2>2, <2>3, <2>4
<1>20. Runs(p, par)
  <2> SUFFICES ASSUME NEW m \in 1..Len(p), NEW e \in Stamp, ContainsId(p[m], e), ContainsId(p[m], NextOf(e))
               PROVE  par[NextOf(e)] = e
    BY DEF Runs
  <2>1. NextOf(e) \in Stamp
    BY NextFacts
  <2>2. PICK i \in 1..Len(q) : ContainsId(q[i], e) /\ ContainsId(q[i], NextOf(e))
    BY <1>19, <2>1
  <2> QED
    BY <2>2 DEF IsCopy, Runs
<1>21. Linked(p, par)
  <2> SUFFICES ASSUME NEW m \in 1..Len(p)
               PROVE  p[m].s = IF Continued(par, EndOf(p[m])) THEN EndTime(p[m]) + 1 ELSE 0
    BY DEF Linked
  <2>1. CASE m # k
    BY <1>19, <2>1 DEF IsCopy, Linked
  <2>2. CASE m = k
    <3>1. PICK e : e = EndOf(left)
      OBVIOUS
    <3>2. e \in Stamp /\ e.sid = c.sid /\ e.time = c.time + ticks - 1
      BY <1>7, <1>14, <3>1, ChunkFacts
    <3>3. NextOf(e) \in Stamp /\ NextOf(e).sid = c.sid /\ NextOf(e).time = c.time + ticks
      BY <1>6, <3>2, NextFacts
    <3>4. ContainsId(c, e) /\ ContainsId(c, NextOf(e))
      BY <1>6, <3>2, <3>3 DEF ContainsId
    <3>5. NextOf(e) \in DOMAIN par /\ par[NextOf(e)] = e
      BY <1>1, <1>3, <3>2, <3>3, <3>4, TilesFacts DEF IsCopy, Runs
    <3> QED
      BY <1>6, <1>7, <1>13, <1>14, <2>2, <3>1, <3>5 DEF Continued
  <2> QED
    BY <2>1, <2>2
<1>22. ASSUME NEW gone, Marked(q, gone) PROVE Marked(p, gone)
  BY <1>19, <1>22 DEF Marked
<1>23. IsCopy(p, par)
  BY <1>17, <1>18, <1>20, <1>21 DEF IsCopy
<1> QED
  BY <1>3, <1>7, <1>8, <1>12, <1>13, <1>14, <1>22, <1>23

\* p is q with the chunk c in place of the k-th and the next, which continues it.
IsJoin(q, k, c, p) ==
  /\ k \in 1..(Len(q) - 1)
  /\ q[k].sid = q[k + 1].sid /\ EndTime(q[k]) + 1 = q[k + 1].time /\ q[k].del = q[k + 1].del
  /\ c \in Chunks
  /\ c.sid = q[k].sid /\ c.time = q[k].time /\ c.span = q[k].span + q[k + 1].span
  /\ c.del = q[k].del /\ c.s = q[k + 1].s
  /\ p \in Seq(Chunks) /\ Len(p) = Len(q) - 1
  /\ \A i \in 1..Len(p) : p[i] = IF i < k THEN q[i] ELSE IF i = k THEN c ELSE q[i + 1]

\* A chunk takes in its neighbour, which continues it.
LEMMA JoinOK ==
  ASSUME NEW par, IsTree(par), NEW q, IsCopy(q, par), NEW k, NEW c, NEW p, IsJoin(q, k, c, p)
  PROVE  /\ IsCopy(p, par)
         /\ \A gone : Marked(q, gone) => Marked(p, gone)
<1>0. /\ k \in 1..(Len(q) - 1)
      /\ q[k].sid = q[k + 1].sid /\ EndTime(q[k]) + 1 = q[k + 1].time /\ q[k].del = q[k + 1].del
      /\ c \in Chunks
      /\ c.sid = q[k].sid /\ c.time = q[k].time /\ c.span = q[k].span + q[k + 1].span
      /\ c.del = q[k].del /\ c.s = q[k + 1].s
      /\ p \in Seq(Chunks) /\ Len(p) = Len(q) - 1
      /\ \A i \in 1..Len(p) : p[i] = IF i < k THEN q[i] ELSE IF i = k THEN c ELSE q[i + 1]
  BY DEF IsJoin
<1> USE <1>0
<1>1. DOMAIN par \subseteq Stamp /\ Tiles(q, DOMAIN par)
  BY DEF IsTree, IsCopy
<1>2. /\ q \in Seq(Chunks) /\ Len(q) \in Nat /\ k \in Nat /\ k \in 1..Len(q) /\ (k + 1) \in 1..Len(q)
      /\ q[k] \in Chunks /\ q[k + 1] \in Chunks
  <2>1. Len(q) \in Nat
    BY <1>1, TilesFacts
  <2>2. k \in Nat /\ k \in 1..Len(q) /\ (k + 1) \in 1..Len(q)
    BY <2>1
  <2> QED
    BY <1>1, <2>1, <2>2, TilesFacts
<1>3. PICK a : a = q[k]
  OBVIOUS
<1>4. PICK b : b = q[k + 1]
  OBVIOUS
<1>5. /\ a \in Chunks /\ a.sid \in Sid /\ a.time \in Nat /\ a.span \in Nat \ {0}
      /\ b \in Chunks /\ b.sid \in Sid /\ b.time \in Nat /\ b.span \in Nat \ {0}
  <2>1. a \in Chunks /\ b \in Chunks
    BY <1>2, <1>3, <1>4
  <2> QED
    BY <2>1, ChunkFacts
<1>6. a.sid = b.sid /\ b.time = a.time + a.span /\ a.del = b.del
  <2>1. EndTime(a) + 1 = a.time + a.span
    BY <1>5, ChunkFacts
  <2> QED
    BY <1>3, <1>4, <2>1
<1>8. /\ c \in Chunks /\ c.sid = a.sid /\ c.time = a.time /\ c.span = a.span + b.span
      /\ c.del = a.del /\ c.s = b.s /\ c.time \in Nat /\ c.span \in Nat
  BY <1>3, <1>4, ChunkFacts
<1>9. EndTime(c) = EndTime(b) /\ EndOf(c) = EndOf(b)
  <2>1. /\ a.time \in Nat /\ a.span \in Nat /\ b.span \in Nat /\ b.time = a.time + a.span
        /\ c.sid = b.sid /\ c.time = a.time /\ c.span = a.span + b.span
        /\ c.time \in Nat /\ c.span \in Nat /\ b.time \in Nat
    BY <1>5, <1>6, <1>8
  <2>2. c.time + c.span - 1 = b.time + b.span - 1
    BY ONLY <2>1
  <2> QED
    BY ONLY <2>1, <2>2 DEF EndTime, EndOf
<1>13. p \in Seq(Chunks) /\ Len(p) = Len(q) - 1
  OBVIOUS
<1>14. \A i \in 1..Len(p) : p[i] = IF i < k THEN q[i] ELSE IF i = k THEN c ELSE q[i + 1]
  OBVIOUS
<1>15. ASSUME NEW e \in Stamp
       PROVE  ContainsId(c, e) <=> ContainsId(a, e) \/ ContainsId(b, e)
  <2>1. e.time \in Nat
    BY StampFacts
  <2> QED
    BY ONLY <1>5, <1>6, <1>8, <2>1 DEF ContainsId
<1>16. PICK at : at = [e \in DOMAIN par |-> IF FindById(q, e) <= k THEN FindById(q, e)
                                            ELSE FindById(q, e) - 1]
  OBVIOUS
<1>17. Tiles(p, DOMAIN par) /\ \A e \in DOMAIN par : FindById(p, e) = at[e]
  <2>1. at \in [DOMAIN par -> 1..Len(p)]
    <3>1. ASSUME NEW e \in DOMAIN par PROVE at[e] \in 1..Len(p)
      <4>1. FindById(q, e) \in 1..Len(q)
        BY <1>1, TilesFacts
      <4> QED
        BY <1>2, <1>13, <1>16, <4>1
    <3> QED
      BY <1>16, <3>1
  <2>2. ASSUME NEW e \in Stamp, NEW m \in 1..Len(p)
        PROVE  ContainsId(p[m], e) <=> e \in DOMAIN par /\ at[e] = m
    <3>1. \A i \in 1..Len(q) : ContainsId(q[i], e) <=> e \in DOMAIN par /\ FindById(q, e) = i
      BY <1>1, TilesFacts
    <3>2. e \in DOMAIN par => FindById(q, e) \in 1..Len(q)
      BY <1>1, TilesFacts
    <3>3. CASE m < k
      <4>1. m \in 1..Len(q) /\ p[m] = q[m]
        BY <1>2, <1>14, <3>3
      <4> QED
        BY <1>2, <1>16, <3>1, <3>2, <3>3, <4>1
    <3>4. CASE m = k
      <4>1. ContainsId(p[m], e) <=> ContainsId(q[k], e) \/ ContainsId(q[k + 1], e)
        BY <1>2, <1>3, <1>4, <1>14, <1>15, <3>4
      <4> QED
        BY <1>2, <1>16, <3>1, <3>2, <3>4, <4>1
    <3>5. CASE m > k
      <4>1. m + 1 \in 1..Len(q) /\ p[m] = q[m + 1] /\ m \in Nat
        BY <1>2, <1>13, <1>14, <3>5
      <4>2. ContainsId(p[m], e) <=> e \in DOMAIN par /\ FindById(q, e) = m + 1
        BY <3>1, <4>1
      <4>3. e \in DOMAIN par => (at[e] = m <=> FindById(q, e) = m + 1)
        BY ONLY <1>2, <1>16, <3>2, <3>5, <4>1
      <4> QED
        BY <4>2, <4>3
    <3> QED
      BY <1>2, <3>3, <3>4, <3>5
  <2>3. p \in Seq(Chunks)
    BY <1>13
  <2> QED
    BY ONLY <1>1, <2>1, <2>2, <2>3, TilesBy, SMTT(30)
<1>18. InOrder(p, par)
  <2>1. ASSUME NEW x \in DOMAIN par, NEW y \in DOMAIN par PROVE Precedes(p, x, y) <=> Precedes(q, x, y)
    <3>1. FindById(q, x) \in 1..Len(q) /\ FindById(q, y) \in 1..Len(q) /\ x.time \in Nat /\ y.time \in Nat
      BY <1>1, TilesFacts, StampFacts
    <3>2. FindById(p, x) = at[x] /\ FindById(p, y) = at[y]
      BY <1>17
    <3>3. ASSUME NEW u \in DOMAIN par, NEW v \in DOMAIN par, FindById(q, u) = k, FindById(q, v) = k + 1
          PROVE  u.time < v.time /\ ~(v.time < u.time)
      <4>1. ContainsId(a, u) /\ ContainsId(b, v)
        BY <1>1, <1>2, <1>3, <1>4, <3>3, TilesFacts
      <4>2. u.time \in Nat /\ v.time \in Nat
        BY <1>1, StampFacts
      <4> QED
        BY <1>5, <1>6, <4>1, <4>2 DEF ContainsId
    <3> QED
      BY <1>2, <1>16, <3>1, <3>2, <3>3 DEF Precedes
  <2> QED
    BY <2>1, OrderKept DEF IsCopy
<1>19. /\ NextOf(EndOf(a)) = Id(b) /\ Continued(par, EndOf(a))
  BY <1>3, <1>4, NeighboursOK
<1>20. Runs(p, par)
  <2> SUFFICES ASSUME NEW m \in 1..Len(p), NEW e \in Stamp, ContainsId(p[m], e), ContainsId(p[m], NextOf(e))
               PROVE  par[NextOf(e)] = e
    BY DEF Runs
  <2>1. NextOf(e) \in Stamp /\ NextOf(e).sid = e.sid /\ NextOf(e).time = e.time + 1 /\ e.time \in Nat
    BY NextFacts, StampFacts
  <2>2. CASE m < k
    <3>1. m \in 1..Len(q) /\ p[m] = q[m]
      BY <1>2, <1>14, <2>2
    <3> QED
      BY <3>1 DEF IsCopy, Runs
  <2>3. CASE m > k
    <3>1. m + 1 \in 1..Len(q) /\ p[m] = q[m + 1]
      BY <1>2, <1>13, <1>14, <2>3
    <3> QED
      BY <3>1 DEF IsCopy, Runs
  <2>4. CASE m = k
    <3>1. ContainsId(c, e) /\ ContainsId(c, NextOf(e))
      BY <1>2, <1>14, <2>4
    <3>2. CASE ContainsId(a, e) /\ ContainsId(b, NextOf(e))
      <4>1. e.sid = a.sid /\ e.time = EndTime(a)
        <5>1. /\ a.time \in Nat /\ a.span \in Nat /\ b.span \in Nat /\ b.time = a.time + a.span
              /\ a.sid = b.sid
          BY <1>5, <1>6
        <5> QED
          BY ONLY <2>1, <3>2, <5>1 DEF ContainsId, EndTime
      <4>2. e = EndOf(a)
        <5>1. EndOf(a) \in Stamp /\ EndOf(a).sid = a.sid /\ EndOf(a).time = EndTime(a)
          BY ONLY <1>5, ChunkFacts
        <5> QED
          BY ONLY <4>1, <5>1, SameStamp
      <4> QED
        BY <1>19, <4>2 DEF Continued
    <3>3. CASE ContainsId(b, e) /\ ContainsId(a, NextOf(e))
      BY <1>5, <1>6, <2>1, <3>3 DEF ContainsId
    <3>4. CASE ContainsId(a, e) /\ ContainsId(a, NextOf(e))
      BY <1>2, <1>3, <3>4 DEF IsCopy, Runs
    <3>5. CASE ContainsId(b, e) /\ ContainsId(b, NextOf(e))
      BY <1>2, <1>4, <3>5 DEF IsCopy, Runs
    <3> QED
      BY <1>15, <2>1, <3>1, <3>2, <3>3, <3>4, <3>5
  <2> QED
    BY <1>2, <2>2, <2>3, <2>4
<1>21. Linked(p, par)
  <2> SUFFICES ASSUME NEW m \in 1..Len(p)
               PROVE  p[m].s = IF Continued(par, EndOf(p[m])) THEN EndTime(p[m]) + 1 ELSE 0
    BY DEF Linked
  <2>1. CASE m < k
    <3>1. m \in 1..Len(q) /\ p[m] = q[m]
      BY <1>2, <1>14, <2>1
    <3> QED
      BY <3>1 DEF IsCopy, Linked
  <2>2. CASE m > k
    <3>1. m + 1 \in 1..Len(q) /\ p[m] = q[m + 1]
      BY <1>2, <1>13, <1>14, <2>2
    <3> QED
      BY <3>1 DEF IsCopy, Linked
  <2>3. CASE m = k
    <3>1. p[m] = c /\ c.s = b.s /\ EndOf(c) = EndOf(b) /\ EndTime(c) = EndTime(b)
      BY <1>2, <1>8, <1>9, <1>14, <2>3
    <3>2. b.s = IF Continued(par, EndOf(b)) THEN EndTime(b) + 1 ELSE 0
      BY <1>2, <1>4 DEF IsCopy, Linked
    <3> QED
      BY <3>1, <3>2
  <2> QED
    BY <1>2, <2>1, <2>2, <2>3
<1>22. ASSUME NEW gone, Marked(q, gone) PROVE Marked(p, gone)
  <2> SUFFICES ASSUME NEW m \in 1..Len(p), NEW e \in Stamp, ContainsId(p[m], e)
               PROVE  p[m].del <=> e \in gone
    BY DEF Marked
  <2>1. \A i \in 1..Len(q) : ContainsId(q[i], e) => (q[i].del <=> e \in gone)
    BY <1>22 DEF Marked
  <2>2. CASE m < k
    <3>1. m \in 1..Len(q) /\ p[m] = q[m]
      BY <1>2, <1>14, <2>2
    <3> QED
      BY <2>1, <3>1
  <2>3. CASE m > k
    <3>1. m + 1 \in 1..Len(q) /\ p[m] = q[m + 1]
      BY <1>2, <1>13, <1>14, <2>3
    <3> QED
      BY <2>1, <3>1
  <2>4. CASE m = k
    <3>1. p[m] = c
      BY <1>2, <1>14, <2>4
    <3>2. CASE ContainsId(a, e)
      BY <1>2, <1>3, <1>8, <2>1, <3>1, <3>2
    <3>3. CASE ContainsId(b, e)
      BY <1>2, <1>4, <1>6, <1>8, <2>1, <3>1, <3>3
    <3> QED
      BY <1>15, <3>1, <3>2, <3>3
  <2> QED
    BY <1>2, <2>2, <2>3, <2>4
<1>23. IsCopy(p, par)
  BY <1>17, <1>18, <1>20, <1>21 DEF IsCopy
<1> QED
  BY <1>22, <1>23

\* Neighbouring tombstones become one.
LEMMA MergeAtOK ==
  ASSUME NEW par, IsTree(par), NEW q, IsCopy(q, par), NEW k \in Int, NEW p, p = MergeAt(q, k)
  PROVE  /\ IsCopy(p, par)
         /\ k \in 1..(Len(q) - 1) /\ Mergeable(q[k], q[k + 1]) => Len(p) = Len(q) - 1
         /\ \A gone : Marked(q, gone) => Marked(p, gone)
<1>1. CASE ~(k \in 1..(Len(q) - 1) /\ Mergeable(q[k], q[k + 1]))
  BY <1>1 DEF MergeAt
<1>2. CASE k \in 1..(Len(q) - 1) /\ Mergeable(q[k], q[k + 1])
  <2>1. DOMAIN par \subseteq Stamp /\ Tiles(q, DOMAIN par)
    BY DEF IsTree, IsCopy
  <2>2. q \in Seq(Chunks) /\ Len(q) \in Nat
    BY <2>1, TilesFacts
  <2>3. k \in 1..Len(q) /\ k \in 1..(Len(q) - 1) /\ (k + 1) \in 1..Len(q)
    BY <1>2, <2>2
  <2>4. PICK a : a = q[k]
    OBVIOUS
  <2>5. PICK b : b = q[k + 1]
    OBVIOUS
  <2>6. a \in Chunks /\ b \in Chunks
    BY <2>1, <2>3, <2>4, <2>5, TilesFacts
  <2>7. a.del = b.del /\ a.sid = b.sid /\ EndTime(a) + 1 = b.time
    <3>1. a.del \in BOOLEAN /\ b.del \in BOOLEAN
      BY <2>6, ChunkFacts
    <3> QED
      BY <1>2, <2>4, <2>5, <3>1 DEF Mergeable
  <2>8. PICK c : c = [a EXCEPT !.span = @ + b.span, !.s = b.s]
    OBVIOUS
  <2>9. /\ c \in Chunks /\ c.sid = a.sid /\ c.time = a.time /\ c.span = a.span + b.span
        /\ c.del = a.del /\ c.s = b.s
    <3>1. /\ a = [sid |-> a.sid, time |-> a.time, span |-> a.span, del |-> a.del, s |-> a.s]
          /\ a.sid \in Sid /\ a.time \in Nat /\ a.span \in Nat \ {0} /\ a.del \in BOOLEAN
          /\ b.span \in Nat \ {0} /\ b.s \in Nat
      BY <2>6, ChunkFacts
    <3>2. c = [sid |-> a.sid, time |-> a.time, span |-> a.span + b.span, del |-> a.del, s |-> b.s]
      BY <2>8, <3>1
    <3>3. a.span + b.span \in Nat \ {0}
      BY <3>1
    <3> QED
      BY <3>1, <3>2, <3>3 DEF Chunks
  <2>10. PICK h : h = [q EXCEPT ![k] = c]
    OBVIOUS
  <2>11. h \in Seq(Chunks) /\ Len(h) = Len(q) /\ \A i \in 1..Len(q) : h[i] = IF i = k THEN c ELSE q[i]
    BY <2>2, <2>3, <2>9, <2>10, ExceptSeq
  <2>12. p = RemoveAt(h, k + 1)
    <3>1. [q EXCEPT ![k].span = @ + q[k + 1].span, ![k].s = q[k + 1].s] = h
      BY <2>2, <2>3, <2>4, <2>5, <2>8, <2>10
    <3> QED
      BY <1>2, <3>1 DEF MergeAt
  <2>13. /\ p \in Seq(Chunks) /\ Len(p) = Len(q) - 1
         /\ \A i \in 1..Len(p) : p[i] = IF i < k + 1 THEN h[i] ELSE h[i + 1]
    <3>1. PICK j : j = k + 1
      OBVIOUS
    <3>2. j \in 1..Len(h) /\ h \in Seq(Chunks) /\ p = RemoveAt(h, j)
      BY <2>3, <2>11, <2>12, <3>1
    <3>3. /\ p \in Seq(Chunks) /\ Len(p) = Len(h) - 1
          /\ \A i \in 1..Len(p) : p[i] = IF i < j THEN h[i] ELSE h[i + 1]
      BY <3>2, RemoveAtOK
    <3> QED
      BY <2>11, <3>1, <3>3
  <2>14. \A i \in 1..Len(p) : p[i] = IF i < k THEN q[i] ELSE IF i = k THEN c ELSE q[i + 1]
    <3> SUFFICES ASSUME NEW i \in 1..Len(p)
                 PROVE  p[i] = IF i < k THEN q[i] ELSE IF i = k THEN c ELSE q[i + 1]
      OBVIOUS
    <3>1. i \in 1..Len(q) /\ i + 1 \in 1..Len(q)
      BY <2>2, <2>13
    <3> QED
      BY <2>2, <2>3, <2>11, <2>13, <3>1
  <2>15. IsCopy(p, par) /\ \A gone : Marked(q, gone) => Marked(p, gone)
    <3>1. IsJoin(q, k, c, p)
      BY <2>3, <2>4, <2>5, <2>7, <2>9, <2>13, <2>14 DEF IsJoin
    <3> QED
      BY <3>1, JoinOK
  <2> QED
    BY <2>13, <2>15
<1> QED
  BY <1>1, <1>2

\* par2 is par with the elements of the new chunk c below ref, one below the other.
Grows(par, c, ref, par2) ==
  /\ c \in Chunks /\ c.s = 0 /\ c.del = FALSE
  /\ ref \in DOMAIN par \cup {Root} /\ ref.time < c.time
  /\ \A e \in Stamp : ContainsId(c, e) => e \notin DOMAIN par
  /\ DOMAIN par2 = DOMAIN par \cup {e \in Stamp : ContainsId(c, e)}
  /\ \A e \in DOMAIN par : par2[e] = par[e]
  /\ par2[Id(c)] = ref
  /\ \A e \in Stamp : ContainsId(c, e) /\ ContainsId(c, NextOf(e)) => par2[NextOf(e)] = e

\* A place for c, behind the j-th chunk: ref comes before, what is between is later, what
\* follows is earlier.
IsPlace(q, par, c, ref, j) ==
  /\ j \in 0..Len(q)
  /\ ref # Root => FindById(q, ref) <= j
  /\ j < Len(q) => Before(Id(q[j + 1]), Id(c))
  /\ \A x \in DOMAIN par :
       FindById(q, x) <= j /\ (ref = Root \/ Precedes(q, ref, x)) => Before(Id(c), x)

\* h is q with the chunk that c continues, if there is one, linked to it.
LinkedTo(q, c, ref, h) ==
  /\ h \in Seq(Chunks) /\ Len(h) = Len(q)
  /\ \A i \in 1..Len(q) :
       /\ h[i].sid = q[i].sid /\ h[i].time = q[i].time /\ h[i].span = q[i].span
       /\ h[i].del = q[i].del
       /\ h[i].s = IF EndOf(q[i]) = ref /\ NextOf(ref) = Id(c) THEN c.time ELSE q[i].s

PutBehind(h, j, c, p) ==
  /\ p \in Seq(Chunks) /\ Len(p) = Len(h) + 1
  /\ \A i \in 1..Len(p) : p[i] = IF i < j + 1 THEN h[i] ELSE IF i = j + 1 THEN c ELSE h[i - 1]

\* A new chunk is put in its place, and the chunk it continues is linked to it.
LEMMA PutOK ==
  ASSUME NEW par, IsTree(par), NEW q, IsCopy(q, par),
         NEW c, NEW ref, NEW par2, Grows(par, c, ref, par2),
         NEW j, IsPlace(q, par, c, ref, j),
         NEW h, LinkedTo(q, c, ref, h), NEW p, PutBehind(h, j, c, p)
  PROVE  /\ IsCopy(p, par2) /\ IsTree(par2)
         /\ \A gone : Marked(q, gone) /\ (\A e \in Stamp : ContainsId(c, e) => e \notin gone)
                        => Marked(p, gone)
<1>0. /\ c \in Chunks /\ c.s = 0 /\ c.del = FALSE
      /\ ref \in DOMAIN par \cup {Root} /\ ref.time < c.time
      /\ \A e \in Stamp : ContainsId(c, e) => e \notin DOMAIN par
      /\ DOMAIN par2 = DOMAIN par \cup {e \in Stamp : ContainsId(c, e)}
      /\ \A e \in DOMAIN par : par2[e] = par[e]
      /\ par2[Id(c)] = ref
      /\ \A e \in Stamp : ContainsId(c, e) /\ ContainsId(c, NextOf(e)) => par2[NextOf(e)] = e
      /\ j \in 0..Len(q)
      /\ ref # Root => FindById(q, ref) <= j
      /\ j < Len(q) => Before(Id(q[j + 1]), Id(c))
      /\ \A x \in DOMAIN par :
           FindById(q, x) <= j /\ (ref = Root \/ Precedes(q, ref, x)) => Before(Id(c), x)
      /\ h \in Seq(Chunks) /\ Len(h) = Len(q)
      /\ \A i \in 1..Len(q) :
           /\ h[i].sid = q[i].sid /\ h[i].time = q[i].time /\ h[i].span = q[i].span
           /\ h[i].del = q[i].del
           /\ h[i].s = IF EndOf(q[i]) = ref /\ NextOf(ref) = Id(c) THEN c.time ELSE q[i].s
      /\ p \in Seq(Chunks) /\ Len(p) = Len(q) + 1
      /\ \A i \in 1..Len(p) : p[i] = IF i < j + 1 THEN h[i] ELSE IF i = j + 1 THEN c ELSE h[i - 1]
  <2>1. h \in Seq(Chunks) /\ Len(h) = Len(q)
    BY DEF LinkedTo
  <2> QED
    BY <2>1 DEF Grows, IsPlace, LinkedTo, PutBehind
<1> USE <1>0
<1>1. DOMAIN par \subseteq Stamp /\ Tiles(q, DOMAIN par) /\ DOMAIN par2 \subseteq Stamp
  BY DEF IsTree, IsCopy
<1>2. Len(q) \in Nat /\ j \in Nat /\ j <= Len(q)
  BY <1>1, TilesFacts
<1>3. /\ c.sid \in Sid /\ c.time \in Nat /\ Id(c) \in Stamp /\ ContainsId(c, Id(c))
      /\ Id(c).sid = c.sid /\ Id(c).time = c.time
      /\ EndOf(c) \in Stamp /\ ContainsId(c, EndOf(c)) /\ ~ContainsId(c, NextOf(EndOf(c)))
      /\ \A e \in Stamp : ContainsId(c, e) <=> e.sid = c.sid /\ c.time <= e.time /\ e.time <= EndTime(c)
      /\ EndTime(c) \in Nat
  BY ChunkFacts
<1>4. ASSUME NEW i \in 1..Len(q)
      PROVE  /\ EndTime(h[i]) = EndTime(q[i]) /\ EndOf(h[i]) = EndOf(q[i])
             /\ \A e : ContainsId(h[i], e) <=> ContainsId(q[i], e)
  BY DEF EndTime, EndOf, ContainsId
<1>5. ASSUME NEW m \in 1..Len(p), m # j + 1
      PROVE  \E i \in 1..Len(q) : i = (IF m <= j THEN m ELSE m - 1) /\ p[m] = h[i]
  BY <1>2, <1>5
<1>6. j + 1 \in 1..Len(p) /\ p[j + 1] = c
  BY <1>2
<1>7. PICK at : at = [e \in DOMAIN par2 |-> IF e \notin DOMAIN par THEN j + 1
                                            ELSE IF FindById(q, e) <= j THEN FindById(q, e)
                                            ELSE FindById(q, e) + 1]
  OBVIOUS
<1>8. \A e \in DOMAIN par : FindById(q, e) \in 1..Len(q)
  BY <1>1, TilesFacts
<1>9. Tiles(p, DOMAIN par2) /\ \A e \in DOMAIN par2 : FindById(p, e) = at[e]
  <2>1. at \in [DOMAIN par2 -> 1..Len(p)]
    <3>1. ASSUME NEW e \in DOMAIN par2 PROVE at[e] \in 1..Len(p)
      BY <1>2, <1>6, <1>7, <1>8
    <3> QED
      BY <1>7, <3>1
  <2>2. ASSUME NEW e \in Stamp, NEW m \in 1..Len(p)
        PROVE  ContainsId(p[m], e) <=> e \in DOMAIN par2 /\ at[e] = m
    <3>1. CASE m = j + 1
      <4>1. ContainsId(p[m], e) <=> e \in DOMAIN par2 /\ e \notin DOMAIN par
        BY <1>6, <3>1
      <4>2. e \in DOMAIN par2 => (at[e] = m <=> e \notin DOMAIN par)
        BY <1>2, <1>7, <1>8, <3>1
      <4> QED
        BY <4>1, <4>2
    <3>2. CASE m # j + 1
      <4>1. PICK i \in 1..Len(q) : i = (IF m <= j THEN m ELSE m - 1) /\ p[m] = h[i]
        BY <1>5, <3>2
      <4>2. ContainsId(p[m], e) <=> e \in DOMAIN par /\ FindById(q, e) = i
        <5>1. ContainsId(p[m], e) <=> ContainsId(q[i], e)
          BY <1>4, <4>1
        <5>2. ContainsId(q[i], e) <=> e \in DOMAIN par /\ FindById(q, e) = i
          BY ONLY <1>1, i \in 1..Len(q), e \in Stamp, TilesFacts
        <5> QED
          BY <5>1, <5>2
      <4>3. e \in DOMAIN par2 => (at[e] = m <=> e \in DOMAIN par /\ FindById(q, e) = i)
        BY <1>2, <1>7, <1>8, <3>2, <4>1
      <4> QED
        BY <4>2, <4>3
    <3> QED
      BY <3>1, <3>2
  <2> QED
    BY ONLY <1>1, <2>1, <2>2, p \in Seq(Chunks), TilesBy
\* The order of the elements: old ones as before, new ones behind the j-th chunk.
<1>10. ASSUME NEW x \in DOMAIN par, NEW y \in DOMAIN par
       PROVE  Precedes(p, x, y) <=> Precedes(q, x, y)
  <2>1. x \in DOMAIN par2 /\ y \in DOMAIN par2
    OBVIOUS
  <2>2. FindById(p, x) = (IF FindById(q, x) <= j THEN FindById(q, x) ELSE FindById(q, x) + 1)
    BY <1>7, <1>9, <2>1
  <2>3. FindById(p, y) = (IF FindById(q, y) <= j THEN FindById(q, y) ELSE FindById(q, y) + 1)
    BY <1>7, <1>9, <2>1
  <2> QED
    BY <1>2, <1>8, <2>2, <2>3 DEF Precedes
<1>11. ASSUME NEW x \in DOMAIN par, NEW e \in Stamp, ContainsId(c, e)
       PROVE  /\ Precedes(p, x, e) <=> FindById(q, x) <= j
              /\ Precedes(p, e, x) <=> j + 1 <= FindById(q, x)
  <2>1. x \in DOMAIN par2 /\ e \in DOMAIN par2 /\ e \notin DOMAIN par
    BY <1>11
  <2>2. FindById(p, x) = (IF FindById(q, x) <= j THEN FindById(q, x) ELSE FindById(q, x) + 1)
    BY <1>7, <1>9, <2>1
  <2>3. FindById(p, e) = j + 1
    BY <1>7, <1>9, <2>1
  <2> QED
    BY <1>2, <1>8, <2>2, <2>3 DEF Precedes
<1>12. ASSUME NEW x \in Stamp, NEW e \in Stamp, ContainsId(c, x), ContainsId(c, e)
       PROVE  Precedes(p, x, e) <=> x.time < e.time
  <2>1. FindById(p, x) = j + 1 /\ FindById(p, e) = j + 1
    BY <1>7, <1>9, <1>12
  <2> QED
    BY <1>2, <2>1 DEF Precedes
\* An element of c comes right after the one before it.
<1>13. ASSUME NEW e \in Stamp, ContainsId(c, e), e # Id(c)
       PROVE  \E d \in Stamp : ContainsId(c, d) /\ NextOf(d) = e /\ d.time + 1 = e.time
  <2>1. e.sid = c.sid /\ e.time \in Nat /\ c.time <= e.time
    BY <1>3, <1>13, StampFacts
  <2>2. e.time # c.time
    BY <1>3, <1>13, <2>1, SameStamp
  <2>3. PICK d : d = [sid |-> e.sid, time |-> e.time - 1]
    OBVIOUS
  <2>4. d \in Stamp /\ d.sid = e.sid /\ d.time = e.time - 1
    BY <1>3, <2>1, <2>2, <2>3 DEF Stamp
  <2>5. ContainsId(c, d)
    <3>1. d.sid = c.sid /\ c.time <= d.time /\ d.time <= EndTime(c)
      BY <1>3, <1>13, <2>1, <2>2, <2>4
    <3> QED
      BY <1>3, <2>4, <3>1
  <2>6. NextOf(d) = e
    BY <2>1, <2>4, NextFacts, SameStamp, SMTT(30)
  <2>7. d.time + 1 = e.time
    BY ONLY <2>1, <2>4
  <2> QED
    BY ONLY <2>4, <2>5, <2>6, <2>7
<1>14. InOrder(p, par2)
  <2>1. ASSUME NEW e \in DOMAIN par
        PROVE  /\ par2[e] # Root => Precedes(p, par2[e], e)
               /\ \A x \in DOMAIN par2 :
                    Precedes(p, x, e) /\ (par2[e] = Root \/ Precedes(p, par2[e], x)) => Before(e, x)
    <3>1. PICK u : u = par[e]
      OBVIOUS
    <3>2. par2[e] = u /\ (u # Root => u \in DOMAIN par)
      BY <3>1 DEF IsTree
    <3>3. u # Root => Precedes(q, u, e)
      BY <3>1 DEF IsCopy, InOrder
    <3>4. \A x \in DOMAIN par : Precedes(q, x, e) /\ (u = Root \/ Precedes(q, u, x)) => Before(e, x)
      BY <3>1 DEF IsCopy, InOrder
    <3>5. ASSUME NEW x \in DOMAIN par, Precedes(p, x, e), u = Root \/ Precedes(p, u, x) PROVE Before(e, x)
      BY <1>10, <3>2, <3>4, <3>5
    <3>6. ASSUME NEW x \in Stamp, ContainsId(c, x), Precedes(p, x, e), u = Root \/ Precedes(p, u, x)
          PROVE  Before(e, x)
      <4>1. j + 1 <= FindById(q, e) /\ (u # Root => FindById(q, u) <= j)
        BY <1>11, <3>2, <3>6
      <4>2. (j + 1) \in 1..Len(q) /\ j < Len(q)
        BY <1>2, <1>8, <4>1
      <4>3. PICK y : y = Id(q[j + 1])
        OBVIOUS
      <4>4. y \in DOMAIN par /\ FindById(q, y) = j + 1 /\ q[j + 1] \in Chunks /\ y.time = q[j + 1].time
        <5>1. y \in DOMAIN par /\ FindById(q, y) = j + 1 /\ q[j + 1] \in Chunks
          BY <1>1, <4>2, <4>3, TilesFacts
        <5> QED
          BY <4>3, <5>1, ChunkFacts
      <4>5. Before(y, Id(c))
        BY <4>2, <4>3
      <4>6. y = e \/ Precedes(q, y, e)
        <5>1. CASE FindById(q, e) = j + 1
          <6>1. ~Precedes(q, e, y)
            <7>1. ContainsId(q[j + 1], e)
              BY <1>1, <4>2, <5>1, TilesFacts
            <7>2. y.time <= e.time
              BY <1>1, <4>4, <7>1, ChunkFacts
            <7> QED
              BY <1>1, <4>4, <5>1, <7>2, StampFacts DEF Precedes
          <6> QED
            BY <1>1, <4>4, <6>1, PrecedesFacts
        <5>2. CASE FindById(q, e) # j + 1
          BY <1>2, <1>8, <4>1, <4>4, <5>2 DEF Precedes
        <5> QED
          BY <5>1, <5>2
      <4>7. u = Root \/ Precedes(q, u, y)
        BY <1>2, <1>8, <3>2, <4>1, <4>4 DEF Precedes
      <4>8. y = e \/ Before(e, y)
        BY <3>4, <4>4, <4>6, <4>7
      <4>9. e \in Stamp /\ y \in Stamp
        BY <1>1, <4>4
      <4>10. Before(e, Id(c))
        BY <1>3, <4>5, <4>8, <4>9, BeforeFacts
      <4>11. x.sid = c.sid /\ c.time <= x.time /\ x.time \in Nat
        BY <3>6, ChunkFacts, StampFacts
      <4>12. e.time \in Nat
        BY <4>9, StampFacts
      <4> QED
        BY <1>3, <4>10, <4>11, <4>12 DEF Before
    <3> QED
      BY <1>10, <3>2, <3>3, <3>5, <3>6
  <2>2. ASSUME NEW e \in Stamp, ContainsId(c, e)
        PROVE  /\ par2[e] # Root => Precedes(p, par2[e], e)
               /\ \A x \in DOMAIN par2 :
                    Precedes(p, x, e) /\ (par2[e] = Root \/ Precedes(p, par2[e], x)) => Before(e, x)
    <3>1. CASE e = Id(c)
      <4>1. ref # Root => ref \in DOMAIN par /\ Precedes(p, ref, e)
        BY <1>11, <2>2
      <4>2. ASSUME NEW x \in DOMAIN par, Precedes(p, x, e), ref = Root \/ Precedes(p, ref, x)
            PROVE  Before(e, x)
        <5>1. FindById(q, x) <= j
          BY <1>11, <2>2, <4>2
        <5>2. ref = Root \/ Precedes(q, ref, x)
          BY <1>10, <4>1, <4>2
        <5> QED
          BY <3>1, <5>1, <5>2
      <4>3. ASSUME NEW x \in Stamp, ContainsId(c, x), Precedes(p, x, e) PROVE FALSE
        <5>1. x.time < e.time
          BY <1>12, <2>2, <4>3
        <5>2. c.time <= x.time /\ e.time = c.time /\ x.time \in Nat /\ c.time \in Nat
          BY <1>3, <3>1, <4>3, ChunkFacts, StampFacts
        <5> QED
          BY <5>1, <5>2
      <4> QED
        BY <3>1, <4>1, <4>2, <4>3
    <3>2. CASE e # Id(c)
      <4>1. PICK d \in Stamp : ContainsId(c, d) /\ NextOf(d) = e /\ d.time + 1 = e.time
        BY <1>13, <2>2, <3>2
      <4>2. par2[e] = d /\ d # Root /\ d.time \in Nat /\ e.time \in Nat
        BY <2>2, <4>1, StampFacts
      <4>3. Precedes(p, d, e)
        BY <1>12, <2>2, <4>1, <4>2
      <4>4. ASSUME NEW x \in DOMAIN par, Precedes(p, x, e), Precedes(p, d, x) PROVE FALSE
        <5>1. FindById(q, x) <= j /\ j + 1 <= FindById(q, x)
          BY <1>11, <2>2, <4>1, <4>4
        <5> QED
          BY <1>2, <1>8, <5>1
      <4>5. ASSUME NEW x \in Stamp, ContainsId(c, x), Precedes(p, x, e), Precedes(p, d, x) PROVE FALSE
        <5>1. x.time < e.time /\ d.time < x.time /\ x.time \in Nat
          BY <1>12, <2>2, <4>1, <4>5, StampFacts
        <5> QED
          BY <4>1, <4>2, <5>1
      <4> QED
        BY <4>2, <4>3, <4>4, <4>5
    <3> QED
      BY <3>1, <3>2
  <2> QED
    BY <2>1, <2>2 DEF InOrder
<1>15. Runs(p, par2)
  <2> SUFFICES ASSUME NEW m \in 1..Len(p), NEW e \in Stamp, ContainsId(p[m], e), ContainsId(p[m], NextOf(e))
               PROVE  par2[NextOf(e)] = e
    BY DEF Runs
  <2>1. CASE m = j + 1
    BY <1>6, <2>1
  <2>2. CASE m # j + 1
    <3>1. PICK i \in 1..Len(q) : p[m] = h[i]
      BY <1>5, <2>2
    <3>2. ContainsId(q[i], e) /\ ContainsId(q[i], NextOf(e))
      BY <1>4, <3>1
    <3>3. par[NextOf(e)] = e /\ NextOf(e) \in DOMAIN par
      BY <1>1, <3>2, NextFacts, TilesFacts DEF IsCopy, Runs
    <3> QED
      BY <3>3
  <2> QED
    BY <2>1, <2>2
<1>16. Linked(p, par2)
  <2> SUFFICES ASSUME NEW m \in 1..Len(p)
               PROVE  p[m].s = IF Continued(par2, EndOf(p[m])) THEN EndTime(p[m]) + 1 ELSE 0
    BY DEF Linked
  <2>1. CASE m = j + 1
    <3>1. PICK z : z = EndOf(c)
      OBVIOUS
    <3>2. z \in Stamp /\ ContainsId(c, z) /\ ~ContainsId(c, NextOf(z)) /\ z \notin DOMAIN par /\ z # Root
      BY <1>3, <3>1, StampFacts
    <3>3. ~Continued(par2, z)
      BY <3>2 DEF Continued, IsTree
    <3> QED
      BY <1>6, <2>1, <3>1, <3>3
  <2>2. CASE m # j + 1
    <3>1. PICK i \in 1..Len(q) : p[m] = h[i]
      BY <1>5, <2>2
    <3>2. PICK z : z = EndOf(q[i])
      OBVIOUS
    <3>3. z \in DOMAIN par /\ z \in Stamp /\ EndOf(p[m]) = z /\ EndTime(p[m]) = EndTime(q[i])
      BY <1>1, <1>4, <3>1, <3>2, TilesFacts
    <3>4. p[m].s = IF z = ref /\ NextOf(ref) = Id(c) THEN c.time ELSE q[i].s
      BY <3>1, <3>2
    <3>5. q[i].s = IF Continued(par, z) THEN EndTime(q[i]) + 1 ELSE 0
      BY <3>2 DEF IsCopy, Linked
    <3>6. NextOf(z) \in Stamp /\ NextOf(z).sid = z.sid /\ NextOf(z).time = EndTime(q[i]) + 1
      <4>1. q[i] \in Chunks
        BY <1>1, TilesFacts
      <4>2. z.time = EndTime(q[i])
        BY <3>2, <4>1, ChunkFacts
      <4> QED
        BY <3>3, <4>2, NextFacts
    <3>7. CASE NextOf(z) \in DOMAIN par
      <4>1. NextOf(z) # Id(c)
        BY <1>3, <3>7
      <4>2. Continued(par2, z) <=> Continued(par, z)
        BY <3>7 DEF Continued
      <4> QED
        BY <3>3, <3>4, <3>5, <4>1, <4>2
    <3>8. CASE NextOf(z) = Id(c)
      <4>1. Id(c) \in DOMAIN par2 /\ Id(c) \notin DOMAIN par
        BY <1>3
      <4>2. Continued(par2, z) <=> ref = z
        BY <3>8, <4>1 DEF Continued
      <4>3. ~Continued(par, z)
        BY <3>8, <4>1 DEF Continued
      <4>4. EndTime(q[i]) + 1 = c.time
        BY <1>3, <3>6, <3>8
      <4> QED
        BY <3>3, <3>4, <3>5, <3>8, <4>2, <4>3, <4>4
    <3>9. CASE NextOf(z) \notin DOMAIN par /\ NextOf(z) # Id(c)
      <4>1. ~ContainsId(c, NextOf(z))
        <5> SUFFICES ASSUME ContainsId(c, NextOf(z)) PROVE FALSE
          OBVIOUS
        <5>1. PICK d \in Stamp : ContainsId(c, d) /\ NextOf(d) = NextOf(z) /\ d.time + 1 = NextOf(z).time
          BY <1>13, <3>6, <3>9
        <5>2. d.sid = z.sid /\ d.time = z.time
          BY <3>3, <5>1, NextFacts, StampFacts
        <5>3. d = z
          BY <3>3, <5>2, SameStamp
        <5> QED
          BY <3>3, <5>1, <5>3
      <4>2. ~Continued(par2, z) /\ ~Continued(par, z)
        BY <3>9, <4>1 DEF Continued
      <4> QED
        BY <3>3, <3>4, <3>5, <3>9, <4>2
    <3> QED
      BY <3>7, <3>8, <3>9
  <2> QED
    BY <2>1, <2>2
<1>17. IsTree(par2)
  <2> SUFFICES ASSUME NEW e \in DOMAIN par2
               PROVE  par2[e] \in DOMAIN par2 \cup {Root} /\ par2[e].time < e.time
    BY <1>1 DEF IsTree
  <2>1. CASE e \in DOMAIN par
    BY <2>1 DEF IsTree
  <2>2. CASE e \notin DOMAIN par
    <3>1. ContainsId(c, e) /\ e \in Stamp
      BY <2>2
    <3>2. CASE e = Id(c)
      BY <1>3, <3>2
    <3>3. CASE e # Id(c)
      <4>1. PICK d \in Stamp : ContainsId(c, d) /\ NextOf(d) = e /\ d.time + 1 = e.time
        BY <1>13, <3>1, <3>3
      <4>2. par2[e] = d /\ d \in DOMAIN par2 /\ d.time \in Nat
        BY <3>1, <4>1, StampFacts
      <4> QED
        BY <4>1, <4>2
    <3> QED
      BY <3>2, <3>3
  <2> QED
    BY <2>1, <2>2
<1>18. ASSUME NEW gone, Marked(q, gone), \A e \in Stamp : ContainsId(c, e) => e \notin gone
       PROVE  Marked(p, gone)
  <2> SUFFICES ASSUME NEW m \in 1..Len(p), NEW e \in Stamp, ContainsId(p[m], e)
               PROVE  p[m].del <=> e \in gone
    BY DEF Marked
  <2>1. CASE m = j + 1
    BY <1>6, <1>18, <2>1
  <2>2. CASE m # j + 1
    <3>1. PICK i \in 1..Len(q) : p[m] = h[i]
      BY <1>5, <2>2
    <3>2. ContainsId(q[i], e) /\ p[m].del = q[i].del
      BY <1>4, <3>1
    <3> QED
      BY <1>18, <3>2 DEF Marked
  <2> QED
    BY <2>1, <2>2
<1> QED
  BY <1>9, <1>14, <1>15, <1>16, <1>17, <1>18 DEF IsCopy

-----------------------------------------------------------------------------
(* Insertions.                                                             *)

LEMMA MaxOK ==
  ASSUME NEW n \in Nat, NEW S \in SUBSET (0..n), S # {}
  PROVE  Max(S) \in S /\ \A k \in S : k <= Max(S)
<1>1. PICK T : T = {n - k : k \in S}
  OBVIOUS
<1>2. T \in SUBSET Nat /\ T # {}
  <2>1. \A k \in S : n - k \in Nat
    OBVIOUS
  <2> QED
    BY <1>1, <2>1
<1>3. PICK t \in T : \A u \in T : t <= u
  BY <1>2, Least
<1>4. PICK m \in S : t = n - m
  BY <1>1, <1>3
<1>5. ASSUME NEW k \in S PROVE m >= k
  <2>1. n - k \in T /\ k \in Nat /\ m \in Nat
    BY <1>1
  <2> QED
    BY <1>3, <1>4, <2>1
<1>6. Max(S) \in S /\ \A k \in S : Max(S) >= k
  BY <1>5 DEF Max
<1>7. \A k \in S : k \in Nat
  OBVIOUS
<1> QED
  BY <1>6, <1>7

\* The chunk at k ends in ref, and c starts right after it.
ContinuedBy(q, c, ref, k) ==
  q[k].sid = c.sid /\ EndTime(q[k]) + 1 = c.time /\ EndTime(q[k]) = ref.time

LinkedIn(q, c, ref, U) ==
  [k \in DOMAIN q |-> IF k \in U /\ ContinuedBy(q, c, ref, k) THEN [q[k] EXCEPT !.s = c.time] ELSE q[k]]

\* The walk of insertAfterRef() ends behind the j-th chunk; U are those without a link.
Walked(q, c, i, j, U) ==
  /\ j \in i..Len(q)
  /\ U = {k \in i..j : q[k].s = 0}
  /\ \A k \in (i + 1)..j : Before(c, q[k])
  /\ j < Len(q) => ~Before(c, q[j + 1])

\* What it then does
IsOutcome(q, c, ref, j, U, p) ==
  p = LET h == LinkedIn(q, c, ref, U)
      IN  IF j < Len(q) /\ Id(q[j + 1]) = Id(c) THEN h
          ELSE IF (U # {} /\ ContinuedBy(q, c, ref, Max(U))) /\ ~q[j].del
               THEN [h EXCEPT ![j].span = @ + c.span, ![j].s = 0]
               ELSE InsertAt(h, j + 1, c)

LEMMA WalkOK ==
  ASSUME NEW q \in Seq(Chunks), NEW c, NEW ref, NEW i \in 1..Len(q),
         NEW p, p = InsertAfterRef(q, c, ref, i)
  PROVE  \E j, U : Walked(q, c, i, j, U) /\ IsOutcome(q, c, ref, j, U, p)
<1>1. PICK J : J = {k \in i..Len(q) : k = Len(q) \/ ~Before(c, q[k + 1])}
  OBVIOUS
<1>2. PICK j : j = Min(J)
  OBVIOUS
<1>3. PICK U : U = {k \in i..j : q[k].s = 0}
  OBVIOUS
<1>4. Len(q) \in Nat /\ Len(q) \in J /\ J \in SUBSET Nat
  BY <1>1
<1>5. j \in J /\ \A k \in J : j <= k
  BY <1>2, <1>4, MinOK
<1>6. ASSUME NEW k \in (i + 1)..j PROVE Before(c, q[k])
  <2>1. k - 1 \in i..Len(q) /\ (k - 1) + 1 = k /\ k - 1 # Len(q) /\ ~(j <= k - 1)
    BY <1>1, <1>4, <1>5
  <2>2. k - 1 \notin J
    BY <1>5, <2>1
  <2> QED
    BY <1>1, <2>1, <2>2
<1>7. Walked(q, c, i, j, U)
  BY <1>1, <1>3, <1>4, <1>5, <1>6 DEF Walked
<1>8. IsOutcome(q, c, ref, j, U, p)
  BY <1>1, <1>2, <1>3 DEF InsertAfterRef, LinkedIn, ContinuedBy, IsOutcome
<1> QED
  BY <1>7, <1>8

\* A chunk put into the sequence stands behind the j-th.
LEMMA PutBehindOK ==
  ASSUME NEW h \in Seq(Chunks), NEW c \in Chunks, NEW j \in 0..Len(h), NEW p, p = InsertAt(h, j + 1, c)
  PROVE  PutBehind(h, j, c, p)
<1>1. PICK m : m = j + 1
  OBVIOUS
<1>2. m \in 1..(Len(h) + 1) /\ p = InsertAt(h, m, c)
  BY <1>1
<1>3. /\ p \in Seq(Chunks) /\ Len(p) = Len(h) + 1
      /\ \A i \in 1..Len(p) : p[i] = IF i < m THEN h[i] ELSE IF i = m THEN c ELSE h[i - 1]
  BY ONLY <1>2, h \in Seq(Chunks), c \in Chunks, InsertAtOK, SMTT(30)
<1> QED
  BY <1>1, <1>3 DEF PutBehind

\* Where insertAfterRef() starts: at the chunk of ref, or with the first one; what comes
\* after ref in that chunk is later than c.
StartsAt(q, par, c, ref, i) ==
  /\ i \in 1..Len(q)
  /\ IF ref = Root THEN i = 1 ELSE i = FindById(q, ref)
  /\ \A x \in DOMAIN par :
       FindById(q, x) = i /\ (ref = Root \/ ref.time < x.time) => Before(Id(c), x)

\* A new chunk goes behind all that is later, or is appended to the one it continues.
LEMMA InsertAfterRefNew ==
  ASSUME NEW par, IsTree(par), NEW q, IsCopy(q, par),
         NEW c, NEW ref, NEW par2, Grows(par, c, ref, par2),
         NEW i, StartsAt(q, par, c, ref, i), NEW p, p = InsertAfterRef(q, c, ref, i)
  PROVE  /\ IsCopy(p, par2) /\ IsTree(par2)
         /\ \A gone : Marked(q, gone) /\ (\A e \in Stamp : ContainsId(c, e) => e \notin gone)
                        => Marked(p, gone)
<1>1. /\ DOMAIN par \subseteq Stamp /\ Tiles(q, DOMAIN par)
      /\ c \in Chunks /\ c.s = 0 /\ c.del = FALSE
      /\ ref \in DOMAIN par \cup {Root} /\ ref.time < c.time
      /\ \A e \in Stamp : ContainsId(c, e) => e \notin DOMAIN par
      /\ i \in 1..Len(q) /\ (IF ref = Root THEN i = 1 ELSE i = FindById(q, ref))
      /\ \A x \in DOMAIN par :
           FindById(q, x) = i /\ (ref = Root \/ ref.time < x.time) => Before(Id(c), x)
  BY DEF IsTree, IsCopy, Grows, StartsAt
<1>2. /\ q \in Seq(Chunks) /\ Len(q) \in Nat
      /\ \A k \in 1..Len(q) : /\ q[k] \in Chunks /\ Id(q[k]) \in DOMAIN par /\ EndOf(q[k]) \in DOMAIN par
                              /\ FindById(q, Id(q[k])) = k /\ FindById(q, EndOf(q[k])) = k
      /\ \A e \in DOMAIN par : FindById(q, e) \in 1..Len(q) /\ ContainsId(q[FindById(q, e)], e)
  BY <1>1, TilesFacts
<1>3. \A k \in 1..Len(q) : /\ q[k].sid \in Nat /\ q[k].time \in Nat /\ EndTime(q[k]) \in Nat
                           /\ q[k].time <= EndTime(q[k])
                           /\ Id(q[k]).sid = q[k].sid /\ Id(q[k]).time = q[k].time
                           /\ EndOf(q[k]).sid = q[k].sid /\ EndOf(q[k]).time = EndTime(q[k])
  BY <1>2, ChunkFacts
<1>4. /\ c.sid \in Nat /\ c.time \in Nat /\ Id(c) \in Stamp /\ Id(c) \notin DOMAIN par
      /\ Id(c).sid = c.sid /\ Id(c).time = c.time
  BY <1>1, ChunkFacts
<1>5. PICK j, U : Walked(q, c, i, j, U) /\ IsOutcome(q, c, ref, j, U, p)
  <2>1. q \in Seq(Chunks) /\ i \in 1..Len(q) /\ p = InsertAfterRef(q, c, ref, i)
    BY <1>1, <1>2
  <2> QED
    BY ONLY <2>1, WalkOK
<1>6. /\ j \in i..Len(q) /\ j \in 1..Len(q) /\ i \in Nat /\ j \in Nat
      /\ U = {k \in i..j : q[k].s = 0}
      /\ \A k \in (i + 1)..j : Before(c, q[k])
      /\ j < Len(q) => ~Before(c, q[j + 1])
  BY <1>1, <1>2, <1>5 DEF Walked
<1>7. ASSUME NEW k \in (i + 1)..j PROVE k \in 1..Len(q) /\ c.time <= q[k].time /\ ~ContinuedBy(q, c, ref, k)
  <2>1. k \in 1..Len(q) /\ Before(c, q[k])
    BY <1>1, <1>2, <1>6
  <2> QED
    BY <1>3, <1>4, <2>1 DEF Before, ContinuedBy
<1>8. ContinuedBy(q, c, ref, i) => ref # Root /\ EndOf(q[i]) = ref /\ NextOf(ref) = Id(c) /\ q[i].s = 0
  <2> SUFFICES ASSUME ContinuedBy(q, c, ref, i)
               PROVE  ref # Root /\ EndOf(q[i]) = ref /\ NextOf(ref) = Id(c) /\ q[i].s = 0
    OBVIOUS
  <2>1. q[i].sid = c.sid /\ EndTime(q[i]) + 1 = c.time /\ EndTime(q[i]) = ref.time
    BY DEF ContinuedBy
  <2>2. ref # Root
    <3> SUFFICES ASSUME ref = Root PROVE FALSE
      OBVIOUS
    <3>1. Before(Id(c), Id(q[i]))
      BY <1>1, <1>2
    <3> QED
      BY <1>1, <1>3, <1>4, <2>1, <3>1 DEF Before
  <2>3. ref \in DOMAIN par /\ ref \in Stamp /\ ContainsId(q[i], ref)
    BY <1>1, <1>2, <2>2
  <2>4. EndOf(q[i]) = ref
    <3>1. ref.sid = q[i].sid
      BY <2>3 DEF ContainsId
    <3> QED
      BY <1>1, <1>2, <1>3, <2>1, <2>3, <3>1, SameStamp
  <2>5. NextOf(ref) = Id(c)
    <3>1. NextOf(ref) \in Stamp /\ NextOf(ref).sid = ref.sid /\ NextOf(ref).time = ref.time + 1
      BY <2>3, NextFacts
    <3>2. NextOf(ref).sid = c.sid /\ NextOf(ref).time = c.time
      BY <1>1, <1>3, <2>1, <2>4, <3>1
    <3> QED
      BY <1>4, <3>1, <3>2, SameStamp
  <2>6. q[i].s = 0
    <3>1. ~Continued(par, EndOf(q[i]))
      BY <1>4, <2>4, <2>5 DEF Continued
    <3> QED
      BY <1>1, <3>1 DEF IsCopy, Linked
  <2> QED
    BY <2>2, <2>4, <2>5, <2>6
<1>9. ASSUME NEW k \in 1..Len(q)
      PROVE  (k \in U /\ ContinuedBy(q, c, ref, k)) <=> (EndOf(q[k]) = ref /\ NextOf(ref) = Id(c))
  <2>1. ASSUME k \in U, ContinuedBy(q, c, ref, k) PROVE EndOf(q[k]) = ref /\ NextOf(ref) = Id(c)
    <3>1. k = i
      BY <1>6, <1>7, <2>1
    <3> QED
      BY <1>8, <2>1, <3>1
  <2>2. ASSUME EndOf(q[k]) = ref, NextOf(ref) = Id(c) PROVE k \in U /\ ContinuedBy(q, c, ref, k)
    <3>1. ref \in DOMAIN par /\ ref \in Stamp /\ ref # Root /\ FindById(q, ref) = k
      BY <1>1, <1>2, <2>2, StampFacts
    <3>2. k = i
      BY <1>1, <3>1
    <3>3. ContinuedBy(q, c, ref, k)
      <4>1. NextOf(ref).sid = ref.sid /\ NextOf(ref).time = ref.time + 1
        BY <3>1, NextFacts
      <4> QED
        BY <1>3, <1>4, <2>2, <4>1 DEF ContinuedBy
    <3>4. q[i].s = 0
      BY <1>8, <3>2, <3>3
    <3> QED
      BY <1>6, <3>2, <3>3, <3>4
  <2> QED
    BY <2>1, <2>2
<1>10. PICK h : h = LinkedIn(q, c, ref, U)
  OBVIOUS
<1>11. LinkedTo(q, c, ref, h)
  <2>1. ASSUME NEW k \in 1..Len(q)
        PROVE  /\ h[k] \in Chunks /\ h[k].sid = q[k].sid /\ h[k].time = q[k].time
               /\ h[k].span = q[k].span /\ h[k].del = q[k].del
               /\ h[k].s = IF EndOf(q[k]) = ref /\ NextOf(ref) = Id(c) THEN c.time ELSE q[k].s
    <3>1. PICK a : a = q[k]
      OBVIOUS
    <3>2. /\ a \in Chunks /\ a.sid \in Sid /\ a.time \in Nat /\ a.span \in Nat \ {0} /\ a.del \in BOOLEAN
          /\ a = [sid |-> a.sid, time |-> a.time, span |-> a.span, del |-> a.del, s |-> a.s]
      BY <1>2, <3>1, ChunkFacts
    <3>3. PICK b : b = [a EXCEPT !.s = c.time]
      OBVIOUS
    <3>4. b = [sid |-> a.sid, time |-> a.time, span |-> a.span, del |-> a.del, s |-> c.time]
      BY <3>2, <3>3
    <3>5. /\ b \in Chunks /\ b.sid = a.sid /\ b.time = a.time
          /\ b.span = a.span /\ b.del = a.del /\ b.s = c.time
      BY <1>4, <3>2, <3>4 DEF Chunks
    <3>6. h[k] = IF EndOf(q[k]) = ref /\ NextOf(ref) = Id(c) THEN b ELSE a
      <4>1. k \in DOMAIN q
        BY <1>2
      <4> QED
        BY <1>9, <1>10, <3>1, <3>3, <4>1 DEF LinkedIn
    <3> QED
      BY <3>1, <3>2, <3>5, <3>6
  <2>2. h \in Seq(Chunks) /\ Len(h) = Len(q)
    <3>1. h = [k \in 1..Len(q) |-> h[k]]
      BY <1>2, <1>10 DEF LinkedIn
    <3>2. h \in [1..Len(q) -> Chunks]
      BY <2>1, <3>1
    <3> QED
      BY <1>2, <3>2
  <2> QED
    BY <2>1, <2>2 DEF LinkedTo
<1>12. IsPlace(q, par, c, ref, j)
  <2>1. ref # Root => FindById(q, ref) <= j
    BY <1>1, <1>6
  <2>2. j < Len(q) => Before(Id(q[j + 1]), Id(c))
    <3> SUFFICES ASSUME j < Len(q) PROVE Before(Id(q[j + 1]), Id(c))
      OBVIOUS
    <3>1. (j + 1) \in 1..Len(q) /\ ~Before(c, q[j + 1])
      BY <1>6
    <3>2. ~Before(Id(c), Id(q[j + 1]))
      BY <1>3, <1>4, <3>1 DEF Before
    <3>3. Id(q[j + 1]) \in DOMAIN par
      BY <1>2, <3>1
    <3> QED
      BY <1>1, <1>4, <3>2, <3>3, BeforeFacts
  <2>3. ASSUME NEW x \in DOMAIN par, FindById(q, x) <= j, ref = Root \/ Precedes(q, ref, x)
        PROVE  Before(Id(c), x)
    <3>1. FindById(q, x) \in 1..Len(q) /\ ContainsId(q[FindById(q, x)], x) /\ x \in Stamp
      BY <1>1, <1>2
    <3>2. CASE FindById(q, x) = i
      <4>1. ref = Root \/ ref.time < x.time
        BY <1>1, <1>6, <2>3, <3>2 DEF Precedes
      <4> QED
        BY <1>1, <3>2, <4>1
    <3>3. CASE FindById(q, x) # i
      <4>1. PICK k \in (i + 1)..j : k = FindById(q, x)
        <5>1. i <= FindById(q, x)
          BY <1>1, <1>2, <1>6, <2>3, <3>1 DEF Precedes
        <5> QED
          BY <1>6, <2>3, <3>1, <3>3, <5>1
      <4>2. Before(c, q[k]) /\ k \in 1..Len(q) /\ ContainsId(q[k], x)
        BY <1>6, <3>1, <4>1
      <4>3. x.sid = q[k].sid /\ q[k].time <= x.time /\ x.time \in Nat
        BY <3>1, <4>2, StampFacts DEF ContainsId
      <4> QED
        BY <1>3, <1>4, <4>2, <4>3 DEF Before
    <3> QED
      BY <3>2, <3>3
  <2>4. j \in 0..Len(q)
    BY <1>6
  <2> QED
    BY <2>1, <2>2, <2>3, <2>4 DEF IsPlace
<1>13. ~(j < Len(q) /\ Id(q[j + 1]) = Id(c))
  <2>1. j < Len(q) => (j + 1) \in 1..Len(q)
    BY <1>6
  <2> QED
    BY <1>2, <1>4, <2>1
<1>14. h \in Seq(Chunks) /\ Len(h) = Len(q) /\ j \in 0..Len(h)
  BY <1>6, <1>11 DEF LinkedTo
<1>15. PICK w : w = InsertAt(h, j + 1, c)
  OBVIOUS
<1>16. PutBehind(h, j, c, w)
  BY <1>1, <1>14, <1>15, PutBehindOK
<1>17. /\ IsCopy(w, par2) /\ IsTree(par2)
       /\ \A gone : Marked(q, gone) /\ (\A e \in Stamp : ContainsId(c, e) => e \notin gone)
                      => Marked(w, gone)
  BY <1>11, <1>12, <1>16, PutOK
<1>18. CASE ~((U # {} /\ ContinuedBy(q, c, ref, Max(U))) /\ ~q[j].del)
  <2>1. p = w
    BY <1>5, <1>10, <1>13, <1>15, <1>18 DEF IsOutcome
  <2> QED
    BY <1>17, <2>1
<1>19. CASE (U # {} /\ ContinuedBy(q, c, ref, Max(U))) /\ ~q[j].del
  <2>1. Max(U) \in U /\ \A k \in U : k <= Max(U)
    <3>1. U \in SUBSET (0..j) /\ j \in Nat
      BY <1>6
    <3> QED
      BY <1>19, <3>1, MaxOK
  <2>2. Max(U) = i
    BY <1>6, <1>7, <1>19, <2>1
  <2>3. ref # Root /\ EndOf(q[i]) = ref /\ NextOf(ref) = Id(c)
    BY <1>8, <1>19, <2>2
  <2>4. j = i
    <3> SUFFICES ASSUME j # i PROVE FALSE
      OBVIOUS
    <3>1. j \in (i + 1)..j /\ j \notin U
      BY <1>6, <2>1, <2>2
    <3>2. q[j].s # 0 /\ c.time <= q[j].time
      BY <1>6, <1>7, <3>1
    <3>3. Continued(par, EndOf(q[j]))
      BY <1>6, <3>2 DEF IsCopy, Linked
    <3>4. PICK n : n = LinkIndex(q, j)
      OBVIOUS
    <3>5. n \in (j + 1)..Len(q) /\ Id(q[n]) = NextOf(EndOf(q[j]))
      BY <1>6, <3>3, <3>4, LinkOK
    <3>6. n \in 1..Len(q) /\ (j + 1) \in 1..Len(q) /\ j < Len(q)
      BY <1>2, <1>6, <3>5
    <3>7. PICK f : f = Id(q[n])
      OBVIOUS
    <3>8. PICK y : y = Id(q[j + 1])
      OBVIOUS
    <3>9. f \in DOMAIN par /\ FindById(q, f) = n /\ f \in Stamp /\ par[f] = EndOf(q[j])
      BY <1>1, <1>2, <3>3, <3>5, <3>6, <3>7 DEF Continued
    <3>10. y \in DOMAIN par /\ FindById(q, y) = j + 1 /\ y \in Stamp /\ Before(y, Id(c))
      BY <1>1, <1>2, <1>12, <3>6, <3>8 DEF IsPlace
    <3>11. y = f \/ Before(f, y)
      <4>1. CASE n = j + 1
        BY <3>7, <3>8, <4>1
      <4>2. CASE n # j + 1
        <5>1. Precedes(q, y, f)
          BY <1>6, <3>5, <3>9, <3>10, <4>2 DEF Precedes
        <5>2. Precedes(q, par[f], y)
          BY <1>2, <1>6, <3>9, <3>10 DEF Precedes
        <5> QED
          BY <3>9, <3>10, <5>1, <5>2 DEF IsCopy, InOrder
      <4> QED
        BY <4>1, <4>2
    <3>12. Before(f, Id(c))
      BY <1>4, <3>9, <3>10, <3>11, BeforeFacts
    <3>13. f.time = EndTime(q[j]) + 1
      <4>1. EndOf(q[j]) \in Stamp /\ EndOf(q[j]).time = EndTime(q[j])
        BY <1>1, <1>2, <1>3, <1>6
      <4> QED
        BY <3>5, <3>7, <4>1, NextFacts
    <3> QED
      BY <1>3, <1>4, <1>6, <3>2, <3>12, <3>13 DEF Before
  <2>5. PICK a : a = h[j]
    OBVIOUS
  <2>6. /\ a \in Chunks /\ a.sid = q[j].sid /\ a.time = q[j].time /\ a.span = q[j].span
        /\ a.del = q[j].del
    BY <1>6, <1>11, <1>14, <2>5 DEF LinkedTo
  <2>7. /\ a.sid \in Sid /\ a.time \in Nat /\ a.span \in Nat \ {0} /\ a.del \in BOOLEAN /\ a.s \in Nat
        /\ EndTime(a) + 1 = a.time + a.span
        /\ a = [sid |-> a.sid, time |-> a.time, span |-> a.span, del |-> a.del, s |-> a.s]
    BY <2>6, ChunkFacts
  <2>8. a.sid = c.sid /\ EndTime(a) + 1 = c.time /\ a.del = FALSE
    <3>1. EndTime(a) = EndTime(q[j])
      BY <2>6 DEF EndTime
    <3>2. q[j].sid = c.sid /\ EndTime(q[j]) + 1 = c.time
      BY <1>19, <2>2, <2>4 DEF ContinuedBy
    <3>3. a.del = FALSE
      BY <1>19, <2>6, <2>7
    <3> QED
      BY <2>6, <3>1, <3>2, <3>3
  <2>9. PICK b : b = [a EXCEPT !.span = @ + c.span, !.s = 0]
    OBVIOUS
  <2>10. /\ b \in Chunks /\ b.sid = a.sid /\ b.time = a.time /\ b.span = a.span + c.span
         /\ b.del = a.del /\ b.s = 0
    <3>1. b = [sid |-> a.sid, time |-> a.time, span |-> a.span + c.span, del |-> a.del, s |-> 0]
      BY <2>7, <2>9
    <3>2. a.span + c.span \in Nat \ {0}
      BY <1>1, <2>7, ChunkFacts
    <3> QED
      BY <2>7, <3>1, <3>2 DEF Chunks
  <2>11. p = [h EXCEPT ![j] = b]
    <3>1. p = [h EXCEPT ![j].span = @ + c.span, ![j].s = 0]
      BY <1>5, <1>10, <1>13, <1>19 DEF IsOutcome
    <3> QED
      BY <1>6, <1>14, <2>5, <2>9, <3>1
  <2>12. p \in Seq(Chunks) /\ Len(p) = Len(h) /\ \A k \in 1..Len(h) : p[k] = IF k = j THEN b ELSE h[k]
    <3>1. j \in 1..Len(h)
      BY <1>6, <1>14
    <3> QED
      BY <1>14, <2>10, <2>11, <3>1, ExceptSeq
  <2>13. /\ w \in Seq(Chunks) /\ Len(w) = Len(h) + 1 /\ Len(h) = Len(q)
         /\ \A k \in 1..Len(w) : w[k] = IF k < j + 1 THEN h[k] ELSE IF k = j + 1 THEN c ELSE h[k - 1]
    BY <1>14, <1>16 DEF PutBehind
  <2>14. w[j] = a /\ w[j + 1] = c /\ j \in 1..(Len(w) - 1)
    <3>1. j \in 1..Len(w) /\ (j + 1) \in 1..Len(w) /\ j < j + 1 /\ j \in 1..(Len(w) - 1)
      BY <1>2, <1>6, <2>13
    <3> QED
      BY <1>6, <2>5, <2>13, <3>1
  <2>15. \A k \in 1..Len(p) : p[k] = IF k < j THEN w[k] ELSE IF k = j THEN b ELSE w[k + 1]
    <3> SUFFICES ASSUME NEW k \in 1..Len(p)
                 PROVE  p[k] = IF k < j THEN w[k] ELSE IF k = j THEN b ELSE w[k + 1]
      OBVIOUS
    <3>1. k \in 1..Len(h) /\ k \in 1..Len(w) /\ (k + 1) \in 1..Len(w) /\ (k + 1) - 1 = k
      BY <1>2, <2>12, <2>13
    <3> QED
      BY <1>6, <2>12, <2>13, <3>1
  <2>16. IsJoin(w, j, b, p)
    <3>1. /\ w[j].sid = w[j + 1].sid /\ EndTime(w[j]) + 1 = w[j + 1].time
          /\ w[j].del = w[j + 1].del
      BY <1>1, <2>8, <2>14
    <3>2. /\ b.sid = w[j].sid /\ b.time = w[j].time /\ b.span = w[j].span + w[j + 1].span
          /\ b.del = w[j].del /\ b.s = w[j + 1].s
      BY <1>1, <2>10, <2>14
    <3>3. p \in Seq(Chunks) /\ Len(p) = Len(w) - 1
      BY <1>2, <2>12, <2>13
    <3> QED
      BY ONLY <2>10, <2>14, <2>15, <3>1, <3>2, <3>3 DEF IsJoin
  <2> QED
    BY <1>17, <2>16, JoinOK
<1> QED
  BY <1>18, <1>19

\* An element that does not hang below one of its own chunk is the first one there.
LEMMA StartOK ==
  ASSUME NEW par, IsTree(par), NEW q, IsCopy(q, par), NEW e \in DOMAIN par,
         par[e] = Root \/ FindById(q, par[e]) # FindById(q, e)
  PROVE  Id(q[FindById(q, e)]) = e
<1>1. DOMAIN par \subseteq Stamp /\ Tiles(q, DOMAIN par) /\ par[e] \in DOMAIN par \cup {Root}
  BY DEF IsTree, IsCopy
<1>2. PICK m : m = FindById(q, e)
  OBVIOUS
<1>3. m \in 1..Len(q) /\ q[m] \in Chunks /\ ContainsId(q[m], e) /\ e \in Stamp
  BY <1>1, <1>2, TilesFacts
<1> SUFFICES ASSUME Id(q[m]) # e PROVE FALSE
  BY <1>2
<1>4. e.sid = q[m].sid /\ q[m].time <= e.time /\ e.time < q[m].time + q[m].span /\ e.time \in Nat
  BY <1>3, StampFacts DEF ContainsId
<1>5. /\ Id(q[m]) \in Stamp /\ q[m].sid \in Sid /\ q[m].span \in Nat /\ q[m].time \in Nat
      /\ Id(q[m]).sid = q[m].sid /\ Id(q[m]).time = q[m].time
  BY <1>3, ChunkFacts
<1>6. q[m].time # e.time
  BY <1>3, <1>4, <1>5, SameStamp
<1>7. PICK g : g = [sid |-> e.sid, time |-> e.time - 1]
  OBVIOUS
<1>8. g \in Stamp /\ g.sid = e.sid /\ g.time = e.time - 1 /\ q[m].time <= g.time
  BY <1>4, <1>5, <1>6, <1>7 DEF Stamp
<1>9. NextOf(g) = e
  <2>1. NextOf(g) \in Stamp /\ NextOf(g).sid = g.sid /\ NextOf(g).time = g.time + 1
    BY <1>8, NextFacts
  <2>2. NextOf(g).time = e.time
    BY <1>4, <1>8, <2>1
  <2> QED
    BY <1>3, <1>8, <2>1, <2>2, SameStamp
<1>10. ContainsId(q[m], g)
  BY <1>4, <1>5, <1>8 DEF ContainsId
<1>11. par[e] = g
  BY <1>3, <1>8, <1>9, <1>10 DEF IsCopy, Runs
<1>12. par[e] # Root /\ g \in DOMAIN par
  BY <1>1, <1>8, <1>11, StampFacts
<1>13. FindById(q, g) = m
  BY <1>1, <1>3, <1>8, <1>10, <1>12, TilesFacts
<1> QED
  BY <1>2, <1>11, <1>12, <1>13

\* An element that is there already is found, and nothing changes.
LEMMA InsertAfterRefAgain ==
  ASSUME NEW par, IsTree(par), NEW q, IsCopy(q, par),
         NEW c \in Chunks, Id(c) \in DOMAIN par, NEW ref, ref = par[Id(c)],
         NEW i \in 1..Len(q), IF ref = Root THEN i = 1 ELSE i = FindById(q, ref),
         i # FindById(q, Id(c))
  PROVE  InsertAfterRef(q, c, ref, i) = q
<1>1. DOMAIN par \subseteq Stamp /\ Tiles(q, DOMAIN par) /\ ref \in DOMAIN par \cup {Root}
  BY DEF IsTree, IsCopy
<1>2. /\ q \in Seq(Chunks) /\ Len(q) \in Nat
      /\ \A k \in 1..Len(q) : /\ q[k] \in Chunks /\ Id(q[k]) \in DOMAIN par /\ EndOf(q[k]) \in DOMAIN par
                              /\ FindById(q, Id(q[k])) = k /\ FindById(q, EndOf(q[k])) = k
      /\ \A e \in DOMAIN par : FindById(q, e) \in 1..Len(q) /\ ContainsId(q[FindById(q, e)], e)
  BY <1>1, TilesFacts
<1>3. \A k \in 1..Len(q) : /\ q[k].sid \in Nat /\ q[k].time \in Nat /\ EndTime(q[k]) \in Nat
                           /\ q[k].time <= EndTime(q[k])
                           /\ Id(q[k]).sid = q[k].sid /\ Id(q[k]).time = q[k].time
                           /\ EndOf(q[k]).sid = q[k].sid /\ EndOf(q[k]).time = EndTime(q[k])
  BY <1>2, ChunkFacts
<1>4. PICK e : e = Id(c)
  OBVIOUS
<1>5. PICK m : m = FindById(q, e)
  OBVIOUS
<1>6. /\ e \in DOMAIN par /\ e \in Stamp /\ par[e] = ref /\ m \in 1..Len(q) /\ m # i
      /\ ContainsId(q[m], e) /\ c.sid \in Nat /\ c.time \in Nat /\ e.sid = c.sid /\ e.time = c.time
      /\ i \in Nat /\ m \in Nat
  <2>1. e \in DOMAIN par /\ e \in Stamp /\ par[e] = ref /\ m # i
    BY <1>1, <1>4, <1>5
  <2>2. m \in 1..Len(q) /\ ContainsId(q[m], e)
    BY <1>2, <1>5, <2>1
  <2>3. c.sid \in Nat /\ c.time \in Nat /\ e.sid = c.sid /\ e.time = c.time
    BY <1>4, ChunkFacts
  <2> QED
    BY <2>1, <2>2, <2>3
<1>7. i < m
  <2>1. CASE ref = Root
    BY <1>6, <2>1
  <2>2. CASE ref # Root
    <3>1. Precedes(q, ref, e)
      BY <1>6, <2>2 DEF IsCopy, InOrder
    <3> QED
      BY <1>5, <1>6, <2>2, <3>1 DEF Precedes
  <2> QED
    BY <2>1, <2>2
<1>8. Id(q[m]) = e
  <2>1. par[e] = Root \/ FindById(q, par[e]) # FindById(q, e)
    BY <1>5, <1>6
  <2> QED
    BY ONLY IsTree(par), IsCopy(q, par), <1>5, <1>6, <2>1, StartOK
<1>9. ASSUME NEW k \in 1..Len(q), k < m, i < k \/ ref = Root PROVE Before(e, Id(q[k]))
  <2>1. Id(q[k]) \in DOMAIN par /\ FindById(q, Id(q[k])) = k /\ k \in Nat
    BY <1>2
  <2>2. Precedes(q, Id(q[k]), e)
    BY <1>5, <1>9, <2>1 DEF Precedes
  <2>3. ref # Root => Precedes(q, ref, Id(q[k]))
    BY <1>9, <2>1 DEF Precedes
  <2> QED
    BY <1>6, <2>1, <2>2, <2>3 DEF IsCopy, InOrder
<1>10. PICK p : p = InsertAfterRef(q, c, ref, i)
  OBVIOUS
<1>11. PICK j, U : Walked(q, c, i, j, U) /\ IsOutcome(q, c, ref, j, U, p)
  <2>1. q \in Seq(Chunks) /\ i \in 1..Len(q) /\ p = InsertAfterRef(q, c, ref, i)
    BY <1>2, <1>10
  <2> QED
    BY ONLY <2>1, WalkOK
<1>12. /\ j \in i..Len(q) /\ j \in Nat /\ U = {k \in i..j : q[k].s = 0}
       /\ \A k \in (i + 1)..j : Before(c, q[k])
       /\ j < Len(q) => ~Before(c, q[j + 1])
  BY <1>6, <1>11 DEF Walked
<1>13. j = m - 1
  <2>1. ASSUME m <= j PROVE FALSE
    <3>1. m \in (i + 1)..j
      BY <1>6, <1>7, <1>12, <2>1
    <3>2. Before(c, q[m])
      BY <1>12, <3>1
    <3>3. ~Before(e, e)
      BY <1>6, BeforeFacts
    <3>4. q[m].sid = e.sid /\ q[m].time = e.time
      BY <1>3, <1>6, <1>8
    <3> QED
      BY <1>6, <3>2, <3>3, <3>4 DEF Before
  <2>2. ASSUME j < m - 1 PROVE FALSE
    <3>1. (j + 1) \in 1..Len(q) /\ j + 1 < m /\ i < j + 1 /\ j < Len(q)
      BY <1>2, <1>6, <1>12, <2>2
    <3>2. Before(e, Id(q[j + 1]))
      BY <1>9, <3>1
    <3>3. Before(c, q[j + 1])
      BY <1>3, <1>6, <3>1, <3>2 DEF Before
    <3> QED
      BY <1>12, <3>1, <3>3
  <2> QED
    BY <1>6, <1>12, <2>1, <2>2, SMTT(30)
<1>14. ASSUME NEW k \in 1..Len(q), k \in U, ContinuedBy(q, c, ref, k) PROVE FALSE
  <2>1. /\ k \in i..j /\ k < m /\ q[k].s = 0 /\ q[k].sid = c.sid
        /\ EndTime(q[k]) + 1 = c.time /\ EndTime(q[k]) = ref.time
    BY <1>6, <1>12, <1>13, <1>14 DEF ContinuedBy
  <2>2. CASE i < k \/ ref = Root
    <3>1. Before(e, Id(q[k]))
      BY <1>9, <2>1, <2>2
    <3> QED
      BY <1>3, <1>6, <2>1, <3>1, SMTT(30) DEF Before
  <2>3. CASE k = i /\ ref # Root
    <3>1. ref \in DOMAIN par /\ ref \in Stamp /\ ContainsId(q[k], ref)
      BY <1>1, <1>2, <2>3
    <3>2. ref.sid = q[k].sid
      BY <3>1 DEF ContainsId
    <3>3. EndOf(q[k]) = ref
      BY <1>1, <1>2, <1>3, <2>1, <3>1, <3>2, SameStamp
    <3>4. NextOf(ref) = e
      <4>1. NextOf(ref) \in Stamp /\ NextOf(ref).sid = ref.sid /\ NextOf(ref).time = ref.time + 1
        BY <3>1, NextFacts
      <4> QED
        BY <1>6, <2>1, <3>2, <4>1, SameStamp
    <3>5. Continued(par, EndOf(q[k]))
      BY <1>6, <3>3, <3>4 DEF Continued
    <3> QED
      BY <2>1, <3>5, LinkOK
  <2> QED
    BY <1>6, <2>1, <2>2, <2>3
<1>15. LinkedIn(q, c, ref, U) = q
  <2>1. DOMAIN q = 1..Len(q) /\ q = [k \in DOMAIN q |-> q[k]]
    BY <1>2
  <2> QED
    BY <1>14, <2>1 DEF LinkedIn
<1>16. j < Len(q) /\ Id(q[j + 1]) = Id(c)
  <2>1. j + 1 = m /\ j < Len(q)
    BY <1>2, <1>6, <1>13
  <2> QED
    BY <1>4, <1>8, <2>1
<1> QED
  BY <1>10, <1>11, <1>15, <1>16 DEF IsOutcome

\* p is a copy with the elements of c.
Grown(q, c, par2, p) ==
  /\ IsCopy(p, par2) /\ IsTree(par2)
  /\ \A gone : Marked(q, gone) /\ (\A e \in Stamp : ContainsId(c, e) => e \notin gone)
                 => Marked(p, gone)

LEMMA InsAfterChunkNew ==
  ASSUME NEW par, IsTree(par), NEW q, IsCopy(q, par),
         NEW c, NEW ref \in DOMAIN par, NEW par2, Grows(par, c, ref, par2),
         NEW p, p = InsAfterChunk(q, c, ref, FindById(q, ref), ref.time - q[FindById(q, ref)].time)
  PROVE  Grown(q, c, par2, p)
<1>1. /\ DOMAIN par \subseteq Stamp /\ Tiles(q, DOMAIN par)
      /\ c \in Chunks /\ ref.time < c.time
      /\ \A e \in Stamp : ContainsId(c, e) => e \notin DOMAIN par
  BY DEF IsTree, IsCopy, Grows
<1>2. PICK k : k = FindById(q, ref)
  OBVIOUS
<1>3. PICK ticks : ticks = ref.time - q[k].time + 1
  OBVIOUS
<1>4. /\ q \in Seq(Chunks) /\ k \in 1..Len(q) /\ k \in Nat /\ Len(q) \in Nat /\ q[k] \in Chunks
      /\ ContainsId(q[k], ref) /\ ref \in Stamp /\ ref # Root
  <2>1. ref \in Stamp
    BY <1>1
  <2> QED
    BY <1>1, <1>2, <2>1, TilesFacts, StampFacts
<1>5. /\ q[k].sid \in Nat /\ q[k].time \in Nat /\ q[k].span \in Nat /\ EndTime(q[k]) \in Nat
      /\ EndTime(q[k]) + 1 = q[k].time + q[k].span
      /\ ref.sid = q[k].sid /\ q[k].time <= ref.time /\ ref.time <= EndTime(q[k]) /\ ref.time \in Nat
  <2>1. /\ q[k].sid \in Nat /\ q[k].time \in Nat /\ q[k].span \in Nat /\ EndTime(q[k]) \in Nat
        /\ EndTime(q[k]) + 1 = q[k].time + q[k].span
    BY <1>4, ChunkFacts
  <2>2. ref.time \in Nat
    BY <1>4, StampFacts
  <2> QED
    BY <1>4, <2>1, <2>2 DEF ContainsId
<1>6. /\ c.sid \in Nat /\ c.time \in Nat /\ Id(c) \in Stamp /\ Id(c) \notin DOMAIN par
      /\ Id(c).sid = c.sid /\ Id(c).time = c.time
  <2>1. /\ c.sid \in Nat /\ c.time \in Nat /\ Id(c) \in Stamp /\ ContainsId(c, Id(c))
        /\ Id(c).sid = c.sid /\ Id(c).time = c.time
    BY <1>1, ChunkFacts
  <2> QED
    BY <1>1, <2>1
<1>7. PICK f : f = NextOf(ref)
  OBVIOUS
<1>8. f \in Stamp /\ f.sid = ref.sid /\ f.time = ref.time + 1
  BY <1>4, <1>7, NextFacts
<1>9. ~ContainsId(q[k], Id(c))
  BY <1>1, <1>4, <1>6 DEF Tiles
<1>10. ticks \in Nat \ {0} /\ q[k].time + ticks = ref.time + 1
  BY <1>3, <1>5
<1>11. p = IF ticks < q[k].span /\ (c.time > ref.time + 1 \/ c.sid > ref.sid)
           THEN InsertAt(SplitChunk(q, k, ticks), k + 1, c)
           ELSE InsertAfterRef(q, c, ref, k)
  BY <1>2, <1>3, <1>9 DEF InsAfterChunk
<1>12. CASE ticks < q[k].span /\ (c.time > ref.time + 1 \/ c.sid > ref.sid)
  <2>1. PICK h : h = SplitChunk(q, k, ticks)
    OBVIOUS
  <2>2. ticks \in 1..(q[k].span - 1)
    BY <1>5, <1>10, <1>12
  <2>3. /\ IsCopy(h, par) /\ Len(h) = Len(q) + 1 /\ k \in 1..Len(h) /\ (k + 1) \in 1..Len(h)
        /\ h[k].sid = q[k].sid /\ h[k].time = q[k].time /\ EndTime(h[k]) = q[k].time + ticks - 1
        /\ h[k + 1].sid = q[k].sid /\ h[k + 1].time = q[k].time + ticks
        /\ \A gone : Marked(q, gone) => Marked(h, gone)
    BY <1>4, <2>1, <2>2, SplitOK
  <2>4. /\ Tiles(h, DOMAIN par) /\ h \in Seq(Chunks) /\ h[k] \in Chunks
        /\ \A i \in 1..Len(h) : h[i] \in Chunks /\ Id(h[i]) \in DOMAIN par /\ EndOf(h[i]) \in DOMAIN par
        /\ \A i \in 1..Len(h) : \A e \in Stamp : ContainsId(h[i], e) <=> e \in DOMAIN par /\ FindById(h, e) = i
        /\ \A e \in DOMAIN par : FindById(h, e) \in 1..Len(h) /\ ContainsId(h[FindById(h, e)], e)
    <3>1. Tiles(h, DOMAIN par)
      BY <2>3 DEF IsCopy
    <3> QED
      BY <1>1, <2>3, <3>1, TilesFacts
  <2>5. EndTime(h[k]) = ref.time
    <3>1. EndTime(h[k]) = q[k].time + ticks - 1
      BY <2>3
    <3> QED
      BY ONLY <1>5, <1>10, <3>1
  <2>6. \A e \in Stamp : ContainsId(h[k], e) => e.time <= ref.time
    <3>1. \A e \in Stamp : ContainsId(h[k], e) <=>
            e.sid = h[k].sid /\ h[k].time <= e.time /\ e.time <= EndTime(h[k])
      BY <2>4, ChunkFacts
    <3> QED
      BY <2>5, <3>1
  <2>7. FindById(h, ref) = k
    <3>1. ContainsId(h[k], ref)
      <4>1. h[k].time + h[k].span = EndTime(h[k]) + 1
        BY <2>4, ChunkFacts
      <4>2. h[k].span \in Nat /\ h[k].time \in Nat
        BY <2>4, ChunkFacts
      <4> QED
        BY <1>5, <2>3, <2>5, <4>1, <4>2 DEF ContainsId
    <3> QED
      BY <1>4, <2>3, <2>4, <3>1
  <2>8. IsPlace(h, par, c, ref, k)
    <3>1. k \in 0..Len(h)
      BY <2>3
    <3>2. Before(Id(h[k + 1]), Id(c))
      <4>1. Id(h[k + 1]).sid = h[k + 1].sid /\ Id(h[k + 1]).time = h[k + 1].time
        BY <2>3, <2>4, ChunkFacts
      <4>2. Id(h[k + 1]).sid = ref.sid /\ Id(h[k + 1]).time = ref.time + 1
        BY <1>5, <1>10, <2>3, <4>1
      <4>3. ref.sid \in Nat
        BY <1>5
      <4> QED
        BY <1>1, <1>5, <1>6, <1>12, <4>2, <4>3 DEF Before
    <3>3. ASSUME NEW x \in DOMAIN par, FindById(h, x) <= k, ref = Root \/ Precedes(h, ref, x)
          PROVE  FALSE
      <4>1. FindById(h, x) \in Nat /\ x \in Stamp /\ x.time \in Nat
        BY <1>1, <2>4, StampFacts
      <4>2. FindById(h, x) = k /\ ref.time < x.time
        BY <1>4, <2>7, <3>3, <4>1 DEF Precedes
      <4>3. ContainsId(h[k], x)
        BY <2>4, <4>2
      <4> QED
        BY <1>5, <2>6, <4>1, <4>2, <4>3
    <3> QED
      BY <1>4, <2>7, <3>1, <3>2, <3>3 DEF IsPlace
  <2>9. f \in DOMAIN par
    <3>1. Id(h[k + 1]) \in DOMAIN par /\ Id(h[k + 1]) \in Stamp
      BY <1>1, <2>3, <2>4
    <3>2. Id(h[k + 1]).sid = h[k + 1].sid /\ Id(h[k + 1]).time = h[k + 1].time
      BY <2>3, <2>4, ChunkFacts
    <3>3. Id(h[k + 1]) = f
      BY <1>5, <1>8, <1>10, <2>3, <3>1, <3>2, SameStamp
    <3> QED
      BY <3>1, <3>3
  <2>10. LinkedTo(h, c, ref, h)
    <3>1. NextOf(ref) # Id(c)
      BY <1>6, <1>7, <2>9
    <3> QED
      BY <2>4, <3>1 DEF LinkedTo
  <2>11. PutBehind(h, k, c, p)
    <3>1. p = InsertAt(h, k + 1, c) /\ k \in 0..Len(h)
      BY <1>11, <1>12, <2>1, <2>3
    <3> QED
      BY <1>1, <2>4, <3>1, PutBehindOK
  <2>12. /\ IsCopy(p, par2) /\ IsTree(par2)
         /\ \A gone : Marked(h, gone) /\ (\A e \in Stamp : ContainsId(c, e) => e \notin gone)
                        => Marked(p, gone)
    BY <2>3, <2>8, <2>10, <2>11, PutOK
  <2> QED
    BY <2>3, <2>12 DEF Grown
<1>13. CASE ~(ticks < q[k].span /\ (c.time > ref.time + 1 \/ c.sid > ref.sid))
  <2>1. ASSUME NEW x \in DOMAIN par, FindById(q, x) = k, ref.time < x.time
        PROVE  Before(Id(c), x)
    <3>1. x \in Stamp /\ ContainsId(q[k], x) /\ x.sid = q[k].sid /\ x.time <= EndTime(q[k]) /\ x.time \in Nat
      <4>1. x \in Stamp /\ ContainsId(q[k], x)
        BY <1>1, <1>4, <2>1, TilesFacts
      <4> QED
        BY <1>4, <4>1, ChunkFacts, StampFacts
    <3>2. ticks < q[k].span
      BY <1>5, <1>10, <2>1, <3>1
    <3>3. c.time = ref.time + 1 /\ c.sid <= ref.sid
      BY <1>1, <1>5, <1>6, <1>13, <3>2
    <3>4. c.sid # ref.sid
      <4> SUFFICES ASSUME c.sid = ref.sid PROVE FALSE
        OBVIOUS
      <4>1. Id(c) = f
        BY <1>6, <1>8, <3>3, SameStamp
      <4>2. ContainsId(q[k], f)
        BY <1>5, <1>8, <1>10, <3>2 DEF ContainsId
      <4> QED
        BY <1>9, <4>1, <4>2
    <3> QED
      BY <1>5, <1>6, <2>1, <3>1, <3>3, <3>4 DEF Before
  <2>2. StartsAt(q, par, c, ref, k)
    BY <1>2, <1>4, <2>1 DEF StartsAt
  <2>3. p = InsertAfterRef(q, c, ref, k)
    BY <1>11, <1>13
  <2> QED
    BY <2>2, <2>3, InsertAfterRefNew DEF Grown
<1> QED
  BY <1>12, <1>13

LEMMA InsAfterRootNew ==
  ASSUME NEW par, IsTree(par), NEW q, IsCopy(q, par),
         NEW c, NEW par2, Grows(par, c, Root, par2), NEW p, p = InsAfterRoot(q, c, Root)
  PROVE  Grown(q, c, par2, p)
<1>1. /\ DOMAIN par \subseteq Stamp /\ Tiles(q, DOMAIN par) /\ c \in Chunks
      /\ \A e \in Stamp : ContainsId(c, e) => e \notin DOMAIN par
  BY DEF IsTree, IsCopy, Grows
<1>2. /\ q \in Seq(Chunks) /\ Len(q) \in Nat
      /\ \A k \in 1..Len(q) : q[k] \in Chunks /\ Id(q[k]) \in DOMAIN par /\ EndOf(q[k]) \in DOMAIN par
      /\ \A e \in DOMAIN par : FindById(q, e) \in 1..Len(q) /\ ContainsId(q[FindById(q, e)], e)
  BY <1>1, TilesFacts
<1>3. /\ c.sid \in Nat /\ c.time \in Nat /\ Id(c) \in Stamp /\ Id(c) \notin DOMAIN par
      /\ Id(c).sid = c.sid /\ Id(c).time = c.time
  <2>1. /\ c.sid \in Nat /\ c.time \in Nat /\ Id(c) \in Stamp /\ ContainsId(c, Id(c))
        /\ Id(c).sid = c.sid /\ Id(c).time = c.time
    BY <1>1, ChunkFacts
  <2> QED
    BY <1>1, <2>1
<1>4. ASSUME q # <<>> => Before(Id(q[1]), Id(c)), PutBehind(q, 0, c, p) PROVE Grown(q, c, par2, p)
  <2>1. 0 < Len(q) => q # <<>>
    OBVIOUS
  <2>2. \A x \in DOMAIN par : ~(FindById(q, x) <= 0)
    BY <1>2
  <2>3. IsPlace(q, par, c, Root, 0)
    BY <1>2, <1>4, <2>1, <2>2 DEF IsPlace
  <2>4. LinkedTo(q, c, Root, q)
    <3>1. \A k \in 1..Len(q) : EndOf(q[k]) # Root
      BY <1>1, <1>2, StampFacts
    <3> QED
      BY <1>2, <3>1 DEF LinkedTo
  <2> QED
    BY <1>4, <2>3, <2>4, PutOK DEF Grown
<1>5. CASE q = <<>>
  <2>1. p = <<c>>
    BY <1>5 DEF InsAfterRoot
  <2>2. PutBehind(q, 0, c, p)
    <3>1. Len(q) = 0 /\ Len(p) = 1 /\ p[1] = c
      BY <1>5, <2>1
    <3>2. p \in Seq(Chunks)
      BY <1>1, <2>1
    <3> QED
      BY ONLY <3>1, <3>2 DEF PutBehind
  <2> QED
    BY <1>4, <1>5, <2>2
<1>6. CASE q # <<>>
  <2>1. 1 \in 1..Len(q)
    BY <1>2, <1>6
  <2>2. /\ q[1] \in Chunks /\ Id(q[1]) \in DOMAIN par /\ Id(q[1]) \in Stamp
        /\ q[1].sid \in Nat /\ q[1].time \in Nat /\ EndTime(q[1]) \in Nat
        /\ Id(q[1]).sid = q[1].sid /\ Id(q[1]).time = q[1].time
    <3>1. q[1] \in Chunks /\ Id(q[1]) \in DOMAIN par
      BY <1>2, <2>1
    <3> QED
      BY <1>1, <3>1, ChunkFacts
  <2>3. ~ContainsId(q[1], Id(c))
    BY <1>1, <1>3, <2>1 DEF Tiles
  <2>4. p = IF Before(q[1], c) THEN InsertAt(q, 1, c) ELSE InsertAfterRef(q, c, Root, 1)
    BY <1>6, <2>3 DEF InsAfterRoot
  <2>5. Before(q[1], c) <=> Before(Id(q[1]), Id(c))
    BY <1>3, <2>2 DEF Before
  <2>6. CASE Before(q[1], c)
    <3>1. p = InsertAt(q, 0 + 1, c) /\ 0 \in 0..Len(q)
      BY <1>2, <2>4, <2>6
    <3>2. PutBehind(q, 0, c, p)
      BY <1>1, <1>2, <3>1, PutBehindOK
    <3> QED
      BY <1>4, <2>5, <2>6, <3>2
  <2>7. CASE ~Before(q[1], c)
    <3>1. Before(Id(c), Id(q[1]))
      BY <1>3, <2>2, <2>5, <2>7, BeforeFacts
    <3>2. ASSUME NEW x \in DOMAIN par, FindById(q, x) = 1 PROVE Before(Id(c), x)
      <4>1. ContainsId(q[1], x) /\ x \in Stamp
        BY <1>1, <1>2, <3>2
      <4>2. x.sid = q[1].sid /\ q[1].time <= x.time /\ x.time \in Nat
        BY <4>1, StampFacts DEF ContainsId
      <4> QED
        BY <1>3, <2>2, <3>1, <4>2 DEF Before
    <3>3. StartsAt(q, par, c, Root, 1)
      BY <2>1, <3>2 DEF StartsAt
    <3>4. p = InsertAfterRef(q, c, Root, 1)
      BY <2>4, <2>7
    <3> QED
      BY <3>3, <3>4, InsertAfterRefNew DEF Grown
  <2> QED
    BY <2>6, <2>7
<1> QED
  BY <1>5, <1>6

\* ins(), the first time
LEMMA InsNew ==
  ASSUME NEW par, IsTree(par), NEW q, IsCopy(q, par),
         NEW id, NEW span, NEW c, c = Chunk(id, span),
         NEW ref, NEW par2, Grows(par, c, ref, par2), NEW p, p = Ins(q, Root, ref, id, span)
  PROVE  Grown(q, c, par2, p)
<1>1. DOMAIN par \subseteq Stamp /\ Tiles(q, DOMAIN par) /\ ref \in DOMAIN par \cup {Root}
  BY DEF IsTree, IsCopy, Grows
<1>2. CASE ref = Root
  <2>1. p = InsAfterRoot(q, c, Root) /\ Grows(par, c, Root, par2)
    BY <1>2 DEF Ins
  <2> QED
    BY <2>1, InsAfterRootNew
<1>3. CASE ref # Root
  <2>1. ref \in DOMAIN par
    BY <1>1, <1>3
  <2>2. FindById(q, ref) # 0
    <3>1. FindById(q, ref) \in 1..Len(q) /\ Len(q) \in Nat
      BY <1>1, <2>1, TilesFacts
    <3> QED
      BY <3>1
  <2>3. p = InsAfterChunk(q, c, ref, FindById(q, ref), ref.time - q[FindById(q, ref)].time)
    BY <1>3, <2>2 DEF Ins
  <2> QED
    BY <2>1, <2>3, InsAfterChunkNew
<1> QED
  BY <1>2, <1>3

LEMMA InsAfterChunkAgain ==
  ASSUME NEW par, IsTree(par), NEW q, IsCopy(q, par),
         NEW c \in Chunks, Id(c) \in DOMAIN par, NEW ref \in DOMAIN par, ref = par[Id(c)]
  PROVE  InsAfterChunk(q, c, ref, FindById(q, ref), ref.time - q[FindById(q, ref)].time) = q
<1>1. DOMAIN par \subseteq Stamp /\ Tiles(q, DOMAIN par) /\ ref.time < c.time
  <2>1. Id(c).time = c.time
    BY ChunkFacts
  <2> QED
    BY <2>1 DEF IsTree, IsCopy
<1>2. PICK k : k = FindById(q, ref)
  OBVIOUS
<1>3. PICK ticks : ticks = ref.time - q[k].time + 1
  OBVIOUS
<1>4. PICK e : e = Id(c)
  OBVIOUS
<1>5. /\ q \in Seq(Chunks) /\ k \in 1..Len(q) /\ k \in Nat /\ Len(q) \in Nat /\ q[k] \in Chunks
      /\ ContainsId(q[k], ref) /\ ref \in Stamp /\ ref # Root
  <2>1. ref \in Stamp
    BY <1>1
  <2> QED
    BY <1>1, <1>2, <2>1, TilesFacts, StampFacts
<1>6. /\ q[k].sid \in Nat /\ q[k].time \in Nat /\ q[k].span \in Nat /\ EndTime(q[k]) \in Nat
      /\ EndTime(q[k]) + 1 = q[k].time + q[k].span
      /\ ref.sid = q[k].sid /\ q[k].time <= ref.time /\ ref.time <= EndTime(q[k]) /\ ref.time \in Nat
  <2>1. /\ q[k].sid \in Nat /\ q[k].time \in Nat /\ q[k].span \in Nat /\ EndTime(q[k]) \in Nat
        /\ EndTime(q[k]) + 1 = q[k].time + q[k].span
    BY <1>5, ChunkFacts
  <2>2. ref.time \in Nat
    BY <1>5, StampFacts
  <2> QED
    BY <1>5, <2>1, <2>2 DEF ContainsId
<1>7. /\ c.sid \in Nat /\ c.time \in Nat /\ e \in Stamp /\ e \in DOMAIN par
      /\ e.sid = c.sid /\ e.time = c.time /\ par[e] = ref
  <2>1. c.sid \in Nat /\ c.time \in Nat /\ e \in Stamp /\ e.sid = c.sid /\ e.time = c.time
    BY <1>4, ChunkFacts
  <2> QED
    BY <1>4, <2>1
<1>8. FindById(q, e) \in 1..Len(q) /\ FindById(q, e) \in Nat
  BY <1>1, <1>5, <1>7, TilesFacts
<1>9. ContainsId(q[k], e) <=> FindById(q, e) = k
  BY <1>1, <1>5, <1>7, TilesFacts
<1>10. Precedes(q, ref, e)
  BY <1>5, <1>7 DEF IsCopy, InOrder
<1>11. PICK f : f = NextOf(ref)
  OBVIOUS
<1>12. f \in Stamp /\ f.sid = ref.sid /\ f.time = ref.time + 1
  BY <1>5, <1>11, NextFacts
<1>13. ticks \in Nat \ {0} /\ q[k].time + ticks = ref.time + 1
  BY <1>3, <1>6
<1>14. PICK p : p = InsAfterChunk(q, c, ref, FindById(q, ref), ref.time - q[FindById(q, ref)].time)
  OBVIOUS
<1>15. p = IF ticks < q[k].span /\ ContainsId(q[k], e) THEN q
           ELSE IF ticks < q[k].span /\ (c.time > ref.time + 1 \/ c.sid > ref.sid)
           THEN InsertAt(SplitChunk(q, k, ticks), k + 1, c)
           ELSE InsertAfterRef(q, c, ref, k)
  BY <1>2, <1>3, <1>4, <1>14 DEF InsAfterChunk
<1>16. ASSUME ticks < q[k].span, ~ContainsId(q[k], e) PROVE Before(e, f)
  <2>1. ContainsId(q[k], f)
    BY <1>6, <1>12, <1>13, <1>16 DEF ContainsId
  <2>2. f \in DOMAIN par /\ FindById(q, f) = k
    BY <1>1, <1>5, <1>12, <2>1, TilesFacts
  <2>3. FindById(q, e) > k
    BY <1>2, <1>5, <1>8, <1>9, <1>10, <1>16 DEF Precedes
  <2>4. Precedes(q, f, e) /\ Precedes(q, ref, f)
    BY <1>2, <1>5, <1>6, <1>8, <1>12, <2>2, <2>3 DEF Precedes
  <2> QED
    BY <1>5, <1>7, <2>2, <2>4 DEF IsCopy, InOrder
<1>17. ASSUME ~(ticks < q[k].span) PROVE ~ContainsId(q[k], e)
  BY <1>1, <1>6, <1>7, <1>13, <1>17 DEF ContainsId
<1>18. CASE ContainsId(q[k], e)
  BY <1>14, <1>15, <1>17, <1>18
<1>19. CASE ~ContainsId(q[k], e)
  <2>1. ~(ticks < q[k].span /\ (c.time > ref.time + 1 \/ c.sid > ref.sid))
    <3> SUFFICES ASSUME ticks < q[k].span, c.time > ref.time + 1 \/ c.sid > ref.sid PROVE FALSE
      OBVIOUS
    <3>1. Before(e, f)
      BY <1>16, <1>19
    <3>2. ref.sid \in Nat
      BY <1>6
    <3> QED
      BY <1>1, <1>6, <1>7, <1>12, <3>1, <3>2 DEF Before
  <2>2. p = InsertAfterRef(q, c, ref, k)
    BY <1>15, <1>19, <2>1
  <2>3. k # FindById(q, Id(c))
    BY <1>4, <1>9, <1>19
  <2>4. InsertAfterRef(q, c, ref, k) = q
    BY <1>2, <1>5, <2>3, InsertAfterRefAgain
  <2> QED
    BY <1>14, <2>2, <2>4
<1> QED
  BY <1>18, <1>19

LEMMA InsAfterRootAgain ==
  ASSUME NEW par, IsTree(par), NEW q, IsCopy(q, par),
         NEW c \in Chunks, Id(c) \in DOMAIN par, par[Id(c)] = Root
  PROVE  InsAfterRoot(q, c, Root) = q
<1>1. DOMAIN par \subseteq Stamp /\ Tiles(q, DOMAIN par)
  BY DEF IsTree, IsCopy
<1>2. PICK e : e = Id(c)
  OBVIOUS
<1>3. PICK m : m = FindById(q, e)
  OBVIOUS
<1>4. e \in DOMAIN par /\ e \in Stamp /\ par[e] = Root /\ e.sid = c.sid /\ e.time = c.time
  BY <1>1, <1>2, ChunkFacts
<1>5. m \in 1..Len(q) /\ ContainsId(q[m], e) /\ q \in Seq(Chunks) /\ Len(q) \in Nat
  BY <1>1, <1>3, <1>4, TilesFacts
<1>6. q # <<>> /\ 1 \in 1..Len(q)
  BY <1>5
<1>7. q[1] \in Chunks /\ Id(q[1]) \in DOMAIN par /\ FindById(q, Id(q[1])) = 1 /\ Id(q[1]) \in Stamp
  BY <1>1, <1>6, TilesFacts
<1>8. Id(q[1]).sid = q[1].sid /\ Id(q[1]).time = q[1].time
  BY <1>7, ChunkFacts
<1>9. CASE m = 1
  <2>1. Id(q[m]) = e
    BY ONLY IsTree(par), IsCopy(q, par), <1>3, <1>4, StartOK
  <2>2. ~Before(e, e)
    BY <1>4, BeforeFacts
  <2>3. ~Before(q[1], c)
    BY <1>4, <1>8, <1>9, <2>1, <2>2 DEF Before
  <2> QED
    BY <1>2, <1>5, <1>6, <1>9, <2>3 DEF InsAfterRoot
<1>10. CASE m # 1
  <2>1. Precedes(q, Id(q[1]), e)
    BY <1>3, <1>5, <1>7, <1>10 DEF Precedes
  <2>2. Before(e, Id(q[1]))
    BY <1>4, <1>7, <2>1 DEF IsCopy, InOrder
  <2>3. ~Before(Id(q[1]), e)
    BY <1>4, <1>7, <2>2, BeforeFacts
  <2>4. ~Before(q[1], c)
    BY <1>4, <1>8, <2>3 DEF Before
  <2>5. ~ContainsId(q[1], e)
    BY <1>1, <1>3, <1>4, <1>6, <1>10, TilesFacts
  <2>6. InsAfterRoot(q, c, Root) = InsertAfterRef(q, c, Root, 1)
    BY <1>2, <1>6, <2>4, <2>5 DEF InsAfterRoot
  <2>7. InsertAfterRef(q, c, Root, 1) = q
    BY <1>2, <1>3, <1>4, <1>6, <1>10, InsertAfterRefAgain
  <2> QED
    BY <2>6, <2>7
<1> QED
  BY <1>9, <1>10

\* ins(), once more
LEMMA InsAgain ==
  ASSUME NEW par, IsTree(par), NEW q, IsCopy(q, par),
         NEW id, NEW span, Chunk(id, span) \in Chunks,
         Id(Chunk(id, span)) \in DOMAIN par, NEW ref, ref = par[Id(Chunk(id, span))]
  PROVE  Ins(q, Root, ref, id, span) = q
<1>1. PICK c : c = Chunk(id, span)
  OBVIOUS
<1>2. c \in Chunks /\ Id(c) \in DOMAIN par /\ ref = par[Id(c)]
  BY <1>1
<1>3. DOMAIN par \subseteq Stamp /\ Tiles(q, DOMAIN par) /\ ref \in DOMAIN par \cup {Root}
  BY <1>2 DEF IsTree, IsCopy
<1>4. CASE ref = Root
  <2>1. InsAfterRoot(q, c, Root) = q
    BY <1>2, <1>4, InsAfterRootAgain
  <2> QED
    BY <1>1, <1>4, <2>1 DEF Ins
<1>5. CASE ref # Root
  <2>1. ref \in DOMAIN par
    BY <1>3, <1>5
  <2>2. FindById(q, ref) # 0
    <3>1. FindById(q, ref) \in 1..Len(q) /\ Len(q) \in Nat
      BY <1>3, <2>1, TilesFacts
    <3> QED
      BY <3>1
  <2>3. InsAfterChunk(q, c, ref, FindById(q, ref), ref.time - q[FindById(q, ref)].time) = q
    BY <1>2, <2>1, InsAfterChunkAgain
  <2> QED
    BY <1>1, <1>5, <2>2, <2>3 DEF Ins
<1> QED
  BY <1>4, <1>5

-----------------------------------------------------------------------------
(* Deletions.                                                              *)

Cut(sid, a, b) == {e \in Stamp : e.sid = sid /\ a <= e.time /\ e.time <= b}

\* What is deleted: elements that hang one below the other.
IsInterval(par, sid, t1, t2) ==
  /\ sid \in Sid /\ t1 \in Nat /\ t2 \in Nat /\ t1 <= t2
  /\ Cut(sid, t1, t2) \subseteq DOMAIN par
  /\ \A e \in Cut(sid, t1, t2) : NextOf(e) \in Cut(sid, t1, t2) => par[NextOf(e)] = e

\* After i rounds: the elements up to d are deleted, the next chunk has the following.
DeletedTo(par, q, gone, sid, t1, t2, i, st) ==
  /\ IsCopy(st.q, par) /\ st.stop \in BOOLEAN
  /\ IF st.stop THEN Marked(st.q, gone \cup Cut(sid, t1, t2))
     ELSE \E d \in Int :
            /\ t1 - 1 <= d /\ d <= t2
            /\ Marked(st.q, gone \cup Cut(sid, t1, d))
            /\ st.k \in (i + 1)..Len(st.q)
            /\ st.q[st.k].sid = sid
            /\ st.q[st.k].time <= d + 1 /\ st.q[st.k].time <= t2 /\ t1 <= EndTime(st.q[st.k])
            /\ Len(st.q) <= Len(q) \/ (Len(st.q) <= Len(q) + 1 /\ t1 <= st.q[st.k].time)

LEMMA CutFacts ==
  ASSUME NEW sid, NEW t1 \in Int, NEW a \in Int, NEW b \in Int, NEW d \in Int, t1 <= a, a <= d + 1
  PROVE  Cut(sid, t1, d) \cup Cut(sid, a, b) = Cut(sid, t1, IF b > d THEN b ELSE d)
<1>1. \A e \in Stamp : e.time \in Nat
  BY StampFacts
<1> QED
  BY <1>1 DEF Cut

\* Up to d, which is beyond the chunk at k, the elements are deleted.
DoneAt(par, q, gone, sid, t1, t2, i, p, k, d) ==
  /\ IsCopy(p, par) /\ k \in (i + 1)..Len(p) /\ Len(p) <= Len(q) + 1
  /\ p[k].sid = sid /\ t1 <= EndTime(p[k]) + 1 /\ EndTime(p[k]) + 1 <= t2
  /\ Continued(par, EndOf(p[k]))
  /\ d \in Int /\ EndTime(p[k]) <= d /\ d <= t2 /\ t1 - 1 <= d
  /\ Marked(p, gone \cup Cut(sid, t1, d))

\* Following the split link
LEMMA OnwardOK ==
  ASSUME NEW par, IsTree(par), NEW sid, NEW t1, NEW t2, IsInterval(par, sid, t1, t2),
         NEW q, Len(q) \in Nat, NEW gone, NEW i \in Nat,
         NEW p, NEW k, NEW d, DoneAt(par, q, gone, sid, t1, t2, i, p, k, d),
         NEW st, st = IF p[k].s = 0 THEN [q |-> p, k |-> k, stop |-> TRUE]
                      ELSE [q |-> p, k |-> LinkIndex(p, k), stop |-> FALSE]
  PROVE  DeletedTo(par, q, gone, sid, t1, t2, i + 1, st)
<1> USE DEF DoneAt
<1>1. DOMAIN par \subseteq Stamp /\ Tiles(p, DOMAIN par) /\ t1 \in Nat /\ t2 \in Nat
  BY DEF IsTree, IsCopy, IsInterval
<1>2. p \in Seq(Chunks) /\ Len(p) \in Nat /\ k \in Nat /\ k \in 1..Len(p)
  BY <1>1 DEF Tiles
<1>3. PICK n : n = LinkIndex(p, k)
  OBVIOUS
<1>4. p[k].s # 0 /\ n \in (k + 1)..Len(p) /\ Id(p[n]) = NextOf(EndOf(p[k]))
  BY <1>2, <1>3, LinkOK
<1>5. n \in ((i + 1) + 1)..Len(p) /\ n \in 1..Len(p)
  BY <1>2, <1>4
<1>6. p[k] \in Chunks /\ p[n] \in Chunks
  BY <1>2, <1>5
<1>7. EndOf(p[k]) \in Stamp /\ EndOf(p[k]).sid = p[k].sid /\ EndOf(p[k]).time = EndTime(p[k]) /\ EndTime(p[k]) \in Nat
  BY <1>6, ChunkFacts
<1>8. Id(p[n]).sid = p[n].sid /\ Id(p[n]).time = p[n].time /\ p[n].time \in Nat /\ EndTime(p[n]) \in Nat
      /\ p[n].time <= EndTime(p[n])
  BY <1>6, ChunkFacts
<1>9. p[n].sid = sid /\ p[n].time = EndTime(p[k]) + 1
  BY <1>4, <1>7, <1>8, NextFacts
<1>10. st.q = p /\ st.k = n /\ st.stop = FALSE
  BY <1>3, <1>4
<1>11. /\ p[n].time <= d + 1 /\ p[n].time <= t2 /\ t1 <= EndTime(p[n]) /\ t1 <= p[n].time
  BY <1>1, <1>7, <1>8, <1>9
<1> QED
  BY ONLY DoneAt(par, q, gone, sid, t1, t2, i, p, k, d), <1>5, <1>9, <1>10, <1>11 DEF DeletedTo

\* The loop ends.
LEMMA StopOK ==
  ASSUME NEW par, NEW q, NEW gone, NEW sid, NEW t1 \in Nat, NEW t2 \in Nat, t1 <= t2, NEW i,
         NEW p, IsCopy(p, par), Marked(p, gone \cup Cut(sid, t1, t2)), NEW k
  PROVE  DeletedTo(par, q, gone, sid, t1, t2, i, [q |-> p, k |-> k, stop |-> TRUE])
<1>1. PICK st : st = [q |-> p, k |-> k, stop |-> TRUE]
  OBVIOUS
<1>2. st.q = p /\ st.stop = TRUE
  BY <1>1
<1>3. DeletedTo(par, q, gone, sid, t1, t2, i, st)
  BY <1>2 DEF DeletedTo
<1> QED
  BY <1>1, <1>3

\* What a round does that finds the end of the chunk not before t1
IsRound(p, k, c1, c2, t1, t2, st) ==
  /\ p[k].del => st = IF c2 >= t2 THEN [q |-> p, k |-> k, stop |-> TRUE]
                      ELSE IF p[k].s = 0 THEN [q |-> p, k |-> k, stop |-> TRUE]
                      ELSE [q |-> p, k |-> LinkIndex(p, k), stop |-> FALSE]
  /\ ~p[k].del /\ t1 <= c1 /\ t2 >= c2 =>
       \A r : r = Kill(p, k) =>
         st = IF t2 <= c2 THEN [q |-> r, k |-> k, stop |-> TRUE]
              ELSE IF r[k].s = 0 THEN [q |-> r, k |-> k, stop |-> TRUE]
              ELSE [q |-> r, k |-> LinkIndex(r, k), stop |-> FALSE]
  /\ ~p[k].del /\ t1 <= c1 /\ t2 < c2 =>
       st = [q |-> Kill(SplitChunk(p, k, t2 - c1 + 1), k), k |-> k, stop |-> TRUE]
  /\ ~p[k].del /\ c1 < t1 /\ t2 >= c2 =>
       \A r : r = Kill(SplitChunk(p, k, t1 - c1), k + 1) =>
         st = IF t2 <= c2 THEN [q |-> r, k |-> k, stop |-> TRUE]
              ELSE IF r[k].s = 0 THEN [q |-> r, k |-> k, stop |-> TRUE]
              ELSE [q |-> r, k |-> LinkIndex(r, k), stop |-> FALSE]
  /\ ~p[k].del /\ c1 < t1 /\ t2 < c2 =>
       st = [q |-> Kill(SplitChunk(SplitChunk(p, k, t2 - c1 + 1), k, t1 - c1), k + 1),
             k |-> k, stop |-> TRUE]

\* The cases of a round that do not stop it at once
LEMMA DeleteRoundCases ==
  ASSUME NEW p, NEW k, NEW c1 \in Nat, NEW c2 \in Nat, NEW t1 \in Nat, NEW t2 \in Nat,
         c1 = p[k].time, c2 = EndTime(p[k]), t1 <= c2, NEW st, st = DeleteRound(p, k, t1, t2)
  PROVE  IsRound(p, k, c1, c2, t1, t2, st)
<1> USE DEF IsRound
<1>1. CASE p[k].del
  BY <1>1 DEF DeleteRound
<1>2. CASE ~p[k].del /\ t1 <= c1 /\ t2 >= c2
  <2>1. ~(t1 > c2) /\ ~(t2 < c2) /\ ~(c1 < t1)
    BY <1>2
  <2> QED
    BY <1>2, <2>1 DEF DeleteRound
<1>3. CASE ~p[k].del /\ t1 <= c1 /\ t2 < c2
  <2>1. ~(t1 > c2) /\ ~(t2 >= c2) /\ ~(c1 < t1)
    BY <1>3
  <2> QED
    BY <1>3, <2>1 DEF DeleteRound
<1>4. CASE ~p[k].del /\ c1 < t1 /\ t2 >= c2
  <2>1. ~(t1 > c2) /\ ~(t2 < c2) /\ ~(t1 <= c1)
    BY <1>4
  <2> QED
    BY <1>4, <2>1 DEF DeleteRound
<1>5. CASE ~p[k].del /\ c1 < t1 /\ t2 < c2
  <2>1. ~(t1 > c2) /\ ~(t2 >= c2) /\ ~(t1 <= c1)
    BY <1>5
  <2> QED
    BY <1>5, <2>1 DEF DeleteRound
<1> QED
  BY <1>1, <1>2, <1>3, <1>4, <1>5

\* A round of the loop
LEMMA DeleteRoundOK ==
  ASSUME NEW par, IsTree(par), NEW sid, NEW t1, NEW t2, IsInterval(par, sid, t1, t2),
         NEW q, Len(q) \in Nat, NEW gone, NEW i \in Nat,
         NEW was, DeletedTo(par, q, gone, sid, t1, t2, i, was), was.stop = FALSE,
         NEW st, st = DeleteRound(was.q, was.k, t1, t2)
  PROVE  DeletedTo(par, q, gone, sid, t1, t2, i + 1, st)
<1>1. PICK p : p = was.q
  OBVIOUS
<1>2. PICK k : k = was.k
  OBVIOUS
<1>3. IsCopy(p, par)
  BY <1>1 DEF DeletedTo
<1>4. PICK d \in Int :
        /\ t1 - 1 <= d /\ d <= t2 /\ Marked(p, gone \cup Cut(sid, t1, d))
        /\ k \in (i + 1)..Len(p) /\ p[k].sid = sid
        /\ p[k].time <= d + 1 /\ p[k].time <= t2 /\ t1 <= EndTime(p[k])
        /\ Len(p) <= Len(q) \/ (Len(p) <= Len(q) + 1 /\ t1 <= p[k].time)
  BY <1>1, <1>2 DEF DeletedTo
<1>5. /\ DOMAIN par \subseteq Stamp /\ Tiles(p, DOMAIN par)
      /\ sid \in Sid /\ t1 \in Nat /\ t2 \in Nat /\ t1 <= t2
      /\ Cut(sid, t1, t2) \subseteq DOMAIN par
      /\ \A e \in Cut(sid, t1, t2) : NextOf(e) \in Cut(sid, t1, t2) => par[NextOf(e)] = e
  BY <1>3 DEF IsTree, IsCopy, IsInterval
<1>6. /\ p \in Seq(Chunks) /\ Len(p) \in Nat /\ k \in 1..Len(p) /\ k \in Nat
  BY <1>4, <1>5 DEF Tiles
<1>7. p[k] \in Chunks
  BY <1>6
<1>8. PICK c1 : c1 = p[k].time
  OBVIOUS
<1>9. PICK c2 : c2 = EndTime(p[k])
  OBVIOUS
<1>10. /\ c1 \in Nat /\ c2 \in Nat /\ c1 <= c2 /\ p[k].span = c2 - c1 + 1 /\ p[k].del \in BOOLEAN
       /\ \A e \in Stamp : ContainsId(p[k], e) <=> e.sid = sid /\ c1 <= e.time /\ e.time <= c2
  <2>1. /\ p[k].time \in Nat /\ EndTime(p[k]) \in Nat /\ p[k].time <= EndTime(p[k])
        /\ EndTime(p[k]) + 1 = p[k].time + p[k].span /\ p[k].span \in Nat /\ p[k].del \in BOOLEAN
    BY <1>7, ChunkFacts
  <2>2. \A e \in Stamp : ContainsId(p[k], e) <=>
          e.sid = p[k].sid /\ p[k].time <= e.time /\ e.time <= EndTime(p[k])
    BY <1>7, ChunkFacts
  <2>3. p[k].span = c2 - c1 + 1
    BY ONLY <1>8, <1>9, <2>1
  <2> QED
    BY <1>4, <1>8, <1>9, <2>1, <2>2, <2>3
<1>11. c1 <= d + 1 /\ c1 <= t2 /\ t1 <= c2
  BY <1>4, <1>8, <1>9
<1>12. {e \in Stamp : ContainsId(p[k], e)} = Cut(sid, c1, c2)
  BY <1>10 DEF Cut
<1>13. ASSUME c2 < t2 PROVE Continued(par, EndOf(p[k]))
  <2>1. PICK e : e = EndOf(p[k])
    OBVIOUS
  <2>2. e \in Stamp /\ e.sid = sid /\ e.time = c2
    BY <1>4, <1>7, <1>9, <2>1, ChunkFacts
  <2>3. NextOf(e) \in Stamp /\ NextOf(e).sid = sid /\ NextOf(e).time = c2 + 1
    BY <2>2, NextFacts
  <2>4. e \in Cut(sid, t1, t2) /\ NextOf(e) \in Cut(sid, t1, t2)
    BY <1>5, <1>10, <1>11, <1>13, <2>2, <2>3 DEF Cut
  <2> QED
    BY <1>5, <2>1, <2>4 DEF Continued
<1>14. PICK top : top = IF c2 > d THEN c2 ELSE d
  OBVIOUS
<1>15. top \in Int /\ d <= top /\ c2 <= top /\ t1 - 1 <= top /\ (c2 <= t2 => top <= t2)
  <2>1. t1 - 1 <= d /\ d <= t2 /\ d \in Int /\ c2 \in Nat /\ t1 \in Nat /\ t2 \in Nat
    BY <1>4, <1>5, <1>10
  <2> QED
    BY ONLY <1>14, <2>1
<1>16. IsRound(p, k, c1, c2, t1, t2, st)
  <2>1. st = DeleteRound(p, k, t1, t2) /\ c1 \in Nat /\ c2 \in Nat /\ t1 \in Nat /\ t2 \in Nat /\ t1 <= c2
    BY <1>1, <1>2, <1>5, <1>10, <1>11
  <2> QED
    BY ONLY <1>8, <1>9, <2>1, DeleteRoundCases
<1>17. CASE p[k].del
  <2>1. st = IF c2 >= t2 THEN [q |-> p, k |-> k, stop |-> TRUE]
             ELSE IF p[k].s = 0 THEN [q |-> p, k |-> k, stop |-> TRUE]
             ELSE [q |-> p, k |-> LinkIndex(p, k), stop |-> FALSE]
    BY <1>16, <1>17 DEF IsRound
  <2>2. PICK a : a = IF c1 < t1 THEN t1 ELSE c1
    OBVIOUS
  <2>3. a \in Int /\ t1 <= a /\ a <= d + 1 /\ c1 <= a
    BY <1>4, <1>5, <1>10, <1>11, <2>2
  <2>4. ASSUME NEW b \in Int, b <= c2
        PROVE  gone \cup Cut(sid, t1, IF b > d THEN b ELSE d) = gone \cup Cut(sid, t1, d)
    <3>1. Cut(sid, t1, d) \cup Cut(sid, a, b) = Cut(sid, t1, IF b > d THEN b ELSE d)
      BY <1>5, <2>3, CutFacts
    <3>2. ASSUME NEW e \in Cut(sid, a, b) PROVE e \in gone \cup Cut(sid, t1, d)
      <4>1. e \in Stamp /\ e.sid = sid /\ a <= e.time /\ e.time <= b /\ e.time \in Nat
        BY StampFacts DEF Cut
      <4>2. ContainsId(p[k], e)
        BY <1>10, <2>3, <2>4, <4>1
      <4> QED
        BY <1>4, <1>6, <1>17, <4>1, <4>2 DEF Marked
    <3> QED
      BY <3>1, <3>2
  <2>5. CASE c2 >= t2
    <3>1. (IF t2 > d THEN t2 ELSE d) = t2
      BY <1>4, <1>5
    <3>2. Marked(p, gone \cup Cut(sid, t1, t2))
      <4>1. gone \cup Cut(sid, t1, t2) = gone \cup Cut(sid, t1, d)
        BY <1>5, <2>4, <2>5, <3>1
      <4> QED
        BY <1>4, <4>1
    <3>3. st = [q |-> p, k |-> k, stop |-> TRUE]
      BY <2>1, <2>5
    <3> QED
      BY <1>3, <1>5, <3>2, <3>3, StopOK
  <2>6. CASE ~(c2 >= t2)
    <3>1. Marked(p, gone \cup Cut(sid, t1, top))
      <4>1. gone \cup Cut(sid, t1, top) = gone \cup Cut(sid, t1, d)
        BY <1>10, <1>14, <2>4
      <4> QED
        BY <1>4, <4>1
    <3>2. st = IF p[k].s = 0 THEN [q |-> p, k |-> k, stop |-> TRUE]
               ELSE [q |-> p, k |-> LinkIndex(p, k), stop |-> FALSE]
      BY <2>1, <2>6
    <3>3. Continued(par, EndOf(p[k])) /\ c2 < t2 /\ c2 + 1 <= t2 /\ t1 <= c2 + 1
      BY <1>5, <1>10, <1>11, <1>13, <2>6
    <3>4. top <= t2 /\ Len(p) <= Len(q) + 1
      BY <1>4, <1>5, <1>10, <1>15, <3>3
    <3>5. DoneAt(par, q, gone, sid, t1, t2, i, p, k, top)
      BY <1>3, <1>4, <1>9, <1>15, <3>1, <3>3, <3>4 DEF DoneAt
    <3> QED
      BY <3>2, <3>5, OnwardOK
  <2> QED
    BY <2>5, <2>6
<1>18. CASE ~p[k].del /\ t1 <= c1 /\ t2 >= c2
  <2>1. PICK r : r = Kill(p, k)
    OBVIOUS
  <2>2. st = IF t2 <= c2 THEN [q |-> r, k |-> k, stop |-> TRUE]
             ELSE IF r[k].s = 0 THEN [q |-> r, k |-> k, stop |-> TRUE]
             ELSE [q |-> r, k |-> LinkIndex(r, k), stop |-> FALSE]
    BY <1>16, <1>18, <2>1 DEF IsRound
  <2>3. /\ IsCopy(r, par) /\ Len(r) = Len(p)
        /\ r[k].sid = p[k].sid /\ r[k].time = p[k].time /\ EndTime(r[k]) = EndTime(p[k])
        /\ Marked(r, (gone \cup Cut(sid, t1, d)) \cup Cut(sid, c1, c2))
    <3>1. /\ IsCopy(r, par) /\ Len(r) = Len(p)
          /\ r[k].sid = p[k].sid /\ r[k].time = p[k].time /\ EndTime(r[k]) = EndTime(p[k])
          /\ \A was2 : Marked(p, was2) => Marked(r, was2 \cup Cut(sid, c1, c2))
      BY <1>3, <1>6, <1>12, <2>1, KillOK
    <3> QED
      BY <1>4, <3>1
  <2>4. Marked(r, gone \cup Cut(sid, t1, top))
    <3>1. Cut(sid, t1, d) \cup Cut(sid, c1, c2) = Cut(sid, t1, top)
      BY <1>5, <1>10, <1>11, <1>14, <1>18, CutFacts
    <3>2. (gone \cup Cut(sid, t1, d)) \cup Cut(sid, c1, c2) = gone \cup Cut(sid, t1, top)
      BY <3>1
    <3> QED
      BY <2>3, <3>2
  <2>5. CASE t2 <= c2
    <3>1. top = t2
      BY <1>4, <1>5, <1>10, <1>14, <1>18, <2>5
    <3>2. st = [q |-> r, k |-> k, stop |-> TRUE]
      BY <2>2, <2>5
    <3> QED
      BY <1>5, <2>3, <2>4, <3>1, <3>2, StopOK
  <2>6. CASE ~(t2 <= c2)
    <3>1. st = IF r[k].s = 0 THEN [q |-> r, k |-> k, stop |-> TRUE]
               ELSE [q |-> r, k |-> LinkIndex(r, k), stop |-> FALSE]
      BY <2>2, <2>6
    <3>2. EndOf(r[k]) = EndOf(p[k])
      BY <2>3 DEF EndOf
    <3>3. Continued(par, EndOf(r[k])) /\ c2 + 1 <= t2 /\ t1 <= c2 + 1
      BY <1>5, <1>10, <1>11, <1>13, <2>6, <3>2
    <3>4. /\ top <= t2 /\ Len(r) <= Len(q) + 1 /\ k \in (i + 1)..Len(r)
          /\ EndTime(r[k]) = c2 /\ r[k].sid = sid
      BY <1>4, <1>5, <1>6, <1>9, <1>15, <1>18, <2>3
    <3>5. t1 <= EndTime(r[k]) + 1 /\ EndTime(r[k]) + 1 <= t2 /\ EndTime(r[k]) <= top
      BY <1>15, <3>3, <3>4
    <3>6. DoneAt(par, q, gone, sid, t1, t2, i, r, k, top)
      BY <1>15, <2>3, <2>4, <3>3, <3>4, <3>5 DEF DoneAt
    <3> QED
      BY <3>1, <3>6, OnwardOK
  <2> QED
    BY <2>5, <2>6
<1>19. CASE ~p[k].del /\ t1 <= c1 /\ t2 < c2
  <2>1. PICK ticks : ticks = t2 - c1 + 1
    OBVIOUS
  <2>2. PICK h : h = SplitChunk(p, k, ticks)
    OBVIOUS
  <2>3. PICK r : r = Kill(h, k)
    OBVIOUS
  <2>4. st = [q |-> r, k |-> k, stop |-> TRUE]
    BY <1>16, <1>19, <2>1, <2>2, <2>3 DEF IsRound
  <2>5. ticks \in 1..(p[k].span - 1) /\ c1 + ticks - 1 = t2
    BY <1>5, <1>10, <1>11, <1>19, <2>1
  <2>6. /\ IsCopy(h, par) /\ k \in 1..Len(h) /\ h[k].sid = p[k].sid /\ h[k].time = p[k].time
        /\ EndTime(h[k]) = p[k].time + ticks - 1 /\ Marked(h, gone \cup Cut(sid, t1, d))
    BY <1>3, <1>4, <1>6, <2>2, <2>5, SplitOK
  <2>7. {e \in Stamp : ContainsId(h[k], e)} = Cut(sid, c1, t2)
    <3>1. h \in Seq(Chunks)
      BY <2>6 DEF IsCopy, Tiles
    <3>2. h[k] \in Chunks
      BY <2>6, <3>1
    <3>3. \A e \in Stamp : ContainsId(h[k], e) <=>
            e.sid = h[k].sid /\ h[k].time <= e.time /\ e.time <= EndTime(h[k])
      BY <3>2, ChunkFacts
    <3>4. h[k].sid = sid /\ h[k].time = c1 /\ EndTime(h[k]) = t2
      BY <1>4, <1>8, <2>5, <2>6
    <3> QED
      BY <3>3, <3>4 DEF Cut
  <2>8. IsCopy(r, par) /\ Marked(r, (gone \cup Cut(sid, t1, d)) \cup Cut(sid, c1, t2))
    BY <2>3, <2>6, <2>7, KillOK
  <2>9. Marked(r, gone \cup Cut(sid, t1, t2))
    <3>1. (IF t2 > d THEN t2 ELSE d) = t2
      BY <1>4, <1>5
    <3>2. Cut(sid, t1, d) \cup Cut(sid, c1, t2) = Cut(sid, t1, t2)
      BY <1>5, <1>10, <1>11, <1>19, <3>1, CutFacts
    <3>3. (gone \cup Cut(sid, t1, d)) \cup Cut(sid, c1, t2) = gone \cup Cut(sid, t1, t2)
      BY <3>2
    <3> QED
      BY <2>8, <3>3
  <2> QED
    BY <1>5, <2>4, <2>8, <2>9, StopOK
<1>20. CASE ~p[k].del /\ c1 < t1 /\ t2 >= c2
  <2>1. PICK ticks : ticks = t1 - c1
    OBVIOUS
  <2>2. PICK h : h = SplitChunk(p, k, ticks)
    OBVIOUS
  <2>3. PICK n : n = k + 1
    OBVIOUS
  <2>4. PICK r : r = Kill(h, n)
    OBVIOUS
  <2>5. st = IF t2 <= c2 THEN [q |-> r, k |-> k, stop |-> TRUE]
             ELSE IF r[k].s = 0 THEN [q |-> r, k |-> k, stop |-> TRUE]
             ELSE [q |-> r, k |-> LinkIndex(r, k), stop |-> FALSE]
    BY <1>16, <1>20, <2>1, <2>2, <2>3, <2>4 DEF IsRound
  <2>6. ticks \in 1..(p[k].span - 1) /\ c1 + ticks = t1 /\ c1 + ticks - 1 = t1 - 1
    BY <1>5, <1>10, <1>11, <1>20, <2>1
  <2>7. /\ IsCopy(h, par) /\ Len(h) = Len(p) + 1 /\ k \in 1..Len(h) /\ n \in 1..Len(h)
        /\ h[k].sid = p[k].sid /\ EndTime(h[k]) = p[k].time + ticks - 1
        /\ h[n].sid = p[k].sid /\ h[n].time = p[k].time + ticks /\ EndTime(h[n]) = EndTime(p[k])
        /\ Marked(h, gone \cup Cut(sid, t1, d))
    BY <1>3, <1>4, <1>6, <2>2, <2>3, <2>6, SplitOK
  <2>8. {e \in Stamp : ContainsId(h[n], e)} = Cut(sid, t1, c2)
    <3>1. h \in Seq(Chunks)
      BY <2>7 DEF IsCopy, Tiles
    <3>2. h[n] \in Chunks
      BY <2>7, <3>1
    <3>3. \A e \in Stamp : ContainsId(h[n], e) <=>
            e.sid = h[n].sid /\ h[n].time <= e.time /\ e.time <= EndTime(h[n])
      BY <3>2, ChunkFacts
    <3>4. h[n].sid = sid /\ h[n].time = t1 /\ EndTime(h[n]) = c2
      BY <1>4, <1>8, <1>9, <2>6, <2>7
    <3> QED
      BY <3>3, <3>4 DEF Cut
  <2>9. /\ IsCopy(r, par) /\ Len(r) = Len(h) /\ r[k].sid = h[k].sid /\ EndTime(r[k]) = EndTime(h[k])
        /\ Marked(r, (gone \cup Cut(sid, t1, d)) \cup Cut(sid, t1, c2))
    <3>1. /\ IsCopy(r, par) /\ Len(r) = Len(h) /\ r[k].sid = h[k].sid /\ EndTime(r[k]) = EndTime(h[k])
          /\ \A was2 : Marked(h, was2) => Marked(r, was2 \cup Cut(sid, t1, c2))
      <4>1. IsCopy(h, par) /\ n \in 1..Len(h) /\ k \in 1..Len(h)
        BY <2>7
      <4>2. /\ IsCopy(r, par) /\ Len(r) = Len(h)
            /\ \A j \in 1..Len(h) : r[j].sid = h[j].sid /\ EndTime(r[j]) = EndTime(h[j])
            /\ \A was2 : Marked(h, was2) => Marked(r, was2 \cup Cut(sid, t1, c2))
        <5>1. r = Kill(h, n)
          BY <2>4
        <5>2. /\ IsCopy(r, par) /\ Len(r) = Len(h)
              /\ \A j \in 1..Len(h) : r[j].sid = h[j].sid /\ EndTime(r[j]) = EndTime(h[j])
              /\ \A was2 : Marked(h, was2) => Marked(r, was2 \cup {e \in Stamp : ContainsId(h[n], e)})
          BY ONLY IsTree(par), <4>1, <5>1, KillOK
        <5> QED
          BY <2>8, <5>2
      <4> QED
        BY <4>1, <4>2
    <3> QED
      BY <2>7, <3>1
  <2>10. Marked(r, gone \cup Cut(sid, t1, top))
    <3>1. Cut(sid, t1, d) \cup Cut(sid, t1, c2) = Cut(sid, t1, top)
      BY <1>4, <1>5, <1>10, <1>14, CutFacts
    <3>2. (gone \cup Cut(sid, t1, d)) \cup Cut(sid, t1, c2) = gone \cup Cut(sid, t1, top)
      BY <3>1
    <3> QED
      BY <2>9, <3>2
  <2>11. CASE t2 <= c2
    <3>1. top = t2
      BY <1>4, <1>5, <1>10, <1>14, <1>20, <2>11
    <3>2. st = [q |-> r, k |-> k, stop |-> TRUE]
      BY <2>5, <2>11
    <3> QED
      BY <1>5, <2>9, <2>10, <3>1, <3>2, StopOK
  <2>12. CASE ~(t2 <= c2)
    <3>1. st = IF r[k].s = 0 THEN [q |-> r, k |-> k, stop |-> TRUE]
               ELSE [q |-> r, k |-> LinkIndex(r, k), stop |-> FALSE]
      BY <2>5, <2>12
    <3>2. EndTime(r[k]) = t1 - 1 /\ r[k].sid = sid
      BY <1>4, <1>8, <2>6, <2>7, <2>9
    <3>3. Continued(par, EndOf(r[k]))
      <4>1. PICK e : e = EndOf(r[k])
        OBVIOUS
      <4>2. r \in Seq(Chunks) /\ k \in 1..Len(r)
        BY <2>7, <2>9 DEF IsCopy, Tiles
      <4>3. r[k] \in Chunks
        BY <4>2
      <4>4. e \in Stamp /\ e.sid = sid /\ e.time = t1 - 1
        BY <3>2, <4>1, <4>3, ChunkFacts
      <4>5. NextOf(e) \in Stamp /\ NextOf(e).sid = sid /\ NextOf(e).time = t1
        BY <1>5, <4>4, NextFacts
      <4>6. ContainsId(p[k], e) /\ ContainsId(p[k], NextOf(e))
        BY <1>5, <1>10, <1>11, <1>20, <4>4, <4>5
      <4>7. NextOf(e) \in DOMAIN par
        BY <1>5, <1>6, <4>5, <4>6 DEF Tiles
      <4>8. par[NextOf(e)] = e
        BY <1>3, <1>6, <4>4, <4>6 DEF IsCopy, Runs
      <4> QED
        BY <4>1, <4>7, <4>8 DEF Continued
    <3>4. /\ top <= t2 /\ Len(r) <= Len(q) + 1 /\ k \in (i + 1)..Len(r)
      BY <1>4, <1>5, <1>6, <1>8, <1>10, <1>15, <1>20, <2>7, <2>9
    <3>5. t1 <= EndTime(r[k]) + 1 /\ EndTime(r[k]) + 1 <= t2 /\ EndTime(r[k]) <= top
      BY <1>5, <1>15, <3>2
    <3>6. DoneAt(par, q, gone, sid, t1, t2, i, r, k, top)
      BY <1>15, <2>9, <2>10, <3>2, <3>3, <3>4, <3>5 DEF DoneAt
    <3> QED
      BY <3>1, <3>6, OnwardOK
  <2> QED
    BY <2>11, <2>12
<1>21. CASE ~p[k].del /\ c1 < t1 /\ t2 < c2
  <2>1. PICK ticks : ticks = t2 - c1 + 1
    OBVIOUS
  <2>2. PICK h : h = SplitChunk(p, k, ticks)
    OBVIOUS
  <2>3. PICK ticks2 : ticks2 = t1 - c1
    OBVIOUS
  <2>4. PICK g : g = SplitChunk(h, k, ticks2)
    OBVIOUS
  <2>5. PICK n : n = k + 1
    OBVIOUS
  <2>6. PICK r : r = Kill(g, n)
    OBVIOUS
  <2>7. st = [q |-> r, k |-> k, stop |-> TRUE]
    BY <1>16, <1>21, <2>1, <2>2, <2>3, <2>4, <2>5, <2>6 DEF IsRound
  <2>8. ticks \in 1..(p[k].span - 1) /\ c1 + ticks - 1 = t2
    BY <1>5, <1>10, <1>11, <1>21, <2>1
  <2>9. /\ IsCopy(h, par) /\ k \in 1..Len(h) /\ h[k].sid = p[k].sid /\ h[k].time = p[k].time
        /\ EndTime(h[k]) = p[k].time + ticks - 1 /\ h[k].span = ticks
        /\ Marked(h, gone \cup Cut(sid, t1, d))
    BY <1>3, <1>4, <1>6, <2>2, <2>8, SplitOK
  <2>10. ticks2 \in 1..(h[k].span - 1) /\ c1 + ticks2 = t1
    BY <1>5, <1>10, <1>11, <1>21, <2>1, <2>3, <2>9
  <2>11. /\ IsCopy(g, par) /\ n \in 1..Len(g)
         /\ g[n].sid = h[k].sid /\ g[n].time = h[k].time + ticks2 /\ EndTime(g[n]) = EndTime(h[k])
         /\ Marked(g, gone \cup Cut(sid, t1, d))
    BY <2>4, <2>5, <2>9, <2>10, SplitOK
  <2>12. {e \in Stamp : ContainsId(g[n], e)} = Cut(sid, t1, t2)
    <3>1. g \in Seq(Chunks)
      BY <2>11 DEF IsCopy, Tiles
    <3>2. g[n] \in Chunks
      BY <2>11, <3>1
    <3>3. \A e \in Stamp : ContainsId(g[n], e) <=>
            e.sid = g[n].sid /\ g[n].time <= e.time /\ e.time <= EndTime(g[n])
      BY <3>2, ChunkFacts
    <3>4. g[n].sid = sid /\ g[n].time = t1 /\ EndTime(g[n]) = t2
      BY <1>4, <1>8, <2>8, <2>9, <2>10, <2>11
    <3> QED
      BY <3>3, <3>4 DEF Cut
  <2>13. IsCopy(r, par) /\ Marked(r, (gone \cup Cut(sid, t1, d)) \cup Cut(sid, t1, t2))
    BY <2>6, <2>11, <2>12, KillOK
  <2>14. Marked(r, gone \cup Cut(sid, t1, t2))
    <3>1. (IF t2 > d THEN t2 ELSE d) = t2
      BY <1>4, <1>5
    <3>2. Cut(sid, t1, d) \cup Cut(sid, t1, t2) = Cut(sid, t1, t2)
      BY <1>4, <1>5, <3>1, CutFacts
    <3>3. (gone \cup Cut(sid, t1, d)) \cup Cut(sid, t1, t2) = gone \cup Cut(sid, t1, t2)
      BY <3>2
    <3> QED
      BY <2>13, <3>3
  <2> QED
    BY <1>5, <2>7, <2>13, <2>14, StopOK
<1> QED
  BY <1>5, <1>10, <1>17, <1>18, <1>19, <1>20, <1>21

\* The loop of deleteSpan()
LEMMA DeleteFromOK ==
  ASSUME NEW par, IsTree(par), NEW sid, NEW t1, NEW t2, IsInterval(par, sid, t1, t2),
         NEW q, IsCopy(q, par), NEW gone, Marked(q, gone),
         NEW k \in 1..Len(q), ContainsId(q[k], [sid |-> sid, time |-> t1]),
         NEW st, st = DeleteFrom(q, k, t1, t2)
  PROVE  IsCopy(st.q, par) /\ Marked(st.q, gone \cup Cut(sid, t1, t2))
<1>1. q \in Seq(Chunks) /\ Len(q) \in Nat /\ t1 \in Nat /\ t2 \in Nat /\ t1 <= t2 /\ sid \in Sid
  BY DEF IsCopy, Tiles, IsInterval
<1>2. PICK n : n = Len(q) + 1
  OBVIOUS
<1>3. PICK base : base = [q |-> q, k |-> k, stop |-> FALSE]
  OBVIOUS
<1>4. n \in Nat
  BY <1>1, <1>2
<1> DEFINE next(s) == IF s.stop THEN s ELSE DeleteRound(s.q, s.k, t1, t2)
           after[i \in 0..(Len(q) + 1)] ==
             IF i = 0 THEN [q |-> q, k |-> k, stop |-> FALSE] ELSE next(after[i - 1])
<1>5. st = after[Len(q) + 1]
  BY DEF DeleteFrom
<1>6. ASSUME NEW i \in Nat, NEW was, DeletedTo(par, q, gone, sid, t1, t2, i, was)
      PROVE  DeletedTo(par, q, gone, sid, t1, t2, i + 1, next(was))
  <2>1. CASE was.stop
    BY <1>6, <2>1 DEF DeletedTo
  <2>2. CASE ~was.stop
    <3>1. was.stop = FALSE
      BY <1>6, <2>2 DEF DeletedTo
    <3>2. next(was) = DeleteRound(was.q, was.k, t1, t2)
      BY <2>2
    <3> HIDE DEF next
    <3> QED
      BY <1>1, <1>6, <3>1, <3>2, DeleteRoundOK
  <2> QED
    BY <2>1, <2>2
<1>7. DeletedTo(par, q, gone, sid, t1, t2, 0, base)
  <2>1. q[k] \in Chunks
    BY <1>1
  <2>2. q[k].time \in Nat /\ q[k].span \in Nat /\ EndTime(q[k]) + 1 = q[k].time + q[k].span /\ EndTime(q[k]) \in Nat
    BY <2>1, ChunkFacts
  <2>3. q[k].sid = sid /\ q[k].time <= t1 /\ t1 < q[k].time + q[k].span
    BY DEF ContainsId
  <2>4. gone \cup Cut(sid, t1, t1 - 1) = gone
    <3>1. \A e \in Stamp : e.time \in Nat
      BY StampFacts
    <3> QED
      BY <1>1, <3>1 DEF Cut
  <2>5. base.q = q /\ base.k = k /\ base.stop = FALSE
    BY <1>3
  <2>6. PICK d : d = t1 - 1
    OBVIOUS
  <2>7. /\ d \in Int /\ t1 - 1 <= d /\ d <= t2 /\ Marked(q, gone \cup Cut(sid, t1, d))
        /\ k \in (0 + 1)..Len(q) /\ q[k].time <= d + 1 /\ q[k].time <= t2 /\ t1 <= EndTime(q[k])
        /\ Len(q) <= Len(q)
    <3>1. Marked(q, gone \cup Cut(sid, t1, d))
      BY <2>4, <2>6
    <3>2. k \in (0 + 1)..Len(q)
      BY <1>1
    <3>3. /\ d \in Int /\ t1 - 1 <= d /\ d <= t2
          /\ q[k].time <= d + 1 /\ q[k].time <= t2 /\ t1 <= EndTime(q[k]) /\ Len(q) <= Len(q)
      BY ONLY <1>1, <2>2, <2>3, <2>6
    <3> QED
      BY <3>1, <3>2, <3>3
  <2> QED
    BY <2>3, <2>5, <2>7 DEF DeletedTo
<1>8. \E f : f = [i \in 0..n |-> IF i = 0 THEN base ELSE next(f[i - 1])]
  <2> HIDE DEF next
  <2> DEFINE S == {m \in Nat : \E f : f = [i \in 0..m |-> IF i = 0 THEN base ELSE next(f[i - 1])]}
  <2>1. 0 \in S
    <3>1. [i \in 0..0 |-> base] = [i \in 0..0 |-> IF i = 0 THEN base ELSE next([j \in 0..0 |-> base][i - 1])]
      OBVIOUS
    <3> QED
      BY <3>1
  <2>2. ASSUME NEW m \in 0..(n - 1), m \in S PROVE (m + 1) \in S
    <3>1. PICK f : f = [i \in 0..m |-> IF i = 0 THEN base ELSE next(f[i - 1])]
      BY <2>2
    <3>2. PICK g : g = [i \in 0..(m + 1) |-> IF i <= m THEN f[i] ELSE next(f[m])]
      OBVIOUS
    <3>3. m \in Nat
      BY <1>4
    <3>4. ASSUME NEW i \in 0..(m + 1) PROVE g[i] = IF i = 0 THEN base ELSE next(g[i - 1])
      <4>1. CASE i = 0
        <5>1. i \in 0..m
          BY <3>3, <4>1
        <5>2. g[i] = f[i]
          BY <3>2, <3>3, <5>1
        <5> QED
          BY <3>1, <4>1, <5>1, <5>2
      <4>2. CASE i # 0
        <5>1. i - 1 \in 0..m /\ i - 1 \in 0..(m + 1) /\ g[i - 1] = f[i - 1]
          BY <3>2, <3>3, <4>2
        <5>2. CASE i <= m
          <6>1. i \in 0..m /\ g[i] = f[i]
            BY <3>2, <3>3, <5>2
          <6>2. f[i] = next(f[i - 1])
            BY <3>1, <4>2, <6>1
          <6> QED
            BY <4>2, <5>1, <6>1, <6>2
        <5>3. CASE ~(i <= m)
          <6>1. i - 1 = m /\ g[i] = next(f[m])
            BY <3>2, <3>3, <5>3
          <6> QED
            BY <4>2, <5>1, <6>1
        <5> QED
          BY <5>2, <5>3
      <4> QED
        BY <4>1, <4>2
    <3>5. g = [i \in 0..(m + 1) |-> IF i = 0 THEN base ELSE next(g[i - 1])]
      BY <3>2, <3>4
    <3> QED
      BY <3>3, <3>5
  <2> HIDE DEF S
  <2>3. n \in S
    <3>1. \A i \in 0..n : i \in S
      BY ONLY <1>4, <2>1, <2>2, Upward
    <3> QED
      BY <1>4, <3>1
  <2> QED
    BY <2>3 DEF S
<1>9. after = [i \in 0..n |-> IF i = 0 THEN base ELSE next(after[i - 1])]
  <2> HIDE DEF next
  <2> QED
    BY <1>2, <1>3, <1>8
<1> HIDE DEF after
<1>10. \A i \in 0..n : after[i] = IF i = 0 THEN base ELSE next(after[i - 1])
  <2> HIDE DEF next
  <2> QED
    BY <1>9
<1> HIDE DEF next
<1> DEFINE R == {i \in 0..n : DeletedTo(par, q, gone, sid, t1, t2, i, after[i])}
<1>11. 0 \in R
  BY <1>4, <1>7, <1>10
<1>12. ASSUME NEW i \in 0..(n - 1), i \in R PROVE (i + 1) \in R
  <2>1. i \in Nat /\ (i + 1) \in 0..n /\ (i + 1) - 1 = i /\ i + 1 # 0
    BY <1>4
  <2>2. after[i + 1] = next(after[i])
    BY <1>10, <2>1
  <2>3. DeletedTo(par, q, gone, sid, t1, t2, i + 1, next(after[i]))
    BY <1>6, <1>12, <2>1
  <2> QED
    BY <2>1, <2>2, <2>3
<1>13. DeletedTo(par, q, gone, sid, t1, t2, n, st)
  <2> HIDE DEF R
  <2>1. \A i \in 0..n : i \in R
    BY ONLY <1>4, <1>11, <1>12, Upward
  <2>2. n \in R
    BY <1>4, <2>1
  <2> QED
    BY <1>2, <1>5, <2>2 DEF R
<1>14. st.stop
  <2> SUFFICES ASSUME ~st.stop PROVE FALSE
    OBVIOUS
  <2>1. st.k \in (n + 1)..Len(st.q) /\ Len(st.q) <= Len(q) + 1
    <3>1. PICK d \in Int :
            /\ st.k \in (n + 1)..Len(st.q)
            /\ Len(st.q) <= Len(q) \/ (Len(st.q) <= Len(q) + 1 /\ t1 <= st.q[st.k].time)
      BY <1>13 DEF DeletedTo
    <3>2. Len(st.q) \in Nat
      BY <1>13 DEF DeletedTo, IsCopy, Tiles
    <3> QED
      BY <1>1, <3>1, <3>2
  <2>2. Len(st.q) \in Nat
    BY <1>13 DEF DeletedTo, IsCopy, Tiles
  <2> QED
    BY <1>1, <1>2, <2>1, <2>2
<1> QED
  BY <1>13, <1>14 DEF DeletedTo

\* What the loop of mergeTombstones2() keeps
MergedSoFar(par, gone, st) ==
  /\ IsCopy(st.q, par) /\ Marked(st.q, gone) /\ st.stop \in BOOLEAN
  /\ ~st.stop => st.k \in 1..Len(st.q)

LEMMA MergeRoundOK ==
  ASSUME NEW par, IsTree(par), NEW gone, NEW was, MergedSoFar(par, gone, was), was.stop = FALSE,
         NEW end
  PROVE  MergedSoFar(par, gone, MergeRound(was.q, was.k, end))
<1>1. PICK q : q = was.q
  OBVIOUS
<1>2. PICK k : k = was.k
  OBVIOUS
<1>3. IsCopy(q, par) /\ Marked(q, gone) /\ k \in 1..Len(q) /\ k \in Int
  BY <1>1, <1>2 DEF MergedSoFar
<1>4. Len(q) \in Nat
  BY <1>3 DEF IsCopy, Tiles
<1>5. PICK st : st = MergeRound(q, k, end)
  OBVIOUS
<1>6. ASSUME NEW p, IsCopy(p, par), Marked(p, gone), st = [q |-> p, k |-> k, stop |-> TRUE]
      PROVE  MergedSoFar(par, gone, st)
  <2>1. st.q = p /\ st.stop = TRUE
    BY <1>6
  <2> QED
    BY <1>6, <2>1 DEF MergedSoFar
<1>7. ASSUME NEW p, IsCopy(p, par), Marked(p, gone), NEW m \in 1..Len(p),
             st = [q |-> p, k |-> m, stop |-> FALSE]
      PROVE  MergedSoFar(par, gone, st)
  <2>1. st.q = p /\ st.k = m /\ st.stop = FALSE
    BY <1>7
  <2> QED
    BY <1>7, <2>1 DEF MergedSoFar
<1>8. CASE k = Len(q)
  <2>1. st = [q |-> q, k |-> k, stop |-> TRUE]
    BY <1>5, <1>8 DEF MergeRound
  <2> QED
    BY <1>1, <1>2, <1>3, <1>5, <1>6, <2>1
<1>9. CASE k # Len(q) /\ Mergeable(q[k], q[k + 1])
  <2>1. PICK p : p = MergeAt(q, k)
    OBVIOUS
  <2>2. st = [q |-> p, k |-> k, stop |-> FALSE]
    BY <1>5, <1>9, <2>1 DEF MergeRound
  <2>3. k \in 1..(Len(q) - 1)
    BY <1>3, <1>4, <1>9
  <2>4. IsCopy(p, par) /\ Marked(p, gone) /\ Len(p) = Len(q) - 1
    BY <1>3, <1>9, <2>1, <2>3, MergeAtOK
  <2>5. k \in 1..Len(p)
    BY <2>3, <2>4
  <2> QED
    BY <1>1, <1>2, <1>5, <1>7, <2>2, <2>4, <2>5
<1>10. CASE k # Len(q) /\ ~Mergeable(q[k], q[k + 1]) /\ Id(q[k + 1]) = end
  <2>1. PICK m : m = k + 1
    OBVIOUS
  <2>2. PICK p : p = MergeAt(q, m)
    OBVIOUS
  <2>3. st = [q |-> p, k |-> k, stop |-> TRUE]
    BY <1>5, <1>10, <2>1, <2>2 DEF MergeRound
  <2>4. m \in Int
    BY <1>3, <2>1
  <2>5. IsCopy(p, par) /\ Marked(p, gone)
    BY <1>3, <2>2, <2>4, MergeAtOK
  <2> QED
    BY <1>1, <1>2, <1>5, <1>6, <2>3, <2>5
<1>11. CASE k # Len(q) /\ ~Mergeable(q[k], q[k + 1]) /\ Id(q[k + 1]) # end
  <2>1. CASE q[k].s = 0
    <3>1. st = [q |-> q, k |-> k, stop |-> TRUE]
      BY <1>5, <1>11, <2>1 DEF MergeRound
    <3> QED
      BY <1>1, <1>2, <1>3, <1>5, <1>6, <3>1
  <2>2. CASE q[k].s # 0
    <3>1. st = [q |-> q, k |-> LinkIndex(q, k), stop |-> FALSE]
      BY <1>5, <1>11, <2>2 DEF MergeRound
    <3>2. Continued(par, EndOf(q[k]))
      BY <1>3, <2>2 DEF IsCopy, Linked
    <3>3. LinkIndex(q, k) \in (k + 1)..Len(q)
      BY <1>3, <3>2, LinkOK
    <3>4. LinkIndex(q, k) \in 1..Len(q)
      BY <1>3, <3>3
    <3> QED
      BY <1>1, <1>2, <1>3, <1>5, <1>7, <3>1, <3>4
  <2> QED
    BY <2>1, <2>2
<1> QED
  BY <1>8, <1>9, <1>10, <1>11

LEMMA MergeFromOK ==
  ASSUME NEW par, IsTree(par), NEW q, IsCopy(q, par), NEW gone, Marked(q, gone),
         NEW k \in 1..Len(q), NEW end, NEW p, p = MergeFrom(q, k, end)
  PROVE  IsCopy(p, par) /\ Marked(p, gone)
<1>1. Len(q) \in Nat
  BY DEF IsCopy, Tiles
<1>2. PICK n : n = Len(q)
  OBVIOUS
<1>3. PICK base : base = [q |-> q, k |-> k, stop |-> FALSE]
  OBVIOUS
<1>4. n \in Nat
  BY <1>1, <1>2
<1> DEFINE next(s) == IF s.stop THEN s ELSE MergeRound(s.q, s.k, end)
           after[i \in 0..Len(q)] ==
             IF i = 0 THEN [q |-> q, k |-> k, stop |-> FALSE] ELSE next(after[i - 1])
<1>5. p = after[Len(q)].q
  BY DEF MergeFrom
<1>6. ASSUME NEW was, MergedSoFar(par, gone, was) PROVE MergedSoFar(par, gone, next(was))
  <2>1. CASE was.stop
    BY <1>6, <2>1
  <2>2. CASE ~was.stop
    <3>1. was.stop = FALSE
      BY <1>6, <2>2 DEF MergedSoFar
    <3>2. next(was) = MergeRound(was.q, was.k, end)
      BY <2>2
    <3> HIDE DEF next
    <3> QED
      BY <1>6, <3>1, <3>2, MergeRoundOK
  <2> QED
    BY <2>1, <2>2
<1>7. MergedSoFar(par, gone, base)
  <2>1. base.q = q /\ base.k = k /\ base.stop = FALSE
    BY <1>3
  <2> QED
    BY <2>1 DEF MergedSoFar
<1>8. \E f : f = [i \in 0..n |-> IF i = 0 THEN base ELSE next(f[i - 1])]
  <2> HIDE DEF next
  <2> DEFINE S == {m \in Nat : \E f : f = [i \in 0..m |-> IF i = 0 THEN base ELSE next(f[i - 1])]}
  <2>1. 0 \in S
    <3>1. [i \in 0..0 |-> base] = [i \in 0..0 |-> IF i = 0 THEN base ELSE next([j \in 0..0 |-> base][i - 1])]
      OBVIOUS
    <3> QED
      BY <3>1
  <2>2. ASSUME NEW m \in 0..(n - 1), m \in S PROVE (m + 1) \in S
    <3>1. PICK f : f = [i \in 0..m |-> IF i = 0 THEN base ELSE next(f[i - 1])]
      BY <2>2
    <3>2. PICK g : g = [i \in 0..(m + 1) |-> IF i <= m THEN f[i] ELSE next(f[m])]
      OBVIOUS
    <3>3. m \in Nat
      BY <1>4
    <3>4. ASSUME NEW i \in 0..(m + 1) PROVE g[i] = IF i = 0 THEN base ELSE next(g[i - 1])
      <4>1. CASE i = 0
        <5>1. i \in 0..m
          BY <3>3, <4>1
        <5>2. g[i] = f[i]
          BY <3>2, <3>3, <5>1
        <5> QED
          BY <3>1, <4>1, <5>1, <5>2
      <4>2. CASE i # 0
        <5>1. i - 1 \in 0..m /\ i - 1 \in 0..(m + 1) /\ g[i - 1] = f[i - 1]
          BY <3>2, <3>3, <4>2
        <5>2. CASE i <= m
          <6>1. i \in 0..m /\ g[i] = f[i]
            BY <3>2, <3>3, <5>2
          <6>2. f[i] = next(f[i - 1])
            BY <3>1, <4>2, <6>1
          <6> QED
            BY <4>2, <5>1, <6>1, <6>2
        <5>3. CASE ~(i <= m)
          <6>1. i - 1 = m /\ g[i] = next(f[m])
            BY <3>2, <3>3, <5>3
          <6> QED
            BY <4>2, <5>1, <6>1
        <5> QED
          BY <5>2, <5>3
      <4> QED
        BY <4>1, <4>2
    <3>5. g = [i \in 0..(m + 1) |-> IF i = 0 THEN base ELSE next(g[i - 1])]
      BY <3>2, <3>4
    <3> QED
      BY <3>3, <3>5
  <2> HIDE DEF S
  <2>3. n \in S
    <3>1. \A i \in 0..n : i \in S
      BY ONLY <1>4, <2>1, <2>2, Upward
    <3> QED
      BY <1>4, <3>1
  <2> QED
    BY <2>3 DEF S
<1>9. after = [i \in 0..n |-> IF i = 0 THEN base ELSE next(after[i - 1])]
  <2> HIDE DEF next
  <2> QED
    BY <1>2, <1>3, <1>8
<1> HIDE DEF after
<1>10. \A i \in 0..n : after[i] = IF i = 0 THEN base ELSE next(after[i - 1])
  <2> HIDE DEF next
  <2> QED
    BY <1>9
<1> HIDE DEF next
<1> DEFINE R == {i \in 0..n : MergedSoFar(par, gone, after[i])}
<1>11. 0 \in R
  BY <1>4, <1>7, <1>10
<1>12. ASSUME NEW i \in 0..(n - 1), i \in R PROVE (i + 1) \in R
  <2>1. i \in Nat /\ (i + 1) \in 0..n /\ (i + 1) - 1 = i /\ i + 1 # 0
    BY <1>4
  <2>2. after[i + 1] = next(after[i])
    BY <1>10, <2>1
  <2>3. MergedSoFar(par, gone, next(after[i]))
    BY <1>6, <1>12
  <2> QED
    BY <2>1, <2>2, <2>3
<1>13. MergedSoFar(par, gone, after[n])
  <2> HIDE DEF R
  <2>1. \A i \in 0..n : i \in R
    BY ONLY <1>4, <1>11, <1>12, Upward
  <2>2. n \in R
    BY <1>4, <2>1
  <2> QED
    BY <2>2 DEF R
<1> QED
  BY <1>2, <1>5, <1>13 DEF MergedSoFar

LEMMA MergeTombstones2OK ==
  ASSUME NEW par, IsTree(par), NEW q, IsCopy(q, par), NEW gone, Marked(q, gone),
         NEW start \in DOMAIN par, NEW end, NEW p, p = MergeTombstones2(q, start, end)
  PROVE  IsCopy(p, par) /\ Marked(p, gone)
<1>1. DOMAIN par \subseteq Stamp
  BY DEF IsTree
<1>2. PICK k : k = FindById(q, start)
  OBVIOUS
<1>3. k \in 1..Len(q)
  BY <1>1, <1>2, TilesFacts DEF IsCopy
<1>4. PICK r : r = MergeFrom(q, k, end)
  OBVIOUS
<1>5. IsCopy(r, par) /\ Marked(r, gone)
  BY <1>3, <1>4, MergeFromOK
<1>6. PICK m : m = FindById(r, start) - 1
  OBVIOUS
<1>7. m \in Int
  <2>1. FindById(r, start) \in 1..Len(r)
    BY <1>1, <1>5, TilesFacts DEF IsCopy
  <2> QED
    BY <1>6, <2>1
<1>8. p = MergeAt(r, m)
  BY <1>2, <1>4, <1>6 DEF MergeTombstones2
<1> QED
  BY <1>5, <1>7, <1>8, MergeAtOK

LEMMA DeleteSpanOK ==
  ASSUME NEW par, IsTree(par), NEW q, IsCopy(q, par), NEW gone, Marked(q, gone),
         NEW span, IsInterval(par, span.sid, span.time, span.time + span.span - 1),
         NEW p, p = DeleteSpan(q, span)
  PROVE  IsCopy(p, par) /\ Marked(p, gone \cup Cut(span.sid, span.time, span.time + span.span - 1))
<1>1. PICK sid : sid = span.sid
  OBVIOUS
<1>2. PICK t1 : t1 = span.time
  OBVIOUS
<1>3. PICK t2 : t2 = span.time + span.span - 1
  OBVIOUS
<1>4. PICK e : e = [sid |-> sid, time |-> t1]
  OBVIOUS
<1>5. IsInterval(par, sid, t1, t2)
  BY <1>1, <1>2, <1>3
<1>6. DOMAIN par \subseteq Stamp /\ Tiles(q, DOMAIN par)
  BY DEF IsTree, IsCopy
<1>7. e \in DOMAIN par
  <2>1. e \in Cut(sid, t1, t2)
    BY <1>4, <1>5 DEF IsInterval, Cut, Stamp
  <2> QED
    BY <1>5, <2>1 DEF IsInterval
<1>8. PICK k : k = FindById(q, e)
  OBVIOUS
<1>9. k \in 1..Len(q) /\ ContainsId(q[k], e) /\ k # 0 /\ Id(q[k]) \in DOMAIN par
  <2>1. k \in 1..Len(q) /\ ContainsId(q[k], e) /\ Len(q) \in Nat
    BY <1>6, <1>7, <1>8, TilesFacts
  <2> QED
    BY <1>6, <2>1, TilesFacts
<1>10. PICK done : done = DeleteFrom(q, k, t1, t2)
  OBVIOUS
<1>11. IsCopy(done.q, par) /\ Marked(done.q, gone \cup Cut(sid, t1, t2))
  BY <1>4, <1>5, <1>9, <1>10, DeleteFromOK
<1>12. p = MergeTombstones2(done.q, Id(q[k]), Id(done.q[done.k]))
  BY <1>1, <1>2, <1>3, <1>4, <1>8, <1>9, <1>10 DEF DeleteSpan
<1> QED
  BY <1>1, <1>2, <1>3, <1>9, <1>11, <1>12, MergeTombstones2OK

SpanCut(span) == Cut(span.sid, span.time, span.time + span.span - 1)
AllCut(spans, n) == UNION {SpanCut(spans[i]) : i \in 1..n}

LEMMA DeleteOK ==
  ASSUME NEW par, IsTree(par), NEW q, IsCopy(q, par), NEW gone, Marked(q, gone),
         NEW spans, Len(spans) \in Nat,
         \A i \in 1..Len(spans) :
           IsInterval(par, spans[i].sid, spans[i].time, spans[i].time + spans[i].span - 1),
         NEW p, p = Delete(q, spans)
  PROVE  IsCopy(p, par) /\ Marked(p, gone \cup AllCut(spans, Len(spans)))
<1>1. PICK base : base = q
  OBVIOUS
<1>2. PICK n : n = Len(spans)
  OBVIOUS
<1>3. n \in Nat
  BY <1>2
<1> DEFINE next(s, i) == DeleteSpan(s, spans[i])
           after[i \in 0..Len(spans)] == IF i = 0 THEN q ELSE next(after[i - 1], i)
<1>4. p = after[Len(spans)]
  BY DEF Delete
<1>5. ASSUME NEW i \in 1..n, NEW was, IsCopy(was, par), NEW lost, Marked(was, lost)
      PROVE  IsCopy(next(was, i), par) /\ Marked(next(was, i), lost \cup SpanCut(spans[i]))
  BY <1>2, <1>5, DeleteSpanOK DEF SpanCut
<1>7. \E f : f = [i \in 0..n |-> IF i = 0 THEN base ELSE next(f[i - 1], i)]
  <2> HIDE DEF next
  <2> DEFINE S == {m \in Nat : \E f : f = [i \in 0..m |-> IF i = 0 THEN base ELSE next(f[i - 1], i)]}
  <2>1. 0 \in S
    <3>1. [i \in 0..0 |-> base] = [i \in 0..0 |-> IF i = 0 THEN base ELSE next([j \in 0..0 |-> base][i - 1], i)]
      OBVIOUS
    <3> QED
      BY <3>1
  <2>2. ASSUME NEW m \in 0..(n - 1), m \in S PROVE (m + 1) \in S
    <3>1. PICK f : f = [i \in 0..m |-> IF i = 0 THEN base ELSE next(f[i - 1], i)]
      BY <2>2
    <3>2. PICK g : g = [i \in 0..(m + 1) |-> IF i <= m THEN f[i] ELSE next(f[m], m + 1)]
      OBVIOUS
    <3>3. m \in Nat
      BY <1>3
    <3>4. ASSUME NEW i \in 0..(m + 1) PROVE g[i] = IF i = 0 THEN base ELSE next(g[i - 1], i)
      <4>1. CASE i = 0
        <5>1. i \in 0..m
          BY <3>3, <4>1
        <5>2. g[i] = f[i]
          BY <3>2, <3>3, <5>1
        <5> QED
          BY <3>1, <4>1, <5>1, <5>2
      <4>2. CASE i # 0
        <5>1. i - 1 \in 0..m /\ i - 1 \in 0..(m + 1) /\ g[i - 1] = f[i - 1]
          BY <3>2, <3>3, <4>2
        <5>2. CASE i <= m
          <6>1. i \in 0..m /\ g[i] = f[i]
            BY <3>2, <3>3, <5>2
          <6>2. f[i] = next(f[i - 1], i)
            BY <3>1, <4>2, <6>1
          <6> QED
            BY <4>2, <5>1, <6>1, <6>2
        <5>3. CASE ~(i <= m)
          <6>1. i - 1 = m /\ i = m + 1 /\ g[i] = next(f[m], m + 1)
            BY <3>2, <3>3, <5>3
          <6> QED
            BY <4>2, <5>1, <6>1
        <5> QED
          BY <5>2, <5>3
      <4> QED
        BY <4>1, <4>2
    <3>5. g = [i \in 0..(m + 1) |-> IF i = 0 THEN base ELSE next(g[i - 1], i)]
      BY <3>2, <3>4
    <3> QED
      BY <3>3, <3>5
  <2> HIDE DEF S
  <2>3. n \in S
    <3>1. \A i \in 0..n : i \in S
      BY ONLY <1>3, <2>1, <2>2, Upward
    <3> QED
      BY <1>3, <3>1
  <2> QED
    BY <2>3 DEF S
<1>8. after = [i \in 0..n |-> IF i = 0 THEN base ELSE next(after[i - 1], i)]
  <2> HIDE DEF next
  <2> QED
    BY <1>1, <1>2, <1>7
<1> HIDE DEF after
<1>9. \A i \in 0..n : after[i] = IF i = 0 THEN base ELSE next(after[i - 1], i)
  <2> HIDE DEF next
  <2> QED
    BY <1>8
<1> HIDE DEF next
<1> DEFINE R == {i \in 0..n : IsCopy(after[i], par) /\ Marked(after[i], gone \cup AllCut(spans, i))}
<1>10. 0 \in R
  <2>1. AllCut(spans, 0) = {}
    BY DEF AllCut
  <2>2. gone \cup AllCut(spans, 0) = gone
    BY <2>1
  <2>3. after[0] = q /\ 0 \in 0..n
    BY <1>1, <1>3, <1>9
  <2> QED
    BY <2>2, <2>3
<1>11. ASSUME NEW i \in 0..(n - 1), i \in R PROVE (i + 1) \in R
  <2>1. i \in Nat /\ (i + 1) \in 0..n /\ (i + 1) - 1 = i /\ i + 1 # 0 /\ (i + 1) \in 1..n
    BY <1>3
  <2>2. after[i + 1] = next(after[i], i + 1)
    BY <1>9, <2>1
  <2>3. IsCopy(after[i], par) /\ Marked(after[i], gone \cup AllCut(spans, i))
    BY <1>11
  <2>4. PICK m : m = i + 1
    OBVIOUS
  <2>5. IsCopy(next(after[i], m), par) /\ Marked(next(after[i], m), (gone \cup AllCut(spans, i)) \cup SpanCut(spans[m]))
    BY <1>5, <2>1, <2>3, <2>4
  <2>6. AllCut(spans, m) = AllCut(spans, i) \cup SpanCut(spans[m])
    <3>1. 1..m = (1..i) \cup {m}
      BY <2>1, <2>4
    <3> QED
      BY <3>1 DEF AllCut
  <2>7. (gone \cup AllCut(spans, i)) \cup SpanCut(spans[m]) = gone \cup AllCut(spans, m)
    BY <2>6
  <2>8. IsCopy(after[m], par) /\ Marked(after[m], gone \cup AllCut(spans, m))
    BY <2>2, <2>4, <2>5, <2>7
  <2> QED
    BY <2>1, <2>4, <2>8
<1>12. IsCopy(after[n], par) /\ Marked(after[n], gone \cup AllCut(spans, n))
  <2> HIDE DEF R
  <2>1. \A i \in 0..n : i \in R
    BY ONLY <1>3, <1>10, <1>11, Upward
  <2>2. n \in R
    BY <1>3, <2>1
  <2> QED
    BY <2>2 DEF R
<1> QED
  BY <1>2, <1>4, <1>12

-----------------------------------------------------------------------------
(* Concatenations.                                                         *)

\* a[i] is the concatenation of the first i sequences of s, for i up to n.
ConcatUpTo(s, T, a, n) ==
  /\ a \in [0..n -> Seq(T)]
  /\ a[0] = <<>>
  /\ \A i \in 1..n : a[i] = a[i - 1] \o s[i]

IsConcat(s, T, a) == ConcatUpTo(s, T, a, Len(s))

LEMMA FlattenExists ==
  ASSUME NEW T, NEW s \in Seq(Seq(T))
  PROVE  \E a : IsConcat(s, T, a)
<1>1. PICK n \in Nat : n = Len(s)
  OBVIOUS
<1>2. \A i \in 1..n : s[i] \in Seq(T)
  BY <1>1
<1> DEFINE S == {m \in Nat : \E a : ConcatUpTo(s, T, a, m)}
<1>3. 0 \in S
  <2>1. PICK a : a = [i \in 0..0 |-> <<>>]
    OBVIOUS
  <2>2. a \in [0..0 -> Seq(T)] /\ a[0] = <<>>
    BY <2>1
  <2>3. 1..0 = {}
    OBVIOUS
  <2>4. ConcatUpTo(s, T, a, 0)
    BY <2>2, <2>3 DEF ConcatUpTo
  <2> QED
    BY <2>4
<1>4. ASSUME NEW m \in 0..(n - 1), m \in S PROVE (m + 1) \in S
  <2>1. PICK a : /\ a \in [0..m -> Seq(T)] /\ a[0] = <<>>
                 /\ \A i \in 1..m : a[i] = a[i - 1] \o s[i]
    BY <1>4 DEF ConcatUpTo
  <2>2. m \in Nat /\ m + 1 \in 1..n
    BY <1>1
  <2>3. PICK x : x = a[m] \o s[m + 1]
    OBVIOUS
  <2>4. a[m] \in Seq(T) /\ s[m + 1] \in Seq(T)
    BY <1>2, <2>1, <2>2
  <2>5. x \in Seq(T)
    BY <2>3, <2>4, ConcatProperties
  <2>6. PICK b : b = [i \in 0..(m + 1) |-> IF i <= m THEN a[i] ELSE x]
    OBVIOUS
  <2>7. b \in [0..(m + 1) -> Seq(T)]
    <3>1. ASSUME NEW i \in 0..(m + 1) PROVE (IF i <= m THEN a[i] ELSE x) \in Seq(T)
      BY <2>1, <2>2, <2>5
    <3> QED
      BY <2>6, <3>1
  <2>8. \A i \in 0..m : b[i] = a[i]
    BY <2>2, <2>6
  <2>9. b[0] = <<>>
    BY <2>1, <2>2, <2>8
  <2>10. ASSUME NEW i \in 1..(m + 1) PROVE b[i] = b[i - 1] \o s[i]
    <3>1. i - 1 \in 0..m /\ b[i - 1] = a[i - 1]
      BY <2>2, <2>8
    <3>2. CASE i <= m
      <4>1. i \in 1..m /\ i \in 0..m
        BY <2>2, <3>2
      <4>2. b[i] = a[i]
        BY <2>8, <4>1
      <4> QED
        BY <2>1, <3>1, <4>1, <4>2
    <3>3. CASE ~(i <= m)
      <4>1. i = m + 1 /\ i - 1 = m /\ i \in 0..(m + 1)
        BY <2>2, <3>3
      <4>2. b[i] = x
        BY <2>6, <3>3, <4>1
      <4> QED
        BY <2>3, <3>1, <4>1, <4>2
    <3> QED
      BY <3>2, <3>3
  <2>11. ConcatUpTo(s, T, b, m + 1)
    BY ONLY <2>7, <2>9, <2>10 DEF ConcatUpTo
  <2> QED
    BY <2>2, <2>11
<1> HIDE DEF S
<1>5. n \in S
  <2>1. \A i \in 0..n : i \in S
    BY ONLY <1>3, <1>4, n \in Nat, Upward
  <2> QED
    BY <2>1
<1> QED
  BY <1>1, <1>5 DEF S, IsConcat

LEMMA FlattenOK ==
  ASSUME NEW T, NEW s \in Seq(Seq(T)), NEW a, IsConcat(s, T, a)
  PROVE  FlattenSeq(s) = a[Len(s)] /\ FlattenSeq(s) \in Seq(T)
<1>1. PICK n \in Nat : n = Len(s)
  OBVIOUS
<1>2. a \in [0..n -> Seq(T)] /\ a[0] = <<>> /\ \A i \in 1..n : a[i] = a[i - 1] \o s[i]
  BY <1>1 DEF IsConcat, ConcatUpTo
<1>3. CASE n = 0
  <2>1. s = <<>>
    BY <1>1, <1>3, EmptySeq
  <2> QED
    BY <1>1, <1>2, <1>3, <2>1 DEF FlattenSeq
<1>4. CASE n # 0
  <2> DEFINE flatten[i \in 1..Len(s)] == IF i = 1 THEN s[i] ELSE flatten[i - 1] \o s[i]
  <2>1. FlattenSeq(s) = flatten[Len(s)]
    BY <1>1, <1>4 DEF FlattenSeq
  <2>2. a[1] = s[1]
    <3>1. 1 \in 1..n /\ 1 - 1 = 0 /\ s[1] \in Seq(T)
      BY <1>1, <1>4
    <3>2. <<>> \o s[1] = s[1]
      BY <3>1, ConcatEmptySeq
    <3> QED
      BY <1>2, <3>1, <3>2
  <2>3. \E f : f = [i \in 1..n |-> IF i = 1 THEN s[i] ELSE f[i - 1] \o s[i]]
    <3>1. PICK f : f = [i \in 1..n |-> a[i]]
      OBVIOUS
    <3>2. ASSUME NEW i \in 1..n PROVE a[i] = IF i = 1 THEN s[i] ELSE f[i - 1] \o s[i]
      <4>1. CASE i = 1
        BY <2>2, <4>1
      <4>2. CASE i # 1
        <5>1. i - 1 \in 1..n
          BY <4>2
        <5> QED
          BY <1>2, <3>1, <4>2, <5>1
      <4> QED
        BY <4>1, <4>2
    <3>3. f = [i \in 1..n |-> IF i = 1 THEN s[i] ELSE f[i - 1] \o s[i]]
      BY <3>1, <3>2
    <3> QED
      BY <3>3
  <2>4. flatten = [i \in 1..n |-> IF i = 1 THEN s[i] ELSE flatten[i - 1] \o s[i]]
    BY <1>1, <2>3
  <2> HIDE DEF flatten
  <2> DEFINE R == {i \in Nat : i + 1 <= n => flatten[i + 1] = a[i + 1]}
  <2>5. 0 \in R
    <3>1. 1 \in 1..n
      BY <1>4
    <3>2. flatten[1] = s[1]
      BY <2>4, <3>1
    <3> QED
      BY <2>2, <3>2
  <2>6. ASSUME NEW i \in 0..(n - 1), i \in R PROVE (i + 1) \in R
    <3> SUFFICES ASSUME (i + 1) + 1 <= n PROVE flatten[(i + 1) + 1] = a[(i + 1) + 1]
      OBVIOUS
    <3>1. PICK m : m = (i + 1) + 1
      OBVIOUS
    <3>2. m \in 1..n /\ m # 1 /\ m - 1 = i + 1 /\ i + 1 <= n
      BY <3>1
    <3>3. flatten[m] = flatten[m - 1] \o s[m]
      BY <2>4, <3>2
    <3>4. flatten[m - 1] = a[m - 1]
      BY <2>6, <3>2
    <3> QED
      BY <1>2, <3>1, <3>2, <3>3, <3>4
  <2>7. flatten[n] = a[n]
    <3>1. n - 1 \in Nat /\ n - 1 \in 0..n /\ (n - 1) + 1 = n
      BY <1>4
    <3> HIDE DEF R
    <3>2. \A i \in 0..n : i \in R
      BY ONLY <2>5, <2>6, n \in Nat, Upward
    <3>3. n - 1 \in R
      BY <3>1, <3>2
    <3> QED
      BY <3>1, <3>3 DEF R
  <2>8. n \in 0..n
    OBVIOUS
  <2> QED
    BY <1>1, <1>2, <2>1, <2>7, <2>8
<1> QED
  BY <1>3, <1>4

LEMMA FlattenType ==
  ASSUME NEW T, NEW s \in Seq(Seq(T))
  PROVE  FlattenSeq(s) \in Seq(T)
BY FlattenExists, FlattenOK

LEMMA ChunkElementsOK ==
  ASSUME NEW c \in Chunks
  PROVE  /\ ChunkElements(c) \in Seq(Stamp) /\ Len(ChunkElements(c)) = c.span
         /\ \A i \in 1..c.span : /\ ChunkElements(c)[i] = [sid |-> c.sid, time |-> c.time + i - 1]
                                 /\ ContainsId(c, ChunkElements(c)[i])
<1>1. c.sid \in Sid /\ c.time \in Nat /\ c.span \in Nat
  BY ChunkFacts
<1>2. ASSUME NEW i \in 1..c.span
      PROVE  /\ [sid |-> c.sid, time |-> c.time + i - 1] \in Stamp
             /\ ContainsId(c, [sid |-> c.sid, time |-> c.time + i - 1])
  BY <1>1 DEF Stamp, ContainsId
<1>3. \A i \in 1..c.span : ChunkElements(c)[i] = [sid |-> c.sid, time |-> c.time + i - 1]
  BY DEF ChunkElements
<1>4. ChunkElements(c) \in [1..c.span -> Stamp]
  BY <1>2 DEF ChunkElements
<1> QED
  BY <1>1, <1>2, <1>3, <1>4

LEMMA ViewOK ==
  ASSUME NEW q, NEW E, Tiles(q, E), E \subseteq Stamp
  PROVE  View(q) \in Seq(E) /\ Elements(q) \in Seq(E)
<1>1. q \in Seq(Chunks) /\ DOMAIN q = 1..Len(q) /\ Len(q) \in Nat
  BY DEF Tiles
<1>2. ASSUME NEW k \in 1..Len(q) PROVE ChunkElements(q[k]) \in Seq(E)
  <2>1. q[k] \in Chunks /\ \A e \in Stamp : ContainsId(q[k], e) => e \in E
    BY TilesFacts
  <2>2. PICK s : s = ChunkElements(q[k])
    OBVIOUS
  <2>3. s \in Seq(Stamp) /\ \A i \in 1..Len(s) : ContainsId(q[k], s[i])
    BY <2>1, <2>2, ChunkElementsOK
  <2>4. \A i \in 1..Len(s) : s[i] \in E
    BY <2>1, <2>3
  <2>5. s \in [1..Len(s) -> E] /\ Len(s) \in Nat
    BY <2>3, <2>4
  <2> QED
    BY <2>2, <2>5
<1>3. PICK v : v = [k \in DOMAIN q |-> IF q[k].del THEN <<>> ELSE ChunkElements(q[k])]
  OBVIOUS
<1>4. PICK w : w = [k \in DOMAIN q |-> ChunkElements(q[k])]
  OBVIOUS
<1>5. v \in [1..Len(q) -> Seq(E)] /\ w \in [1..Len(q) -> Seq(E)]
  <2>1. <<>> \in Seq(E)
    OBVIOUS
  <2> QED
    BY <1>1, <1>2, <1>3, <1>4, <2>1
<1>6. v \in Seq(Seq(E)) /\ w \in Seq(Seq(E))
  BY <1>1, <1>5
<1> QED
  BY <1>3, <1>4, <1>6, FlattenType DEF View, Elements

LEMMA ViewLen ==
  ASSUME NEW q \in Seq(Chunks)
  PROVE  Len(View(q)) \in Nat
<1>1. DOMAIN q = 1..Len(q) /\ Len(q) \in Nat
  OBVIOUS
<1>2. PICK v : v = [k \in DOMAIN q |-> IF q[k].del THEN <<>> ELSE ChunkElements(q[k])]
  OBVIOUS
<1>3. ASSUME NEW k \in 1..Len(q) PROVE v[k] \in Seq(Stamp)
  <2>1. q[k] \in Chunks /\ <<>> \in Seq(Stamp)
    OBVIOUS
  <2>2. ChunkElements(q[k]) \in Seq(Stamp)
    BY <2>1, ChunkElementsOK
  <2> QED
    BY <1>1, <1>2, <2>1, <2>2
<1>4. v \in [1..Len(q) -> Seq(Stamp)]
  BY <1>1, <1>2, <1>3
<1>5. v \in Seq(Seq(Stamp))
  BY <1>1, <1>4
<1>6. View(q) \in Seq(Stamp)
  BY <1>2, <1>5, FlattenType DEF View
<1> QED
  BY <1>6

SpanSet == [sid : Sid, time : Nat, span : Nat \ {0}]
Intervals(par) == {sp \in SpanSet : IsInterval(par, sp.sid, sp.time, sp.time + sp.span - 1)}

LEMMA FindIntervalOK ==
  ASSUME NEW par, IsTree(par), NEW q, IsCopy(q, par), NEW pos \in Nat, NEW len \in Nat
  PROVE  FindInterval(q, pos, len) \in Seq(Intervals(par))
<1>1. /\ DOMAIN par \subseteq Stamp /\ Tiles(q, DOMAIN par) /\ q \in Seq(Chunks)
      /\ DOMAIN q = 1..Len(q) /\ Len(q) \in Nat
  BY DEF IsTree, IsCopy, Tiles
<1> DEFINE before(k) == Len(View(SubSeq(q, 1, k - 1)))
           from(k) == IF pos > before(k) THEN pos - before(k) ELSE 0
           to(k) == IF pos + len < before(k) + q[k].span THEN pos + len - before(k) ELSE q[k].span
           part(k) == IF q[k].del \/ from(k) >= to(k) THEN <<>>
                      ELSE <<[sid |-> q[k].sid, time |-> q[k].time + from(k), span |-> to(k) - from(k)]>>
<1>2. ASSUME NEW k \in 1..Len(q) PROVE part(k) \in Seq(Intervals(par))
  <2>1. before(k) \in Nat
    <3>1. SubSeq(q, 1, k - 1) \in Seq(Chunks)
      BY <1>1, SubSeqProperties
    <3> QED
      BY <3>1, ViewLen
  <2> HIDE DEF before
  <2>2. q[k] \in Chunks
    BY <1>1
  <2>3. q[k].sid \in Sid /\ q[k].time \in Nat /\ q[k].span \in Nat
    BY <2>2, ChunkFacts
  <2>4. from(k) \in Nat /\ to(k) \in Int /\ to(k) <= q[k].span
    BY <2>1, <2>3
  <2> HIDE DEF from, to
  <2>5. CASE q[k].del \/ from(k) >= to(k)
    BY <2>5
  <2>6. CASE ~(q[k].del \/ from(k) >= to(k))
    <3>1. PICK f : f = from(k)
      OBVIOUS
    <3>2. PICK t : t = to(k)
      OBVIOUS
    <3>3. PICK sp : sp = [sid |-> q[k].sid, time |-> q[k].time + f, span |-> t - f]
      OBVIOUS
    <3>4. f \in Nat /\ t \in Int /\ f < t /\ t <= q[k].span
      BY <2>4, <2>6, <3>1, <3>2
    <3>5. sp \in SpanSet /\ sp.sid = q[k].sid /\ sp.time = q[k].time + f /\ sp.span = t - f
      BY <2>3, <3>3, <3>4 DEF SpanSet
    <3>6. PICK t1 : t1 = sp.time
      OBVIOUS
    <3>7. PICK t2 : t2 = sp.time + sp.span - 1
      OBVIOUS
    <3>8. /\ t1 \in Nat /\ t2 \in Nat /\ t1 <= t2 /\ q[k].time <= t1 /\ t2 < q[k].time + q[k].span
      BY <2>3, <3>4, <3>5, <3>6, <3>7
    <3>9. ASSUME NEW e \in Cut(q[k].sid, t1, t2) PROVE e \in Stamp /\ ContainsId(q[k], e) /\ e \in DOMAIN par
      <4>1. e \in Stamp /\ e.sid = q[k].sid /\ t1 <= e.time /\ e.time <= t2 /\ e.time \in Nat
        BY StampFacts DEF Cut
      <4>2. ContainsId(q[k], e)
        BY <2>3, <3>8, <4>1 DEF ContainsId
      <4> QED
        BY <1>1, <4>1, <4>2 DEF Tiles
    <3>10. IsInterval(par, q[k].sid, t1, t2)
      <4>1. Cut(q[k].sid, t1, t2) \subseteq DOMAIN par
        BY <3>9
      <4>2. ASSUME NEW e \in Cut(q[k].sid, t1, t2), NextOf(e) \in Cut(q[k].sid, t1, t2)
            PROVE  par[NextOf(e)] = e
        <5>1. e \in Stamp /\ ContainsId(q[k], e) /\ ContainsId(q[k], NextOf(e))
          BY <3>9, <4>2
        <5> QED
          BY <5>1 DEF IsCopy, Runs
      <4> QED
        BY <2>3, <3>8, <4>1, <4>2 DEF IsInterval
    <3>11. sp \in Intervals(par)
      BY <3>5, <3>6, <3>7, <3>10 DEF Intervals
    <3>12. part(k) = <<sp>>
      BY <2>6, <3>1, <3>2, <3>3
    <3> HIDE DEF part
    <3> QED
      BY <3>11, <3>12
  <2> QED
    BY <2>5, <2>6
<1>3. FindInterval(q, pos, len) = FlattenSeq([k \in DOMAIN q |-> part(k)])
  BY DEF FindInterval
<1> HIDE DEF part
<1>4. [k \in DOMAIN q |-> part(k)] \in Seq(Seq(Intervals(par)))
  <2>1. PICK v : v = [k \in DOMAIN q |-> part(k)]
    OBVIOUS
  <2>2. v \in [1..Len(q) -> Seq(Intervals(par))]
    BY <1>1, <1>2, <2>1
  <2>3. v \in Seq(Seq(Intervals(par)))
    BY <1>1, <2>2
  <2> QED
    BY <2>1, <2>3
<1> QED
  BY <1>3, <1>4, FlattenType

-----------------------------------------------------------------------------
(* The operations.                                                         *)

\* What each element of the insertions hangs below
Par(ins) == [e \in Inserted(ins) |-> Parent(ins, e)]

\* Those of the operations os that are among ids
InsOf(os, ids) == {op \in os : op.kind = "ins_str" /\ op.id \in ids}
DelOf(os, ids) == {op \in os : op.kind = "del" /\ op.id \in ids}

\* An operation refers to what its author had seen.
OpOK(os, g, op) ==
  /\ op.kind \in {"ins_str", "del"}
  /\ op.id \in Stamp /\ op.id.sid \in g /\ op.id.time > 0
  /\ op.span \in Nat \ {0}
  /\ op.deps \subseteq {a.id : a \in os}
  /\ op.kind = "ins_str" =>
       op.ref = Root \/ (op.ref \in Inserted(InsOf(os, op.deps)) /\ op.ref.time < op.id.time)
  /\ op.kind = "del" => op.what \in Seq(Intervals(Par(InsOf(os, op.deps))))

\* No identifier is used twice.
OpsOK(os, g) ==
  /\ \A op \in os : OpOK(os, g, op)
  /\ \A a, b \in os : a.id = b.id => a = b
  /\ \A a, b \in os : a.id.sid = b.id.sid /\ a.id.time < b.id.time => a.id.time + a.span <= b.id.time

\* A copy q, at a session whose clock is at t and that has seen the operations sn
CopyOK(os, q, t, sn) ==
  /\ t \in Nat \ {0}
  /\ sn \subseteq {op.id : op \in os}
  /\ \A op \in os : op.id \in sn => op.id.time + op.span <= t /\ op.deps \subseteq sn
  /\ IsTree(Par(InsOf(os, sn)))
  /\ IsCopy(q, Par(InsOf(os, sn)))
  /\ Marked(q, Deleted(DelOf(os, sn)))

ReplicaOK(r) ==
  /\ \A op \in ops : op.id.sid = r => op.id \in seen[r]
  /\ CopyOK(ops, rga[r], time[r], seen[r])

IndInv ==
  /\ group \subseteq Sid
  /\ DOMAIN time = Sid /\ DOMAIN seen = Sid /\ DOMAIN rga = Sid
  /\ OpsOK(ops, group)
  /\ \A r \in group : ReplicaOK(r)

LEMMA ElemsFacts ==
  ASSUME NEW id, id.sid \in Sid, id.time \in Nat, NEW span \in Nat \ {0}
  PROVE  /\ Elems(id, span) = Cut(id.sid, id.time, id.time + span - 1)
         /\ Elems(id, span) \subseteq Stamp
         /\ Chunk(id, span) \in Chunks
         /\ \A e \in Stamp : ContainsId(Chunk(id, span), e) <=> e \in Elems(id, span)
<1>1. \A e \in Stamp : e = [sid |-> e.sid, time |-> e.time] /\ e.time \in Nat
  BY StampFacts
<1>2. ASSUME NEW e \in Elems(id, span) PROVE e \in Cut(id.sid, id.time, id.time + span - 1)
  <2>1. PICK i \in 0..(span - 1) : e = [sid |-> id.sid, time |-> id.time + i]
    BY DEF Elems
  <2> QED
    BY <2>1 DEF Cut, Stamp
<1>3. ASSUME NEW e \in Cut(id.sid, id.time, id.time + span - 1) PROVE e \in Elems(id, span)
  <2>1. /\ e \in Stamp /\ e.sid = id.sid /\ id.time <= e.time /\ e.time <= id.time + span - 1
        /\ e = [sid |-> e.sid, time |-> e.time] /\ e.time \in Nat
    BY <1>1 DEF Cut
  <2>2. PICK i : i = e.time - id.time
    OBVIOUS
  <2>3. i \in 0..(span - 1) /\ e.time = id.time + i
    BY <2>1, <2>2
  <2>4. e = [sid |-> id.sid, time |-> id.time + i]
    BY <2>1, <2>3
  <2> QED
    BY <2>3, <2>4 DEF Elems
<1>4. Elems(id, span) = Cut(id.sid, id.time, id.time + span - 1)
  BY <1>2, <1>3
<1>5. Elems(id, span) \subseteq Stamp
  BY <1>4 DEF Cut
<1>6. PICK c : c = Chunk(id, span)
  OBVIOUS
<1>7. /\ c \in Chunks /\ c.sid = id.sid /\ c.time = id.time /\ c.span = span
  BY <1>6 DEF Chunk, Chunks
<1>8. ASSUME NEW e \in Stamp PROVE ContainsId(c, e) <=> e \in Elems(id, span)
  BY <1>1, <1>4, <1>7 DEF ContainsId, Cut
<1> QED
  BY <1>4, <1>5, <1>6, <1>7, <1>8

\* Each element belongs to one operation.
LEMMA OwnerOK ==
  ASSUME NEW os, NEW g, g \subseteq Sid, OpsOK(os, g), NEW ins \in SUBSET os, NEW op \in ins,
         NEW e \in Elems(op.id, op.span)
  PROVE  /\ \A o \in os : e \in Elems(o.id, o.span) => o = op
         /\ e \in Inserted(ins)
         /\ Parent(ins, e) = IF e = op.id THEN op.ref ELSE [e EXCEPT !.time = @ - 1]
<1>1. \A o \in os : o.id \in Stamp /\ o.id.sid \in Sid /\ o.id.time \in Nat /\ o.span \in Nat \ {0}
  <2>1. \A o \in os : o.id \in Stamp /\ o.span \in Nat \ {0}
    BY DEF OpsOK, OpOK
  <2> QED
    BY <2>1, StampFacts
<1>2. ASSUME NEW o \in os, NEW x \in Elems(o.id, o.span)
      PROVE  x \in Stamp /\ x.sid = o.id.sid /\ o.id.time <= x.time /\ x.time < o.id.time + o.span /\ x.time \in Nat
  <2>1. x \in Cut(o.id.sid, o.id.time, o.id.time + o.span - 1)
    BY <1>1, ElemsFacts
  <2>2. x \in Stamp /\ x.time \in Nat
    BY <2>1, StampFacts DEF Cut
  <2> QED
    BY <1>1, <2>1, <2>2 DEF Cut
<1>3. ASSUME NEW o \in os, e \in Elems(o.id, o.span) PROVE o = op
  <2>1. /\ e.sid = o.id.sid /\ o.id.time <= e.time /\ e.time < o.id.time + o.span
        /\ e.sid = op.id.sid /\ op.id.time <= e.time /\ e.time < op.id.time + op.span /\ e.time \in Nat
    BY <1>2, <1>3
  <2>2. /\ o.id.time \in Nat /\ o.span \in Nat /\ op.id.time \in Nat /\ op.span \in Nat
        /\ o.id \in Stamp /\ op.id \in Stamp
    BY <1>1
  <2>3. ~(o.id.time < op.id.time) /\ ~(op.id.time < o.id.time)
    <3>1. op \in os
      OBVIOUS
    <3>2. \A a, b \in os : a.id.sid = b.id.sid /\ a.id.time < b.id.time => a.id.time + a.span <= b.id.time
      BY DEF OpsOK
    <3>3. o.id.time < op.id.time => o.id.time + o.span <= op.id.time
      BY <2>1, <3>1, <3>2
    <3>4. op.id.time < o.id.time => op.id.time + op.span <= o.id.time
      BY <2>1, <3>1, <3>2
    <3> QED
      BY ONLY <2>1, <2>2, <3>3, <3>4
  <2>4. o.id = op.id
    <3>1. o.id.sid = op.id.sid /\ o.id.time = op.id.time
      BY ONLY <2>1, <2>2, <2>3
    <3> QED
      BY <2>2, <3>1, SameStamp
  <2> QED
    BY <2>4 DEF OpsOK
<1>4. (CHOOSE o \in ins : e \in Elems(o.id, o.span)) = op
  BY <1>3
<1>5. Parent(ins, e) = IF e = op.id THEN op.ref ELSE [e EXCEPT !.time = @ - 1]
  BY <1>4 DEF Parent
<1> QED
  BY <1>3, <1>5 DEF Inserted

\* What an element hangs below does not change.
LEMMA ParStable ==
  ASSUME NEW os, NEW g, g \subseteq Sid, OpsOK(os, g), NEW ins \in SUBSET os, NEW less \in SUBSET ins
  PROVE  /\ DOMAIN Par(ins) = Inserted(ins) /\ Inserted(less) \subseteq Inserted(ins)
         /\ \A e \in Inserted(less) : Par(less)[e] = Par(ins)[e]
         /\ Intervals(Par(less)) \subseteq Intervals(Par(ins))
<1>1. Inserted(less) \subseteq Inserted(ins) /\ DOMAIN Par(ins) = Inserted(ins) /\ DOMAIN Par(less) = Inserted(less)
  BY DEF Inserted, Par
<1>2. ASSUME NEW e \in Inserted(less) PROVE Par(less)[e] = Par(ins)[e]
  <2>1. PICK op \in less : e \in Elems(op.id, op.span)
    BY DEF Inserted
  <2>2. op \in ins /\ less \in SUBSET os
    OBVIOUS
  <2>3. Parent(less, e) = IF e = op.id THEN op.ref ELSE [e EXCEPT !.time = @ - 1]
    BY <2>1, <2>2, OwnerOK
  <2>4. Parent(ins, e) = IF e = op.id THEN op.ref ELSE [e EXCEPT !.time = @ - 1]
    BY <2>1, <2>2, OwnerOK
  <2> QED
    BY <1>1, <2>3, <2>4 DEF Par
<1>3. ASSUME NEW sp \in Intervals(Par(less)) PROVE sp \in Intervals(Par(ins))
  <2>1. PICK t1 : t1 = sp.time
    OBVIOUS
  <2>2. PICK t2 : t2 = sp.time + sp.span - 1
    OBVIOUS
  <2>3. sp \in SpanSet /\ IsInterval(Par(less), sp.sid, t1, t2)
    BY <2>1, <2>2 DEF Intervals
  <2>4. IsInterval(Par(ins), sp.sid, t1, t2)
    BY <1>1, <1>2, <2>3 DEF IsInterval
  <2> QED
    BY <2>1, <2>2, <2>3, <2>4 DEF Intervals
<1> QED
  BY <1>1, <1>2, <1>3

LEMMA ParGrows ==
  ASSUME NEW os, NEW g, g \subseteq Sid, OpsOK(os, g), NEW ins \in SUBSET os,
         NEW op \in os, op \notin ins, op.kind = "ins_str",
         op.ref = Root \/ (op.ref \in Inserted(ins) /\ op.ref.time < op.id.time)
  PROVE  Grows(Par(ins), Chunk(op.id, op.span), op.ref, Par(ins \cup {op}))
<1>1. op.id \in Stamp /\ op.id.sid \in Sid /\ op.id.time \in Nat /\ op.id.time > 0 /\ op.span \in Nat \ {0}
  <2>1. op.id \in Stamp /\ op.id.time > 0 /\ op.span \in Nat \ {0}
    BY DEF OpsOK, OpOK
  <2> QED
    BY <2>1, StampFacts
<1>2. PICK c : c = Chunk(op.id, op.span)
  OBVIOUS
<1>3. PICK more : more = ins \cup {op}
  OBVIOUS
<1>4. more \in SUBSET os /\ op \in more /\ ins \in SUBSET more
  BY <1>3
<1>5. DOMAIN Par(ins) = Inserted(ins) /\ DOMAIN Par(more) = Inserted(more)
  BY DEF Par
<1>6. c \in Chunks /\ c.s = 0 /\ c.del = FALSE /\ c.sid = op.id.sid /\ c.time = op.id.time /\ Id(c) = op.id
  <2>1. c \in Chunks
    BY <1>1, <1>2, ElemsFacts
  <2>2. c.s = 0 /\ c.del = FALSE /\ c.sid = op.id.sid /\ c.time = op.id.time
    BY <1>2 DEF Chunk
  <2>3. Id(c) \in Stamp /\ Id(c).sid = c.sid /\ Id(c).time = c.time
    BY <2>1, ChunkFacts
  <2> QED
    BY <1>1, <2>1, <2>2, <2>3, SameStamp
<1>7. Elems(op.id, op.span) \subseteq Stamp /\ \A e \in Stamp : ContainsId(c, e) <=> e \in Elems(op.id, op.span)
  BY <1>1, <1>2, ElemsFacts
<1>8. op.ref \in DOMAIN Par(ins) \cup {Root} /\ op.ref.time < c.time
  BY <1>1, <1>5, <1>6 DEF Root
<1>9. ASSUME NEW e \in Elems(op.id, op.span)
      PROVE  /\ e \notin Inserted(ins) /\ e \in Inserted(more)
             /\ Par(more)[e] = IF e = op.id THEN op.ref ELSE [e EXCEPT !.time = @ - 1]
  <2>1. /\ \A o \in os : e \in Elems(o.id, o.span) => o = op
        /\ e \in Inserted(more)
        /\ Parent(more, e) = IF e = op.id THEN op.ref ELSE [e EXCEPT !.time = @ - 1]
    BY <1>4, OwnerOK
  <2>2. e \notin Inserted(ins)
    BY <2>1 DEF Inserted
  <2> QED
    BY <2>1, <2>2 DEF Par
<1>10. \A e \in Stamp : ContainsId(c, e) => e \notin DOMAIN Par(ins)
  BY <1>5, <1>7, <1>9
<1>11. DOMAIN Par(more) = DOMAIN Par(ins) \cup {e \in Stamp : ContainsId(c, e)}
  <2>1. Inserted(more) = Inserted(ins) \cup Elems(op.id, op.span)
    BY <1>3 DEF Inserted
  <2>2. {e \in Stamp : ContainsId(c, e)} = Elems(op.id, op.span)
    BY <1>7
  <2> QED
    BY <1>5, <2>1, <2>2
<1>12. \A e \in DOMAIN Par(ins) : Par(more)[e] = Par(ins)[e]
  BY <1>4, <1>5, ParStable
<1>13. Par(more)[Id(c)] = op.ref
  <2>1. op.id \in Elems(op.id, op.span)
    BY <1>1, <1>6, <1>7, ChunkFacts
  <2> QED
    BY <1>6, <1>9, <2>1
<1>14. ASSUME NEW e \in Stamp, ContainsId(c, e), ContainsId(c, NextOf(e)) PROVE Par(more)[NextOf(e)] = e
  <2>1. PICK f : f = NextOf(e)
    OBVIOUS
  <2>2. f \in Stamp /\ f.sid = e.sid /\ f.time = e.time + 1 /\ e.time \in Nat
    BY <2>1, NextFacts, StampFacts
  <2>3. f \in Elems(op.id, op.span)
    BY <1>7, <1>14, <2>1, <2>2
  <2>4. f # op.id
    BY <1>1, <1>6, <1>14, <2>2 DEF ContainsId
  <2>5. Par(more)[f] = [f EXCEPT !.time = @ - 1]
    BY <1>9, <2>3, <2>4
  <2>6. f = [sid |-> e.sid, time |-> e.time + 1] /\ e = [sid |-> e.sid, time |-> e.time]
    BY <2>1, StampFacts DEF NextOf
  <2>7. [f EXCEPT !.time = @ - 1] = [sid |-> e.sid, time |-> (e.time + 1) - 1]
    BY <2>6
  <2>8. (e.time + 1) - 1 = e.time
    BY <2>2
  <2> QED
    BY <2>1, <2>5, <2>6, <2>7, <2>8
<1>15. Grows(Par(ins), c, op.ref, Par(more))
  BY <1>6, <1>8, <1>10, <1>11, <1>12, <1>13, <1>14 DEF Grows
<1> QED
  BY <1>2, <1>3, <1>15

\* The elements of the spans of a deletion
LEMMA AllCutOK ==
  ASSUME NEW par, NEW what \in Seq(Intervals(par))
  PROVE  /\ AllCut(what, Len(what)) = UNION {Elems(sp, sp.span) : sp \in ToSet(what)}
         /\ AllCut(what, Len(what)) \subseteq DOMAIN par
         /\ Len(what) \in Nat
         /\ \A i \in 1..Len(what) :
              IsInterval(par, what[i].sid, what[i].time, what[i].time + what[i].span - 1)
<1>1. Len(what) \in Nat /\ DOMAIN what = 1..Len(what)
  OBVIOUS
<1>2. ASSUME NEW i \in 1..Len(what)
      PROVE  /\ what[i].sid \in Sid /\ what[i].time \in Nat /\ what[i].span \in Nat \ {0}
             /\ IsInterval(par, what[i].sid, what[i].time, what[i].time + what[i].span - 1)
             /\ SpanCut(what[i]) = Elems(what[i], what[i].span)
             /\ SpanCut(what[i]) \subseteq DOMAIN par
  <2>1. what[i] \in Intervals(par)
    OBVIOUS
  <2>2. what[i] \in SpanSet /\ IsInterval(par, what[i].sid, what[i].time, what[i].time + what[i].span - 1)
    BY <2>1 DEF Intervals
  <2>3. what[i].sid \in Sid /\ what[i].time \in Nat /\ what[i].span \in Nat \ {0}
    BY <2>2 DEF SpanSet
  <2>4. SpanCut(what[i]) = Elems(what[i], what[i].span)
    BY <2>3, ElemsFacts DEF SpanCut
  <2>5. SpanCut(what[i]) \subseteq DOMAIN par
    BY <2>2 DEF SpanCut, IsInterval
  <2> QED
    BY <2>2, <2>3, <2>4, <2>5
<1>3. ToSet(what) = {what[i] : i \in 1..Len(what)}
  BY <1>1 DEF ToSet
<1>4. AllCut(what, Len(what)) = UNION {Elems(sp, sp.span) : sp \in ToSet(what)}
  <2>1. ASSUME NEW e, e \in AllCut(what, Len(what))
        PROVE  e \in UNION {Elems(sp, sp.span) : sp \in ToSet(what)}
    <3>1. PICK i \in 1..Len(what) : e \in SpanCut(what[i])
      BY <2>1 DEF AllCut
    <3> QED
      BY <1>2, <1>3, <3>1
  <2>2. ASSUME NEW e, e \in UNION {Elems(sp, sp.span) : sp \in ToSet(what)}
        PROVE  e \in AllCut(what, Len(what))
    <3>1. PICK i \in 1..Len(what) : e \in Elems(what[i], what[i].span)
      BY <1>3, <2>2
    <3> QED
      BY <1>2, <3>1 DEF AllCut
  <2> QED
    BY <2>1, <2>2
<1>5. AllCut(what, Len(what)) \subseteq DOMAIN par
  BY <1>2 DEF AllCut
<1> QED
  BY <1>1, <1>2, <1>4, <1>5

\* What a deletion names its author had seen.
LEMMA WhatOK ==
  ASSUME NEW os, NEW g, g \subseteq Sid, OpsOK(os, g), NEW sn, NEW op \in os, op.deps \subseteq sn
  PROVE  /\ InsOf(os, op.deps) \subseteq InsOf(os, sn)
         /\ op.kind = "del" => op.what \in Seq(Intervals(Par(InsOf(os, sn))))
         /\ op.kind = "ins_str" =>
              op.ref = Root \/ (op.ref \in Inserted(InsOf(os, sn)) /\ op.ref.time < op.id.time)
<1>1. PICK ins : ins = InsOf(os, sn)
  OBVIOUS
<1>2. PICK less : less = InsOf(os, op.deps)
  OBVIOUS
<1>3. ins \in SUBSET os /\ less \in SUBSET ins
  BY <1>1, <1>2 DEF InsOf
<1>4. Intervals(Par(less)) \subseteq Intervals(Par(ins)) /\ Inserted(less) \subseteq Inserted(ins)
  BY <1>3, ParStable
<1>5. OpOK(os, g, op)
  BY DEF OpsOK
<1>6. op.kind = "del" => op.what \in Seq(Intervals(Par(ins)))
  <2> SUFFICES ASSUME op.kind = "del" PROVE op.what \in Seq(Intervals(Par(ins)))
    OBVIOUS
  <2>1. op.what \in Seq(Intervals(Par(less)))
    BY <1>2, <1>5 DEF OpOK
  <2>2. \A i \in 1..Len(op.what) : op.what[i] \in Intervals(Par(ins))
    BY <1>4, <2>1
  <2>3. op.what \in [1..Len(op.what) -> Intervals(Par(ins))] /\ Len(op.what) \in Nat
    BY <2>1, <2>2
  <2> QED
    BY <2>3
<1>7. op.kind = "ins_str" =>
        op.ref = Root \/ (op.ref \in Inserted(ins) /\ op.ref.time < op.id.time)
  BY <1>2, <1>4, <1>5 DEF OpOK
<1> QED
  BY <1>1, <1>2, <1>3, <1>6, <1>7

LEMMA DeletedOK ==
  ASSUME NEW os, NEW g, g \subseteq Sid, OpsOK(os, g), NEW sn,
         \A op \in os : op.id \in sn => op.deps \subseteq sn
  PROVE  Deleted(DelOf(os, sn)) \subseteq DOMAIN Par(InsOf(os, sn))
<1>1. ASSUME NEW op \in DelOf(os, sn)
      PROVE  UNION {Elems(sp, sp.span) : sp \in ToSet(op.what)} \subseteq DOMAIN Par(InsOf(os, sn))
  <2>1. op \in os /\ op.deps \subseteq sn /\ op.kind = "del"
    BY DEF DelOf
  <2>2. op.what \in Seq(Intervals(Par(InsOf(os, sn))))
    BY <2>1, WhatOK
  <2> QED
    BY <2>2, AllCutOK
<1> QED
  BY <1>1 DEF Deleted

\* An operation is applied, for the first time or again.
LEMMA ApplyOK ==
  ASSUME NEW os, NEW g, g \subseteq Sid, OpsOK(os, g), NEW q, NEW t, NEW sn, CopyOK(os, q, t, sn),
         NEW op \in os, op.deps \subseteq sn,
         NEW q2, q2 = IF op.kind = "ins_str" THEN Ins(q, Root, op.ref, op.id, op.span)
                                             ELSE Delete(q, op.what),
         NEW t2 \in Nat, t <= t2, op.id.time + op.span <= t2
  PROVE  CopyOK(os, q2, t2, sn \cup {op.id})
<1>1. PICK ins : ins = InsOf(os, sn)
  OBVIOUS
<1>2. PICK del : del = DelOf(os, sn)
  OBVIOUS
<1>3. PICK sn2 : sn2 = sn \cup {op.id}
  OBVIOUS
<1>4. PICK par : par = Par(ins)
  OBVIOUS
<1>5. PICK gone : gone = Deleted(del)
  OBVIOUS
<1>6. /\ t \in Nat \ {0} /\ sn \subseteq {o.id : o \in os}
      /\ \A o \in os : o.id \in sn => o.id.time + o.span <= t /\ o.deps \subseteq sn
      /\ IsTree(par) /\ IsCopy(q, par) /\ Marked(q, gone)
  BY <1>1, <1>2, <1>4, <1>5 DEF CopyOK
<1>7. OpOK(os, g, op) /\ \A o \in os : o.id = op.id => o = op
  BY DEF OpsOK
<1>8. op.id \in Stamp /\ op.id.sid \in Sid /\ op.id.time \in Nat /\ op.span \in Nat \ {0} /\ op.kind \in {"ins_str", "del"}
  <2>1. op.id \in Stamp /\ op.span \in Nat \ {0} /\ op.kind \in {"ins_str", "del"}
    BY <1>7 DEF OpOK
  <2> QED
    BY <2>1, StampFacts
<1>9. ins \in SUBSET os /\ DOMAIN par = Inserted(ins)
  BY <1>1, <1>4 DEF InsOf, Par
<1>10. gone \subseteq DOMAIN par
  BY <1>1, <1>2, <1>4, <1>5, <1>6, DeletedOK
<1>11. t2 \in Nat \ {0} /\ sn2 \subseteq {o.id : o \in os}
  BY <1>3, <1>6
<1>12. \A o \in os : o.id \in sn2 => o.id.time + o.span <= t2 /\ o.deps \subseteq sn2
  <2> SUFFICES ASSUME NEW o \in os, o.id \in sn2 PROVE o.id.time + o.span <= t2 /\ o.deps \subseteq sn2
    OBVIOUS
  <2>1. CASE o.id \in sn
    <3>1. o.id.time + o.span <= t /\ o.deps \subseteq sn
      BY <1>6, <2>1
    <3>2. o.id.time \in Nat /\ o.span \in Nat
      <4>1. o.id \in Stamp /\ o.span \in Nat
        BY DEF OpsOK, OpOK
      <4> QED
        BY <4>1, StampFacts
    <3>3. o.id.time + o.span <= t2
      BY <1>6, <3>1, <3>2
    <3> QED
      BY <1>3, <3>1, <3>3
  <2>2. CASE o.id \notin sn
    <3>1. o = op
      BY <1>3, <1>7, <2>2
    <3> QED
      BY <1>3, <3>1
  <2> QED
    BY <2>1, <2>2
<1>13. CASE op.kind = "ins_str"
  <2>1. InsOf(os, sn2) = ins \cup {op} /\ DelOf(os, sn2) = del
    BY <1>1, <1>2, <1>3, <1>7, <1>13 DEF InsOf, DelOf
  <2>2. q2 = Ins(q, Root, op.ref, op.id, op.span)
    BY <1>13
  <2>3. PICK c : c = Chunk(op.id, op.span)
    OBVIOUS
  <2>4. c \in Chunks /\ \A e \in Stamp : ContainsId(c, e) <=> e \in Elems(op.id, op.span)
    BY <1>8, <2>3, ElemsFacts
  <2>5. CASE op \notin ins
    <3>1. op.ref = Root \/ (op.ref \in Inserted(ins) /\ op.ref.time < op.id.time)
      BY <1>1, <1>13, WhatOK
    <3>2. Grows(par, c, op.ref, Par(ins \cup {op}))
      BY <1>4, <1>9, <1>13, <2>3, <2>5, <3>1, ParGrows
    <3>3. Grown(q, c, Par(ins \cup {op}), q2)
      BY <1>6, <2>2, <2>3, <3>2, InsNew
    <3>4. \A e \in Stamp : ContainsId(c, e) => e \notin gone
      BY <1>10, <3>2 DEF Grows
    <3>5. IsCopy(q2, Par(ins \cup {op})) /\ IsTree(Par(ins \cup {op})) /\ Marked(q2, gone)
      BY <1>6, <3>3, <3>4 DEF Grown
    <3>6. IsTree(Par(InsOf(os, sn2))) /\ IsCopy(q2, Par(InsOf(os, sn2))) /\ Marked(q2, Deleted(DelOf(os, sn2)))
      BY <1>5, <2>1, <3>5
    <3>7. CopyOK(os, q2, t2, sn2)
      BY ONLY <1>11, <1>12, <3>6 DEF CopyOK
    <3> QED
      BY <1>3, <3>7
  <2>6. CASE op \in ins
    <3>1. ins \cup {op} = ins
      BY <2>6
    <3>2. op.id \in Elems(op.id, op.span) /\ Id(c) = op.id
      <4>1. Id(c) \in Stamp /\ Id(c).sid = c.sid /\ Id(c).time = c.time /\ ContainsId(c, Id(c))
        BY <2>4, ChunkFacts
      <4>2. c.sid = op.id.sid /\ c.time = op.id.time
        BY <2>3 DEF Chunk
      <4>3. Id(c) = op.id
        BY <1>8, <4>1, <4>2, SameStamp
      <4> QED
        BY <2>4, <4>1, <4>3
    <3>3. op.id \in Inserted(ins) /\ Parent(ins, op.id) = op.ref
      BY <1>9, <2>6, <3>2, OwnerOK
    <3>4. Id(c) \in DOMAIN par /\ op.ref = par[Id(c)]
      BY <1>4, <1>9, <3>2, <3>3 DEF Par
    <3>5. q2 = q
      BY <1>6, <2>2, <2>3, <2>4, <3>4, InsAgain
    <3>6. IsTree(Par(InsOf(os, sn2))) /\ IsCopy(q2, Par(InsOf(os, sn2))) /\ Marked(q2, Deleted(DelOf(os, sn2)))
      BY <1>4, <1>5, <1>6, <2>1, <3>1, <3>5
    <3>7. CopyOK(os, q2, t2, sn2)
      BY ONLY <1>11, <1>12, <3>6 DEF CopyOK
    <3> QED
      BY <1>3, <3>7
  <2> QED
    BY <2>5, <2>6
<1>14. CASE op.kind = "del"
  <2>1. InsOf(os, sn2) = ins /\ DelOf(os, sn2) = del \cup {op}
    BY <1>1, <1>2, <1>3, <1>7, <1>14 DEF InsOf, DelOf
  <2>2. q2 = Delete(q, op.what)
    BY <1>14
  <2>3. op.what \in Seq(Intervals(par))
    BY <1>1, <1>4, <1>14, WhatOK
  <2>4. /\ AllCut(op.what, Len(op.what)) = UNION {Elems(sp, sp.span) : sp \in ToSet(op.what)}
        /\ Len(op.what) \in Nat
        /\ \A i \in 1..Len(op.what) :
             IsInterval(par, op.what[i].sid, op.what[i].time, op.what[i].time + op.what[i].span - 1)
    BY <2>3, AllCutOK
  <2>5. IsCopy(q2, par) /\ Marked(q2, gone \cup AllCut(op.what, Len(op.what)))
    BY <1>6, <2>2, <2>4, DeleteOK
  <2>6. Deleted(del \cup {op}) = gone \cup AllCut(op.what, Len(op.what))
    <3>1. Deleted(del \cup {op}) = gone \cup UNION {Elems(sp, sp.span) : sp \in ToSet(op.what)}
      BY <1>5 DEF Deleted
    <3> QED
      BY <2>4, <3>1
  <2>7. IsTree(Par(InsOf(os, sn2))) /\ IsCopy(q2, Par(InsOf(os, sn2))) /\ Marked(q2, Deleted(DelOf(os, sn2)))
    BY <1>4, <1>6, <2>1, <2>5, <2>6
  <2>8. CopyOK(os, q2, t2, sn2)
    BY ONLY <1>11, <1>12, <2>7 DEF CopyOK
  <2> QED
    BY <1>3, <2>8
<1> QED
  BY <1>8, <1>13, <1>14

\* A new operation, of the session r
LEMMA OpsGrow ==
  ASSUME NEW os, NEW g, g \subseteq Sid, OpsOK(os, g), NEW op, OpOK(os, g, op),
         \A a \in os : a.id.sid = op.id.sid => a.id.time + a.span <= op.id.time
  PROVE  /\ OpsOK(os \cup {op}, g)
         /\ \A a \in os : a.id # op.id
         /\ \A q, t, sn : CopyOK(os, q, t, sn) => CopyOK(os \cup {op}, q, t, sn)
<1>1. \A a \in os \cup {op} : a.id \in Stamp /\ a.id.time \in Nat /\ a.span \in Nat \ {0}
  <2>1. \A a \in os \cup {op} : a.id \in Stamp /\ a.span \in Nat \ {0}
    BY DEF OpsOK, OpOK
  <2> QED
    BY <2>1, StampFacts
<1>2. ASSUME NEW a \in os PROVE a.id # op.id /\ ~(a.id.sid = op.id.sid /\ op.id.time < a.id.time)
  <2>1. a.id.time \in Nat /\ op.id.time \in Nat /\ a.span \in Nat \ {0}
    BY <1>1
  <2> QED
    BY <2>1
<1>3. PICK more : more = os \cup {op}
  OBVIOUS
<1>4. ASSUME NEW ids, ids \subseteq {a.id : a \in os} PROVE InsOf(more, ids) = InsOf(os, ids) /\ DelOf(more, ids) = DelOf(os, ids)
  <2>1. op.id \notin ids
    BY <1>2, <1>4
  <2> QED
    BY <1>3, <2>1 DEF InsOf, DelOf
<1>5. ASSUME NEW a, OpOK(os, g, a) PROVE OpOK(more, g, a)
  <2>1. a.deps \subseteq {b.id : b \in os} /\ a.deps \subseteq {b.id : b \in more}
    BY <1>3, <1>5 DEF OpOK
  <2>2. InsOf(more, a.deps) = InsOf(os, a.deps)
    BY <1>4, <2>1
  <2> QED
    BY <1>5, <2>1, <2>2 DEF OpOK
<1>6. \A a \in more : OpOK(more, g, a)
  BY <1>3, <1>5 DEF OpsOK
<1>7. \A a, b \in more : a.id = b.id => a = b
  BY <1>2, <1>3 DEF OpsOK
<1>8. \A a, b \in more : a.id.sid = b.id.sid /\ a.id.time < b.id.time => a.id.time + a.span <= b.id.time
  <2> SUFFICES ASSUME NEW a \in more, NEW b \in more, a.id.sid = b.id.sid, a.id.time < b.id.time
               PROVE  a.id.time + a.span <= b.id.time
    OBVIOUS
  <2>1. CASE a \in os /\ b \in os
    BY <2>1 DEF OpsOK
  <2>2. CASE a \in os /\ b = op
    BY <2>2
  <2>3. CASE a = op /\ b \in os
    BY <1>2, <2>3
  <2>4. CASE a = op /\ b = op
    <3>1. op.id.time \in Nat
      BY <1>1
    <3> QED
      BY <2>4, <3>1
  <2> QED
    BY <1>3, <2>1, <2>2, <2>3, <2>4
<1>9. ASSUME NEW q, NEW t, NEW sn, CopyOK(os, q, t, sn) PROVE CopyOK(more, q, t, sn)
  <2>1. sn \subseteq {a.id : a \in os} /\ sn \subseteq {a.id : a \in more}
    BY <1>3, <1>9 DEF CopyOK
  <2>2. InsOf(more, sn) = InsOf(os, sn) /\ DelOf(more, sn) = DelOf(os, sn)
    BY <1>4, <2>1
  <2>3. op.id \notin sn
    BY <1>2, <2>1
  <2>4. \A a \in more : a.id \in sn => a.id.time + a.span <= t /\ a.deps \subseteq sn
    BY <1>3, <1>9, <2>3 DEF CopyOK
  <2> QED
    BY <1>9, <2>1, <2>2, <2>4 DEF CopyOK
<1> QED
  BY <1>2, <1>3, <1>6, <1>7, <1>8, <1>9 DEF OpsOK

-----------------------------------------------------------------------------
(* The steps.                                                              *)

LEMMA InitOK == Init => IndInv
<1> SUFFICES ASSUME Init PROVE IndInv
  OBVIOUS
<1>1. /\ group \in Groups /\ ops = {}
      /\ rga = [r \in Sid |-> <<>>] /\ time = [r \in Sid |-> 1] /\ seen = [r \in Sid |-> {}]
  BY DEF Init
<1>2. group \subseteq Sid
  BY <1>1, GroupsAssumption
<1>3. OpsOK(ops, group)
  BY <1>1 DEF OpsOK
<1>4. PICK par : par = Par(InsOf({}, {}))
  OBVIOUS
<1>5. DOMAIN par = {} /\ Deleted(DelOf({}, {})) = {}
  <2>1. InsOf({}, {}) = {} /\ DelOf({}, {}) = {}
    BY DEF InsOf, DelOf
  <2> QED
    BY <1>4, <2>1 DEF Par, Inserted, Deleted
<1>6. IsTree(par)
  BY <1>5 DEF IsTree
<1>7. <<>> \in Seq(Chunks) /\ Len(<<>>) = 0 /\ 1..0 = {}
  OBVIOUS
<1>8. Tiles(<<>>, DOMAIN par)
  BY <1>5, <1>7 DEF Tiles
<1>9. IsCopy(<<>>, par)
  BY <1>5, <1>7, <1>8 DEF IsCopy, Runs, Linked, InOrder
<1>10. Marked(<<>>, {})
  BY <1>7 DEF Marked
<1>11. CopyOK({}, <<>>, 1, {})
  <2>1. {} \subseteq {op.id : op \in {}} /\ 1 \in Nat \ {0}
    OBVIOUS
  <2> QED
    BY <1>4, <1>5, <1>6, <1>9, <1>10, <2>1 DEF CopyOK
<1>12. ASSUME NEW r \in group PROVE ReplicaOK(r)
  <2>1. r \in Sid
    BY <1>2
  <2>2. rga[r] = <<>> /\ time[r] = 1 /\ seen[r] = {}
    BY <1>1, <2>1
  <2> QED
    BY <1>1, <1>11, <2>2 DEF ReplicaOK
<1> QED
  BY <1>1, <1>2, <1>3, <1>12 DEF IndInv

\* A session publishes an operation and applies it to its own copy.
LEMMA PublishOK ==
  ASSUME IndInv, NEW r \in group, NEW op, OpOK(ops, group, op),
         op.id.sid = r, op.id.time = time[r], op.deps = seen[r], Publish(r, op),
         rga' = [rga EXCEPT ![r] = IF op.kind = "ins_str" THEN Ins(rga[r], Root, op.ref, op.id, op.span)
                                                          ELSE Delete(rga[r], op.what)]
  PROVE  IndInv'
<1>1. /\ group \subseteq Sid /\ DOMAIN time = Sid /\ DOMAIN seen = Sid /\ DOMAIN rga = Sid
      /\ OpsOK(ops, group) /\ r \in Sid
      /\ \A x \in group : ReplicaOK(x)
  BY DEF IndInv
<1>2. ASSUME NEW x \in group
      PROVE  /\ \A a \in ops : a.id.sid = x => a.id \in seen[x]
             /\ CopyOK(ops, rga[x], time[x], seen[x])
  BY <1>1 DEF ReplicaOK
<1>3. /\ ops' = ops \cup {op} /\ group' = group
      /\ seen' = [seen EXCEPT ![r] = @ \cup {op.id}]
      /\ time' = [time EXCEPT ![r] = @ + op.span]
  BY DEF Publish
<1>4. /\ time[r] \in Nat /\ op.span \in Nat
      /\ \A a \in ops : a.id.sid = op.id.sid => a.id.time + a.span <= op.id.time
  <2>1. time[r] \in Nat /\ \A a \in ops : a.id \in seen[r] => a.id.time + a.span <= time[r]
    BY <1>2 DEF CopyOK
  <2>2. op.span \in Nat
    BY DEF OpOK
  <2> QED
    BY <1>2, <2>1, <2>2
<1>5. /\ OpsOK(ops', group)
      /\ \A q, t, sn : CopyOK(ops, q, t, sn) => CopyOK(ops', q, t, sn)
  BY <1>1, <1>3, <1>4, OpsGrow
<1>6. PICK q2 : q2 = IF op.kind = "ins_str" THEN Ins(rga[r], Root, op.ref, op.id, op.span)
                                            ELSE Delete(rga[r], op.what)
  OBVIOUS
<1>7. CopyOK(ops', q2, time[r] + op.span, seen[r] \cup {op.id})
  <2>1. CopyOK(ops', rga[r], time[r], seen[r])
    BY <1>2, <1>5
  <2>2. op \in ops' /\ op.deps \subseteq seen[r]
    BY <1>3
  <2>3. time[r] + op.span \in Nat /\ time[r] <= time[r] + op.span /\ op.id.time + op.span <= time[r] + op.span
    BY <1>4
  <2> QED
    BY <1>1, <1>5, <1>6, <2>1, <2>2, <2>3, ApplyOK
<1>8. rga' = [rga EXCEPT ![r] = q2]
  BY <1>6
<1>9. ASSUME NEW x \in group
      PROVE  /\ \A a \in ops' : a.id.sid = x => a.id \in seen'[x]
             /\ CopyOK(ops', rga'[x], time'[x], seen'[x])
  <2>1. x \in Sid
    BY <1>1
  <2>2. CASE x = r
    <3>1. rga'[x] = q2 /\ time'[x] = time[r] + op.span /\ seen'[x] = seen[r] \cup {op.id}
      BY <1>1, <1>3, <1>8, <2>2
    <3> QED
      BY <1>2, <1>3, <1>7, <2>2, <3>1
  <2>3. CASE x # r
    <3>1. rga'[x] = rga[x] /\ time'[x] = time[x] /\ seen'[x] = seen[x]
      BY <1>1, <1>3, <1>8, <2>1, <2>3
    <3> QED
      BY <1>2, <1>3, <1>5, <2>3, <3>1
  <2> QED
    BY <2>2, <2>3
<1>10. DOMAIN time' = Sid /\ DOMAIN seen' = Sid /\ DOMAIN rga' = Sid
  BY <1>1, <1>3, <1>8
<1> QED
  BY <1>1, <1>3, <1>5, <1>9, <1>10 DEF IndInv, ReplicaOK

\* An insertion at a position is one after the element before it.
LEMMA InsAtOK ==
  ASSUME NEW par, IsTree(par), NEW q, IsCopy(q, par), NEW pos \in 0..Len(View(q)), NEW id, NEW span
  PROVE  /\ InsAtAfter(q, Root, pos) \in DOMAIN par \cup {Root}
         /\ InsAt(q, Root, pos, id, span) = Ins(q, Root, InsAtAfter(q, Root, pos), id, span)
<1>1. Tiles(q, DOMAIN par) /\ DOMAIN par \subseteq Stamp
  BY DEF IsCopy, IsTree
<1>2. View(q) \in Seq(DOMAIN par)
  BY <1>1, ViewOK
<1>3. CASE pos = 0
  <2>1. InsAtAfter(q, Root, pos) = Root
    BY <1>3 DEF InsAtAfter
  <2> QED
    BY <1>3, <2>1 DEF InsAt, Ins
<1>4. CASE pos # 0
  <2>1. PICK after : after = View(q)[pos]
    OBVIOUS
  <2>2. pos \in 1..Len(View(q)) /\ (pos - 1) + 1 = pos
    BY <1>2, <1>4
  <2>3. after \in DOMAIN par
    BY <1>2, <2>1, <2>2
  <2>4. InsAtAfter(q, Root, pos) = after
    BY <1>4, <2>1 DEF InsAtAfter
  <2>5. PICK k : k = FindById(q, after)
    OBVIOUS
  <2>6. k \in 1..Len(q) /\ after # Root
    BY <1>1, <2>3, <2>5, TilesFacts, StampFacts
  <2>7. k # 0
    BY <2>6
  <2>8. FindChunk(q, pos - 1) = [at |-> k, offset |-> after.time - q[k].time]
    BY <2>1, <2>2, <2>5 DEF FindChunk
  <2>9. InsAt(q, Root, pos, id, span) = InsAfterChunk(q, Chunk(id, span), after, k, after.time - q[k].time)
    BY <1>4, <2>1, <2>8 DEF InsAt
  <2>10. Ins(q, Root, after, id, span) = InsAfterChunk(q, Chunk(id, span), after, k, after.time - q[k].time)
    BY <2>5, <2>6, <2>7 DEF Ins
  <2> QED
    BY <2>3, <2>4, <2>9, <2>10
<1> QED
  BY <1>3, <1>4

\* The session r publishes the operation op, an insertion after ref, and applies it.
InsStep(r, ref, span, op) ==
  /\ OpOK(ops, group, op) /\ Publish(r, op)
  /\ op.kind = "ins_str" /\ op.id = [sid |-> r, time |-> time[r]] /\ op.span = span
  /\ op.ref = ref /\ op.deps = seen[r] /\ op.id.sid = r /\ op.id.time = time[r]
  /\ rga' = [rga EXCEPT ![r] = Ins(rga[r], Root, op.ref, op.id, op.span)]

LEMMA LocalInsFacts ==
  ASSUME IndInv, NEW r \in group, NEW pos \in Positions(r), NEW span \in Spans, LocalIns(r, pos, span)
  PROVE  \E op : InsStep(r, InsAtAfter(rga[r], Root, pos), span, op)
<1>1. r \in Sid /\ OpsOK(ops, group) /\ CopyOK(ops, rga[r], time[r], seen[r]) /\ group \subseteq Sid /\ DOMAIN rga = Sid
  BY DEF IndInv, ReplicaOK
<1>2. PICK q : q = rga[r]
  OBVIOUS
<1>3. PICK ins : ins = InsOf(ops, seen[r])
  OBVIOUS
<1>4. PICK par : par = Par(ins)
  OBVIOUS
<1>5. /\ time[r] \in Nat \ {0} /\ seen[r] \subseteq {op.id : op \in ops}
      /\ IsTree(par) /\ IsCopy(q, par) /\ DOMAIN par = Inserted(ins)
      /\ \A op \in ops : op.id \in seen[r] => op.id.time + op.span <= time[r]
  BY <1>1, <1>2, <1>3, <1>4 DEF CopyOK, Par
<1>6. PICK ref : ref = InsAtAfter(q, Root, pos)
  OBVIOUS
<1>7. PICK op : op = InsStrOp(r, ref, span, seen[r])
  OBVIOUS
<1>8. /\ op.kind = "ins_str" /\ op.id = [sid |-> r, time |-> time[r]] /\ op.span = span
      /\ op.ref = ref /\ op.deps = seen[r]
      /\ op.id.sid = r /\ op.id.time = time[r]
  BY <1>7 DEF InsStrOp
<1>9. span \in Nat \ {0} /\ op.id \in Stamp
  BY <1>1, <1>5, <1>8, SpansAssumption DEF Stamp
<1>10. /\ ref \in DOMAIN par \cup {Root}
       /\ InsAt(q, Root, pos, op.id, span) = Ins(q, Root, ref, op.id, span)
  <2>1. pos \in 0..Len(View(q))
    BY <1>2 DEF Positions
  <2> QED
    BY <1>5, <1>6, <2>1, InsAtOK
<1>11. ref = Root \/ (ref \in Inserted(ins) /\ ref.time < op.id.time)
  <2> SUFFICES ASSUME ref \in Inserted(ins) PROVE ref.time < op.id.time
    BY <1>5, <1>10
  <2>1. PICK o \in ins : ref \in Elems(o.id, o.span)
    BY DEF Inserted
  <2>2. o \in ops /\ o.id \in seen[r] /\ o.id.time + o.span <= time[r]
    BY <1>3, <1>5, <2>1 DEF InsOf
  <2>3. o.id.time \in Nat /\ o.span \in Nat
    <3>1. o.id \in Stamp /\ o.span \in Nat
      BY <1>1, <2>2 DEF OpsOK, OpOK
    <3> QED
      BY <3>1, StampFacts
  <2>4. PICK i \in 0..(o.span - 1) : ref = [sid |-> o.id.sid, time |-> o.id.time + i]
    BY <2>1 DEF Elems
  <2>5. ref.time = o.id.time + i
    BY <2>4
  <2> QED
    BY <1>5, <1>8, <2>2, <2>3, <2>5
<1>12. OpOK(ops, group, op)
  <2>1. InsOf(ops, op.deps) = ins
    BY <1>3, <1>8
  <2>2. op.deps \subseteq {a.id : a \in ops} /\ op.id.time > 0 /\ op.id.sid \in group
    BY <1>5, <1>8
  <2> QED
    BY <1>8, <1>9, <1>11, <2>1, <2>2 DEF OpOK
<1>13. /\ Publish(r, op)
       /\ rga' = [rga EXCEPT ![r] = InsAt(rga[r], Root, pos, op.id, span)]
  BY <1>2, <1>6, <1>7, <1>8 DEF LocalIns
<1>14. rga' = [rga EXCEPT ![r] = Ins(rga[r], Root, op.ref, op.id, op.span)]
  <2>1. InsAt(rga[r], Root, pos, op.id, span) = Ins(rga[r], Root, op.ref, op.id, op.span)
    BY <1>2, <1>8, <1>10
  <2> QED
    BY <1>8, <1>13, <2>1
<1>15. InsStep(r, ref, span, op)
  BY <1>8, <1>12, <1>13, <1>14 DEF InsStep
<1> QED
  BY <1>2, <1>6, <1>15

LEMMA LocalInsOK ==
  ASSUME IndInv, NEW r \in group, NEW pos \in Positions(r), NEW span \in Spans, LocalIns(r, pos, span)
  PROVE  IndInv'
<1>1. PICK ref : ref = InsAtAfter(rga[r], Root, pos)
  OBVIOUS
<1>2. PICK op : InsStep(r, ref, span, op)
  BY <1>1, LocalInsFacts
<1>3. /\ OpOK(ops, group, op) /\ Publish(r, op)
      /\ op.kind = "ins_str" /\ op.deps = seen[r] /\ op.id.sid = r /\ op.id.time = time[r]
      /\ rga' = [rga EXCEPT ![r] = Ins(rga[r], Root, op.ref, op.id, op.span)]
  BY <1>2 DEF InsStep
<1>4. rga' = [rga EXCEPT ![r] = IF op.kind = "ins_str" THEN Ins(rga[r], Root, op.ref, op.id, op.span)
                                                       ELSE Delete(rga[r], op.what)]
  BY <1>3
<1> QED
  BY <1>3, <1>4, PublishOK

\* The session r publishes the operation op, a deletion of what, and applies it.
DelStep(r, what, op) ==
  /\ OpOK(ops, group, op) /\ Publish(r, op)
  /\ op.kind = "del" /\ op.what = what
  /\ op.deps = seen[r] /\ op.id.sid = r /\ op.id.time = time[r]
  /\ rga' = [rga EXCEPT ![r] = Delete(rga[r], op.what)]

LEMMA LocalDelFacts ==
  ASSUME IndInv, NEW r \in group, NEW pos \in Positions(r), NEW len \in Positions(r), LocalDel(r, pos, len)
  PROVE  \E op : DelStep(r, FindInterval(rga[r], pos, len), op)
<1>1. r \in Sid /\ OpsOK(ops, group) /\ CopyOK(ops, rga[r], time[r], seen[r]) /\ group \subseteq Sid /\ DOMAIN rga = Sid
  BY DEF IndInv, ReplicaOK
<1>2. PICK q : q = rga[r]
  OBVIOUS
<1>3. PICK par : par = Par(InsOf(ops, seen[r]))
  OBVIOUS
<1>4. /\ time[r] \in Nat \ {0} /\ seen[r] \subseteq {op.id : op \in ops}
      /\ IsTree(par) /\ IsCopy(q, par)
  BY <1>1, <1>2, <1>3 DEF CopyOK
<1>5. pos \in Nat /\ len \in Nat
  BY DEF Positions
<1>6. PICK what : what = FindInterval(q, pos, len)
  OBVIOUS
<1>7. what \in Seq(Intervals(par))
  BY <1>4, <1>5, <1>6, FindIntervalOK
<1>8. PICK op : op = DelOp(r, what, seen[r])
  OBVIOUS
<1>9. /\ op.kind = "del" /\ op.kind # "ins_str" /\ op.id = [sid |-> r, time |-> time[r]] /\ op.span = 1
      /\ op.what = what /\ op.deps = seen[r]
      /\ op.id.sid = r /\ op.id.time = time[r]
  BY <1>8 DEF DelOp
<1>10. op.id \in Stamp
  BY <1>1, <1>4, <1>9 DEF Stamp
<1>11. OpOK(ops, group, op)
  <2>1. Par(InsOf(ops, op.deps)) = par
    BY <1>3, <1>9
  <2>2. op.deps \subseteq {a.id : a \in ops} /\ op.id.time > 0 /\ op.id.sid \in group
    BY <1>4, <1>9
  <2> QED
    BY <1>7, <1>9, <1>10, <2>1, <2>2 DEF OpOK
<1>12. /\ Publish(r, op)
       /\ rga' = [rga EXCEPT ![r] = Delete(rga[r], op.what)]
  BY <1>2, <1>6, <1>8, <1>9 DEF LocalDel
<1>13. DelStep(r, what, op)
  BY <1>9, <1>11, <1>12 DEF DelStep
<1> QED
  BY <1>2, <1>6, <1>13

LEMMA LocalDelOK ==
  ASSUME IndInv, NEW r \in group, NEW pos \in Positions(r), NEW len \in Positions(r), LocalDel(r, pos, len)
  PROVE  IndInv'
<1>1. PICK what : what = FindInterval(rga[r], pos, len)
  OBVIOUS
<1>2. PICK op : DelStep(r, what, op)
  BY <1>1, LocalDelFacts
<1>3. /\ OpOK(ops, group, op) /\ Publish(r, op)
      /\ op.kind = "del" /\ op.deps = seen[r] /\ op.id.sid = r /\ op.id.time = time[r]
      /\ rga' = [rga EXCEPT ![r] = Delete(rga[r], op.what)]
  BY <1>2 DEF DelStep
<1>4. rga' = [rga EXCEPT ![r] = IF op.kind = "ins_str" THEN Ins(rga[r], Root, op.ref, op.id, op.span)
                                                       ELSE Delete(rga[r], op.what)]
  BY <1>3
<1> QED
  BY <1>3, <1>4, PublishOK

LEMMA MaxOfTwo ==
  ASSUME NEW a \in Nat, NEW b \in Nat
  PROVE  Max({a, b}) \in Nat /\ a <= Max({a, b}) /\ b <= Max({a, b})
<1>1. \E m \in {a, b} : \A n \in {a, b} : m >= n
  BY a <= b \/ b <= a
<1>2. Max({a, b}) \in {a, b} /\ \A n \in {a, b} : Max({a, b}) >= n
  BY <1>1 DEF Max
<1> QED
  BY <1>2

LEMMA DeliverOK ==
  ASSUME IndInv, NEW r \in group, NEW op \in ops, Deliver(r, op)
  PROVE  IndInv'
<1>1. /\ group \subseteq Sid /\ DOMAIN time = Sid /\ DOMAIN seen = Sid /\ DOMAIN rga = Sid
      /\ OpsOK(ops, group) /\ r \in Sid
  BY DEF IndInv
<1>2. ASSUME NEW x \in group
      PROVE  /\ \A a \in ops : a.id.sid = x => a.id \in seen[x]
             /\ CopyOK(ops, rga[x], time[x], seen[x])
  BY DEF IndInv, ReplicaOK
<1>3. PICK q2 : q2 = IF op.kind = "ins_str" THEN Ins(rga[r], Root, op.ref, op.id, op.span)
                                            ELSE Delete(rga[r], op.what)
  OBVIOUS
<1>4. PICK t2 : t2 = Max({time[r], op.id.time + op.span})
  OBVIOUS
<1>5. /\ op.deps \subseteq seen[r] /\ ops' = ops /\ group' = group
      /\ rga' = [rga EXCEPT ![r] = q2]
      /\ seen' = [seen EXCEPT ![r] = seen[r] \cup {op.id}]
      /\ time' = [time EXCEPT ![r] = t2]
  BY <1>1, <1>3, <1>4 DEF Deliver
<1>6. t2 \in Nat /\ time[r] <= t2 /\ op.id.time + op.span <= t2
  <2>1. time[r] \in Nat
    BY <1>2 DEF CopyOK
  <2>2. op.id \in Stamp /\ op.span \in Nat
    BY <1>1 DEF OpsOK, OpOK
  <2>3. op.id.time + op.span \in Nat
    BY <2>2, StampFacts
  <2> QED
    BY <1>4, <2>1, <2>3, MaxOfTwo
<1>7. CopyOK(ops, q2, t2, seen[r] \cup {op.id})
  BY <1>1, <1>2, <1>3, <1>5, <1>6, ApplyOK
<1>8. ASSUME NEW x \in group
      PROVE  /\ \A a \in ops : a.id.sid = x => a.id \in seen'[x]
             /\ CopyOK(ops, rga'[x], time'[x], seen'[x])
  <2>1. x \in Sid
    BY <1>1
  <2>2. CASE x = r
    <3>1. rga'[x] = q2 /\ time'[x] = t2 /\ seen'[x] = seen[r] \cup {op.id}
      BY <1>1, <1>5, <2>2
    <3> QED
      BY <1>2, <1>7, <2>2, <3>1
  <2>3. CASE x # r
    <3>1. rga'[x] = rga[x] /\ time'[x] = time[x] /\ seen'[x] = seen[x]
      BY <1>1, <1>5, <2>1, <2>3
    <3> QED
      BY <1>2, <3>1
  <2> QED
    BY <2>2, <2>3
<1>9. DOMAIN time' = Sid /\ DOMAIN seen' = Sid /\ DOMAIN rga' = Sid
  BY <1>1, <1>5
<1> QED
  BY <1>1, <1>5, <1>8, <1>9 DEF IndInv, ReplicaOK

LEMMA StepOK == IndInv /\ [Next]_vars => IndInv'
<1> SUFFICES ASSUME IndInv, [Next]_vars PROVE IndInv'
  OBVIOUS
<1>1. CASE \E r \in group : \E pos \in Positions(r), span \in Spans : LocalIns(r, pos, span)
  BY <1>1, LocalInsOK
<1>2. CASE \E r \in group : \E pos \in Positions(r), len \in Positions(r) \ {0} : LocalDel(r, pos, len)
  BY <1>2, LocalDelOK
<1>3. CASE \E r \in group, op \in ops : Deliver(r, op)
  BY <1>3, DeliverOK
<1>4. CASE UNCHANGED vars
  BY <1>4 DEF IndInv, ReplicaOK, vars
<1> QED
  BY <1>1, <1>2, <1>3, <1>4 DEF Next

(* In every state each copy is one of the tree of the insertions its       *)
(* session has seen, whatever was inserted, deleted, split and merged.     *)
THEOREM Invariance == Spec => []IndInv
<1>1. Init => IndInv
  BY InitOK
<1>2. IndInv /\ [Next]_vars => IndInv'
  BY StepOK
<1> QED
  BY <1>1, <1>2, PTL DEF Spec

-----------------------------------------------------------------------------
(* The split links.                                                        *)

LEMMA ContinuedOK ==
  ASSUME NEW ins, NEW par, par = Par(ins), IsTree(par), NEW q, IsCopy(q, par), NEW k \in 1..Len(q)
  PROVE  Continued(par, EndOf(q[k])) <=>
           \E m \in (k + 1)..Len(q) :
             /\ q[m].sid = q[k].sid
             /\ q[m].time = EndTime(q[k]) + 1
             /\ Parent(ins, Id(q[m])) = EndOf(q[k])
<1>1. Tiles(q, DOMAIN par) /\ DOMAIN par \subseteq Stamp /\ Len(q) \in Nat
  BY TilesFacts DEF IsCopy, IsTree
<1>2. \A m \in 1..Len(q) : q[m] \in Chunks /\ Id(q[m]) \in DOMAIN par
  BY <1>1, TilesFacts
<1>3. ASSUME NEW m \in 1..Len(q) PROVE par[Id(q[m])] = Parent(ins, Id(q[m]))
  BY <1>2 DEF Par
<1>4. PICK e : e = EndOf(q[k])
  OBVIOUS
<1>5. e \in Stamp /\ e.sid = q[k].sid /\ e.time = EndTime(q[k]) /\ EndTime(q[k]) \in Nat
  BY <1>2, <1>4, ChunkFacts
<1>6. PICK f : f = NextOf(e)
  OBVIOUS
<1>7. f \in Stamp /\ f.sid = q[k].sid /\ f.time = EndTime(q[k]) + 1
  BY <1>5, <1>6, NextFacts
<1>8. ASSUME Continued(par, e)
      PROVE  \E m \in (k + 1)..Len(q) : q[m].sid = q[k].sid /\ q[m].time = EndTime(q[k]) + 1
                                        /\ Parent(ins, Id(q[m])) = e
  <2>1. PICK m : m = LinkIndex(q, k)
    OBVIOUS
  <2>2. m \in (k + 1)..Len(q) /\ Id(q[m]) = f
    BY <1>4, <1>6, <1>8, <2>1, LinkOK
  <2>3. m \in 1..Len(q)
    BY <1>1, <2>2
  <2>4. q[m].sid = f.sid /\ q[m].time = f.time
    BY <1>2, <2>2, <2>3, ChunkFacts
  <2>5. par[f] = e
    BY <1>6, <1>8 DEF Continued
  <2> QED
    BY <1>3, <1>7, <2>2, <2>3, <2>4, <2>5
<1>9. ASSUME NEW m \in (k + 1)..Len(q), q[m].sid = q[k].sid, q[m].time = EndTime(q[k]) + 1,
             Parent(ins, Id(q[m])) = e
      PROVE  Continued(par, e)
  <2>1. m \in 1..Len(q)
    BY <1>1
  <2>2. Id(q[m]) \in Stamp /\ Id(q[m]).sid = f.sid /\ Id(q[m]).time = f.time
    BY <1>2, <1>7, <1>9, <2>1, ChunkFacts
  <2>3. Id(q[m]) = f
    BY <1>7, <2>2, SameStamp
  <2> QED
    BY <1>2, <1>3, <1>6, <1>9, <2>1, <2>3 DEF Continued
<1> QED
  BY <1>4, <1>8, <1>9

(* A split link leads from a chunk to the later one that was split from it *)
(* or typed right behind it, and exists wherever there is such a chunk.    *)
THEOREM LinksGenuinely == Spec => []LinksGenuine
<1>1. IndInv => LinksGenuine
  <2> SUFFICES ASSUME IndInv, NEW r \in group, NEW k \in DOMAIN rga[r]
               PROVE  LET q == rga[r]
                          ins == SeenIns(r)
                          end == [sid |-> q[k].sid, time |-> EndTime(q[k])]
                          continued == \E m \in (k + 1)..Len(q) :
                                         /\ q[m].sid = q[k].sid
                                         /\ q[m].time = EndTime(q[k]) + 1
                                         /\ Parent(ins, Id(q[m])) = end
                      IN  q[k].s = IF continued THEN EndTime(q[k]) + 1 ELSE 0
    BY DEF LinksGenuine
  <2>1. PICK q : q = rga[r]
    OBVIOUS
  <2>2. PICK ins : ins = SeenIns(r)
    OBVIOUS
  <2>3. PICK par : par = Par(ins)
    OBVIOUS
  <2>4. ins = InsOf(ops, seen[r])
    BY <2>2 DEF SeenIns, InsOf
  <2>5. IsTree(par) /\ IsCopy(q, par)
    BY <2>1, <2>3, <2>4 DEF IndInv, ReplicaOK, CopyOK
  <2>6. k \in 1..Len(q)
    <3>1. q \in Seq(Chunks)
      BY <2>5 DEF IsCopy, Tiles
    <3> QED
      BY <2>1, <3>1
  <2>7. PICK c \in BOOLEAN : c <=> \E m \in (k + 1)..Len(q) :
                                     /\ q[m].sid = q[k].sid
                                     /\ q[m].time = EndTime(q[k]) + 1
                                     /\ Parent(ins, Id(q[m])) = EndOf(q[k])
    OBVIOUS
  <2>8. q[k].s = IF c THEN EndTime(q[k]) + 1 ELSE 0
    <3>1. c <=> Continued(par, EndOf(q[k]))
      BY <2>3, <2>5, <2>6, <2>7, ContinuedOK
    <3>2. q[k].s = IF Continued(par, EndOf(q[k])) THEN EndTime(q[k]) + 1 ELSE 0
      BY <2>5, <2>6 DEF IsCopy, Linked
    <3> QED
      BY <3>1, <3>2
  <2> QED
    BY <2>1, <2>2, <2>7, <2>8 DEF EndOf
<1> QED
  BY <1>1, Invariance, PTL

-----------------------------------------------------------------------------
(* What a deletion leaves.                                                 *)

LEMMA FlattenAppend ==
  ASSUME NEW T, NEW s \in Seq(Seq(T)), NEW t \in Seq(T)
  PROVE  FlattenSeq(Append(s, t)) = FlattenSeq(s) \o t
<1>1. PICK n \in Nat : n = Len(s)
  OBVIOUS
<1>2. PICK u : u = Append(s, t)
  OBVIOUS
<1>3. u \in Seq(Seq(T)) /\ Len(u) = n + 1 /\ u[n + 1] = t /\ \A i \in 1..n : u[i] = s[i]
  BY <1>1, <1>2, AppendProperties
<1>4. PICK a : IsConcat(u, T, a)
  BY <1>3, FlattenExists
<1>5. a \in [0..(n + 1) -> Seq(T)] /\ a[0] = <<>> /\ \A i \in 1..(n + 1) : a[i] = a[i - 1] \o u[i]
  BY <1>3, <1>4 DEF IsConcat, ConcatUpTo
<1>6. PICK b : b = [i \in 0..n |-> a[i]]
  OBVIOUS
<1>7. IsConcat(s, T, b)
  <2>1. b \in [0..n -> Seq(T)] /\ b[0] = <<>>
    BY <1>5, <1>6
  <2>2. ASSUME NEW i \in 1..n PROVE b[i] = b[i - 1] \o s[i]
    <3>1. i - 1 \in 0..n /\ i \in 0..n /\ i \in 1..(n + 1)
      OBVIOUS
    <3>2. b[i] = a[i] /\ b[i - 1] = a[i - 1]
      BY <1>6, <3>1
    <3>3. a[i] = a[i - 1] \o u[i] /\ u[i] = s[i]
      BY <1>3, <1>5, <3>1
    <3> QED
      BY <3>2, <3>3
  <2> QED
    BY <1>1, <2>1, <2>2 DEF IsConcat, ConcatUpTo
<1>8. FlattenSeq(s) = b[n]
  BY <1>1, <1>7, FlattenOK
<1>9. FlattenSeq(u) = a[n + 1]
  BY <1>3, <1>4, FlattenOK
<1>10. b[n] = a[n]
  BY <1>6
<1>11. a[n + 1] = a[n] \o u[n + 1]
  <2>1. n + 1 \in 1..(n + 1) /\ (n + 1) - 1 = n
    OBVIOUS
  <2> QED
    BY <1>5, <2>1
<1> QED
  BY <1>2, <1>3, <1>8, <1>9, <1>10, <1>11

\* What Without() makes of one element
Kept(e, gone) == IF e \in gone THEN <<>> ELSE <<e>>

LEMMA WithoutType ==
  ASSUME NEW T, NEW s \in Seq(T), NEW gone
  PROVE  Without(s, gone) \in Seq(T) /\ Without(<<>>, gone) = <<>>
<1>1. PICK k : k = [i \in DOMAIN s |-> IF s[i] \in gone THEN <<>> ELSE <<s[i]>>]
  OBVIOUS
<1>2. k \in [1..Len(s) -> Seq(T)] /\ Len(s) \in Nat
  <2>1. DOMAIN s = 1..Len(s) /\ \A i \in 1..Len(s) : s[i] \in T
    OBVIOUS
  <2>2. ASSUME NEW i \in 1..Len(s) PROVE (IF s[i] \in gone THEN <<>> ELSE <<s[i]>>) \in Seq(T)
    <3>1. s[i] \in T
      BY <2>1
    <3> QED
      BY <3>1
  <2> QED
    BY <1>1, <2>1, <2>2
<1>3. k \in Seq(Seq(T))
  BY <1>2
<1>4. Without(s, gone) \in Seq(T)
  BY <1>1, <1>3, FlattenType DEF Without
<1>5. [i \in DOMAIN <<>> |-> IF <<>>[i] \in gone THEN <<>> ELSE << <<>>[i] >>] = <<>>
  OBVIOUS
<1>6. FlattenSeq(<<>>) = <<>>
  BY DEF FlattenSeq
<1> QED
  BY <1>4, <1>5, <1>6 DEF Without

LEMMA WithoutAppend ==
  ASSUME NEW T, NEW s \in Seq(T), NEW e \in T, NEW gone
  PROVE  Without(Append(s, e), gone) = Without(s, gone) \o Kept(e, gone)
<1>1. PICK n \in Nat : n = Len(s)
  OBVIOUS
<1>2. PICK k : k = [i \in 1..n |-> Kept(s[i], gone)]
  OBVIOUS
<1>3. \A x \in T : Kept(x, gone) \in Seq(T)
  BY DEF Kept
<1>4. k \in Seq(Seq(T)) /\ Len(k) = n
  <2>1. \A i \in 1..n : s[i] \in T
    BY <1>1
  <2>2. k \in [1..n -> Seq(T)]
    BY <1>2, <1>3, <2>1
  <2> QED
    BY <2>2
<1>5. Without(s, gone) = FlattenSeq(k)
  <2>1. DOMAIN s = 1..n
    BY <1>1
  <2> QED
    BY <1>2, <2>1 DEF Without, Kept
<1>6. PICK u : u = Append(s, e)
  OBVIOUS
<1>7. u \in Seq(T) /\ Len(u) = n + 1 /\ DOMAIN u = 1..(n + 1) /\ u[n + 1] = e /\ \A i \in 1..n : u[i] = s[i]
  BY <1>1, <1>6, AppendProperties
<1>8. PICK m : m = [i \in 1..(n + 1) |-> Kept(u[i], gone)]
  OBVIOUS
<1>9. Without(u, gone) = FlattenSeq(m)
  BY <1>7, <1>8 DEF Without, Kept
<1>10. m = Append(k, Kept(e, gone))
  <2>1. m \in Seq(Seq(T)) /\ Len(m) = n + 1
    <3>1. \A i \in 1..(n + 1) : u[i] \in T
      BY <1>7
    <3>2. m \in [1..(n + 1) -> Seq(T)]
      BY <1>3, <1>8, <3>1
    <3> QED
      BY <3>2
  <2>2. PICK x : x = Append(k, Kept(e, gone))
    OBVIOUS
  <2>3. /\ x \in Seq(Seq(T)) /\ Len(x) = n + 1 /\ x[n + 1] = Kept(e, gone)
        /\ \A i \in 1..n : x[i] = k[i]
    BY <1>3, <1>4, <2>2, AppendProperties
  <2>4. ASSUME NEW i \in 1..(n + 1) PROVE m[i] = x[i]
    <3>1. CASE i = n + 1
      BY <1>7, <1>8, <2>3, <3>1
    <3>2. CASE i # n + 1
      <4>1. i \in 1..n
        BY <3>2
      <4> QED
        BY <1>2, <1>7, <1>8, <2>3, <4>1
    <3> QED
      BY <3>1, <3>2
  <2> QED
    BY <2>1, <2>2, <2>3, <2>4, SeqEqual
<1>11. FlattenSeq(m) = FlattenSeq(k) \o Kept(e, gone)
  BY <1>3, <1>4, <1>10, FlattenAppend
<1> QED
  BY <1>5, <1>6, <1>9, <1>11

\* A run that is gone, or kept, as a whole
RunKept(e, d) == IF d THEN <<>> ELSE e
Uniform(e, gone, d) ==
  \A i \in 1..Len(e) : e[i] \in gone <=> d

LEMMA WithoutRun ==
  ASSUME NEW T, NEW s \in Seq(T), NEW e \in Seq(T), NEW gone, NEW d \in BOOLEAN,
         Uniform(e, gone, d)
  PROVE  Without(s \o e, gone) = Without(s, gone) \o RunKept(e, d)
<1>1. PICK n \in Nat : n = Len(e)
  OBVIOUS
<1>2. \A i \in 1..n : e[i] \in T /\ (e[i] \in gone <=> d)
  BY <1>1 DEF Uniform
<1>3. PICK w : w = Without(s, gone)
  OBVIOUS
<1>4. w \in Seq(T)
  BY <1>3, WithoutType
<1> DEFINE R == {j \in Nat : j <= n => Without(s \o SubSeq(e, 1, j), gone) = w \o IF d THEN <<>> ELSE SubSeq(e, 1, j)}
<1>5. 0 \in R
  <2>1. SubSeq(e, 1, 0) = <<>>
    BY SubSeqEmpty
  <2>2. s \o <<>> = s /\ w \o <<>> = w
    BY <1>4, ConcatEmptySeq
  <2> QED
    BY <1>3, <2>1, <2>2
<1>6. ASSUME NEW j \in 0..(n - 1), j \in R PROVE (j + 1) \in R
  <2>1. j + 1 \in 1..n /\ (j + 1) - 1 = j /\ j + 1 <= n /\ 1 \in 1..n /\ j <= n
    OBVIOUS
  <2>2. PICK u : u = SubSeq(e, 1, j)
    OBVIOUS
  <2>3. PICK x : x = e[j + 1]
    OBVIOUS
  <2>4. u \in Seq(T) /\ x \in T /\ <<x>> \in Seq(T) /\ (x \in gone <=> d)
    <3>1. \A i \in 1..j : e[i] \in T
      BY <1>2, <2>1
    <3>2. u \in Seq(T)
      BY <2>2, <3>1, SubSeqProperties
    <3>3. x \in T /\ (x \in gone <=> d)
      BY <1>2, <2>1, <2>3
    <3> QED
      BY <3>2, <3>3
  <2>5. SubSeq(e, 1, j + 1) = u \o <<x>>
    <3>1. 1 \in 1..Len(e) /\ j + 1 \in 1..Len(e)
      BY <1>1, <2>1
    <3>2. SubSeq(e, 1, j + 1) = SubSeq(e, 1, (j + 1) - 1) \o <<e[j + 1]>>
      BY <3>1, SubSeqRecursiveSecond
    <3> QED
      BY <2>1, <2>2, <2>3, <3>2
  <2>6. s \o (u \o <<x>>) = Append(s \o u, x) /\ s \o u \in Seq(T)
    <3>1. s \o u \in Seq(T)
      BY <2>4, ConcatProperties
    <3>2. (s \o u) \o <<x>> = s \o (u \o <<x>>)
      BY <2>4, ConcatAssociative
    <3>3. Append(s \o u, x) = (s \o u) \o <<x>>
      BY <2>4, <3>1, AppendIsConcat
    <3> QED
      BY <3>1, <3>2, <3>3
  <2>7. Without(Append(s \o u, x), gone) = Without(s \o u, gone) \o Kept(x, gone)
    BY <2>4, <2>6, WithoutAppend
  <2>8. Without(s \o u, gone) = w \o IF d THEN <<>> ELSE u
    BY <1>6, <2>1, <2>2
  <2>9. CASE d
    <3>1. Kept(x, gone) = <<>>
      BY <2>4, <2>9 DEF Kept
    <3>2. w \o <<>> = w
      BY <1>4, ConcatEmptySeq
    <3>3. Without(s \o (u \o <<x>>), gone) = w \o <<>>
      BY <2>6, <2>7, <2>8, <2>9, <3>1, <3>2
    <3>4. Without(s \o SubSeq(e, 1, j + 1), gone) = w \o <<>>
      BY <2>5, <3>3
    <3>5. j + 1 \in Nat
      OBVIOUS
    <3> QED
      BY <2>9, <3>4, <3>5
  <2>10. CASE ~d
    <3>1. Kept(x, gone) = <<x>>
      BY <2>4, <2>10 DEF Kept
    <3>2. (w \o u) \o <<x>> = w \o (u \o <<x>>)
      BY <1>4, <2>4, ConcatAssociative
    <3>3. Without(s \o (u \o <<x>>), gone) = w \o (u \o <<x>>)
      BY <2>6, <2>7, <2>8, <2>10, <3>1, <3>2
    <3>4. Without(s \o SubSeq(e, 1, j + 1), gone) = w \o SubSeq(e, 1, j + 1)
      BY <2>5, <3>3
    <3>5. j + 1 \in Nat
      OBVIOUS
    <3> QED
      BY <2>10, <3>4, <3>5
  <2> QED
    BY <2>9, <2>10
<1>7. Without(s \o SubSeq(e, 1, n), gone) = w \o IF d THEN <<>> ELSE SubSeq(e, 1, n)
  <2>1. n \in 0..n /\ n <= n
    OBVIOUS
  <2> HIDE DEF R
  <2>2. \A j \in 0..n : j \in R
    BY ONLY <1>5, <1>6, n \in Nat, Upward
  <2>3. n \in R
    BY <2>1, <2>2
  <2> QED
    BY <2>1, <2>3 DEF R
<1>8. SubSeq(e, 1, n) = e
  BY <1>1, SubSeqFull
<1> QED
  BY <1>3, <1>7, <1>8 DEF RunKept

\* A copy shows the elements that are not gone.
LEMMA ViewKept ==
  ASSUME NEW q \in Seq(Chunks), NEW gone, Marked(q, gone)
  PROVE  View(q) = Without(Elements(q), gone)
<1>1. PICK n \in Nat : n = Len(q)
  OBVIOUS
<1>2. DOMAIN q = 1..n /\ \A k \in 1..n : q[k] \in Chunks
  BY <1>1
<1>3. PICK v : v = [k \in DOMAIN q |-> IF q[k].del THEN <<>> ELSE ChunkElements(q[k])]
  OBVIOUS
<1>4. PICK w : w = [k \in DOMAIN q |-> ChunkElements(q[k])]
  OBVIOUS
<1>5. ASSUME NEW k \in 1..n
      PROVE  /\ w[k] \in Seq(Stamp) /\ v[k] = IF q[k].del THEN <<>> ELSE w[k]
             /\ v[k] \in Seq(Stamp) /\ q[k].del \in BOOLEAN
             /\ \A i \in 1..Len(w[k]) : w[k][i] \in gone <=> q[k].del
  <2>1. w[k] = ChunkElements(q[k]) /\ v[k] = IF q[k].del THEN <<>> ELSE w[k]
    BY <1>2, <1>3, <1>4
  <2>2. /\ w[k] \in Seq(Stamp)
        /\ \A i \in 1..Len(w[k]) : ContainsId(q[k], w[k][i])
    BY <1>2, <2>1, ChunkElementsOK
  <2>3. q[k].del \in BOOLEAN
    BY <1>2, ChunkFacts
  <2>4. \A i \in 1..Len(w[k]) : w[k][i] \in gone <=> q[k].del
    <3>1. \A e \in Stamp : ContainsId(q[k], e) => (q[k].del <=> e \in gone)
      BY <1>1 DEF Marked
    <3>2. \A i \in 1..Len(w[k]) : w[k][i] \in Stamp
      BY <2>2
    <3> QED
      BY <2>2, <3>1, <3>2
  <2>5. v[k] \in Seq(Stamp)
    <3>1. <<>> \in Seq(Stamp)
      OBVIOUS
    <3> QED
      BY <2>1, <2>2, <2>3, <3>1
  <2> QED
    BY <2>1, <2>2, <2>3, <2>4, <2>5
<1>6. v \in Seq(Seq(Stamp)) /\ w \in Seq(Seq(Stamp)) /\ Len(v) = n /\ Len(w) = n
  <2>1. v \in [1..n -> Seq(Stamp)] /\ w \in [1..n -> Seq(Stamp)]
    BY <1>2, <1>3, <1>4, <1>5
  <2> QED
    BY <2>1
<1>7. PICK a : IsConcat(v, Stamp, a)
  BY <1>6, FlattenExists
<1>8. PICK b : IsConcat(w, Stamp, b)
  BY <1>6, FlattenExists
<1>9. /\ a[0] = <<>> /\ \A i \in 1..n : a[i] = a[i - 1] \o v[i]
      /\ b[0] = <<>> /\ \A i \in 1..n : b[i] = b[i - 1] \o w[i]
      /\ \A i \in 0..n : b[i] \in Seq(Stamp)
  BY <1>6, <1>7, <1>8 DEF IsConcat, ConcatUpTo
<1> DEFINE R == {k \in Nat : k <= n => a[k] = Without(b[k], gone)}
<1>10. 0 \in R
  <2>1. <<>> \in Seq(Stamp)
    OBVIOUS
  <2>2. Without(<<>>, gone) = <<>>
    BY <2>1, WithoutType
  <2> QED
    BY <1>9, <2>2
<1>11. ASSUME NEW k \in 0..(n - 1), k \in R PROVE (k + 1) \in R
  <2>1. PICK m : m = k + 1
    OBVIOUS
  <2>2. m \in 1..n /\ m - 1 = k /\ k \in 0..n /\ k <= n /\ m \in Nat
    BY <2>1
  <2>3. a[k] = Without(b[k], gone)
    BY <1>11, <2>2
  <2>4. a[m] = a[k] \o v[m] /\ b[m] = b[k] \o w[m] /\ b[k] \in Seq(Stamp)
    BY <1>9, <2>2
  <2>5. Without(b[k] \o w[m], gone) = Without(b[k], gone) \o IF q[m].del THEN <<>> ELSE w[m]
    <3>1. PICK d : d = q[m].del
      OBVIOUS
    <3>2. PICK e : e = w[m]
      OBVIOUS
    <3>3. d \in BOOLEAN /\ e \in Seq(Stamp) /\ Uniform(e, gone, d)
      BY <1>5, <2>2, <3>1, <3>2 DEF Uniform
    <3>4. Without(b[k] \o e, gone) = Without(b[k], gone) \o RunKept(e, d)
      BY ONLY <2>4, <3>3, WithoutRun
    <3> QED
      BY <3>1, <3>2, <3>4 DEF RunKept
  <2>6. v[m] = IF q[m].del THEN <<>> ELSE w[m]
    BY <1>5, <2>2
  <2>7. a[m] = Without(b[m], gone)
    BY <2>3, <2>4, <2>5, <2>6
  <2> QED
    BY <2>1, <2>2, <2>7
<1>12. a[n] = Without(b[n], gone)
  <2>1. n \in 0..n /\ n <= n
    OBVIOUS
  <2> HIDE DEF R
  <2>2. \A k \in 0..n : k \in R
    BY ONLY <1>10, <1>11, n \in Nat, Upward
  <2>3. n \in R
    BY <2>1, <2>2
  <2> QED
    BY <2>1, <2>3 DEF R
<1>13. FlattenSeq(v) = a[n] /\ FlattenSeq(w) = b[n]
  BY <1>6, <1>7, <1>8, FlattenOK
<1> QED
  BY <1>3, <1>4, <1>12, <1>13 DEF View, Elements

(* The visible elements of a copy are those no operation it has seen       *)
(* deleted: a deletion neither misses a piece of a chunk that was split    *)
(* before it arrived nor takes a neighbour along.                          *)
THEOREM DeletesExactly == Spec => []DeletedExactly
<1>1. IndInv => DeletedExactly
  <2> SUFFICES ASSUME IndInv, NEW r \in group
               PROVE  View(rga[r]) = Without(Elements(rga[r]), Deleted(SeenDel(r)))
    BY DEF DeletedExactly
  <2>1. SeenDel(r) = DelOf(ops, seen[r])
    BY DEF SeenDel, DelOf
  <2>2. Marked(rga[r], Deleted(SeenDel(r))) /\ rga[r] \in Seq(Chunks)
    BY <2>1 DEF IndInv, ReplicaOK, CopyOK, IsCopy, Tiles
  <2> QED
    BY <2>2, ViewKept
<1> QED
  BY <1>1, Invariance, PTL

-----------------------------------------------------------------------------
(* Sequences in an order, which is a set of pairs.                         *)

Members(s) == {s[i] : i \in 1..Len(s)}

Chain(s, O) == \A i, j \in 1..Len(s) : i < j => <<s[i], s[j]>> \in O

\* All of s come before all of t.
Ahead(s, t, O) == \A i \in 1..Len(s), j \in 1..Len(t) : <<s[i], t[j]>> \in O

Strict(O) == \A x, y : <<x, y>> \in O => x # y /\ <<y, x>> \notin O

LEMMA ConcatChain ==
  ASSUME NEW T, NEW s \in Seq(T), NEW t \in Seq(T), NEW O
  PROVE  /\ Members(s \o t) = Members(s) \cup Members(t)
         /\ Chain(s \o t, O) <=> Chain(s, O) /\ Chain(t, O) /\ Ahead(s, t, O)
<1>1. PICK n \in Nat : n = Len(s)
  OBVIOUS
<1>2. PICK m \in Nat : m = Len(t)
  OBVIOUS
<1>3. PICK u : u = s \o t
  OBVIOUS
<1>4. Len(u) = n + m /\ \A i \in 1..(n + m) : u[i] = IF i <= n THEN s[i] ELSE t[i - n]
  BY <1>1, <1>2, <1>3, ConcatProperties
<1>5. \A i \in 1..n : i \in 1..(n + m) /\ u[i] = s[i]
  BY <1>4
<1>6. ASSUME NEW j \in 1..m PROVE n + j \in 1..(n + m) /\ u[n + j] = t[j]
  <2>1. n + j \in 1..(n + m) /\ ~(n + j <= n) /\ (n + j) - n = j
    OBVIOUS
  <2> QED
    BY <1>4, <2>1
<1>7. ASSUME NEW i \in 1..(n + m) PROVE i \in 1..n \/ \E j \in 1..m : i = n + j
  <2>1. CASE i <= n
    BY <2>1
  <2>2. CASE ~(i <= n)
    <3>1. i - n \in 1..m /\ i = n + (i - n)
      BY <2>2
    <3> QED
      BY <3>1
  <2> QED
    BY <2>1, <2>2
<1>8. Members(u) = Members(s) \cup Members(t)
  <2>1. ASSUME NEW i \in 1..(n + m) PROVE u[i] \in Members(s) \cup Members(t)
    BY <1>1, <1>2, <1>5, <1>6, <1>7 DEF Members
  <2>2. ASSUME NEW i \in 1..n PROVE s[i] \in Members(u)
    <3>1. i \in 1..Len(u) /\ u[i] = s[i]
      BY <1>4, <1>5
    <3> QED
      BY <3>1 DEF Members
  <2>3. ASSUME NEW j \in 1..m PROVE t[j] \in Members(u)
    <3>1. n + j \in 1..Len(u) /\ u[n + j] = t[j]
      BY <1>4, <1>6
    <3> QED
      BY <3>1 DEF Members
  <2> QED
    BY <1>1, <1>2, <1>4, <2>1, <2>2, <2>3 DEF Members
<1>9. ASSUME Chain(u, O) PROVE Chain(s, O) /\ Chain(t, O) /\ Ahead(s, t, O)
  <2>1. \A i, j \in 1..(n + m) : i < j => <<u[i], u[j]>> \in O
    BY <1>4, <1>9 DEF Chain
  <2>2. Chain(s, O)
    BY <1>1, <1>5, <2>1 DEF Chain
  <2>3. ASSUME NEW i \in 1..m, NEW j \in 1..m, i < j PROVE <<t[i], t[j]>> \in O
    <3>1. n + i < n + j /\ n + i \in 1..(n + m) /\ n + j \in 1..(n + m)
      BY <2>3
    <3>2. <<u[n + i], u[n + j]>> \in O
      BY <2>1, <3>1
    <3> QED
      BY <1>6, <3>2
  <2>4. ASSUME NEW i \in 1..n, NEW j \in 1..m PROVE <<s[i], t[j]>> \in O
    <3>1. i < n + j /\ i \in 1..(n + m) /\ n + j \in 1..(n + m)
      OBVIOUS
    <3>2. <<u[i], u[n + j]>> \in O
      BY <2>1, <3>1
    <3> QED
      BY <1>5, <1>6, <3>2
  <2> QED
    BY <1>1, <1>2, <2>2, <2>3, <2>4 DEF Chain, Ahead
<1>10. ASSUME Chain(s, O), Chain(t, O), Ahead(s, t, O) PROVE Chain(u, O)
  <2> SUFFICES ASSUME NEW i \in 1..(n + m), NEW j \in 1..(n + m), i < j PROVE <<u[i], u[j]>> \in O
    BY <1>4 DEF Chain
  <2>1. CASE i \in 1..n /\ j \in 1..n
    BY <1>1, <1>5, <1>10, <2>1 DEF Chain
  <2>2. CASE i \in 1..n /\ \E b \in 1..m : j = n + b
    <3>1. PICK b \in 1..m : j = n + b
      BY <2>2
    <3>2. u[j] = t[b] /\ u[i] = s[i]
      BY <1>5, <1>6, <2>2, <3>1
    <3> QED
      BY <1>1, <1>2, <1>10, <2>2, <3>2 DEF Ahead
  <2>3. CASE (\E a \in 1..m : i = n + a) /\ \E b \in 1..m : j = n + b
    <3>1. PICK a \in 1..m : i = n + a
      BY <2>3
    <3>2. PICK b \in 1..m : j = n + b
      BY <2>3
    <3>3. u[i] = t[a] /\ u[j] = t[b] /\ a < b
      BY <1>6, <3>1, <3>2
    <3> QED
      BY <1>2, <1>10, <3>3 DEF Chain
  <2>4. CASE (\E a \in 1..m : i = n + a) /\ j \in 1..n
    BY <2>4
  <2> QED
    BY <1>7, <2>1, <2>2, <2>3, <2>4
<1> QED
  BY <1>3, <1>8, <1>9, <1>10

\* Sequences of sequences, each in order and ahead of the next ones
LEMMA FlattenChain ==
  ASSUME NEW T, NEW s \in Seq(Seq(T)), NEW O,
         \A k \in 1..Len(s) : Chain(s[k], O),
         \A k, m \in 1..Len(s) : k < m => Ahead(s[k], s[m], O)
  PROVE  /\ Chain(FlattenSeq(s), O) /\ FlattenSeq(s) \in Seq(T)
         /\ Members(FlattenSeq(s)) = UNION {Members(s[k]) : k \in 1..Len(s)}
<1>1. PICK n \in Nat : n = Len(s)
  OBVIOUS
<1>2. PICK a : IsConcat(s, T, a)
  BY FlattenExists
<1>3. /\ a[0] = <<>> /\ \A i \in 1..n : a[i] = a[i - 1] \o s[i]
      /\ \A i \in 0..n : a[i] \in Seq(T)
      /\ \A i \in 1..n : s[i] \in Seq(T)
  <2>1. \A i \in 1..n : s[i] \in Seq(T)
    BY <1>1
  <2>2. /\ a \in [0..n -> Seq(T)] /\ a[0] = <<>>
        /\ \A i \in 1..n : a[i] = a[i - 1] \o s[i]
    BY <1>1, <1>2 DEF IsConcat, ConcatUpTo
  <2> QED
    BY <2>1, <2>2
<1> DEFINE UpTo(k) == UNION {Members(s[i]) : i \in 1..k}
           R == {k \in Nat : k <= n => Chain(a[k], O) /\ Members(a[k]) = UpTo(k)}
<1>4. 0 \in R
  <2>1. Len(<<>>) = 0 /\ 1..0 = {}
    OBVIOUS
  <2>2. Chain(<<>>, O) /\ Members(<<>>) = {}
    BY <2>1 DEF Chain, Members
  <2>3. UpTo(0) = {}
    BY <2>1
  <2> QED
    BY <1>3, <2>2, <2>3
<1>5. ASSUME NEW k \in 0..(n - 1), k \in R PROVE (k + 1) \in R
  <2>1. PICK m : m = k + 1
    OBVIOUS
  <2>2. m \in 1..n /\ m - 1 = k /\ k \in 0..n /\ k <= n /\ m \in Nat /\ \A i \in 1..k : i \in 1..n /\ i < m
    BY <2>1
  <2>3. Chain(a[k], O) /\ Members(a[k]) = UpTo(k) /\ a[k] \in Seq(T) /\ s[m] \in Seq(T) /\ a[m] = a[k] \o s[m]
    BY <1>3, <1>5, <2>2
  <2>4. Ahead(a[k], s[m], O)
    <3> SUFFICES ASSUME NEW i \in 1..Len(a[k]), NEW j \in 1..Len(s[m]) PROVE <<a[k][i], s[m][j]>> \in O
      BY DEF Ahead
    <3>1. a[k][i] \in Members(a[k])
      BY DEF Members
    <3>2. PICK l \in 1..k : a[k][i] \in Members(s[l])
      BY <2>3, <3>1
    <3>3. PICK h \in 1..Len(s[l]) : a[k][i] = s[l][h]
      BY <3>2 DEF Members
    <3>4. Ahead(s[l], s[m], O)
      BY <1>1, <2>2
    <3> QED
      BY <3>3, <3>4 DEF Ahead
  <2>5. Chain(a[m], O) /\ Members(a[m]) = UpTo(k) \cup Members(s[m])
    <3>1. Chain(s[m], O)
      BY <1>1, <2>2
    <3> QED
      BY <2>3, <2>4, <3>1, ConcatChain
  <2>6. UpTo(m) = UpTo(k) \cup Members(s[m])
    <3>1. \A i \in 1..m : i \in 1..k \/ i = m
      BY <2>1, <2>2
    <3>2. \A i \in 1..k : i \in 1..m
      BY <2>1, <2>2
    <3>3. m \in 1..m
      BY <2>2
    <3> QED
      BY ONLY <3>1, <3>2, <3>3
  <2>7. m \in R
    BY <2>2, <2>5, <2>6
  <2> QED
    BY <2>1, <2>7
<1>6. Chain(a[n], O) /\ Members(a[n]) = UpTo(n)
  <2>1. n \in 0..n /\ n <= n
    OBVIOUS
  <2> HIDE DEF R
  <2>2. \A k \in 0..n : k \in R
    BY ONLY <1>4, <1>5, n \in Nat, Upward
  <2>3. n \in R
    BY <2>1, <2>2
  <2> QED
    BY <2>1, <2>3 DEF R
<1>7. FlattenSeq(s) = a[n] /\ FlattenSeq(s) \in Seq(T)
  BY <1>1, <1>2, FlattenOK
<1> QED
  BY <1>1, <1>6, <1>7

\* One order, one sequence
LEMMA UniqueChain ==
  ASSUME NEW T, NEW s \in Seq(T), NEW t \in Seq(T), NEW O, Strict(O),
         Chain(s, O), Chain(t, O), Members(s) = Members(t)
  PROVE  s = t
<1>1. Len(s) \in Nat /\ Len(t) \in Nat
  OBVIOUS
<1>2. ASSUME NEW i \in 1..Len(s), i \in 1..Len(t), s[i] # t[i], \A j \in 1..(i - 1) : s[j] = t[j]
      PROVE  FALSE
  <2>1. PICK a \in 1..Len(s) : s[a] = t[i]
    BY <1>2 DEF Members
  <2>2. PICK b \in 1..Len(t) : t[b] = s[i]
    BY <1>2 DEF Members
  <2>3. i < a
    <3>1. a # i
      BY <1>2, <2>1
    <3>2. ~(a < i)
      <4> SUFFICES ASSUME a < i PROVE FALSE
        OBVIOUS
      <4>1. a \in 1..(i - 1) /\ a \in 1..Len(t)
        BY <1>2
      <4>2. t[a] = t[i] /\ <<t[a], t[i]>> \in O
        BY <1>2, <2>1, <4>1 DEF Chain
      <4> QED
        BY <4>2 DEF Strict
    <3> QED
      BY <3>1, <3>2
  <2>4. i < b
    <3>1. b # i
      BY <1>2, <2>2
    <3>2. ~(b < i)
      <4> SUFFICES ASSUME b < i PROVE FALSE
        OBVIOUS
      <4>1. b \in 1..(i - 1) /\ b \in 1..Len(s)
        BY <1>2
      <4>2. s[b] = s[i] /\ <<s[b], s[i]>> \in O
        BY <1>2, <2>2, <4>1 DEF Chain
      <4> QED
        BY <4>2 DEF Strict
    <3> QED
      BY <3>1, <3>2
  <2>5. <<s[i], s[a]>> \in O /\ <<t[i], t[b]>> \in O
    BY <1>2, <2>3, <2>4 DEF Chain
  <2> QED
    BY <2>1, <2>2, <2>5 DEF Strict
<1>3. ASSUME NEW n \in Nat, n <= Len(s), n <= Len(t) PROVE \A i \in 1..n : s[i] = t[i]
  <2> SUFFICES ASSUME {i \in 1..n : s[i] # t[i]} # {} PROVE FALSE
    OBVIOUS
  <2>1. {i \in 1..n : s[i] # t[i]} \in SUBSET Nat
    OBVIOUS
  <2>2. PICK i \in {j \in 1..n : s[j] # t[j]} : \A j \in {h \in 1..n : s[h] # t[h]} : i <= j
    BY <2>1, Least
  <2>3. \A j \in 1..(i - 1) : s[j] = t[j]
    BY <2>2
  <2>4. i \in 1..Len(s) /\ i \in 1..Len(t) /\ s[i] # t[i]
    BY <1>1, <1>3, <2>2
  <2> QED
    BY <1>2, <2>3, <2>4
<1>4. ~(Len(s) < Len(t))
  <2> SUFFICES ASSUME Len(s) < Len(t) PROVE FALSE
    OBVIOUS
  <2>1. \A i \in 1..Len(s) : s[i] = t[i]
    BY <1>1, <1>3
  <2>2. PICK j : j = Len(s) + 1
    OBVIOUS
  <2>3. j \in 1..Len(t)
    BY <1>1, <2>2
  <2>4. PICK i \in 1..Len(s) : s[i] = t[j]
    BY <2>3 DEF Members
  <2>5. i < j /\ i \in 1..Len(t) /\ t[i] = t[j]
    BY <1>1, <2>1, <2>2, <2>4
  <2>6. <<t[i], t[j]>> \in O
    BY <2>3, <2>5 DEF Chain
  <2> QED
    BY <2>5, <2>6 DEF Strict
<1>5. ~(Len(t) < Len(s))
  <2> SUFFICES ASSUME Len(t) < Len(s) PROVE FALSE
    OBVIOUS
  <2>1. \A i \in 1..Len(t) : s[i] = t[i]
    BY <1>1, <1>3
  <2>2. PICK j : j = Len(t) + 1
    OBVIOUS
  <2>3. j \in 1..Len(s)
    BY <1>1, <2>2
  <2>4. PICK i \in 1..Len(t) : t[i] = s[j]
    BY <2>3 DEF Members
  <2>5. i < j /\ i \in 1..Len(s) /\ s[i] = s[j]
    BY <1>1, <2>1, <2>2, <2>4
  <2>6. <<s[i], s[j]>> \in O
    BY <2>3, <2>5 DEF Chain
  <2> QED
    BY <2>5, <2>6 DEF Strict
<1>6. Len(s) = Len(t)
  BY <1>1, <1>4, <1>5
<1>7. \A i \in 1..Len(s) : s[i] = t[i]
  BY <1>1, <1>3, <1>6
<1> QED
  BY <1>6, <1>7, SeqEqual

-----------------------------------------------------------------------------
(* The elements of a copy are listed in its order.                         *)

OrderOf(q, E) == {pair \in E \X E : Precedes(q, pair[1], pair[2])}

LEMMA OrderFacts ==
  ASSUME NEW q, NEW E, Tiles(q, E), E \subseteq Stamp
  PROVE  /\ Strict(OrderOf(q, E))
         /\ \A x, y \in E : <<x, y>> \in OrderOf(q, E) <=> Precedes(q, x, y)
         /\ \A x, y : <<x, y>> \in OrderOf(q, E) => x \in E /\ y \in E
<1>1. \A x, y \in E : <<x, y>> \in OrderOf(q, E) <=> Precedes(q, x, y)
  BY DEF OrderOf
<1>2. \A x, y : <<x, y>> \in OrderOf(q, E) => x \in E /\ y \in E
  BY DEF OrderOf
<1>3. Strict(OrderOf(q, E))
  <2> SUFFICES ASSUME NEW x, NEW y, <<x, y>> \in OrderOf(q, E)
               PROVE  x # y /\ <<y, x>> \notin OrderOf(q, E)
    BY DEF Strict
  <2>1. x \in E /\ y \in E /\ Precedes(q, x, y)
    BY <1>1, <1>2
  <2>2. ~Precedes(q, y, x) /\ ~Precedes(q, x, x)
    BY <2>1, PrecedesFacts
  <2> QED
    BY <1>1, <2>1, <2>2
<1> QED
  BY <1>1, <1>2, <1>3

LEMMA ElementsListed ==
  ASSUME NEW q, NEW E, Tiles(q, E), E \subseteq Stamp
  PROVE  /\ Elements(q) \in Seq(E) /\ Members(Elements(q)) = E
         /\ Chain(Elements(q), OrderOf(q, E))
<1>1. PICK n \in Nat : n = Len(q)
  BY TilesFacts
<1>2. PICK O : O = OrderOf(q, E)
  OBVIOUS
<1>3. DOMAIN q = 1..n
  BY <1>1 DEF Tiles
<1>4. PICK w : w = [k \in DOMAIN q |-> ChunkElements(q[k])]
  OBVIOUS
<1>5. ASSUME NEW k \in 1..n
      PROVE  /\ w[k] \in Seq(E)
             /\ \A i \in 1..Len(w[k]) : w[k][i] \in E /\ FindById(q, w[k][i]) = k
             /\ Chain(w[k], O)
             /\ Members(w[k]) = {e \in E : FindById(q, e) = k}
  <2>1. q[k] \in Chunks /\ \A e \in Stamp : ContainsId(q[k], e) <=> e \in E /\ FindById(q, e) = k
    BY <1>1, TilesFacts
  <2>2. PICK s : s = w[k]
    OBVIOUS
  <2>3. PICK c : c = q[k]
    OBVIOUS
  <2>4. /\ s \in Seq(Stamp) /\ Len(s) = c.span /\ c.span \in Nat /\ c.time \in Nat
        /\ \A i \in 1..c.span : s[i] = [sid |-> c.sid, time |-> c.time + i - 1] /\ ContainsId(c, s[i])
    <3>1. s = ChunkElements(c) /\ c \in Chunks
      BY <1>3, <1>4, <2>1, <2>2, <2>3
    <3> QED
      BY <3>1, ChunkElementsOK, ChunkFacts
  <2>5. \A i \in 1..c.span : s[i] \in Stamp
    BY <2>4
  <2>6. \A i \in 1..c.span : s[i] \in E /\ FindById(q, s[i]) = k
    BY <2>1, <2>3, <2>4, <2>5
  <2>7. s \in Seq(E)
    <3>1. s \in [1..c.span -> E]
      BY <2>4, <2>6
    <3> QED
      BY <2>4, <3>1
  <2>8. Chain(s, O)
    <3> SUFFICES ASSUME NEW i \in 1..c.span, NEW j \in 1..c.span, i < j PROVE <<s[i], s[j]>> \in O
      BY <2>4 DEF Chain
    <3>1. s[i].time = c.time + i - 1 /\ s[j].time = c.time + j - 1
      <4>1. s[i] = [sid |-> c.sid, time |-> c.time + i - 1] /\ s[j] = [sid |-> c.sid, time |-> c.time + j - 1]
        BY <2>4
      <4>2. \A a, b : [sid |-> a, time |-> b].time = b
        OBVIOUS
      <4> QED
        BY ONLY <4>1, <4>2
    <3>2. s[i].time < s[j].time
      BY <2>4, <3>1
    <3>3. Precedes(q, s[i], s[j])
      BY <2>6, <3>2 DEF Precedes
    <3> QED
      BY <1>2, <2>6, <3>3, OrderFacts
  <2>9. ASSUME NEW e \in E, FindById(q, e) = k PROVE e \in Members(s)
    <3>1. e \in Stamp /\ e = [sid |-> e.sid, time |-> e.time] /\ e.time \in Nat
      BY StampFacts
    <3>2. e.sid = c.sid /\ c.time <= e.time /\ e.time < c.time + c.span
      BY <2>1, <2>3, <2>9, <3>1 DEF ContainsId
    <3>3. PICK i : i = e.time - c.time + 1
      OBVIOUS
    <3>4. i \in 1..c.span /\ c.time + i - 1 = e.time
      <4>1. c.time \in Nat /\ c.span \in Nat /\ e.time \in Nat
        BY <2>4, <3>1
      <4> QED
        BY ONLY <3>2, <3>3, <4>1
    <3>5. s[i] = e
      BY <2>4, <3>1, <3>2, <3>4
    <3> QED
      BY <2>4, <3>4, <3>5 DEF Members
  <2>10. Members(s) = {e \in E : FindById(q, e) = k}
    BY <2>4, <2>6, <2>9 DEF Members
  <2> QED
    BY <2>2, <2>4, <2>6, <2>7, <2>8, <2>10
<1>6. w \in Seq(Seq(E)) /\ Len(w) = n
  <2>1. w \in [1..n -> Seq(E)]
    BY <1>3, <1>4, <1>5
  <2> QED
    BY <2>1
<1>7. ASSUME NEW k \in 1..n, NEW m \in 1..n, k < m PROVE Ahead(w[k], w[m], O)
  <2> SUFFICES ASSUME NEW i \in 1..Len(w[k]), NEW j \in 1..Len(w[m]) PROVE <<w[k][i], w[m][j]>> \in O
    BY DEF Ahead
  <2>1. w[k][i] \in E /\ w[m][j] \in E /\ FindById(q, w[k][i]) = k /\ FindById(q, w[m][j]) = m
    BY <1>5
  <2>2. Precedes(q, w[k][i], w[m][j])
    BY <1>7, <2>1 DEF Precedes
  <2> QED
    BY <1>2, <2>1, <2>2, OrderFacts
<1>8. PICK s : s = FlattenSeq(w)
  OBVIOUS
<1>9. Chain(s, O) /\ s \in Seq(E) /\ Members(s) = UNION {Members(w[k]) : k \in 1..n}
  BY <1>5, <1>6, <1>7, <1>8, FlattenChain
<1>10. UNION {Members(w[k]) : k \in 1..n} = E
  <2>1. ASSUME NEW e \in E PROVE \E k \in 1..n : e \in Members(w[k])
    <3>1. FindById(q, e) \in 1..n
      BY <1>1, TilesFacts
    <3> QED
      BY <1>5, <3>1
  <2>2. \A k \in 1..n : Members(w[k]) \subseteq E
    BY <1>5
  <2> QED
    BY <2>1, <2>2
<1>11. Elements(q) = s
  BY <1>4, <1>8 DEF Elements
<1> QED
  BY <1>2, <1>9, <1>10, <1>11

LEMMA WithoutListed ==
  ASSUME NEW T, NEW s \in Seq(T), NEW O, Chain(s, O), NEW gone
  PROVE  /\ Chain(Without(s, gone), O)
         /\ Members(Without(s, gone)) = Members(s) \ gone
<1>1. PICK n \in Nat : n = Len(s)
  OBVIOUS
<1>2. PICK k : k = [i \in 1..n |-> Kept(s[i], gone)]
  OBVIOUS
<1>3. \A i \in 1..n : s[i] \in T /\ k[i] = Kept(s[i], gone)
  BY <1>1, <1>2
<1>4. ASSUME NEW i \in 1..n
      PROVE  /\ k[i] \in Seq(T) /\ Chain(k[i], O)
             /\ Members(k[i]) = {s[i]} \ gone
             /\ \A j \in 1..Len(k[i]) : k[i][j] = s[i]
  <2>1. CASE s[i] \in gone
    <3>1. k[i] = <<>>
      BY <1>3, <2>1 DEF Kept
    <3>2. Len(<<>>) = 0 /\ 1..0 = {} /\ <<>> \in Seq(T)
      OBVIOUS
    <3> QED
      BY <2>1, <3>1, <3>2 DEF Chain, Members
  <2>2. CASE s[i] \notin gone
    <3>5. k[i] = <<s[i]>> /\ s[i] \in T
      BY <1>3, <2>2 DEF Kept
    <3>1. k[i] = <<s[i]>> /\ Len(k[i]) = 1 /\ 1..1 = {1} /\ k[i][1] = s[i] /\ k[i] \in Seq(T)
      BY <3>5
    <3>2. ~(1 < 1)
      OBVIOUS
    <3>3. Chain(k[i], O)
      BY <3>1, <3>2 DEF Chain
    <3>4. Members(k[i]) = {s[i]}
      BY <3>1 DEF Members
    <3> QED
      BY <2>2, <3>1, <3>3, <3>4
  <2> QED
    BY <2>1, <2>2
<1>5. k \in Seq(Seq(T)) /\ Len(k) = n
  <2>1. k \in [1..n -> Seq(T)]
    BY <1>2, <1>4
  <2> QED
    BY <2>1
<1>6. ASSUME NEW i \in 1..n, NEW j \in 1..n, i < j PROVE Ahead(k[i], k[j], O)
  <2>1. <<s[i], s[j]>> \in O
    BY <1>1, <1>6 DEF Chain
  <2> QED
    BY <1>4, <2>1 DEF Ahead
<1>7. Without(s, gone) = FlattenSeq(k)
  <2>1. DOMAIN s = 1..n
    BY <1>1
  <2> QED
    BY <1>2, <2>1 DEF Without, Kept
<1>8. PICK f : f = FlattenSeq(k)
  OBVIOUS
<1>9. Chain(f, O) /\ Members(f) = UNION {Members(k[i]) : i \in 1..n}
  BY <1>4, <1>5, <1>6, <1>8, FlattenChain
<1>10. UNION {Members(k[i]) : i \in 1..n} = Members(s) \ gone
  <2>1. Members(s) = {s[i] : i \in 1..n}
    BY <1>1 DEF Members
  <2> QED
    BY <1>4, <2>1
<1> QED
  BY <1>7, <1>8, <1>9, <1>10

\* What a copy shows
LEMMA ViewListed ==
  ASSUME NEW par, IsTree(par), NEW q, IsCopy(q, par), NEW gone, Marked(q, gone)
  PROVE  /\ View(q) \in Seq(DOMAIN par) /\ Members(View(q)) = DOMAIN par \ gone
         /\ Chain(View(q), OrderOf(q, DOMAIN par))
<1>1. Tiles(q, DOMAIN par) /\ DOMAIN par \subseteq Stamp /\ q \in Seq(Chunks)
  BY DEF IsCopy, Tiles, IsTree
<1>2. PICK s : s = Elements(q)
  OBVIOUS
<1>3. s \in Seq(DOMAIN par) /\ Members(s) = DOMAIN par /\ Chain(s, OrderOf(q, DOMAIN par))
  BY <1>1, <1>2, ElementsListed
<1>4. View(q) = Without(s, gone)
  BY <1>1, <1>2, ViewKept
<1>5. Chain(Without(s, gone), OrderOf(q, DOMAIN par)) /\ Members(Without(s, gone)) = Members(s) \ gone
  BY <1>3, WithoutListed
<1> QED
  BY <1>1, <1>3, <1>4, <1>5, ViewOK

-----------------------------------------------------------------------------
(* The reference: a tree in preorder.                                      *)

\* The number of identifiers that are not before one of a set says which one it is.
LEMMA LatestFirstOK ==
  ASSUME NEW S \in SUBSET Stamp, IsFiniteSet(S), NEW f, f = LatestFirst(S)
  PROVE  /\ f \in Seq(S) /\ \A c \in S : \E i \in 1..Len(f) : f[i] = c
         /\ \A i, j \in 1..Len(f) : i < j => Before(f[j], f[i])
<1> DEFINE upto(c) == {d \in S : ~Before(d, c)}
           rank == [c \in S |-> Cardinality(upto(c))]
           g(i) == CHOOSE c \in S : Cardinality({d \in S : ~Before(d, c)}) = i
<1>1. PICK N \in Nat : N = Cardinality(S)
  BY FS_CardinalityType
<1>2. ASSUME NEW c \in S
      PROVE  IsFiniteSet(upto(c)) /\ rank[c] \in 1..N /\ upto(c) \subseteq S /\ c \in upto(c)
  <2>1. upto(c) \in SUBSET S /\ c \in upto(c)
    BY BeforeFacts
  <2>2. IsFiniteSet(upto(c)) /\ Cardinality(upto(c)) <= N
    BY <1>1, <2>1, FS_Subset
  <2>3. Cardinality(upto(c)) \in Nat /\ Cardinality(upto(c)) # 0
    BY <2>1, <2>2, FS_CardinalityType, FS_EmptySet
  <2> QED
    BY <1>1, <2>1, <2>2, <2>3
<1>3. ASSUME NEW c \in S, NEW d \in S, Before(c, d) PROVE upto(d) \subseteq upto(c) /\ c \notin upto(d)
  <2>1. c \notin upto(d)
    BY <1>3
  <2>2. ASSUME NEW x \in upto(d) PROVE x \in upto(c)
    <3>1. x \in Stamp /\ c \in Stamp /\ d \in Stamp
      OBVIOUS
    <3> QED
      BY <1>3, <2>2, <3>1, BeforeFacts
  <2> QED
    BY <2>1, <2>2
<1>4. ASSUME NEW c \in S, NEW d \in S, rank[c] = rank[d], Before(c, d) PROVE FALSE
  <2>1. upto(d) \in SUBSET upto(c) /\ c \in upto(c) /\ c \notin upto(d)
    BY <1>2, <1>3, <1>4
  <2>2. Cardinality(upto(c)) = Cardinality(upto(d))
    BY <1>4
  <2>3. upto(d) = upto(c)
    BY <1>2, <2>1, <2>2, FS_Subset
  <2> QED
    BY <2>1, <2>3
<1>5. rank \in Injection(S, 1..N)
  <2>1. rank \in [S -> 1..N]
    BY <1>2
  <2>2. \A c, d \in S : rank[c] = rank[d] => c = d
    <3> HIDE DEF rank
    <3> QED
      BY <1>4, BeforeFacts
  <2> HIDE DEF rank
  <2> QED
    BY <2>1, <2>2 DEF Injection, IsInjective
<1>6. rank \in Surjection(S, 1..N)
  <2>1. IsFiniteSet(1..N) /\ Cardinality(1..N) = N
    BY FS_Interval
  <2> HIDE DEF rank
  <2> QED
    BY <1>1, <1>5, <2>1, FS_Injection
<1>7. f = [i \in 1..N |-> g(i)]
  BY <1>1 DEF LatestFirst
<1>8. ASSUME NEW i \in 1..N PROVE f[i] \in S /\ rank[f[i]] = i
  <2>1. \E c \in S : rank[c] = i
    <3> HIDE DEF rank
    <3> QED
      BY <1>6 DEF Surjection
  <2>2. \E c \in S : Cardinality(upto(c)) = i
    BY <2>1
  <2>3. f[i] = CHOOSE c \in S : Cardinality(upto(c)) = i
    BY <1>7
  <2> HIDE DEF upto
  <2>4. f[i] \in S /\ Cardinality(upto(f[i])) = i
    BY <2>2, <2>3
  <2> QED
    BY <2>4
<1> HIDE DEF rank, g
<1>9. f \in [1..N -> S]
  BY <1>7, <1>8
<1>10. f \in Seq(S) /\ Len(f) = N
  BY <1>9
<1>11. ASSUME NEW c \in S PROVE \E i \in 1..N : f[i] = c
  <2>1. rank[c] \in 1..N
    BY <1>2
  <2>2. f[rank[c]] \in S /\ rank[f[rank[c]]] = rank[c]
    BY <1>8, <2>1
  <2>3. f[rank[c]] = c
    BY <1>5, <2>2 DEF Injection, IsInjective
  <2> QED
    BY <2>1, <2>3
<1>12. ASSUME NEW i \in 1..N, NEW j \in 1..N, i < j PROVE Before(f[j], f[i])
  <2>1. PICK c : c = f[i]
    OBVIOUS
  <2>2. PICK d : d = f[j]
    OBVIOUS
  <2>3. c \in S /\ d \in S /\ rank[c] = i /\ rank[d] = j
    BY <1>8, <2>1, <2>2
  <2>4. c # d
    BY <1>12, <2>3
  <2>5. ~Before(c, d)
    <3> SUFFICES ASSUME Before(c, d) PROVE FALSE
      OBVIOUS
    <3>1. upto(d) \in SUBSET upto(c) /\ IsFiniteSet(upto(c))
      BY <1>2, <1>3, <2>3
    <3>2. Cardinality(upto(d)) <= Cardinality(upto(c))
      BY <3>1, FS_Subset
    <3>3. Cardinality(upto(c)) = i /\ Cardinality(upto(d)) = j
      BY <2>3 DEF rank
    <3> QED
      BY <1>12, <3>2, <3>3
  <2> QED
    BY <2>1, <2>2, <2>3, <2>4, <2>5, BeforeFacts
<1> QED
  BY <1>10, <1>11, <1>12

ChildrenOf(par, e) == LatestFirst({c \in DOMAIN par : par[c] = e})

\* What hangs below e, where f says so of what hangs below that
Spread(par, f, e) ==
  FlattenSeq([i \in DOMAIN ChildrenOf(par, e) |-> <<ChildrenOf(par, e)[i]>> \o f[ChildrenOf(par, e)[i]]])

LEMMA ChildrenOK ==
  ASSUME NEW par, IsTree(par), IsFiniteSet(DOMAIN par), NEW e, NEW cs, cs = ChildrenOf(par, e)
  PROVE  /\ cs \in Seq(DOMAIN par) /\ Len(cs) \in Nat /\ DOMAIN cs = 1..Len(cs)
         /\ \A i \in 1..Len(cs) : cs[i] \in DOMAIN par /\ par[cs[i]] = e
         /\ \A c \in DOMAIN par : par[c] = e => \E i \in 1..Len(cs) : cs[i] = c
         /\ \A i, j \in 1..Len(cs) : i < j => Before(cs[j], cs[i])
<1>1. PICK S : S = {c \in DOMAIN par : par[c] = e}
  OBVIOUS
<1>2. S \in SUBSET Stamp /\ IsFiniteSet(S)
  BY <1>1, FS_Subset DEF IsTree
<1>3. /\ cs \in Seq(S) /\ \A c \in S : \E i \in 1..Len(cs) : cs[i] = c
      /\ \A i, j \in 1..Len(cs) : i < j => Before(cs[j], cs[i])
  BY <1>1, <1>2, LatestFirstOK DEF ChildrenOf
<1>4. \A i \in 1..Len(cs) : cs[i] \in S
  BY <1>3
<1>5. cs \in Seq(DOMAIN par)
  BY <1>1, <1>3, SeqMonotonic
<1> QED
  BY <1>1, <1>3, <1>4, <1>5

Later(par, t) == {e \in DOMAIN par \cup {Root} : e.time >= t}
SpreadFrom(par, f, t) ==
  f = [e \in Later(par, t) |-> f[e]] /\ \A e \in Later(par, t) : f[e] = Spread(par, f, e)

\* Elements whose times are below N hang below one another less than N deep.
LEMMA SpreadExists ==
  ASSUME NEW par, IsTree(par), IsFiniteSet(DOMAIN par),
         NEW N \in Nat \ {0}, \A e \in DOMAIN par : e.time < N
  PROVE  \E f : f = [e \in DOMAIN par \cup {Root} |-> Spread(par, f, e)]
<1> DEFINE From(n) == Later(par, N - n)
           R == {n \in Nat : \E f : SpreadFrom(par, f, N - n)}
<1>1. DOMAIN par \subseteq Stamp /\ \A e \in DOMAIN par \cup {Root} : e.time \in Nat
  <2>1. DOMAIN par \subseteq Stamp
    BY DEF IsTree
  <2> QED
    BY <2>1, StampFacts DEF Root
<1> USE DEF Later
<1>2. ASSUME NEW f, NEW g, NEW n \in 0..(N - 1), NEW e \in DOMAIN par \cup {Root}, e.time >= N - (n + 1),
             \A x \in From(n) : f[x] = g[x]
      PROVE  Spread(par, f, e) = Spread(par, g, e)
  <2>1. PICK cs : cs = ChildrenOf(par, e)
    OBVIOUS
  <2>2. DOMAIN cs = 1..Len(cs) /\ \A i \in 1..Len(cs) : cs[i] \in DOMAIN par /\ par[cs[i]] = e
    BY <2>1, ChildrenOK
  <2>3. ASSUME NEW i \in 1..Len(cs) PROVE f[cs[i]] = g[cs[i]]
    <3>1. cs[i] \in DOMAIN par /\ e.time < cs[i].time
      BY <2>2 DEF IsTree
    <3>2. cs[i].time \in Nat /\ e.time \in Nat
      BY <1>1, <3>1
    <3>3. cs[i].time >= N - n
      BY <1>2, <3>1, <3>2
    <3>4. cs[i] \in From(n)
      BY <3>1, <3>3
    <3> QED
      BY <1>2, <3>4
  <2>4. [i \in DOMAIN cs |-> <<cs[i]>> \o f[cs[i]]] = [i \in DOMAIN cs |-> <<cs[i]>> \o g[cs[i]]]
    BY <2>2, <2>3
  <2> QED
    BY <2>1, <2>4 DEF Spread
<1>3. 0 \in R
  <2>1. From(0) = {}
    <3>1. \A e \in DOMAIN par \cup {Root} : ~(e.time >= N - 0)
      BY <1>1 DEF Root
    <3> QED
      BY <3>1
  <2>2. PICK f : f = [e \in {} |-> e]
    OBVIOUS
  <2>3. SpreadFrom(par, f, N - 0)
    BY <2>1, <2>2 DEF SpreadFrom
  <2> QED
    BY <2>3
<1>4. ASSUME NEW n \in 0..(N - 1), n \in R PROVE (n + 1) \in R
  <2>1. PICK f : SpreadFrom(par, f, N - n)
    BY <1>4
  <2>2. PICK g : g = [e \in From(n + 1) |-> IF e \in From(n) THEN f[e] ELSE Spread(par, f, e)]
    OBVIOUS
  <2>3. \A e \in From(n) : e \in From(n + 1) /\ g[e] = f[e]
    <3>1. \A e \in From(n) : e.time >= N - (n + 1)
      BY <1>1
    <3> QED
      BY <2>2, <3>1
  <2>4. ASSUME NEW e \in From(n + 1) PROVE g[e] = Spread(par, g, e)
    <3>1. Spread(par, f, e) = Spread(par, g, e)
      BY <1>2, <2>3, <2>4
    <3>2. CASE e \in From(n)
      <4>1. f[e] = Spread(par, f, e)
        BY <2>1, <3>2 DEF SpreadFrom
      <4> QED
        BY <2>3, <3>1, <3>2, <4>1
    <3>3. CASE e \notin From(n)
      BY <2>2, <2>4, <3>1, <3>3
    <3> QED
      BY <3>2, <3>3
  <2>5. g = [e \in From(n + 1) |-> g[e]]
    BY <2>2
  <2>6. SpreadFrom(par, g, N - (n + 1))
    BY <2>4, <2>5 DEF SpreadFrom
  <2>7. n + 1 \in Nat
    OBVIOUS
  <2> QED
    BY <2>6, <2>7
<1>5. \E f : SpreadFrom(par, f, N - N)
  <2>1. N \in 0..N
    OBVIOUS
  <2> HIDE DEF R
  <2>2. \A n \in 0..N : n \in R
    BY ONLY <1>3, <1>4, N \in Nat, Upward
  <2>3. N \in R
    BY <2>1, <2>2
  <2> QED
    BY <2>3 DEF R
<1>6. PICK f : SpreadFrom(par, f, N - N)
  BY <1>5
<1>7. From(N) = DOMAIN par \cup {Root}
  <2>1. N - N = 0
    OBVIOUS
  <2> QED
    BY <1>1, <2>1
<1>8. /\ f = [e \in DOMAIN par \cup {Root} |-> f[e]]
      /\ \A e \in DOMAIN par \cup {Root} : f[e] = Spread(par, f, e)
  BY <1>6, <1>7 DEF SpreadFrom
<1>9. [e \in DOMAIN par \cup {Root} |-> f[e]] = [e \in DOMAIN par \cup {Root} |-> Spread(par, f, e)]
  BY <1>8
<1> QED
  BY <1>8, <1>9

\* s lists what hangs below e, in the order of the copy q.
SubtreeOK(q, par, e, s) ==
  /\ s \in Seq(DOMAIN par)
  /\ Chain(s, OrderOf(q, DOMAIN par))
  /\ \A x \in DOMAIN par : x \in Members(s) <=> par[x] = e \/ par[x] \in Members(s)
  /\ \A x \in Members(s) : e.time < x.time /\ (e = Root \/ Precedes(q, e, x))

LEMMA Earliest ==
  ASSUME NEW S, S # {}, S \subseteq Stamp
  PROVE  \E x \in S : \A y \in S : ~(y.time < x.time)
<1>1. PICK T : T = {x.time : x \in S}
  OBVIOUS
<1>2. T \in SUBSET Nat /\ T # {}
  BY <1>1, StampFacts
<1>3. PICK m \in T : \A n \in T : m <= n
  BY <1>2, Least
<1>4. PICK x \in S : x.time = m
  BY <1>1, <1>3
<1>5. ASSUME NEW y \in S, y.time < x.time PROVE FALSE
  <2>1. y.time \in T /\ y.time \in Nat /\ x.time \in Nat
    BY <1>1, StampFacts
  <2> QED
    BY <1>3, <1>4, <1>5, <2>1
<1> QED
  BY <1>5

\* b lists a child c of e and what hangs below c.
BranchOK(q, par, e, c, b) ==
  /\ b \in Seq(DOMAIN par)
  /\ Chain(b, OrderOf(q, DOMAIN par))
  /\ c \in DOMAIN par /\ par[c] = e
  /\ \A x \in DOMAIN par : x \in Members(b) <=> x = c \/ par[x] \in Members(b)
  /\ \A x \in Members(b) : e.time < x.time /\ (e = Root \/ Precedes(q, e, x))
  /\ \A x \in Members(b) : x = c \/ (c.time < x.time /\ Precedes(q, c, x))

LEMMA BranchFacts ==
  ASSUME NEW par, IsTree(par), NEW q, IsCopy(q, par), NEW e \in DOMAIN par \cup {Root},
         NEW c \in DOMAIN par, par[c] = e, NEW s, SubtreeOK(q, par, c, s),
         NEW b, b = <<c>> \o s
  PROVE  BranchOK(q, par, e, c, b)
<1>1. PICK D : D = DOMAIN par
  OBVIOUS
<1>2. PICK O : O = OrderOf(q, D)
  OBVIOUS
<1>3. Tiles(q, D) /\ D \subseteq Stamp /\ c \in D /\ c # Root /\ c.time \in Nat
  <2>1. Tiles(q, D) /\ D \subseteq Stamp
    BY <1>1 DEF IsCopy, IsTree
  <2> QED
    BY <1>1, <2>1, StampFacts
<1>4. /\ s \in Seq(D) /\ Chain(s, O)
      /\ \A x \in D : x \in Members(s) <=> par[x] = c \/ par[x] \in Members(s)
      /\ \A x \in Members(s) : c.time < x.time /\ Precedes(q, c, x)
  BY <1>1, <1>2, <1>3 DEF SubtreeOK
<1>5. Members(s) \subseteq D
  BY <1>4 DEF Members
<1>6. PICK o : o = <<c>>
  OBVIOUS
<1>7. o \in Seq(D) /\ Len(o) = 1 /\ o[1] = c /\ 1..1 = {1}
  BY <1>3, <1>6
<1>8. Members(o) = {c} /\ Chain(o, O)
  <2>1. ~(1 < 1)
    OBVIOUS
  <2> QED
    BY <1>7, <2>1 DEF Members, Chain
<1>9. Ahead(o, s, O)
  <2> SUFFICES ASSUME NEW j \in 1..Len(s) PROVE <<c, s[j]>> \in O
    BY <1>7 DEF Ahead
  <2>1. s[j] \in Members(s)
    BY DEF Members
  <2>2. s[j] \in D /\ Precedes(q, c, s[j])
    BY <1>4, <1>5, <2>1
  <2> QED
    BY <1>2, <1>3, <2>2, OrderFacts
<1>10. b \in Seq(D) /\ Chain(b, O) /\ Members(b) = {c} \cup Members(s)
  <2>1. b = o \o s
    BY <1>6
  <2>2. b \in Seq(D)
    BY <1>4, <1>7, <2>1, ConcatProperties
  <2>3. /\ Members(o \o s) = Members(o) \cup Members(s)
        /\ Chain(o \o s, O) <=> Chain(o, O) /\ Chain(s, O) /\ Ahead(o, s, O)
    BY <1>4, <1>7, ConcatChain
  <2> QED
    BY <1>4, <1>8, <1>9, <2>1, <2>2, <2>3
<1>11. \A x \in D : x \in Members(b) => x = c \/ par[x] \in Members(b)
  BY <1>4, <1>10
<1>12. \A x \in D : x = c \/ par[x] \in Members(b) => x \in Members(b)
  BY <1>4, <1>10
<1>13. e.time < c.time /\ (e = Root \/ Precedes(q, e, c)) /\ e.time \in Nat
  <2>1. e.time < c.time /\ e.time \in Nat
    BY <1>1, <1>3, StampFacts DEF IsTree
  <2>2. e # Root => Precedes(q, e, c)
    BY <1>1, <1>3 DEF IsCopy, InOrder
  <2> QED
    BY <2>1, <2>2
<1>14. ASSUME NEW x \in Members(b) PROVE e.time < x.time /\ (e = Root \/ Precedes(q, e, x))
  <2>1. CASE x = c
    BY <1>13, <2>1
  <2>2. CASE x \in Members(s)
    <3>1. c.time < x.time /\ Precedes(q, c, x) /\ x \in D /\ x.time \in Nat
      BY <1>3, <1>4, <1>5, <2>2, StampFacts
    <3>2. e.time < x.time
      BY <1>3, <1>13, <3>1
    <3>3. e # Root => Precedes(q, e, x)
      <4> SUFFICES ASSUME e # Root PROVE Precedes(q, e, x)
        OBVIOUS
      <4>1. e \in D /\ Precedes(q, e, c)
        BY <1>1, <1>13
      <4> QED
        BY <1>3, <3>1, <4>1, PrecedesFacts
    <3> QED
      BY <3>2, <3>3
  <2> QED
    BY <1>10, <2>1, <2>2
<1>15. \A x \in Members(b) : x = c \/ (c.time < x.time /\ Precedes(q, c, x))
  BY <1>4, <1>10
<1> QED
  BY <1>1, <1>2, <1>10, <1>11, <1>12, <1>14, <1>15 DEF BranchOK

\* The branch of a later child comes before that of an earlier one.
LEMMA BranchesAhead ==
  ASSUME NEW par, IsTree(par), NEW q, IsCopy(q, par), NEW e \in DOMAIN par \cup {Root},
         NEW c, NEW b, BranchOK(q, par, e, c, b), NEW c2, NEW b2, BranchOK(q, par, e, c2, b2),
         Before(c2, c)
  PROVE  Ahead(b, b2, OrderOf(q, DOMAIN par))
<1>1. PICK D : D = DOMAIN par
  OBVIOUS
<1>2. Tiles(q, D) /\ D \subseteq Stamp /\ \A x \in D : x.time \in Nat /\ x # Root
  <2>1. Tiles(q, D) /\ D \subseteq Stamp
    BY <1>1 DEF IsCopy, IsTree
  <2> QED
    BY <2>1, StampFacts
<1>3. /\ c \in D /\ par[c] = e /\ c2 \in D /\ par[c2] = e
      /\ b \in Seq(D) /\ b2 \in Seq(D)
      /\ \A x \in D : x \in Members(b) <=> x = c \/ par[x] \in Members(b)
      /\ \A x \in Members(b) : e.time < x.time /\ (e = Root \/ Precedes(q, e, x))
      /\ \A x \in Members(b) : x = c \/ (c.time < x.time /\ Precedes(q, c, x))
      /\ \A x \in Members(b2) : x = c2 \/ (c2.time < x.time /\ Precedes(q, c2, x))
  BY <1>1 DEF BranchOK
<1>4. Members(b) \subseteq D /\ Members(b2) \subseteq D
  BY <1>3 DEF Members
<1>5. /\ \A x \in D : par[x] # Root => Precedes(q, par[x], x)
      /\ \A x \in D, y \in D : Precedes(q, y, x) /\ (par[x] = Root \/ Precedes(q, par[x], y)) => Before(x, y)
  BY <1>1 DEF IsCopy, InOrder
<1>6. Precedes(q, c, c2)
  <2> SUFFICES ASSUME ~Precedes(q, c, c2) PROVE FALSE
    OBVIOUS
  <2>1. c # c2 /\ ~Before(c, c2)
    BY <1>2, <1>3, BeforeFacts
  <2>2. Precedes(q, c2, c)
    BY <1>2, <1>3, <2>1, PrecedesFacts
  <2>3. Before(c, c2)
    BY <1>3, <1>5, <2>2
  <2> QED
    BY <2>1, <2>3
<1>7. c2 \notin Members(b)
  <2>1. c # c2
    BY <1>2, <1>3, BeforeFacts
  <2>2. e \notin Members(b)
    <3>1. e \in Members(b) => e.time < e.time /\ e \in D
      BY <1>3, <1>4
    <3>2. e \in D => ~(e.time < e.time)
      BY <1>2
    <3> QED
      BY <3>1, <3>2
  <2> QED
    BY <1>3, <2>1, <2>2
<1>8. ASSUME NEW x \in Members(b) PROVE Precedes(q, x, c2)
  <2> DEFINE Bad == {y \in Members(b) : Precedes(q, c2, y)}
  <2>1. Bad = {}
    <3> SUFFICES ASSUME Bad # {} PROVE FALSE
      OBVIOUS
    <3>1. Bad \subseteq Stamp
      BY <1>2, <1>4
    <3>2. PICK y \in Bad : \A z \in Bad : ~(z.time < y.time)
      <4> HIDE DEF Bad
      <4> QED
        BY <3>1, Earliest
    <3>3. y \in D /\ Precedes(q, c2, y) /\ y # c
      BY <1>2, <1>3, <1>4, <1>6, PrecedesFacts
    <3>4. par[y] \in Members(b) /\ par[y] \in D /\ par[y] # Root /\ par[y].time < y.time
      <4>1. par[y] \in Members(b)
        BY <1>3, <3>3
      <4>2. par[y] \in D /\ par[y].time < y.time
        BY <1>1, <1>4, <3>3, <4>1 DEF IsTree
      <4> QED
        BY <1>2, <4>1, <4>2
    <3>5. ~Precedes(q, c2, par[y]) /\ par[y] # c2
      BY <1>7, <3>2, <3>4
    <3>6. Precedes(q, par[y], c2)
      BY <1>2, <1>3, <3>4, <3>5, PrecedesFacts
    <3>7. Before(y, c2)
      BY <1>3, <1>5, <3>3, <3>6
    <3>8. c.time < y.time
      BY <1>3, <3>3
    <3>9. c.time \in Nat /\ y.time \in Nat /\ c2.time \in Nat
      BY <1>2, <1>3, <3>3
    <3> QED
      BY <3>7, <3>8, <3>9 DEF Before
  <2>2. x # c2 /\ x \in D /\ ~Precedes(q, c2, x)
    BY <1>4, <1>7, <2>1
  <2> QED
    BY <1>2, <1>3, <2>2, PrecedesFacts
<1>9. ASSUME NEW x \in Members(b), NEW y \in Members(b2) PROVE <<x, y>> \in OrderOf(q, D)
  <2>1. Precedes(q, x, c2) /\ x \in D /\ y \in D /\ (y = c2 \/ Precedes(q, c2, y))
    BY <1>3, <1>4, <1>8
  <2>2. Precedes(q, x, y)
    BY <1>2, <1>3, <2>1, PrecedesFacts
  <2> QED
    BY <1>2, <2>1, <2>2, OrderFacts
<1> QED
  BY <1>1, <1>9 DEF Ahead, Members

LEMMA SubtreeStep ==
  ASSUME NEW par, IsTree(par), IsFiniteSet(DOMAIN par), NEW q, IsCopy(q, par),
         NEW e \in DOMAIN par \cup {Root}, NEW f,
         \A c \in DOMAIN par : par[c] = e => SubtreeOK(q, par, c, f[c])
  PROVE  SubtreeOK(q, par, e, Spread(par, f, e))
<1>1. PICK D : D = DOMAIN par
  OBVIOUS
<1>2. PICK O : O = OrderOf(q, D)
  OBVIOUS
<1>3. PICK cs : cs = ChildrenOf(par, e)
  OBVIOUS
<1>4. PICK n : n = Len(cs)
  OBVIOUS
<1>5. /\ cs \in Seq(D) /\ n \in Nat /\ DOMAIN cs = 1..n
      /\ \A i \in 1..n : cs[i] \in D /\ par[cs[i]] = e
      /\ \A c \in D : par[c] = e => \E i \in 1..n : cs[i] = c
      /\ \A i, j \in 1..n : i < j => Before(cs[j], cs[i])
  BY <1>1, <1>3, <1>4, ChildrenOK
<1>6. PICK w : w = [i \in DOMAIN cs |-> <<cs[i]>> \o f[cs[i]]]
  OBVIOUS
<1>7. ASSUME NEW i \in 1..n PROVE BranchOK(q, par, e, cs[i], w[i])
  <2>1. w[i] = <<cs[i]>> \o f[cs[i]]
    BY <1>5, <1>6
  <2>2. SubtreeOK(q, par, cs[i], f[cs[i]]) /\ cs[i] \in DOMAIN par /\ par[cs[i]] = e
    BY <1>1, <1>5
  <2>3. PICK c : c = cs[i]
    OBVIOUS
  <2>4. PICK s : s = f[cs[i]]
    OBVIOUS
  <2>5. BranchOK(q, par, e, c, w[i])
    BY <2>1, <2>2, <2>3, <2>4, BranchFacts
  <2> QED
    BY <2>3, <2>5
<1>8. ASSUME NEW i \in 1..n
      PROVE  /\ w[i] \in Seq(D) /\ Chain(w[i], O)
             /\ \A x \in D : x \in Members(w[i]) <=> x = cs[i] \/ par[x] \in Members(w[i])
             /\ \A x \in Members(w[i]) : e.time < x.time /\ (e = Root \/ Precedes(q, e, x))
  <2>1. BranchOK(q, par, e, cs[i], w[i])
    BY <1>7
  <2> QED
    BY <1>1, <1>2, <2>1 DEF BranchOK
<1>9. w \in Seq(Seq(D)) /\ Len(w) = n
  <2>1. DOMAIN w = 1..n /\ w = [i \in 1..n |-> <<cs[i]>> \o f[cs[i]]]
    BY <1>5, <1>6
  <2>2. w \in [1..n -> Seq(D)]
    BY <1>8, <2>1
  <2> QED
    BY <1>5, <2>2
<1>10. ASSUME NEW i \in 1..n, NEW j \in 1..n, i < j PROVE Ahead(w[i], w[j], O)
  <2>1. BranchOK(q, par, e, cs[i], w[i]) /\ BranchOK(q, par, e, cs[j], w[j]) /\ Before(cs[j], cs[i])
    BY <1>5, <1>7, <1>10
  <2> QED
    BY <1>1, <1>2, <2>1, BranchesAhead
<1>11. PICK s : s = FlattenSeq(w)
  OBVIOUS
<1>12. Chain(s, O) /\ s \in Seq(D) /\ Members(s) = UNION {Members(w[i]) : i \in 1..n}
  BY <1>8, <1>9, <1>10, <1>11, FlattenChain
<1>13. ASSUME NEW x \in D, x \in Members(s) PROVE par[x] = e \/ par[x] \in Members(s)
  <2>1. PICK i \in 1..n : x \in Members(w[i])
    BY <1>12, <1>13
  <2>2. x = cs[i] \/ par[x] \in Members(w[i])
    BY <1>8, <2>1
  <2> QED
    BY <1>5, <1>12, <2>2
<1>14. ASSUME NEW x \in D, par[x] = e PROVE x \in Members(s)
  <2>1. PICK i \in 1..n : cs[i] = x
    BY <1>5, <1>14
  <2>2. x \in Members(w[i])
    BY <1>8, <2>1
  <2> QED
    BY <1>12, <2>2
<1>15. ASSUME NEW x \in D, par[x] \in Members(s) PROVE x \in Members(s)
  <2>1. PICK i \in 1..n : par[x] \in Members(w[i])
    BY <1>12, <1>15
  <2>2. x \in Members(w[i])
    BY <1>8, <2>1
  <2> QED
    BY <1>12, <2>2
<1>16. \A x \in Members(s) : e.time < x.time /\ (e = Root \/ Precedes(q, e, x))
  BY <1>8, <1>12
<1>17. SubtreeOK(q, par, e, s)
  BY <1>1, <1>2, <1>12, <1>13, <1>14, <1>15, <1>16 DEF SubtreeOK
<1>18. Spread(par, f, e) = s
  BY <1>3, <1>6, <1>11 DEF Spread
<1> QED
  BY <1>17, <1>18

\* What is below is listed in the order of the copy, from the leaves up.
LEMMA SubtreesOK ==
  ASSUME NEW par, IsTree(par), IsFiniteSet(DOMAIN par), NEW q, IsCopy(q, par),
         NEW N \in Nat \ {0}, \A e \in DOMAIN par : e.time < N,
         NEW f, \A e \in DOMAIN par \cup {Root} : f[e] = Spread(par, f, e)
  PROVE  \A e \in DOMAIN par \cup {Root} : SubtreeOK(q, par, e, f[e])
<1> DEFINE R == {n \in Nat : \A e \in Later(par, N - n) : SubtreeOK(q, par, e, f[e])}
<1>1. \A e \in DOMAIN par \cup {Root} : e.time \in Nat
  <2>1. DOMAIN par \subseteq Stamp
    BY DEF IsTree
  <2> QED
    BY <2>1, StampFacts DEF Root
<1>2. 0 \in R
  <2>1. Later(par, N - 0) = {}
    <3>1. \A e \in DOMAIN par \cup {Root} : ~(e.time >= N - 0)
      BY <1>1 DEF Root
    <3> QED
      BY <3>1 DEF Later
  <2> QED
    BY <2>1
<1>3. ASSUME NEW n \in 0..(N - 1), n \in R PROVE (n + 1) \in R
  <2>1. n + 1 \in Nat
    OBVIOUS
  <2>2. ASSUME NEW e \in Later(par, N - (n + 1)) PROVE SubtreeOK(q, par, e, f[e])
    <3>1. e \in DOMAIN par \cup {Root} /\ e.time >= N - (n + 1)
      BY DEF Later
    <3>2. ASSUME NEW c \in DOMAIN par, par[c] = e PROVE SubtreeOK(q, par, c, f[c])
      <4>1. e.time < c.time
        BY <3>2 DEF IsTree
      <4>2. e.time \in Nat /\ c.time \in Nat
        BY <1>1, <3>1
      <4>3. c.time >= N - n
        BY <3>1, <4>1, <4>2
      <4>4. c \in Later(par, N - n)
        BY <4>3 DEF Later
      <4> QED
        BY <1>3, <4>4
    <3>3. SubtreeOK(q, par, e, Spread(par, f, e))
      BY <3>1, <3>2, SubtreeStep
    <3> QED
      BY <3>1, <3>3
  <2> QED
    BY <2>1, <2>2
<1>4. N \in R
  <2>1. N \in 0..N
    OBVIOUS
  <2> HIDE DEF R
  <2>2. \A n \in 0..N : n \in R
    BY ONLY <1>2, <1>3, N \in Nat, Upward
  <2> QED
    BY <2>1, <2>2
<1>5. Later(par, N - N) = DOMAIN par \cup {Root}
  <2>1. N - N = 0
    OBVIOUS
  <2> QED
    BY <1>1, <2>1 DEF Later
<1> QED
  BY <1>4, <1>5

\* A copy holds its elements in the order of the reference.
LEMMA PreorderOK ==
  ASSUME NEW par, IsTree(par), NEW q, IsCopy(q, par),
         NEW N \in Nat \ {0}, \A e \in DOMAIN par : e.time < N
  PROVE  Elements(q) = Below(par)
<1>1. PICK D : D = DOMAIN par
  OBVIOUS
<1>2. PICK O : O = OrderOf(q, D)
  OBVIOUS
<1>3. Tiles(q, D) /\ D \subseteq Stamp
  BY <1>1 DEF IsCopy, IsTree
<1>4. PICK t : t = Elements(q)
  OBVIOUS
<1>5. t \in Seq(D) /\ Members(t) = D /\ Chain(t, O) /\ Strict(O)
  BY <1>2, <1>3, <1>4, ElementsListed, OrderFacts
<1>6. IsFiniteSet(D)
  <2>1. IsFiniteSet(1..Len(t))
    BY <1>5, FS_Interval
  <2>2. IsFiniteSet({t[i] : i \in 1..Len(t)})
    <3>1. PICK g : g = [i \in 1..Len(t) |-> t[i]]
      OBVIOUS
    <3>2. g \in Surjection(1..Len(t), {t[i] : i \in 1..Len(t)})
      BY <3>1 DEF Surjection
    <3> QED
      BY <2>1, <3>2, FS_Surjection
  <2> QED
    BY <1>5, <2>2 DEF Members
<1> DEFINE below[e \in DOMAIN par \cup {Root}] ==
             FlattenSeq([i \in DOMAIN ChildrenOf(par, e) |-> <<ChildrenOf(par, e)[i]>> \o below[ChildrenOf(par, e)[i]]])
<1>7. below = [e \in D \cup {Root} |-> Spread(par, below, e)]
  <2>1. \E f : f = [e \in DOMAIN par \cup {Root} |-> Spread(par, f, e)]
    BY <1>1, <1>6, SpreadExists
  <2>2. \E f : f = [e \in DOMAIN par \cup {Root} |->
                     FlattenSeq([i \in DOMAIN ChildrenOf(par, e) |-> <<ChildrenOf(par, e)[i]>> \o f[ChildrenOf(par, e)[i]]])]
    BY <2>1 DEF Spread
  <2>3. below = [e \in DOMAIN par \cup {Root} |->
                  FlattenSeq([i \in DOMAIN ChildrenOf(par, e) |-> <<ChildrenOf(par, e)[i]>> \o below[ChildrenOf(par, e)[i]]])]
    BY <2>2
  <2> HIDE DEF below
  <2> QED
    BY <1>1, <2>3 DEF Spread
<1>8. Below(par) = below[Root]
  BY DEF Below, ChildrenOf
<1> HIDE DEF below
<1>9. PICK s : s = below[Root]
  OBVIOUS
<1>10. SubtreeOK(q, par, Root, s)
  <2>1. \A e \in DOMAIN par \cup {Root} : below[e] = Spread(par, below, e)
    BY <1>1, <1>7
  <2>2. \A e \in DOMAIN par \cup {Root} : SubtreeOK(q, par, e, below[e])
    BY <1>1, <1>6, <2>1, SubtreesOK
  <2> QED
    BY <1>9, <2>2
<1>11. s \in Seq(D) /\ Chain(s, O) /\ \A x \in D : x \in Members(s) <=> par[x] = Root \/ par[x] \in Members(s)
  BY <1>1, <1>2, <1>10 DEF SubtreeOK
<1>12. Members(s) = D
  <2>1. Members(s) \subseteq D
    BY <1>11 DEF Members
  <2>2. D \ Members(s) = {}
    <3> SUFFICES ASSUME D \ Members(s) # {} PROVE FALSE
      OBVIOUS
    <3>1. PICK x \in D \ Members(s) : \A y \in D \ Members(s) : ~(y.time < x.time)
      BY <1>3, Earliest
    <3>2. par[x] \in D \cup {Root} /\ par[x].time < x.time
      BY <1>1, <3>1 DEF IsTree
    <3>3. par[x] = Root \/ par[x] \in Members(s)
      BY <3>1, <3>2
    <3> QED
      BY <1>11, <3>1, <3>3
  <2> QED
    BY <2>1, <2>2
<1>13. s = t
  BY <1>5, <1>11, <1>12, UniqueChain
<1> QED
  BY <1>4, <1>8, <1>9, <1>13

(* A copy holds the elements of the operations it has seen in the order of *)
(* the reference, however the chunks were split, appended to or merged and *)
(* in whatever order operations arrived.                                   *)
THEOREM Materializes == Spec => []Materialized
<1>1. IndInv => Materialized
  <2> SUFFICES ASSUME IndInv, NEW r \in group PROVE Elements(rga[r]) = Ordered(SeenIns(r))
    BY DEF Materialized
  <2>1. PICK ins : ins = InsOf(ops, seen[r])
    OBVIOUS
  <2>2. PICK par : par = Par(ins)
    OBVIOUS
  <2>3. PICK q : q = rga[r]
    OBVIOUS
  <2>4. PICK t : t = time[r]
    OBVIOUS
  <2>5. /\ t \in Nat \ {0} /\ IsTree(par) /\ IsCopy(q, par)
        /\ \A op \in ops : op.id \in seen[r] => op.id.time + op.span <= t
        /\ OpsOK(ops, group)
    BY <2>1, <2>2, <2>3, <2>4 DEF IndInv, ReplicaOK, CopyOK
  <2>6. ASSUME NEW e \in DOMAIN par PROVE e.time < t
    <3>1. e \in Inserted(ins)
      BY <2>2 DEF Par
    <3>2. PICK op \in ins : e \in Elems(op.id, op.span)
      BY <3>1 DEF Inserted
    <3>3. op \in ops /\ op.id.time + op.span <= t
      BY <2>1, <2>5, <3>2 DEF InsOf
    <3>4. PICK i \in 0..(op.span - 1) : e = [sid |-> op.id.sid, time |-> op.id.time + i]
      BY <3>2 DEF Elems
    <3>5. op.id \in Stamp /\ op.span \in Nat
      BY <2>5, <3>3 DEF OpsOK, OpOK
    <3>6. op.id.time \in Nat /\ e.time = op.id.time + i
      BY <3>4, <3>5, StampFacts
    <3> QED
      BY <2>5, <3>3, <3>5, <3>6
  <2>7. Elements(q) = Below(par)
    BY <2>5, <2>6, PreorderOK
  <2>8. Ordered(SeenIns(r)) = Below(par)
    <3>1. SeenIns(r) = ins
      BY <2>1 DEF SeenIns, InsOf
    <3> QED
      BY <2>2, <3>1 DEF Ordered, Par
  <2> QED
    BY <2>3, <2>7, <2>8
<1> QED
  BY <1>1, Invariance, PTL

(* Sessions that have seen the same operations have the same document.     *)
Agreement ==
  \A r, s \in group : seen[r] = seen[s] =>
    Elements(rga[r]) = Elements(rga[s]) /\ View(rga[r]) = View(rga[s])

(* Sessions that have applied the same operations, in whatever orders and  *)
(* however often, agree on the elements and on what is visible of them.    *)
THEOREM Convergence == Spec => []Agreement
<1>1. Materialized /\ DeletedExactly => Agreement
  <2> SUFFICES ASSUME Materialized, DeletedExactly, NEW r \in group, NEW s \in group, seen[r] = seen[s]
               PROVE  Elements(rga[r]) = Elements(rga[s]) /\ View(rga[r]) = View(rga[s])
    BY DEF Agreement
  <2>1. SeenIns(r) = SeenIns(s) /\ SeenDel(r) = SeenDel(s)
    BY DEF SeenIns, SeenDel
  <2>2. Elements(rga[r]) = Elements(rga[s])
    BY <2>1 DEF Materialized
  <2> QED
    BY <2>1, <2>2 DEF DeletedExactly
<1> QED
  BY <1>1, Materializes, DeletesExactly, PTL

-----------------------------------------------------------------------------
(* What a user does is done where the user does it.                        *)

\* A tree has one order only.
LEMMA OrderUnique ==
  ASSUME NEW par, IsTree(par), NEW q, IsCopy(q, par),
         NEW p, NEW E, Tiles(p, E), DOMAIN par \subseteq E, E \subseteq Stamp, InOrder(p, par)
  PROVE  \A x, y \in DOMAIN par : Precedes(q, x, y) <=> Precedes(p, x, y)
<1>1. PICK D : D = DOMAIN par
  OBVIOUS
<1>2. Tiles(q, D) /\ D \subseteq E /\ D \subseteq Stamp /\ \A x \in D : x.time \in Nat
  <2>1. Tiles(q, D) /\ D \subseteq E /\ D \subseteq Stamp
    BY <1>1 DEF IsCopy
  <2> QED
    BY <2>1, StampFacts
<1>3. \A x \in D : par[x] # Root => par[x] \in D /\ par[x].time < x.time /\ par[x].time \in Nat
  BY <1>1, <1>2 DEF IsTree
<1>4. /\ \A x \in D : par[x] # Root => Precedes(q, par[x], x)
      /\ \A x \in D, y \in D : Precedes(q, y, x) /\ (par[x] = Root \/ Precedes(q, par[x], y)) => Before(x, y)
  BY <1>1 DEF IsCopy, InOrder
<1>5. /\ \A x \in D : par[x] # Root => Precedes(p, par[x], x)
      /\ \A x \in D, y \in D : Precedes(p, y, x) /\ (par[x] = Root \/ Precedes(p, par[x], y)) => Before(x, y)
  BY <1>1 DEF InOrder
<1>6. /\ \A x, y \in D : x # y => Precedes(q, x, y) \/ Precedes(q, y, x)
      /\ \A x, y, z \in D : Precedes(q, x, y) /\ Precedes(q, y, z) => Precedes(q, x, z)
      /\ \A x, y \in D : Precedes(q, x, y) => ~Precedes(q, y, x)
      /\ \A x \in D : ~Precedes(q, x, x)
  BY <1>2, PrecedesFacts
<1>7. /\ \A x, y \in D : x # y => Precedes(p, x, y) \/ Precedes(p, y, x)
      /\ \A x, y, z \in D : Precedes(p, x, y) /\ Precedes(p, y, z) => Precedes(p, x, z)
      /\ \A x, y \in D : Precedes(p, x, y) => ~Precedes(p, y, x)
      /\ \A x \in D : ~Precedes(p, x, x)
  BY <1>2, PrecedesFacts
<1> DEFINE Bad == {u \in D \X D : Precedes(q, u[1], u[2]) /\ Precedes(p, u[2], u[1])}
           T == {u[1].time + u[2].time : u \in Bad}
<1>8. Bad = {}
  <2> SUFFICES ASSUME Bad # {} PROVE FALSE
    OBVIOUS
  <2>1. T \in SUBSET Nat /\ T # {}
    BY <1>2
  <2>2. PICK m \in T : \A n \in T : m <= n
    <3> HIDE DEF T
    <3> QED
      BY <2>1, Least
  <2>3. PICK u \in Bad : m = u[1].time + u[2].time
    BY <2>2
  <2>4. PICK x \in D, y \in D : u = <<x, y>>
    BY <2>3
  <2>5. Precedes(q, x, y) /\ Precedes(p, y, x) /\ m = x.time + y.time /\ x.time \in Nat /\ y.time \in Nat
    BY <1>2, <2>3, <2>4
  <2>6. ASSUME NEW a \in D, NEW b \in D, a.time + b.time < m, Precedes(q, a, b) PROVE Precedes(p, a, b)
    <3>1. a.time \in Nat /\ b.time \in Nat /\ m \in Nat
      BY <1>2, <2>1, <2>2
    <3>2. ~Precedes(p, b, a)
      <4> SUFFICES ASSUME Precedes(p, b, a) PROVE FALSE
        OBVIOUS
      <4>1. PICK u2 : u2 = <<a, b>>
        OBVIOUS
      <4>2. u2 \in D \X D /\ u2[1] = a /\ u2[2] = b
        BY <4>1
      <4>3. u2 \in Bad
        BY <2>6, <4>2
      <4>4. u2[1].time + u2[2].time \in T
        BY <4>3
      <4>5. m <= a.time + b.time
        <5> HIDE DEF T, Bad
        <5> QED
          BY <2>2, <4>2, <4>4
      <4> QED
        BY ONLY <2>6, <3>1, <4>5
    <3>3. a # b /\ ~Precedes(p, b, a)
      BY <1>6, <2>6, <3>2
    <3> QED
      BY <1>7, <3>3
  <2> HIDE DEF Bad, T
  <2>7. Before(y, x)
    <3>1. CASE par[y] = Root \/ Precedes(q, par[y], x)
      BY <1>4, <2>5, <3>1
    <3>2. CASE par[y] # Root /\ ~Precedes(q, par[y], x)
      <4>1. par[y] \in D /\ par[y].time < y.time /\ par[y].time \in Nat /\ Precedes(p, par[y], y)
        BY <1>3, <1>5, <3>2
      <4>2. CASE par[y] = x
        BY <1>7, <2>5, <4>1, <4>2
      <4>3. CASE par[y] # x
        <5>1. Precedes(q, x, par[y])
          BY <1>6, <3>2, <4>1, <4>3
        <5>2. Precedes(p, x, par[y])
          BY <2>5, <2>6, <4>1, <5>1
        <5>3. Precedes(p, x, y)
          BY <1>7, <4>1, <5>2
        <5> QED
          BY <1>7, <2>5, <5>3
      <4> QED
        BY <4>2, <4>3
    <3> QED
      BY <3>1, <3>2
  <2>8. Before(x, y)
    <3>1. CASE par[x] = Root \/ Precedes(p, par[x], y)
      BY <1>5, <2>5, <3>1
    <3>2. CASE par[x] # Root /\ ~Precedes(p, par[x], y)
      <4>1. par[x] \in D /\ par[x].time < x.time /\ par[x].time \in Nat /\ Precedes(q, par[x], x)
        BY <1>3, <1>4, <3>2
      <4>2. CASE par[x] = y
        BY <1>6, <2>5, <4>1, <4>2
      <4>3. CASE par[x] # y
        <5>1. Precedes(p, y, par[x])
          BY <1>7, <3>2, <4>1, <4>3
        <5>2. ~Precedes(q, par[x], y)
          BY <2>5, <2>6, <3>2, <4>1
        <5>3. Precedes(q, y, par[x])
          BY <1>6, <4>1, <4>3, <5>2
        <5>4. Precedes(q, y, x)
          BY <1>6, <4>1, <5>3
        <5> QED
          BY <1>6, <2>5, <5>4
      <4> QED
        BY <4>2, <4>3
    <3> QED
      BY <3>1, <3>2
  <2> QED
    BY <1>2, <2>7, <2>8, BeforeFacts
<1>9. ASSUME NEW x \in D, NEW y \in D PROVE Precedes(q, x, y) <=> Precedes(p, x, y)
  <2>1. ~(Precedes(q, x, y) /\ Precedes(p, y, x)) /\ ~(Precedes(q, y, x) /\ Precedes(p, x, y))
    <3>1. ASSUME NEW a \in D, NEW b \in D, Precedes(q, a, b), Precedes(p, b, a) PROVE FALSE
      <4>1. <<a, b>> \in D \X D /\ <<a, b>>[1] = a /\ <<a, b>>[2] = b
        OBVIOUS
      <4>2. <<a, b>> \in Bad
        BY <3>1, <4>1
      <4> HIDE DEF Bad
      <4> QED
        BY <1>8, <4>2
    <3> QED
      BY <3>1
  <2>2. CASE x = y
    BY <1>6, <1>7, <2>2
  <2>3. CASE x # y
    BY <1>6, <1>7, <2>1, <2>3
  <2> QED
    BY <2>2, <2>3
<1> QED
  BY <1>1, <1>9

\* p has the elements of q as q has them, and those of c right behind ref.
InPlace(q, p, D, c, ref) ==
  /\ \A x, y \in D : Precedes(q, x, y) <=> Precedes(p, x, y)
  /\ \A e, f \in Stamp : ContainsId(c, e) /\ ContainsId(c, f) /\ e.time < f.time => Precedes(p, e, f)
  /\ \A x \in D, e \in Stamp : ContainsId(c, e) =>
       /\ ref = Root \/ Precedes(q, ref, x) => Precedes(p, e, x)
       /\ x = ref \/ (ref # Root /\ Precedes(q, x, ref)) => Precedes(p, x, e)

\* What is inserted last comes right behind what it is inserted after.
LEMMA NewInPlace ==
  ASSUME NEW par, IsTree(par), NEW q, IsCopy(q, par),
         NEW c, NEW ref, NEW par2, Grows(par, c, ref, par2), \A x \in DOMAIN par : x.time < c.time,
         NEW p, IsCopy(p, par2), IsTree(par2)
  PROVE  InPlace(q, p, DOMAIN par, c, ref)
<1>1. PICK D : D = DOMAIN par
  OBVIOUS
<1>2. PICK E : E = DOMAIN par2
  OBVIOUS
<1>3. /\ c \in Chunks /\ ref \in D \cup {Root}
      /\ E = D \cup {e \in Stamp : ContainsId(c, e)} /\ D \subseteq E /\ E \subseteq Stamp
      /\ \A e \in D : par2[e] = par[e]
      /\ par2[Id(c)] = ref
      /\ \A e \in Stamp : ContainsId(c, e) /\ ContainsId(c, NextOf(e)) => par2[NextOf(e)] = e
  BY <1>1, <1>2 DEF Grows, IsTree
<1>4. Tiles(p, E) /\ InOrder(p, par2)
  BY <1>2 DEF IsCopy
<1>5. InOrder(p, par)
  BY <1>1, <1>2, <1>3, <1>4 DEF InOrder
<1>6. \A x, y \in D : Precedes(q, x, y) <=> Precedes(p, x, y)
  BY <1>1, <1>3, <1>4, <1>5, OrderUnique
<1>7. /\ \A x, y \in E : x # y => Precedes(p, x, y) \/ Precedes(p, y, x)
      /\ \A x, y, z \in E : Precedes(p, x, y) /\ Precedes(p, y, z) => Precedes(p, x, z)
  BY <1>3, <1>4, PrecedesFacts
<1>8. /\ \A e \in E : par2[e] # Root => Precedes(p, par2[e], e)
      /\ \A e \in E, x \in E : Precedes(p, x, e) /\ (par2[e] = Root \/ Precedes(p, par2[e], x)) => Before(e, x)
  BY <1>2, <1>4 DEF InOrder
<1>9. /\ c.sid \in Sid /\ c.sid \in Nat /\ c.time \in Nat /\ c.span \in Nat /\ Id(c) \in Stamp /\ ContainsId(c, Id(c))
      /\ Id(c).sid = c.sid /\ Id(c).time = c.time
  BY <1>3, ChunkFacts
\* An earlier element is never between an element of c and what that hangs below.
<1>10. ASSUME NEW e \in Stamp, ContainsId(c, e), NEW x \in D, par2[e] = Root \/ Precedes(p, par2[e], x)
       PROVE  Precedes(p, e, x)
  <2>1. e \in E /\ x \in E /\ e \in Stamp /\ x \in Stamp
    BY <1>3, <1>10
  <2>2. x.time < c.time /\ c.time <= e.time /\ x.time \in Nat /\ e.time \in Nat
    <3>1. x.time \in Nat /\ e.time \in Nat
      BY <2>1, StampFacts
    <3> QED
      BY <1>1, <1>10, <3>1 DEF ContainsId
  <2>3. x # e /\ ~Before(e, x)
    BY <1>9, <2>2 DEF Before
  <2> QED
    BY <1>7, <1>8, <1>10, <2>1, <2>3
<1> DEFINE el(i) == [sid |-> c.sid, time |-> c.time + i]
           R == {i \in Nat : i < c.span =>
                   /\ \A e \in Stamp : ContainsId(c, e) /\ e.time < c.time + i => Precedes(p, e, el(i))
                   /\ \A x \in D : ref = Root \/ Precedes(p, ref, x) => Precedes(p, el(i), x)
                   /\ \A x \in D : x = ref \/ (ref # Root /\ Precedes(p, x, ref)) => Precedes(p, x, el(i))}
<1>11. ASSUME NEW i \in Nat, i < c.span
       PROVE  el(i) \in Stamp /\ ContainsId(c, el(i)) /\ el(i) \in E /\ el(i).sid = c.sid /\ el(i).time = c.time + i
  <2>1. el(i) \in Stamp
    BY <1>9 DEF Stamp
  <2>2. el(i).sid = c.sid /\ el(i).time = c.time + i
    OBVIOUS
  <2>3. ContainsId(c, el(i))
    BY <1>9, <1>11, <2>2 DEF ContainsId
  <2> QED
    BY <1>3, <2>1, <2>2, <2>3
<1>12. ASSUME 0 < c.span PROVE el(0) = Id(c)
  <2>1. c.time + 0 = c.time
    BY <1>9
  <2>2. el(0) = [sid |-> Id(c).sid, time |-> Id(c).time]
    BY <1>9, <2>1
  <2> QED
    BY <1>9, <2>2, StampFacts
<1>13. 0 \in R
  <2> SUFFICES ASSUME 0 < c.span
               PROVE  /\ \A e \in Stamp : ContainsId(c, e) /\ e.time < c.time + 0 => Precedes(p, e, el(0))
                      /\ \A x \in D : ref = Root \/ Precedes(p, ref, x) => Precedes(p, el(0), x)
                      /\ \A x \in D : x = ref \/ (ref # Root /\ Precedes(p, x, ref)) => Precedes(p, x, el(0))
    OBVIOUS
  <2>1. PICK f : f = el(0)
    OBVIOUS
  <2>2. f = Id(c) /\ par2[f] = ref /\ f \in E
    BY <1>3, <1>11, <1>12, <2>1
  <2>3. ASSUME NEW e \in Stamp, ContainsId(c, e) PROVE ~(e.time < c.time + 0)
    <3>1. e.time \in Nat
      BY StampFacts
    <3> QED
      BY <1>9, <2>3, <3>1 DEF ContainsId
  <2>4. ASSUME NEW x \in D, ref = Root \/ Precedes(p, ref, x) PROVE Precedes(p, f, x)
    BY <1>9, <1>10, <2>2, <2>4
  <2>5. ASSUME NEW x \in D, x = ref \/ (ref # Root /\ Precedes(p, x, ref)) PROVE Precedes(p, x, f)
    <3>1. ref # Root
      BY <1>3, <2>5, StampFacts
    <3>2. Precedes(p, ref, f) /\ ref \in E /\ x \in E
      BY <1>3, <1>8, <2>2, <3>1
    <3> QED
      BY <1>7, <2>2, <2>5, <3>2
  <2> QED
    BY <2>1, <2>3, <2>4, <2>5
<1>14. ASSUME NEW i \in 0..(c.span - 1), i \in R PROVE (i + 1) \in R
  <2> SUFFICES ASSUME i + 1 < c.span
               PROVE  /\ \A e \in Stamp : ContainsId(c, e) /\ e.time < c.time + (i + 1) => Precedes(p, e, el(i + 1))
                      /\ \A x \in D : ref = Root \/ Precedes(p, ref, x) => Precedes(p, el(i + 1), x)
                      /\ \A x \in D : x = ref \/ (ref # Root /\ Precedes(p, x, ref)) => Precedes(p, x, el(i + 1))
    BY <1>9
  <2>1. PICK n : n = i + 1
    OBVIOUS
  <2>2. i \in Nat /\ i < c.span /\ n \in Nat /\ n < c.span
    BY <1>9, <2>1
  <2>3. PICK d : d = el(i)
    OBVIOUS
  <2>4. PICK f : f = el(n)
    OBVIOUS
  <2>5. /\ d \in Stamp /\ ContainsId(c, d) /\ d \in E /\ d.sid = c.sid /\ d.time = c.time + i
        /\ f \in Stamp /\ ContainsId(c, f) /\ f \in E /\ f.sid = c.sid /\ f.time = c.time + n
    BY <1>11, <2>2, <2>3, <2>4
  <2>6. NextOf(d) = f
    <3>1. NextOf(d) \in Stamp /\ NextOf(d).sid = c.sid /\ NextOf(d).time = c.time + n
      BY <1>9, <2>1, <2>2, <2>5, NextFacts
    <3> QED
      BY <2>5, <3>1, SameStamp
  <2>7. par2[f] = d /\ d # Root /\ Precedes(p, d, f)
    BY <1>3, <1>8, <2>5, <2>6, StampFacts
  <2>8. /\ \A e \in Stamp : ContainsId(c, e) /\ e.time < c.time + i => Precedes(p, e, d)
        /\ \A x \in D : ref = Root \/ Precedes(p, ref, x) => Precedes(p, d, x)
        /\ \A x \in D : x = ref \/ (ref # Root /\ Precedes(p, x, ref)) => Precedes(p, x, d)
    BY <1>14, <2>2, <2>3
  <2>9. ASSUME NEW e \in Stamp, ContainsId(c, e), e.time < c.time + n PROVE Precedes(p, e, f)
    <3>1. e.time \in Nat /\ e.sid = c.sid /\ e \in E
      BY <1>3, <2>9, StampFacts DEF ContainsId
    <3>2. CASE e.time < c.time + i
      BY <1>7, <2>5, <2>7, <2>8, <2>9, <3>1, <3>2
    <3>3. CASE ~(e.time < c.time + i)
      <4>1. e.time = c.time + i
        BY <1>9, <2>1, <2>2, <2>9, <3>1, <3>3
      <4>2. e = d
        BY <2>5, <3>1, <4>1, SameStamp
      <4> QED
        BY <2>7, <4>2
    <3> QED
      BY <3>2, <3>3
  <2>10. ASSUME NEW x \in D, ref = Root \/ Precedes(p, ref, x) PROVE Precedes(p, f, x)
    BY <1>10, <2>5, <2>7, <2>8, <2>10
  <2>11. ASSUME NEW x \in D, x = ref \/ (ref # Root /\ Precedes(p, x, ref)) PROVE Precedes(p, x, f)
    BY <1>3, <1>7, <2>5, <2>7, <2>8, <2>11
  <2> QED
    BY <2>1, <2>4, <2>9, <2>10, <2>11
<1>15. \A i \in 0..c.span : i \in R
  <2> HIDE DEF R
  <2>1. c.span \in Nat
    BY <1>9
  <2> QED
    BY ONLY <1>13, <1>14, <2>1, Upward
<1>16. ASSUME NEW e \in Stamp, ContainsId(c, e)
       PROVE  \E i \in Nat : i \in R /\ i < c.span /\ e = el(i) /\ e.time = c.time + i
  <2>1. e.time \in Nat /\ e.sid = c.sid /\ c.time <= e.time /\ e.time < c.time + c.span
    BY <1>16, StampFacts DEF ContainsId
  <2>2. PICK i : i = e.time - c.time
    OBVIOUS
  <2>3. i \in 0..c.span /\ i \in Nat /\ i < c.span /\ c.time + i = e.time
    BY <1>9, <2>1, <2>2
  <2>4. el(i) = e
    BY <1>11, <2>1, <2>3, SameStamp
  <2> QED
    BY <1>15, <2>3, <2>4
<1>17. ASSUME NEW e \in Stamp, ContainsId(c, e)
       PROVE  /\ \A d \in Stamp : ContainsId(c, d) /\ d.time < e.time => Precedes(p, d, e)
              /\ \A x \in D : ref = Root \/ Precedes(p, ref, x) => Precedes(p, e, x)
              /\ \A x \in D : x = ref \/ (ref # Root /\ Precedes(p, x, ref)) => Precedes(p, x, e)
  <2>1. PICK i \in Nat : i \in R /\ i < c.span /\ e = el(i) /\ e.time = c.time + i
    BY <1>16, <1>17
  <2> QED
    BY <2>1
<1>18. \A x \in D : ref # Root => (Precedes(q, ref, x) <=> Precedes(p, ref, x)) /\ (Precedes(q, x, ref) <=> Precedes(p, x, ref))
  BY <1>3, <1>6
<1> QED
  BY <1>1, <1>6, <1>17, <1>18 DEF InPlace

LEMMA ChunkMembers ==
  ASSUME NEW c \in Chunks
  PROVE  Members(ChunkElements(c)) = {e \in Stamp : ContainsId(c, e)}
<1>1. PICK s : s = ChunkElements(c)
  OBVIOUS
<1>2. /\ s \in Seq(Stamp) /\ Len(s) = c.span /\ c.span \in Nat /\ c.time \in Nat
      /\ \A i \in 1..c.span : s[i] = [sid |-> c.sid, time |-> c.time + i - 1] /\ ContainsId(c, s[i])
  BY <1>1, ChunkElementsOK, ChunkFacts
<1>3. \A i \in 1..c.span : s[i] \in Stamp
  BY <1>2
<1>4. ASSUME NEW e \in Stamp, ContainsId(c, e) PROVE e \in Members(s)
  <2>1. e = [sid |-> e.sid, time |-> e.time] /\ e.time \in Nat
    BY StampFacts
  <2>2. e.sid = c.sid /\ c.time <= e.time /\ e.time < c.time + c.span
    BY <1>4 DEF ContainsId
  <2>3. PICK i : i = e.time - c.time + 1
    OBVIOUS
  <2>4. i \in 1..c.span /\ c.time + i - 1 = e.time
    <3>1. c.time \in Nat /\ c.span \in Nat /\ e.time \in Nat
      BY <1>2, <2>1
    <3> QED
      BY ONLY <2>2, <2>3, <3>1
  <2>5. s[i] = e
    BY <1>2, <2>1, <2>2, <2>4
  <2> QED
    BY <1>2, <2>4, <2>5 DEF Members
<1> QED
  BY <1>1, <1>2, <1>3, <1>4 DEF Members

\* a and b are what v has up to the n-th place and behind it.
Halves(T, v, n, a, b) ==
  /\ a \in Seq(T) /\ b \in Seq(T) /\ v = a \o b
  /\ Len(a) = n /\ \A i \in 1..n : a[i] = v[i]
  /\ Len(b) = Len(v) - n /\ \A i \in 1..(Len(v) - n) : b[i] = v[n + i]

LEMMA CutInTwo ==
  ASSUME NEW T, NEW v \in Seq(T), NEW n \in 0..Len(v)
  PROVE  Halves(T, v, n, SubSeq(v, 1, n), SubSeq(v, n + 1, Len(v)))
<1>1. PICK a : a = SubSeq(v, 1, n)
  OBVIOUS
<1>2. PICK b : b = SubSeq(v, n + 1, Len(v))
  OBVIOUS
<1>3. PICK m \in Nat : m = Len(v)
  OBVIOUS
<1>4. n \in Nat /\ n <= m /\ n \in 0..m
  BY <1>3
<1>5. a \in Seq(T) /\ Len(a) = n /\ \A i \in 1..n : a[i] = v[i]
  BY <1>3, <1>4, <1>1
<1>6. b \in Seq(T) /\ Len(b) = m - n /\ \A i \in 1..(m - n) : b[i] = v[n + i]
  BY <1>3, <1>4, <1>2
<1>7. PICK u : u = a \o b
  OBVIOUS
<1>8. u = v
  <2>1. u \in Seq(T) /\ Len(u) = Len(a) + Len(b)
        /\ \A i \in 1..(Len(a) + Len(b)) : u[i] = IF i <= Len(a) THEN a[i] ELSE b[i - Len(a)]
    <3>1. a \in Seq(T) /\ b \in Seq(T)
      BY <1>5, <1>6
    <3> QED
      BY ONLY <1>7, <3>1, ConcatProperties
  <2>2. Len(a) + Len(b) = m
    <3>1. Len(a) = n /\ Len(b) = m - n /\ n \in Nat
      BY <1>4, <1>5, <1>6
    <3> QED
      BY ONLY m \in Nat, <3>1
  <2>3. ASSUME NEW i \in 1..m PROVE u[i] = v[i]
    <3>1. CASE i <= n
      <4>1. i \in 1..n /\ i <= Len(a)
        BY <1>4, <1>5, <3>1
      <4> QED
        BY <1>5, <2>1, <2>2, <4>1
    <3>2. CASE ~(i <= n)
      <4>1. i - n \in 1..(m - n) /\ n + (i - n) = i /\ ~(i <= Len(a)) /\ i - Len(a) = i - n
        BY <1>4, <1>5, <3>2
      <4>2. u[i] = b[i - n]
        BY <2>1, <2>2, <4>1
      <4> QED
        BY <1>6, <4>1, <4>2
    <3> QED
      BY <3>1, <3>2
  <2> QED
    BY <1>3, <2>1, <2>2, <2>3, SeqEqual
<1> QED
  BY <1>3, <1>5, <1>6, <1>7, <1>8, <1>1, <1>2 DEF Halves

\* w is v with n put in at pos.
Spliced(v, pos, n, w) == w = SubSeq(v, 1, pos) \o n \o SubSeq(v, pos + 1, Len(v))

\* What is shown after an insertion at a position
LEMMA InsertionShown ==
  ASSUME NEW par, IsTree(par), NEW q, IsCopy(q, par),
         NEW gone, Marked(q, gone), gone \subseteq DOMAIN par,
         NEW pos \in 0..Len(View(q)),
         NEW c, NEW par2, Grows(par, c, InsAtAfter(q, Root, pos), par2), \A x \in DOMAIN par : x.time < c.time,
         NEW p, Grown(q, c, par2, p)
  PROVE  Spliced(View(q), pos, ChunkElements(c), View(p))
<1>1. PICK D : D = DOMAIN par
  OBVIOUS
<1>2. PICK E : E = DOMAIN par2
  OBVIOUS
<1>3. PICK O : O = OrderOf(p, E)
  OBVIOUS
<1>4. PICK v : v = View(q)
  OBVIOUS
<1>5. PICK n : n = ChunkElements(c)
  OBVIOUS
<1>0. PICK ref : ref = InsAtAfter(q, Root, pos)
  OBVIOUS
<1>6. /\ c \in Chunks /\ ref \in D \cup {Root}
      /\ E = D \cup {e \in Stamp : ContainsId(c, e)} /\ D \subseteq E
      /\ \A e \in Stamp : ContainsId(c, e) => e \notin gone
  BY <1>0, <1>1, <1>2 DEF Grows
<1>7. IsCopy(p, par2) /\ IsTree(par2) /\ Marked(p, gone)
  BY <1>6 DEF Grown
<1>8. InPlace(q, p, D, c, ref)
  BY <1>0, <1>1, <1>7, NewInPlace
<1>9. /\ v \in Seq(D) /\ Members(v) = D \ gone
      /\ Chain(v, OrderOf(q, D))
  BY <1>1, <1>4, ViewListed
<1>10. /\ View(p) \in Seq(E) /\ Members(View(p)) = E \ gone
       /\ Chain(View(p), O)
  BY <1>2, <1>3, <1>7, ViewListed
<1>11. /\ Strict(O)
       /\ \A x, y \in E : <<x, y>> \in O <=> Precedes(p, x, y)
       /\ \A x, y \in D : <<x, y>> \in OrderOf(q, D) <=> Precedes(q, x, y)
  <2>1. Tiles(q, D) /\ D \subseteq Stamp /\ Tiles(p, E) /\ E \subseteq Stamp
    BY <1>1, <1>2, <1>7 DEF IsCopy, IsTree
  <2> QED
    BY <1>3, <2>1, OrderFacts
<1>12. PICK m \in Nat : m = Len(v)
  BY <1>9
<1>13. pos \in 0..m /\ pos \in Nat /\ pos <= m /\ \A i \in 1..m : v[i] \in D
  BY <1>4, <1>9, <1>12
<1>14. PICK a : a = SubSeq(v, 1, pos)
  OBVIOUS
<1>15. PICK b : b = SubSeq(v, pos + 1, Len(v))
  OBVIOUS
<1>16. /\ a \in Seq(D) /\ b \in Seq(D) /\ v = a \o b
       /\ Len(a) = pos /\ \A i \in 1..pos : a[i] = v[i]
       /\ Len(b) = m - pos /\ \A i \in 1..(m - pos) : b[i] = v[pos + i]
  <2>1. Halves(D, v, pos, a, b)
    BY <1>9, <1>12, <1>13, <1>14, <1>15, CutInTwo
  <2> QED
    BY <1>12, <2>1 DEF Halves
<1>17. \A i, j \in 1..m : i < j => Precedes(q, v[i], v[j])
  BY <1>9, <1>11, <1>12, <1>13 DEF Chain
<1>18. Chain(v, O)
  <2> SUFFICES ASSUME NEW i \in 1..m, NEW j \in 1..m, i < j PROVE <<v[i], v[j]>> \in O
    BY <1>12 DEF Chain
  <2>1. v[i] \in D /\ v[j] \in D /\ Precedes(q, v[i], v[j])
    BY <1>13, <1>17
  <2>2. Precedes(p, v[i], v[j])
    BY <1>8, <2>1 DEF InPlace
  <2> QED
    BY <1>6, <1>11, <2>1, <2>2
<1>19. /\ Members(v) = Members(a) \cup Members(b)
       /\ Chain(a, O) /\ Chain(b, O) /\ Ahead(a, b, O)
  BY <1>16, <1>18, ConcatChain
<1>20. /\ n \in Seq(E) /\ Members(n) = {e \in Stamp : ContainsId(c, e)}
       /\ \A i \in 1..Len(n) : n[i] \in E /\ n[i] \in Stamp /\ ContainsId(c, n[i])
  <2>1. n \in Seq(Stamp) /\ Members(n) = {e \in Stamp : ContainsId(c, e)}
    BY <1>5, <1>6, ChunkElementsOK, ChunkMembers
  <2>2. \A i \in 1..Len(n) : n[i] \in E /\ n[i] \in Stamp /\ ContainsId(c, n[i])
    BY <1>6, <2>1 DEF Members
  <2>3. n \in Seq(E)
    <3>1. n \in [1..Len(n) -> E] /\ Len(n) \in Nat
      BY <2>1, <2>2
    <3> QED
      BY <3>1
  <2> QED
    BY <2>1, <2>2, <2>3
<1>21. Chain(n, O)
  <2> SUFFICES ASSUME NEW i \in 1..Len(n), NEW j \in 1..Len(n), i < j PROVE <<n[i], n[j]>> \in O
    BY DEF Chain
  <2>1. n[i].time < n[j].time
    <3>1. Len(n) = c.span /\ n[i] = [sid |-> c.sid, time |-> c.time + i - 1]
          /\ n[j] = [sid |-> c.sid, time |-> c.time + j - 1] /\ c.time \in Nat /\ i \in Nat /\ j \in Nat
      BY <1>5, <1>6, ChunkElementsOK, ChunkFacts, SMTT(30)
    <3>2. n[i].time = c.time + i - 1 /\ n[j].time = c.time + j - 1
      BY <3>1
    <3> QED
      BY <3>1, <3>2
  <2>2. Precedes(p, n[i], n[j])
    BY <1>8, <1>20, <2>1 DEF InPlace
  <2> QED
    BY <1>11, <1>20, <2>2
<1>22. /\ pos = 0 => ref = Root
       /\ pos # 0 => ref = v[pos] /\ pos \in 1..m /\ ref \in D /\ ref # Root
  <2>1. pos # 0 => pos \in 1..m
    BY <1>13
  <2>2. pos # 0 => ref = v[pos]
    BY <1>0, <1>4 DEF InsAtAfter
  <2>3. pos # 0 => ref \in Stamp
    BY <1>1, <1>13, <2>1, <2>2 DEF IsTree
  <2> QED
    BY <1>0, <1>13, <2>1, <2>2, <2>3, StampFacts DEF InsAtAfter
<1>23. Ahead(a, n, O)
  <2> SUFFICES ASSUME NEW i \in 1..Len(a), NEW j \in 1..Len(n) PROVE <<a[i], n[j]>> \in O
    BY DEF Ahead
  <2>1. i \in 1..pos /\ i \in 1..m /\ pos # 0 /\ a[i] = v[i] /\ a[i] \in D
    BY <1>13, <1>16
  <2>2. i = pos \/ i < pos
    BY <2>1
  <2>3. a[i] = ref \/ (ref # Root /\ Precedes(q, a[i], ref))
    BY <1>17, <1>22, <2>1, <2>2
  <2>4. Precedes(p, a[i], n[j])
    BY <1>8, <1>20, <2>1, <2>3 DEF InPlace
  <2> QED
    BY <1>6, <1>11, <1>20, <2>1, <2>4
<1>24. Ahead(n, b, O)
  <2> SUFFICES ASSUME NEW i \in 1..Len(n), NEW j \in 1..Len(b) PROVE <<n[i], b[j]>> \in O
    BY DEF Ahead
  <2>1. pos + j \in 1..m /\ pos < pos + j /\ b[j] = v[pos + j] /\ b[j] \in D
    BY <1>13, <1>16
  <2>2. ref = Root \/ Precedes(q, ref, b[j])
    BY <1>17, <1>22, <2>1
  <2>3. Precedes(p, n[i], b[j])
    BY <1>8, <1>20, <2>1, <2>2 DEF InPlace
  <2> QED
    BY <1>6, <1>11, <1>20, <2>1, <2>3
<1>25. a \in Seq(E) /\ b \in Seq(E)
  <2>1. \A i \in 1..Len(a) : a[i] \in E
    BY <1>6, <1>16
  <2>2. \A i \in 1..Len(b) : b[i] \in E
    BY <1>6, <1>16
  <2>3. a \in [1..Len(a) -> E] /\ b \in [1..Len(b) -> E] /\ Len(a) \in Nat /\ Len(b) \in Nat
    BY <1>16, <2>1, <2>2
  <2> QED
    BY <2>3
<1>26. PICK d : d = a \o n
  OBVIOUS
<1>27. d \in Seq(E) /\ Members(d) = Members(a) \cup Members(n) /\ Chain(d, O)
  BY <1>19, <1>20, <1>21, <1>23, <1>25, <1>26, ConcatChain, ConcatProperties
<1>28. Ahead(d, b, O)
  <2> SUFFICES ASSUME NEW i \in 1..Len(d), NEW j \in 1..Len(b) PROVE <<d[i], b[j]>> \in O
    BY DEF Ahead
  <2>1. d[i] \in Members(a) \cup Members(n)
    BY <1>27 DEF Members
  <2> QED
    BY <1>19, <1>24, <2>1 DEF Members, Ahead
<1>29. PICK w : w = d \o b
  OBVIOUS
<1>30. w \in Seq(E) /\ Members(w) = Members(d) \cup Members(b) /\ Chain(w, O)
  BY <1>19, <1>25, <1>27, <1>28, <1>29, ConcatChain, ConcatProperties
<1>31. Members(w) = E \ gone
  BY <1>6, <1>9, <1>19, <1>20, <1>27, <1>30
<1>32. View(p) = w
  BY <1>10, <1>11, <1>30, <1>31, UniqueChain
<1> QED
  BY <1>4, <1>5, <1>14, <1>15, <1>26, <1>29, <1>32 DEF Spliced

\* An insertion of the length span at pos
InsShown(r, pos, span) ==
  Spliced(View(rga[r]), pos, [i \in 1..span |-> [sid |-> r, time |-> time[r] + i - 1]], View(rga'[r]))

LEMMA InsIntent ==
  ASSUME IndInv, NEW r \in group, NEW pos \in Positions(r), NEW span \in Spans, LocalIns(r, pos, span)
  PROVE  InsShown(r, pos, span)
<1>1. /\ r \in Sid /\ group \subseteq Sid /\ DOMAIN rga = Sid /\ OpsOK(ops, group)
      /\ CopyOK(ops, rga[r], time[r], seen[r])
      /\ \A op \in ops : op.id.sid = r => op.id \in seen[r]
  BY DEF IndInv, ReplicaOK
<1>2. PICK q : q = rga[r]
  OBVIOUS
<1>3. PICK ins : ins = InsOf(ops, seen[r])
  OBVIOUS
<1>4. PICK par : par = Par(ins)
  OBVIOUS
<1>5. PICK gone : gone = Deleted(DelOf(ops, seen[r]))
  OBVIOUS
<1>6. /\ time[r] \in Nat \ {0} /\ IsTree(par) /\ IsCopy(q, par) /\ Marked(q, gone)
      /\ \A op \in ops : op.id \in seen[r] => op.id.time + op.span <= time[r] /\ op.deps \subseteq seen[r]
      /\ DOMAIN par = Inserted(ins)
  BY <1>1, <1>2, <1>3, <1>4, <1>5 DEF CopyOK, Par
<1>7. gone \subseteq DOMAIN par
  BY <1>1, <1>3, <1>4, <1>5, <1>6, DeletedOK
<1>8. PICK ref : ref = InsAtAfter(q, Root, pos)
  OBVIOUS
<1>9. PICK op : InsStep(r, ref, span, op)
  BY <1>2, <1>8, LocalInsFacts
<1>10. /\ OpOK(ops, group, op) /\ ops' = ops \cup {op}
       /\ op.kind = "ins_str" /\ op.id = [sid |-> r, time |-> time[r]] /\ op.span = span
       /\ op.ref = ref /\ op.deps = seen[r] /\ op.id.sid = r /\ op.id.time = time[r]
       /\ rga' = [rga EXCEPT ![r] = Ins(rga[r], Root, op.ref, op.id, op.span)]
  BY <1>9 DEF InsStep, Publish
<1>11. op.span \in Nat \ {0} /\ op.id \in Stamp
  BY <1>10 DEF OpOK
<1>12. OpsOK(ops', group)
  <2>1. \A a \in ops : a.id.sid = op.id.sid => a.id.time + a.span <= op.id.time
    BY <1>1, <1>6, <1>10
  <2> QED
    BY <1>1, <1>10, <2>1, OpsGrow
<1>13. op \notin ins /\ ins \in SUBSET ops' /\ op \in ops'
  <2>1. op \notin ops
    <3> SUFFICES ASSUME op \in ops PROVE FALSE
      OBVIOUS
    <3>1. op.id.time + op.span <= time[r]
      BY <1>1, <1>6, <1>10
    <3> QED
      BY <1>6, <1>10, <1>11, <3>1
  <2> QED
    BY <1>3, <1>10, <2>1 DEF InsOf
<1>14. PICK c : c = Chunk(op.id, op.span)
  OBVIOUS
<1>15. PICK par2 : par2 = Par(ins \cup {op})
  OBVIOUS
<1>16. Grows(par, c, ref, par2)
  <2>1. op.ref = Root \/ (op.ref \in Inserted(ins) /\ op.ref.time < op.id.time)
    BY <1>3, <1>10 DEF OpOK
  <2>2. Grows(Par(ins), Chunk(op.id, op.span), op.ref, Par(ins \cup {op}))
    BY <1>1, <1>10, <1>12, <1>13, <2>1, ParGrows
  <2> QED
    BY <1>4, <1>10, <1>14, <1>15, <2>2
<1>17. PICK p : p = Ins(q, Root, ref, op.id, op.span)
  OBVIOUS
<1>18. Grown(q, c, par2, p)
  BY <1>6, <1>14, <1>16, <1>17, InsNew
<1>19. rga'[r] = p
  BY <1>1, <1>2, <1>10, <1>17
<1>20. c.sid = r /\ c.time = time[r] /\ c.span = span
  BY <1>10, <1>14 DEF Chunk
<1>21. ASSUME NEW x \in DOMAIN par PROVE x.time < c.time
  <2>1. PICK o \in ins : x \in Elems(o.id, o.span)
    BY <1>6 DEF Inserted
  <2>2. o \in ops /\ o.id.time + o.span <= time[r]
    BY <1>3, <1>6, <2>1 DEF InsOf
  <2>3. o.id.time \in Nat /\ o.span \in Nat
    <3>1. o.id \in Stamp /\ o.span \in Nat
      BY <1>1, <2>2 DEF OpsOK, OpOK
    <3> QED
      BY <3>1, StampFacts
  <2>4. PICK i \in 0..(o.span - 1) : x = [sid |-> o.id.sid, time |-> o.id.time + i]
    BY <2>1 DEF Elems
  <2>5. x.time = o.id.time + i
    BY <2>4
  <2> QED
    BY <1>6, <1>20, <2>2, <2>3, <2>5
<1>22. pos \in 0..Len(View(q))
  BY <1>2 DEF Positions
<1>23. Spliced(View(q), pos, ChunkElements(c), View(p))
  <2>1. Grows(par, c, InsAtAfter(q, Root, pos), par2)
    BY <1>8, <1>16
  <2>2. \A x \in DOMAIN par : x.time < c.time
    BY <1>21
  <2>3. IsTree(par) /\ IsCopy(q, par) /\ Marked(q, gone)
    BY <1>6
  <2> QED
    BY ONLY <1>7, <1>18, <1>22, <2>1, <2>2, <2>3, InsertionShown
<1>24. ChunkElements(c) = [i \in 1..span |-> [sid |-> r, time |-> time[r] + i - 1]]
  BY <1>20 DEF ChunkElements
<1> QED
  BY <1>2, <1>19, <1>23, <1>24 DEF InsShown

\* Where the first n sequences are in their concatenation
LaidOut(s, a, n) ==
  /\ \A k \in 1..n : \A j \in 1..Len(s[k]) :
       Len(a[k - 1]) + j \in 1..Len(a[n]) /\ a[n][Len(a[k - 1]) + j] = s[k][j]
  /\ \A i \in 1..Len(a[n]) : \E k \in 1..n : \E j \in 1..Len(s[k]) : i = Len(a[k - 1]) + j

LEMMA LayOut ==
  ASSUME NEW T, NEW s \in Seq(Seq(T)), NEW a, IsConcat(s, T, a)
  PROVE  LaidOut(s, a, Len(s))
<1>1. PICK n \in Nat : n = Len(s)
  OBVIOUS
<1>2. /\ a[0] = <<>> /\ \A i \in 1..n : a[i] = a[i - 1] \o s[i]
      /\ \A i \in 0..n : a[i] \in Seq(T)
      /\ \A i \in 1..n : s[i] \in Seq(T)
  <2>1. \A i \in 1..n : s[i] \in Seq(T)
    BY <1>1
  <2>2. /\ a \in [0..n -> Seq(T)] /\ a[0] = <<>>
        /\ \A i \in 1..n : a[i] = a[i - 1] \o s[i]
    BY <1>1 DEF IsConcat, ConcatUpTo
  <2> QED
    BY <2>1, <2>2
<1> DEFINE R == {k \in Nat : k <= n => LaidOut(s, a, k)}
<1>3. 0 \in R
  <2>1. Len(<<>>) = 0 /\ 1..0 = {}
    OBVIOUS
  <2>2. LaidOut(s, a, 0)
    BY <1>2, <2>1 DEF LaidOut
  <2> QED
    BY <2>2
<1>4. ASSUME NEW i \in 0..(n - 1), i \in R PROVE (i + 1) \in R
  <2>1. PICK m : m = i + 1
    OBVIOUS
  <2>2. m \in 1..n /\ m - 1 = i /\ i \in 0..n /\ i <= n /\ m \in Nat /\ i \in Nat /\ \A k \in 1..i : k \in 1..n
    BY <2>1
  <2>3. PICK b : b = a[i]
    OBVIOUS
  <2>4. PICK c : c = a[m]
    OBVIOUS
  <2>5. PICK t : t = s[m]
    OBVIOUS
  <2>6. b \in Seq(T) /\ t \in Seq(T) /\ c = b \o t
    BY <1>2, <2>2, <2>3, <2>4, <2>5
  <2>7. PICK x \in Nat : x = Len(b)
    BY <2>6
  <2>8. PICK y \in Nat : y = Len(t)
    BY <2>6
  <2>9. Len(c) = x + y /\ \A j \in 1..(x + y) : c[j] = IF j <= x THEN b[j] ELSE t[j - x]
    BY ONLY <2>6, <2>7, <2>8, ConcatProperties
  <2>10. LaidOut(s, a, i)
    BY <1>4, <2>2
  <2>11. /\ \A k \in 1..i : \A j \in 1..Len(s[k]) :
              Len(a[k - 1]) + j \in 1..x /\ b[Len(a[k - 1]) + j] = s[k][j]
         /\ \A j \in 1..x : \E k \in 1..i : \E h \in 1..Len(s[k]) : j = Len(a[k - 1]) + h
    BY <2>3, <2>7, <2>10 DEF LaidOut
  <2>12. ASSUME NEW k \in 1..m, NEW j \in 1..Len(s[k])
         PROVE  Len(a[k - 1]) + j \in 1..Len(c) /\ c[Len(a[k - 1]) + j] = s[k][j]
    <3>1. PICK h : h = Len(a[k - 1]) + j
      OBVIOUS
    <3>2. CASE k = m
      <4>1. h = x + j /\ j \in 1..y /\ s[k][j] = t[j]
        BY <2>2, <2>3, <2>5, <2>7, <2>8, <3>1, <3>2
      <4>2. h \in 1..(x + y) /\ ~(h <= x) /\ h - x = j
        BY <4>1
      <4> QED
        BY <2>9, <3>1, <4>1, <4>2
    <3>3. CASE k # m
      <4>1. k \in 1..i
        BY <2>1, <2>2, <3>3
      <4>2. h \in 1..x /\ b[h] = s[k][j]
        BY <2>11, <3>1, <4>1
      <4>3. h \in 1..(x + y) /\ h <= x
        BY <4>2
      <4> QED
        BY <2>9, <3>1, <4>2, <4>3
    <3> QED
      BY <3>2, <3>3
  <2>13. ASSUME NEW j \in 1..Len(c)
         PROVE  \E k \in 1..m : \E h \in 1..Len(s[k]) : j = Len(a[k - 1]) + h
    <3>1. CASE j <= x
      <4>1. j \in 1..x
        BY <2>9, <3>1
      <4>2. PICK k \in 1..i : \E h \in 1..Len(s[k]) : j = Len(a[k - 1]) + h
        BY <2>11, <4>1
      <4>3. k \in 1..m
        BY <2>1, <2>2
      <4> QED
        BY <4>2, <4>3
    <3>2. CASE ~(j <= x)
      <4>1. j - x \in 1..y /\ j = x + (j - x)
        BY <2>9, <3>2
      <4>2. m \in 1..m /\ j - x \in 1..Len(s[m]) /\ j = Len(a[m - 1]) + (j - x)
        BY <2>2, <2>3, <2>5, <2>7, <2>8, <4>1
      <4> QED
        BY <4>2
    <3> QED
      BY <3>1, <3>2
  <2>14. LaidOut(s, a, m)
    BY <2>4, <2>12, <2>13 DEF LaidOut
  <2> QED
    BY <2>1, <2>2, <2>14
<1>5. n \in 0..n /\ n <= n
  OBVIOUS
<1>6. \A i \in 0..n : i \in R
  <2> HIDE DEF R
  <2> QED
    BY ONLY <1>3, <1>4, n \in Nat, Upward
<1> QED
  BY <1>1, <1>5, <1>6

LEMMA FlattenPrefix ==
  ASSUME NEW T, NEW s \in Seq(Seq(T)), NEW a, IsConcat(s, T, a), NEW k \in 0..Len(s)
  PROVE  FlattenSeq(SubSeq(s, 1, k)) = a[k]
<1>1. PICK n \in Nat : n = Len(s)
  OBVIOUS
<1>2. PICK t : t = SubSeq(s, 1, k)
  OBVIOUS
<1>3. k \in Nat /\ k <= n
  BY <1>1
<1>4. t \in Seq(Seq(T)) /\ Len(t) = k /\ \A i \in 1..k : t[i] = s[i]
  BY <1>1, <1>2, <1>3
<1>5. /\ a \in [0..n -> Seq(T)] /\ a[0] = <<>>
      /\ \A i \in 1..n : a[i] = a[i - 1] \o s[i]
  BY <1>1 DEF IsConcat, ConcatUpTo
<1>6. PICK b : b = [i \in 0..k |-> a[i]]
  OBVIOUS
<1>7. b \in [0..k -> Seq(T)] /\ b[0] = <<>> /\ b[k] = a[k]
  BY <1>3, <1>5, <1>6
<1>8. ASSUME NEW i \in 1..k PROVE b[i] = b[i - 1] \o t[i]
  <2>1. i \in 1..n /\ i \in 0..k /\ i - 1 \in 0..k
    BY <1>3
  <2>2. b[i] = a[i] /\ b[i - 1] = a[i - 1] /\ t[i] = s[i]
    BY <1>4, <1>6, <2>1
  <2> QED
    BY <1>5, <2>1, <2>2
<1>9. IsConcat(t, T, b)
  BY <1>4, <1>7, <1>8 DEF IsConcat, ConcatUpTo
<1>10. FlattenSeq(t) = b[Len(t)]
  BY ONLY <1>4, <1>9, FlattenOK
<1> QED
  BY <1>2, <1>4, <1>7, <1>10

\* What one chunk shows, and all of them
ShownOf(c) == IF c.del THEN <<>> ELSE ChunkElements(c)
Parts(q) == [k \in DOMAIN q |-> ShownOf(q[k])]

\* a tells where in the view of q its chunks are.
ViewAt(q, a) ==
  /\ Len(Parts(q)) = Len(q) /\ \A k \in 1..Len(q) : Parts(q)[k] = ShownOf(q[k])
  /\ View(q) = a[Len(q)] /\ LaidOut(Parts(q), a, Len(q))
  /\ \A k \in 1..Len(q) : View(SubSeq(q, 1, k - 1)) = a[k - 1] /\ Len(a[k - 1]) \in Nat

LEMMA ViewParts ==
  ASSUME NEW q \in Seq(Chunks)
  PROVE  \E a : ViewAt(q, a)
<1>1. PICK n \in Nat : n = Len(q)
  OBVIOUS
<1>2. DOMAIN q = 1..n /\ \A k \in 1..n : q[k] \in Chunks
  BY <1>1
<1>3. PICK s : s = Parts(q)
  OBVIOUS
<1>4. ASSUME NEW k \in 1..n PROVE s[k] = ShownOf(q[k]) /\ s[k] \in Seq(Stamp)
  <2>1. s[k] = ShownOf(q[k])
    BY <1>2, <1>3 DEF Parts
  <2>2. ChunkElements(q[k]) \in Seq(Stamp) /\ <<>> \in Seq(Stamp)
    BY <1>2, ChunkElementsOK
  <2> QED
    BY <2>1, <2>2 DEF ShownOf
<1>5. s \in [1..n -> Seq(Stamp)]
  <2>1. s = [k \in 1..n |-> ShownOf(q[k])]
    BY <1>2, <1>3 DEF Parts
  <2> QED
    BY <1>4, <2>1
<1>6. s \in Seq(Seq(Stamp)) /\ Len(s) = n
  BY <1>5
<1>7. PICK a : IsConcat(s, Stamp, a)
  BY <1>6, FlattenExists
<1>8. FlattenSeq(s) = a[n]
  BY <1>6, <1>7, FlattenOK
<1>9. View(q) = FlattenSeq(s)
  BY <1>3 DEF View, Parts, ShownOf
<1>10. LaidOut(s, a, n)
  BY <1>6, <1>7, LayOut
<1>11. ASSUME NEW k \in 1..n PROVE View(SubSeq(q, 1, k - 1)) = a[k - 1] /\ Len(a[k - 1]) \in Nat
  <2>1. PICK m \in Nat : m = k - 1
    OBVIOUS
  <2>2. m \in 0..n /\ m <= n /\ \A i \in 1..m : i \in 1..n
    BY <2>1
  <2>3. PICK p : p = SubSeq(q, 1, m)
    OBVIOUS
  <2>4. p \in Seq(Chunks) /\ Len(p) = m /\ DOMAIN p = 1..m /\ \A i \in 1..m : p[i] = q[i]
    BY <1>1, <2>2, <2>3
  <2>5. PICK t : t = SubSeq(s, 1, m)
    OBVIOUS
  <2>6. t \in Seq(Seq(Stamp)) /\ Len(t) = m /\ \A i \in 1..m : t[i] = s[i]
    BY <1>6, <2>2, <2>5
  <2>7. t = [i \in 1..m |-> ShownOf(p[i])]
    <3>1. \A i \in 1..m : t[i] = ShownOf(p[i])
      BY <1>4, <2>2, <2>4, <2>6
    <3>2. t = [i \in 1..m |-> t[i]]
      BY <2>6
    <3> QED
      BY <3>1, <3>2
  <2>8. View(p) = FlattenSeq(t)
    BY <2>4, <2>7 DEF View, ShownOf
  <2>9. FlattenSeq(t) = a[m]
    BY <1>6, <1>7, <2>2, <2>5, FlattenPrefix
  <2>10. a[m] \in Seq(Stamp)
    BY <1>6, <1>7, <2>2 DEF IsConcat, ConcatUpTo
  <2> QED
    BY <2>1, <2>3, <2>8, <2>9, <2>10
<1> QED
  BY <1>1, <1>3, <1>4, <1>6, <1>8, <1>9, <1>10, <1>11 DEF ViewAt

\* The span that findInterval() takes from a chunk with b visible elements before it
PartOf(c, b, pos, len) ==
  LET from == IF pos > b THEN pos - b ELSE 0
      to   == IF pos + len < b + c.span THEN pos + len - b ELSE c.span
  IN  IF c.del \/ from >= to THEN <<>>
      ELSE <<[sid |-> c.sid, time |-> c.time + from, span |-> to - from]>>

\* The numbers from pos + 1 to pos + len, up to n
Selected(n, pos, len) == {i \in 1..n : pos < i /\ i <= pos + len}

SpansCut(spans) == UNION {SpanCut(sp) : sp \in Members(spans)}

\* The elements of a chunk, with b visible elements before it, that are from pos + 1 to pos + len
CutOfPart(c, b, pos, len) ==
  {ShownOf(c)[j] : j \in {h \in 1..Len(ShownOf(c)) : pos < b + h /\ b + h <= pos + len}}

LEMMA PartOfOK ==
  ASSUME NEW c \in Chunks, NEW b \in Nat, NEW pos \in Nat, NEW len \in Nat
  PROVE  /\ PartOf(c, b, pos, len) \in Seq(SpanSet)
         /\ SpansCut(PartOf(c, b, pos, len)) = CutOfPart(c, b, pos, len)
<1>1. /\ c.sid \in Sid /\ c.time \in Nat /\ c.span \in Nat \ {0}
  BY ChunkFacts
<1>2. PICK from : from = IF pos > b THEN pos - b ELSE 0
  OBVIOUS
<1>3. PICK to : to = IF pos + len < b + c.span THEN pos + len - b ELSE c.span
  OBVIOUS
<1>4. from \in Nat /\ to \in Int /\ to <= c.span
  BY <1>1, <1>2, <1>3
<1>5. PICK part : part = PartOf(c, b, pos, len)
  OBVIOUS
<1>6. PICK J : J = {h \in 1..Len(ShownOf(c)) : pos < b + h /\ b + h <= pos + len}
  OBVIOUS
<1>7. CutOfPart(c, b, pos, len) = {ShownOf(c)[j] : j \in J}
  BY <1>6 DEF CutOfPart
<1>8. CASE c.del
  <2>1. part = <<>> /\ ShownOf(c) = <<>>
    BY <1>5, <1>8 DEF PartOf, ShownOf
  <2>2. Len(<<>>) = 0 /\ 1..0 = {} /\ <<>> \in Seq(SpanSet)
    OBVIOUS
  <2>3. SpansCut(part) = {} /\ J = {}
    BY <1>6, <2>1, <2>2 DEF SpansCut, Members
  <2> QED
    BY <1>5, <1>7, <2>1, <2>2, <2>3
<1>9. CASE ~c.del
  <2>1. PICK s : s = ChunkElements(c)
    OBVIOUS
  <2>2. ShownOf(c) = s
    BY <1>9, <2>1 DEF ShownOf
  <2>3. /\ Len(s) = c.span
        /\ \A i \in 1..c.span : s[i] = [sid |-> c.sid, time |-> c.time + i - 1]
    BY <2>1, ChunkElementsOK
  <2>4. \A h \in 1..c.span : h \in J <=> from < h /\ h <= to
    <3> SUFFICES ASSUME NEW h \in 1..c.span PROVE h \in J <=> from < h /\ h <= to
      OBVIOUS
    <3>1. h \in J <=> pos < b + h /\ b + h <= pos + len
      BY <1>6, <2>2, <2>3
    <3> QED
      BY <1>1, <1>2, <1>3, <3>1
  <2>5. J \subseteq 1..c.span
    BY <1>6, <2>2, <2>3
  <2>6. CASE from >= to
    <3>1. part = <<>>
      BY <1>2, <1>3, <1>5, <2>6 DEF PartOf
    <3>2. Len(<<>>) = 0 /\ 1..0 = {} /\ <<>> \in Seq(SpanSet)
      OBVIOUS
    <3>3. SpansCut(part) = {}
      BY <3>1, <3>2 DEF SpansCut, Members
    <3>4. J = {}
      BY <1>4, <2>4, <2>5, <2>6
    <3> QED
      BY <1>5, <1>7, <3>1, <3>2, <3>3, <3>4
  <2>7. CASE ~(from >= to)
    <3>1. PICK sp : sp = [sid |-> c.sid, time |-> c.time + from, span |-> to - from]
      OBVIOUS
    <3>2. part = <<sp>>
      BY <1>2, <1>3, <1>5, <1>9, <2>7, <3>1 DEF PartOf
    <3>3. sp \in SpanSet /\ sp.sid = c.sid /\ sp.time = c.time + from /\ sp.span = to - from
      BY <1>1, <1>4, <2>7, <3>1 DEF SpanSet
    <3>4. part \in Seq(SpanSet) /\ Members(part) = {sp}
      <4>1. part \in Seq(SpanSet) /\ Len(part) = 1 /\ part[1] = sp /\ 1..1 = {1}
        BY <3>2, <3>3
      <4> QED
        BY <4>1 DEF Members
    <3>5. SpansCut(part) = SpanCut(sp)
      BY <3>4 DEF SpansCut
    <3>6. \A e \in Stamp : e \in SpanCut(sp) <=> e.sid = c.sid /\ c.time + from <= e.time /\ e.time < c.time + to
      <4> SUFFICES ASSUME NEW e \in Stamp
                   PROVE  e \in SpanCut(sp) <=> e.sid = c.sid /\ c.time + from <= e.time /\ e.time < c.time + to
        OBVIOUS
      <4>1. e.time \in Nat
        BY StampFacts
      <4>2. e \in SpanCut(sp) <=> e.sid = c.sid /\ c.time + from <= e.time /\ e.time <= (c.time + from) + (to - from) - 1
        BY <3>3 DEF SpanCut, Cut
      <4> QED
        BY <1>1, <1>4, <4>1, <4>2
    <3>7. ASSUME NEW j \in J PROVE s[j] \in SpanCut(sp)
      <4>1. j \in 1..c.span /\ from < j /\ j <= to
        BY <2>4, <2>5
      <4>2. s[j] = [sid |-> c.sid, time |-> c.time + j - 1] /\ s[j] \in Stamp
        BY <2>1, <2>3, <4>1, ChunkElementsOK
      <4>3. s[j].sid = c.sid /\ s[j].time = c.time + j - 1
        BY <4>2
      <4> QED
        BY <1>1, <1>4, <3>6, <4>1, <4>2, <4>3
    <3>8. ASSUME NEW e \in SpanCut(sp) PROVE \E j \in J : s[j] = e
      <4>1. e \in Stamp
        BY DEF SpanCut, Cut
      <4>2. e.sid = c.sid /\ c.time + from <= e.time /\ e.time < c.time + to /\ e.time \in Nat
            /\ e = [sid |-> e.sid, time |-> e.time]
        BY <3>6, <4>1, StampFacts
      <4>3. PICK j : j = e.time - c.time + 1
        OBVIOUS
      <4>4. j \in 1..c.span /\ from < j /\ j <= to /\ c.time + j - 1 = e.time
        BY <1>1, <1>4, <4>2, <4>3
      <4> QED
        BY <2>3, <2>4, <4>2, <4>4
    <3>9. SpanCut(sp) = {s[j] : j \in J}
      BY <3>7, <3>8
    <3> QED
      BY <1>5, <1>7, <2>2, <3>4, <3>5, <3>9
  <2> QED
    BY <2>6, <2>7
<1> QED
  BY <1>8, <1>9

\* The spans of an interval are those of the visible elements in it.
LEMMA IntervalFound ==
  ASSUME NEW q \in Seq(Chunks), NEW pos \in Nat, NEW len \in Nat
  PROVE  SpansCut(FindInterval(q, pos, len)) = {View(q)[i] : i \in Selected(Len(View(q)), pos, len)}
<1>1. PICK n \in Nat : n = Len(q)
  OBVIOUS
<1>2. DOMAIN q = 1..n /\ \A k \in 1..n : q[k] \in Chunks
  BY <1>1
<1>3. PICK a : ViewAt(q, a)
  BY ViewParts
<1>4. PICK s : s = Parts(q)
  OBVIOUS
<1>5. PICK v : v = View(q)
  OBVIOUS
<1>6. /\ \A k \in 1..n : s[k] = ShownOf(q[k])
      /\ \A k \in 1..n : View(SubSeq(q, 1, k - 1)) = a[k - 1] /\ Len(a[k - 1]) \in Nat
      /\ \A k \in 1..n : \A j \in 1..Len(s[k]) :
           Len(a[k - 1]) + j \in 1..Len(v) /\ v[Len(a[k - 1]) + j] = s[k][j]
      /\ \A i \in 1..Len(v) : \E k \in 1..n : \E j \in 1..Len(s[k]) : i = Len(a[k - 1]) + j
  <2>1. v = a[n] /\ LaidOut(s, a, n)
    BY <1>1, <1>3, <1>4, <1>5 DEF ViewAt
  <2> QED
    BY <1>1, <1>3, <1>4, <2>1 DEF ViewAt, LaidOut
<1>7. PICK w : w = [k \in 1..n |-> PartOf(q[k], Len(a[k - 1]), pos, len)]
  OBVIOUS
<1>8. FindInterval(q, pos, len) = FlattenSeq(w)
  <2>1. FindInterval(q, pos, len) = FlattenSeq([k \in 1..n |-> PartOf(q[k], Len(View(SubSeq(q, 1, k - 1))), pos, len)])
    BY <1>2 DEF FindInterval, PartOf
  <2>2. [k \in 1..n |-> PartOf(q[k], Len(View(SubSeq(q, 1, k - 1))), pos, len)] = w
    BY <1>6, <1>7
  <2> QED
    BY <2>1, <2>2
<1>9. ASSUME NEW k \in 1..n
      PROVE  /\ w[k] \in Seq(SpanSet)
             /\ SpansCut(w[k]) = {s[k][j] : j \in {h \in 1..Len(s[k]) : pos < Len(a[k - 1]) + h /\ Len(a[k - 1]) + h <= pos + len}}
  <2>1. q[k] \in Chunks /\ Len(a[k - 1]) \in Nat /\ s[k] = ShownOf(q[k])
    BY <1>2, <1>6
  <2>2. w[k] = PartOf(q[k], Len(a[k - 1]), pos, len)
    BY <1>7
  <2>3. w[k] \in Seq(SpanSet) /\ SpansCut(w[k]) = CutOfPart(q[k], Len(a[k - 1]), pos, len)
    BY <2>1, <2>2, PartOfOK
  <2> QED
    BY <2>1, <2>3 DEF CutOfPart
<1>10. w \in Seq(Seq(SpanSet)) /\ Len(w) = n
  <2>1. w \in [1..n -> Seq(SpanSet)]
    BY <1>7, <1>9
  <2> QED
    BY <2>1
<1>11. PICK f : f = FlattenSeq(w)
  OBVIOUS
<1>12. Members(f) = UNION {Members(w[k]) : k \in 1..n}
  <2>1. PICK O : O = SpanSet \X SpanSet
    OBVIOUS
  <2>2. \A k \in 1..n : \A i \in 1..Len(w[k]) : w[k][i] \in SpanSet
    BY <1>9
  <2>3. \A k \in 1..n : Chain(w[k], O)
    BY <2>1, <2>2 DEF Chain
  <2>4. \A k, m \in 1..n : k < m => Ahead(w[k], w[m], O)
    BY <2>1, <2>2 DEF Ahead
  <2> QED
    BY <1>10, <1>11, <2>3, <2>4, FlattenChain
<1>13. SpansCut(f) = UNION {SpansCut(w[k]) : k \in 1..n}
  BY <1>12 DEF SpansCut
<1>14. ASSUME NEW k \in 1..n, NEW e \in SpansCut(w[k]) PROVE \E i \in Selected(Len(v), pos, len) : v[i] = e
  <2>1. PICK j \in 1..Len(s[k]) : pos < Len(a[k - 1]) + j /\ Len(a[k - 1]) + j <= pos + len /\ e = s[k][j]
    BY <1>9, <1>14
  <2>2. Len(a[k - 1]) + j \in 1..Len(v) /\ v[Len(a[k - 1]) + j] = e
    BY <1>6, <2>1
  <2> QED
    BY <2>1, <2>2 DEF Selected
<1>15. ASSUME NEW i \in Selected(Len(v), pos, len) PROVE \E k \in 1..n : v[i] \in SpansCut(w[k])
  <2>1. i \in 1..Len(v) /\ pos < i /\ i <= pos + len
    BY DEF Selected
  <2>2. PICK k \in 1..n : \E j \in 1..Len(s[k]) : i = Len(a[k - 1]) + j
    BY <1>6, <2>1
  <2>3. PICK j \in 1..Len(s[k]) : i = Len(a[k - 1]) + j
    BY <2>2
  <2>4. v[i] = s[k][j]
    BY <1>6, <2>3
  <2>5. s[k][j] \in SpansCut(w[k])
    BY <1>9, <2>1, <2>3
  <2> QED
    BY <2>4, <2>5
<1>16. SpansCut(f) = {v[i] : i \in Selected(Len(v), pos, len)}
  <2>1. ASSUME NEW e \in SpansCut(f) PROVE e \in {v[i] : i \in Selected(Len(v), pos, len)}
    <3>1. PICK k \in 1..n : e \in SpansCut(w[k])
      BY <1>13
    <3> QED
      BY <1>14, <3>1
  <2>2. ASSUME NEW i \in Selected(Len(v), pos, len) PROVE v[i] \in SpansCut(f)
    BY <1>13, <1>15
  <2> QED
    BY <2>1, <2>2
<1> QED
  BY <1>5, <1>8, <1>11, <1>16

\* w is v without what is behind pos, up to pos + len.
CutOut(v, pos, len, w) == w = SubSeq(v, 1, pos) \o SubSeq(v, pos + len + 1, Len(v))

\* What is shown after a deletion at a position
LEMMA DeletionShown ==
  ASSUME NEW par, IsTree(par), NEW q, IsCopy(q, par), NEW gone, Marked(q, gone),
         NEW pos \in Nat, NEW len \in Nat, pos + len <= Len(View(q)),
         NEW p, IsCopy(p, par), Marked(p, gone \cup SpansCut(FindInterval(q, pos, len)))
  PROVE  CutOut(View(q), pos, len, View(p))
<1>1. PICK D : D = DOMAIN par
  OBVIOUS
<1>2. PICK O : O = OrderOf(q, D)
  OBVIOUS
<1>3. PICK v : v = View(q)
  OBVIOUS
<1>4. PICK cut : cut = SpansCut(FindInterval(q, pos, len))
  OBVIOUS
<1>5. /\ Tiles(q, D) /\ Tiles(p, D) /\ InOrder(p, par) /\ D \subseteq Stamp /\ q \in Seq(Chunks)
  BY <1>1 DEF IsCopy, IsTree, Tiles
<1>6. v \in Seq(D) /\ Members(v) = D \ gone /\ Chain(v, O)
  BY <1>1, <1>2, <1>3, ViewListed
<1>7. View(p) \in Seq(D) /\ Members(View(p)) = D \ (gone \cup cut) /\ Chain(View(p), OrderOf(p, D))
  BY <1>1, <1>4, ViewListed
<1>8. OrderOf(p, D) = O
  <2>1. \A x, y \in D : Precedes(q, x, y) <=> Precedes(p, x, y)
    BY <1>1, <1>5, OrderUnique
  <2>2. \A u \in D \X D : u[1] \in D /\ u[2] \in D
    OBVIOUS
  <2> QED
    BY <1>2, <2>1, <2>2 DEF OrderOf
<1>9. Strict(O)
  BY <1>2, <1>5, OrderFacts
<1>10. PICK m \in Nat : m = Len(v)
  BY <1>6
<1>11. PICK n \in Nat : n = pos + len
  OBVIOUS
<1>12. pos \in 0..m /\ n \in 0..m /\ pos <= n /\ n <= m
  BY <1>3, <1>10, <1>11
<1>13. cut = {v[i] : i \in Selected(m, pos, len)}
  BY <1>3, <1>4, <1>5, <1>10, IntervalFound
<1>14. PICK a : a = SubSeq(v, 1, pos)
  OBVIOUS
<1>15. PICK b : b = SubSeq(v, n + 1, Len(v))
  OBVIOUS
<1>16. a \in Seq(D) /\ Len(a) = pos /\ \A i \in 1..pos : a[i] = v[i]
  <2>1. Halves(D, v, pos, a, SubSeq(v, pos + 1, Len(v)))
    BY <1>6, <1>10, <1>12, <1>14, CutInTwo
  <2> QED
    BY <2>1 DEF Halves
<1>17. b \in Seq(D) /\ Len(b) = m - n /\ \A i \in 1..(m - n) : b[i] = v[n + i]
  <2>1. Halves(D, v, n, SubSeq(v, 1, n), b)
    BY <1>6, <1>10, <1>12, <1>15, CutInTwo
  <2> QED
    BY <1>10, <2>1 DEF Halves
<1>18. PICK w : w = a \o b
  OBVIOUS
<1>19. \A i, j \in 1..m : i < j => <<v[i], v[j]>> \in O
  BY <1>6, <1>10 DEF Chain
<1>20. Chain(a, O)
  BY <1>12, <1>16, <1>19 DEF Chain
<1>21. Chain(b, O)
  <2> SUFFICES ASSUME NEW i \in 1..(m - n), NEW j \in 1..(m - n), i < j PROVE <<b[i], b[j]>> \in O
    BY <1>17 DEF Chain
  <2>1. n + i \in 1..m /\ n + j \in 1..m /\ n + i < n + j
    BY <1>12
  <2> QED
    BY <1>17, <1>19, <2>1
<1>22. Ahead(a, b, O)
  <2> SUFFICES ASSUME NEW i \in 1..pos, NEW j \in 1..(m - n) PROVE <<a[i], b[j]>> \in O
    BY <1>16, <1>17 DEF Ahead
  <2>1. i \in 1..m /\ n + j \in 1..m /\ i < n + j
    BY <1>12
  <2> QED
    BY <1>16, <1>17, <1>19, <2>1
<1>23. w \in Seq(D) /\ Chain(w, O) /\ Members(w) = Members(a) \cup Members(b)
  <2>1. w \in Seq(D)
    BY <1>16, <1>17, <1>18
  <2> QED
    BY <1>16, <1>17, <1>18, <1>20, <1>21, <1>22, <2>1, ConcatChain
<1>24. ASSUME NEW i \in 1..m PROVE v[i] \in Members(w) <=> i \notin Selected(m, pos, len)
  <2>1. CASE i <= pos
    <3>1. i \in 1..pos /\ i \notin Selected(m, pos, len)
      BY <2>1 DEF Selected
    <3>2. v[i] \in Members(a)
      BY <1>16, <3>1 DEF Members
    <3> QED
      BY <1>23, <3>1, <3>2
  <2>2. CASE n < i
    <3>1. i - n \in 1..(m - n) /\ n + (i - n) = i
      BY <2>2
    <3>2. v[i] \in Members(b)
      BY <1>17, <3>1 DEF Members
    <3>3. i \notin Selected(m, pos, len)
      BY <1>11, <2>2 DEF Selected
    <3> QED
      BY <1>23, <3>2, <3>3
  <2>3. CASE pos < i /\ i <= n
    <3>1. i \in Selected(m, pos, len)
      BY <1>11, <2>3 DEF Selected
    <3>2. ASSUME v[i] \in Members(a) PROVE FALSE
      <4>1. PICK j \in 1..pos : v[i] = v[j]
        BY <1>16, <3>2 DEF Members
      <4>2. j \in 1..m /\ j < i
        BY <1>12, <2>3
      <4> QED
        BY <1>9, <1>19, <4>1, <4>2 DEF Strict
    <3>3. ASSUME v[i] \in Members(b) PROVE FALSE
      <4>1. PICK j \in 1..(m - n) : v[i] = v[n + j]
        BY <1>17, <3>3 DEF Members
      <4>2. n + j \in 1..m /\ i < n + j
        BY <1>12, <2>3
      <4> QED
        BY <1>9, <1>19, <4>1, <4>2 DEF Strict
    <3> QED
      BY <1>23, <3>1, <3>2, <3>3
  <2> QED
    BY <1>12, <2>1, <2>2, <2>3
<1>25. ASSUME NEW i \in 1..m PROVE v[i] \in cut <=> i \in Selected(m, pos, len)
  <2> SUFFICES ASSUME v[i] \in cut PROVE i \in Selected(m, pos, len)
    BY <1>13
  <2>1. PICK j \in Selected(m, pos, len) : v[j] = v[i]
    BY <1>13
  <2>2. j \in 1..m
    BY DEF Selected
  <2>3. i = j
    <3>1. ~(i < j) /\ ~(j < i)
      BY <1>9, <1>19, <2>1, <2>2 DEF Strict
    <3> QED
      BY <2>2, <3>1
  <2> QED
    BY <2>3
<1>26. Members(v) = {v[i] : i \in 1..m}
  BY <1>10 DEF Members
<1>27. Members(w) \subseteq Members(v)
  <2>1. \A i \in 1..pos : i \in 1..m /\ a[i] = v[i]
    BY <1>12, <1>16
  <2>2. \A i \in 1..(m - n) : n + i \in 1..m /\ b[i] = v[n + i]
    BY <1>12, <1>17
  <2>3. Members(a) \subseteq Members(v)
    BY <1>16, <1>26, <2>1 DEF Members
  <2>4. Members(b) \subseteq Members(v)
    BY <1>17, <1>26, <2>2 DEF Members
  <2> QED
    BY <1>23, <2>3, <2>4
<1>28. Members(w) = D \ (gone \cup cut)
  BY <1>6, <1>24, <1>25, <1>26, <1>27
<1>29. View(p) = w
  BY <1>7, <1>8, <1>9, <1>23, <1>28, UniqueChain
<1> QED
  BY <1>3, <1>11, <1>14, <1>15, <1>18, <1>29 DEF CutOut

LEMMA DelIntent ==
  ASSUME IndInv, NEW r \in group, NEW pos \in Positions(r), NEW len \in Positions(r),
         LocalDel(r, pos, len)
  PROVE  CutOut(View(rga[r]), pos, len, View(rga'[r]))
<1>1. r \in Sid /\ DOMAIN rga = Sid /\ CopyOK(ops, rga[r], time[r], seen[r])
  BY DEF IndInv, ReplicaOK
<1>2. PICK q : q = rga[r]
  OBVIOUS
<1>3. PICK par : par = Par(InsOf(ops, seen[r]))
  OBVIOUS
<1>4. PICK gone : gone = Deleted(DelOf(ops, seen[r]))
  OBVIOUS
<1>5. IsTree(par) /\ IsCopy(q, par) /\ Marked(q, gone) /\ q \in Seq(Chunks)
  BY <1>1, <1>2, <1>3, <1>4 DEF CopyOK, IsCopy, Tiles
<1>6. PICK what : what = FindInterval(q, pos, len)
  OBVIOUS
<1>7. pos \in Nat /\ len \in Nat /\ pos + len <= Len(View(q))
  <2>1. pos + len \in Positions(r)
    BY DEF LocalDel
  <2> QED
    BY <1>2, <2>1 DEF Positions
<1>8. what \in Seq(Intervals(par))
  BY <1>5, <1>6, <1>7, FindIntervalOK
<1>9. PICK p : p = Delete(q, what)
  OBVIOUS
<1>10. rga'[r] = p
  <2>1. rga' = [rga EXCEPT ![r] = Delete(rga[r], what)]
    BY <1>2, <1>6 DEF LocalDel
  <2> QED
    BY <1>1, <1>2, <1>9, <2>1
<1>11. IsCopy(p, par) /\ Marked(p, gone \cup AllCut(what, Len(what)))
  <2>1. Len(what) \in Nat
    BY <1>8
  <2>2. \A i \in 1..Len(what) :
          IsInterval(par, what[i].sid, what[i].time, what[i].time + what[i].span - 1)
    BY <1>8 DEF Intervals
  <2> QED
    BY <1>5, <1>9, <2>1, <2>2, DeleteOK
<1>12. AllCut(what, Len(what)) = SpansCut(what)
  BY DEF AllCut, SpansCut, Members
<1>13. Marked(p, gone \cup SpansCut(FindInterval(q, pos, len)))
  BY <1>6, <1>11, <1>12
<1> QED
  BY <1>2, <1>5, <1>7, <1>10, <1>11, <1>13, DeletionShown

(* What a user typed is where the user put it, whatever concurrent text    *)
(* and tombstones surround the position, and a local deletion takes        *)
(* exactly the selected positions.                                         *)
THEOREM LocalIntents == Spec => LocalIntent
<1> DEFINE Intended ==
      \A r \in {x \in group : seen'[x] # seen[x] /\ ops' # ops} :
        LET v == View(rga[r])
            w == View(rga'[r])
        IN  /\ \A pos \in 0..Len(v), span \in Spans :
                 LocalIns(r, pos, span) =>
                   w = SubSeq(v, 1, pos)
                         \o [i \in 1..span |-> [sid |-> r, time |-> time[r] + i - 1]]
                         \o SubSeq(v, pos + 1, Len(v))
            /\ \A pos \in 0..Len(v), len \in 1..Len(v) :
                 LocalDel(r, pos, len) =>
                   w = SubSeq(v, 1, pos) \o SubSeq(v, pos + len + 1, Len(v))
<1>1. IndInv /\ [Next]_vars => [Intended]_vars
  <2> SUFFICES ASSUME IndInv PROVE Intended
    OBVIOUS
  <2>1. ASSUME NEW r \in group, NEW pos \in 0..Len(View(rga[r])), NEW span \in Spans, LocalIns(r, pos, span)
        PROVE  Spliced(View(rga[r]), pos, [i \in 1..span |-> [sid |-> r, time |-> time[r] + i - 1]],
                       View(rga'[r]))
    BY <2>1, InsIntent DEF Positions, InsShown
  <2>2. ASSUME NEW r \in group, NEW pos \in 0..Len(View(rga[r])), NEW len \in 1..Len(View(rga[r])),
               LocalDel(r, pos, len)
        PROVE  CutOut(View(rga[r]), pos, len, View(rga'[r]))
    <3>1. pos \in Positions(r) /\ len \in Positions(r)
      BY DEF Positions
    <3> QED
      BY <2>2, <3>1, DelIntent
  <2> QED
    BY <2>1, <2>2 DEF Spliced, CutOut
<1> HIDE DEF Intended
<1> QED
  BY <1>1, Invariance, PTL DEF Spec, LocalIntent, Intended
=============================================================================
