--------------------------- MODULE JsonModelProofs ---------------------------
(***************************************************************************)
(* What Model.applyOperation() leaves in the index of a document, for any  *)
(* documents, sessions, keys and number of patches: no node refers to one  *)
(* that was collected (NoneMissing), and a local edit is there when it is  *)
(* made (LocalWins).                                                       *)
(*                                                                         *)
(* A value is put in one place only, by one operation.  So when it is      *)
(* replaced, and what hangs below it is collected, no node that stays      *)
(* refers to what goes.  The same, operation for operation, is why a value *)
(* that came again, or came to a node that was collected, does no harm.    *)
(***************************************************************************)
EXTENDS JsonModel, FiniteSetTheorems, WellFoundedInduction, SequenceTheorems,
        TLAPS

-----------------------------------------------------------------------------
(* Numbers in order.                                                       *)

\* A set of natural numbers has a smallest one: of the finite sets 0..n, n a member,
\* one has none of the others in it.
LEMMA Least ==
  ASSUME NEW S \in SUBSET Nat, S # {}
  PROVE  \E m \in S : \A n \in S : m <= n
<1> DEFINE T == {0..n : n \in S}
<1>1. T \subseteq FiniteSubsetsOf(Nat) /\ T # {}
  <2>1. ASSUME NEW n \in S PROVE (0..n) \in SUBSET Nat /\ IsFiniteSet(0..n)
    BY FS_Interval
  <2> QED
    BY <2>1 DEF FiniteSubsetsOf
<1>2. PICK x \in T : \A y \in T : ~(<<y, x>> \in StrictSubsetOrdering(Nat))
  <2> HIDE DEF T
  <2> QED
    BY <1>1, FS_StrictSubsetOrderingWellFounded, WFMin
<1>3. PICK m \in S : x = 0..m
  OBVIOUS
<1>4. ASSUME NEW n \in S, n < m PROVE FALSE
  <2>1. (0..n) \subseteq (0..m) /\ m \in 0..m /\ m \notin 0..n
    BY <1>4
  <2>2. (0..n) # (0..m)
    BY <2>1
  <2>3. <<0..n, 0..m>> \in StrictSubsetOrdering(Nat)
    BY <2>1, <2>2 DEF StrictSubsetOrdering
  <2> QED
    BY <1>2, <1>3, <2>3
<1> QED
  BY <1>4

\* What holds at 0, and at each number up to n when it holds at the one before, holds up
\* to n: of the numbers where it does not, none is the smallest.
LEMMA Upward ==
  ASSUME NEW n \in Nat, NEW S, 0 \in S, \A i \in 1..n : i - 1 \in S => i \in S
  PROVE  0..n \subseteq S
<1> DEFINE T == {i \in 0..n : i \notin S}
<1> SUFFICES ASSUME T # {} PROVE FALSE
  OBVIOUS
<1>1. PICK i \in T : \A j \in T : i <= j
  <2>1. T \in SUBSET Nat
    OBVIOUS
  <2> HIDE DEF T
  <2> QED
    BY <2>1, Least
<1>2. i \in 1..n /\ i - 1 \in 0..n /\ i - 1 \notin T
  BY <1>1
<1> QED
  BY <1>1, <1>2


OpsOf(ps) == UNION {{p.ops[i] : i \in 1..Len(p.ops)} : p \in ps}

IsSeq(s) == Len(s) \in Nat /\ s = [i \in 1..Len(s) |-> s[i]]

IsFcn(f) == f = [x \in DOMAIN f |-> f[x]]

Puts(op) == op.name \in {"ins_obj", "ins_vec", "ins_val", "ins_arr", "upd_arr"}

\* An operation is about a node that is older than the value it puts there.
OpOK(op) ==
  /\ op.name = "new" \/ op.name = "del" \/ Puts(op)
  /\ op.name = "new" => op.id \in Stamp /\ op.kind \in AllKinds
  /\ Puts(op) => /\ op.obj \in Stamp \cup {Root}
                 /\ op.val \in Stamp
                 /\ op.obj.time < op.val.time
  /\ op.name = "ins_obj" => op.key \in Keys
  /\ op.name = "ins_vec" => op.index \in Nat
  /\ op.name = "ins_arr" => op.id \in Stamp
  /\ op.name \in {"ins_arr", "upd_arr", "del"} => op.ref \in Stamp \cup {Root}

\* The identifiers of session r that an operation gives are before t.
OpBelow(op, r, t) ==
  /\ op.name = "new" /\ op.id.sid = r => op.id.time < t
  /\ op.name = "ins_arr" /\ op.id.sid = r => op.id.time < t
  /\ Puts(op) /\ op.val.sid = r => op.val.time < t

\* A value has one place, a slot is made once, and between two slots of a session is the
\* identifier of a value.
OpsOK(ops) ==
  /\ \A op \in ops : OpOK(op)
  /\ \A a, b \in ops : Puts(a) /\ Puts(b) /\ a.val = b.val => a = b
  /\ \A a, b \in ops :
       a.name = "ins_arr" /\ b.name = "ins_arr" =>
         /\ a.id = b.id => a = b
         /\ ~(a.id.sid = b.id.sid /\ a.id.time + 1 = b.id.time)

\* What is inserted after ref goes behind the slot at h, or to the start.
RefAt(q, h, ref) == IF h = 0 THEN ref = Root ELSE Id(q[h]) = ref

\* All slots behind h, up to j, are later than id.
LaterUpTo(q, h, j, id) == \A m \in (h + 1)..j : Before(id, Id(q[m]))

\* The slot at i was inserted after what is at h; what came between is later.
After(q, i, h, op) == RefAt(q, h, op.ref) /\ LaterUpTo(q, h, i - 1, Id(q[i]))

IsSlot(c) ==
  /\ c = [sid |-> c.sid, time |-> c.time, span |-> 1, del |-> c.del, s |-> 0]
  /\ c.del \in BOOLEAN

\* The chunks of an array: each a slot of its own.
IsArray(q, ops) ==
  /\ IsSeq(q)
  /\ \A i \in 1..Len(q) :
       /\ IsSlot(q[i])
       /\ \E op \in ops : /\ op.name = "ins_arr" /\ op.id = Id(q[i])
                          /\ \E h \in 0..(i - 1) : After(q, i, h, op)
  /\ \A i, j \in 1..Len(q) : Id(q[i]) = Id(q[j]) => i = j

\* The operation gives the slot e a value.
Fills(op, e) == (op.name = "ins_arr" /\ op.id = e) \/ (op.name = "upd_arr" /\ op.ref = e)

\* What is in a place of node x was put there.
NodeOK(x, n, ops) ==
  /\ n = [kind |-> n.kind, keys |-> n.keys, elements |-> n.elements, val |-> n.val,
          rga |-> n.rga, slot |-> n.slot]
  /\ n.kind \in AllKinds
  /\ n.keys = [k \in Keys |-> n.keys[k]]
  /\ \A k \in Keys : n.keys[k] # Root =>
       \E op \in ops : op.name = "ins_obj" /\ op.obj = x /\ op.key = k /\ op.val = n.keys[k]
  /\ IsSeq(n.elements)
  /\ \A i \in 1..Len(n.elements) : n.elements[i] # Root =>
       \E op \in ops : /\ op.name = "ins_vec" /\ op.obj = x /\ op.index = i - 1
                       /\ op.val = n.elements[i]
  /\ n.val # Root => \E op \in ops : op.name = "ins_val" /\ op.obj = x /\ op.val = n.val
  /\ IsArray(n.rga, ops)
  /\ IsFcn(n.slot)
  /\ \A i \in 1..Len(n.rga) : Id(n.rga[i]) \in DOMAIN n.slot
  /\ \A e \in DOMAIN n.slot :
       \E op \in ops : Fills(op, e) /\ op.obj = x /\ op.val = n.slot[e]

\* An index made of the operations ops, before time t.
Well(ix, ops, t) ==
  /\ Root \in DOMAIN ix
  /\ IsFcn(ix)
  /\ \A x \in DOMAIN ix : x \in Stamp \cup {Root} /\ x.time < t /\ NodeOK(x, ix[x], ops)

Whole(ix) == \A x \in DOMAIN ix : Values(ix[x]) \subseteq DOMAIN ix

PatchOK(p) ==
  /\ p.id.time \in Nat
  /\ IsSeq(p.ops)
  /\ \A i \in 1..Len(p.ops) : p.ops[i].name = "new" => p.ops[i].id.time < p.id.time + Len(p.ops)

IndInv ==
  /\ kinds \in Docs
  /\ time = [r \in Sid |-> time[r]] /\ \A r \in Sid : time[r] \in Nat
  /\ index = [r \in Sid |-> index[r]]
  /\ \A p \in patches : PatchOK(p)
  /\ OpsOK(OpsOf(patches))
  /\ \A op \in OpsOf(patches), r \in Sid : OpBelow(op, r, time[r])
  /\ \A r \in Sid : Well(index[r], OpsOf(patches), time[r]) /\ Whole(index[r])

-----------------------------------------------------------------------------
(* The sequence of an array's slots.                                       *)

LEMMA MinOK ==
  ASSUME NEW S \in SUBSET Nat, S # {}
  PROVE  Min(S) \in S /\ \A n \in S : Min(S) <= n
BY Least DEF Min

LEMMA StampFacts ==
  /\ \A a \in Stamp \cup {Root} : a = [sid |-> a.sid, time |-> a.time] /\ a.sid \in Nat /\ a.time \in Nat
  /\ \A a \in Stamp : a # Root /\ a.sid \in Sid
<1>1. ASSUME NEW a \in Stamp
      PROVE  a = [sid |-> a.sid, time |-> a.time] /\ a.sid \in Sid /\ a.sid \in Nat \ {0} /\ a.time \in Nat
  BY SidAssumption DEF Stamp
<1>2. Root = [sid |-> Root.sid, time |-> Root.time] /\ Root.sid = 0 /\ Root.time = 0
  BY DEF Root
<1> QED
  BY <1>1, <1>2

\* The identifier of a slot is that of the operation that made it.
LEMMA SlotFacts ==
  ASSUME NEW ops, OpsOK(ops), NEW q, IsArray(q, ops)
  PROVE  /\ IsSeq(q)
         /\ \A i \in 1..Len(q) :
              /\ IsSlot(q[i]) /\ Id(q[i]) \in Stamp
              /\ Id(q[i]).sid = q[i].sid /\ Id(q[i]).time = q[i].time
              /\ q[i].span = 1 /\ q[i].s = 0 /\ EndTime(q[i]) = q[i].time
              /\ q[i].time \in Nat /\ q[i].sid \in Nat
              /\ \A x \in Stamp \cup {Root} : ContainsId(q[i], x) <=> x = Id(q[i])
         /\ \A i \in 1..Len(q), op \in ops :
              op.name = "ins_arr" => ~(q[i].sid = op.id.sid /\ q[i].time + 1 = op.id.time)
         /\ \A i, j \in 1..Len(q) : ~(q[i].sid = q[j].sid /\ q[i].time + 1 = q[j].time)
<1>1. ASSUME NEW i \in 1..Len(q)
      PROVE  /\ IsSlot(q[i]) /\ Id(q[i]) \in Stamp
             /\ \E op \in ops : op.name = "ins_arr" /\ op.id = Id(q[i])
  BY DEF IsArray, OpsOK, OpOK
<1>2. ASSUME NEW i \in 1..Len(q)
      PROVE  /\ Id(q[i]).sid = q[i].sid /\ Id(q[i]).time = q[i].time
             /\ q[i].span = 1 /\ q[i].s = 0 /\ EndTime(q[i]) = q[i].time
             /\ q[i].time \in Nat /\ q[i].sid \in Nat
  <2>1. q[i].span = 1 /\ q[i].s = 0
    <3>1. PICK c : c = q[i]
      OBVIOUS
    <3>2. c = [sid |-> c.sid, time |-> c.time, span |-> 1, del |-> c.del, s |-> 0]
      BY <1>1, <3>1 DEF IsSlot
    <3>3. c.span = 1 /\ c.s = 0
      BY <3>2
    <3> QED
      BY <3>1, <3>3
  <2>2. Id(q[i]).sid = q[i].sid /\ Id(q[i]).time = q[i].time
    BY DEF Id
  <2>3. q[i].time \in Nat /\ q[i].sid \in Nat
    BY <1>1, <2>2, SidAssumption DEF Stamp
  <2> QED
    BY <2>1, <2>2, <2>3 DEF EndTime
<1>3. ASSUME NEW i \in 1..Len(q), NEW x \in Stamp \cup {Root}
      PROVE  ContainsId(q[i], x) <=> x = Id(q[i])
  <2>1. x = [sid |-> x.sid, time |-> x.time] /\ x.time \in Nat
    BY StampFacts
  <2> QED
    BY <1>2, <2>1 DEF ContainsId, Id
<1>4. ASSUME NEW i \in 1..Len(q), NEW op \in ops, op.name = "ins_arr"
      PROVE  ~(q[i].sid = op.id.sid /\ q[i].time + 1 = op.id.time)
  BY <1>1, <1>2, <1>4 DEF OpsOK
<1>5. ASSUME NEW i \in 1..Len(q), NEW j \in 1..Len(q)
      PROVE  ~(q[i].sid = q[j].sid /\ q[i].time + 1 = q[j].time)
  BY <1>1, <1>2, <1>4
<1>6. IsSeq(q)
  BY DEF IsArray
<1> QED
  BY <1>1, <1>2, <1>3, <1>4, <1>5, <1>6

LEMMA BeforeFacts ==
  /\ \A a \in Stamp : ~Before(a, a)
  /\ \A a, b \in Stamp : a # b /\ ~Before(a, b) => Before(b, a)
  /\ \A a, b, c \in Stamp : Before(a, b) /\ Before(b, c) => Before(a, c)
  /\ \A a, b \in Stamp : Before(a, b) => ~Before(b, a)
<1>1. \A a \in Stamp : a = [sid |-> a.sid, time |-> a.time] /\ a.sid \in Nat /\ a.time \in Nat
  BY StampFacts
<1> QED
  BY <1>1 DEF Before

\* A function on 1..n is a sequence of length n.
LEMMA MakeSeq ==
  ASSUME NEW n \in Nat, NEW s, s = [i \in 1..n |-> s[i]]
  PROVE  IsSeq(s) /\ Len(s) = n
<1>1. PICK T : T = {s[i] : i \in 1..n}
  OBVIOUS
<1>2. s \in [1..n -> T]
  BY <1>1
<1>3. s \in Seq(T) /\ Len(s) = n
  BY <1>2
<1> QED
  BY <1>3 DEF IsSeq

\* Putting one more element into a sequence
LEMMA InsertAtFacts ==
  ASSUME NEW q, IsSeq(q), NEW j \in 0..Len(q), NEW c, NEW p, p = InsertAt(q, j + 1, c)
  PROVE  /\ IsSeq(p) /\ Len(p) = Len(q) + 1
         /\ p[j + 1] = c
         /\ \A i \in 1..j : p[i] = q[i]
         /\ \A i \in (j + 1)..Len(q) : p[i + 1] = q[i]
<1>1. PICK n : n = Len(q)
  OBVIOUS
<1>2. n \in Nat /\ q = [i \in 1..n |-> q[i]] /\ j \in 0..n
  BY <1>1 DEF IsSeq
<1>3. PICK T : T = {q[i] : i \in 1..n} \cup {c}
  OBVIOUS
<1>4. c \in T /\ \A i \in 1..n : q[i] \in T
  BY <1>3
<1>5. PICK a : a = SubSeq(q, 1, j)
  OBVIOUS
<1>6. PICK b : b = SubSeq(q, j + 1, n)
  OBVIOUS
<1>7. a \in Seq(T) /\ Len(a) = j /\ \A i \in 1..j : a[i] = q[i]
  <2>1. /\ SubSeq(q, 1, j) \in Seq(T) /\ Len(SubSeq(q, 1, j)) = IF 1 <= j THEN j - 1 + 1 ELSE 0
        /\ \A i \in 1..(j - 1 + 1) : SubSeq(q, 1, j)[i] = q[1 + i - 1]
    <3>1. \A i \in 1..j : q[i] \in T
      BY <1>2, <1>4
    <3>2. 1 \in Int /\ j \in Int
      BY <1>2
    <3> QED
      BY <3>1, <3>2, SubSeqProperties
  <2>2. \A i \in 1..j : i \in 1..(j - 1 + 1) /\ 1 + i - 1 = i
    BY <1>2
  <2>3. Len(a) = j
    BY <1>2, <1>5, <2>1
  <2> QED
    BY <1>5, <2>1, <2>2, <2>3
<1>8. b \in Seq(T) /\ Len(b) = n - j /\ \A i \in 1..(n - j) : b[i] = q[j + i]
  <2>1. /\ SubSeq(q, j + 1, n) \in Seq(T)
        /\ Len(SubSeq(q, j + 1, n)) = IF j + 1 <= n THEN n - (j + 1) + 1 ELSE 0
        /\ \A i \in 1..(n - (j + 1) + 1) : SubSeq(q, j + 1, n)[i] = q[(j + 1) + i - 1]
    <3>1. \A i \in (j + 1)..n : q[i] \in T
      BY <1>2, <1>4
    <3>2. j + 1 \in Int /\ n \in Int
      BY <1>2
    <3> QED
      BY <3>1, <3>2, SubSeqProperties
  <2>2. \A i \in 1..(n - j) : i \in 1..(n - (j + 1) + 1) /\ (j + 1) + i - 1 = j + i
    BY <1>2
  <2>3. Len(b) = n - j
    BY <1>2, <1>6, <2>1
  <2> QED
    BY <1>6, <2>1, <2>2, <2>3
<1>9. p = (a \o <<c>>) \o b
  <2>1. (j + 1) - 1 = j
    BY <1>2
  <2> QED
    BY <1>1, <1>5, <1>6, <2>1 DEF InsertAt
<1>10. PICK d : d = a \o <<c>>
  OBVIOUS
<1>11. d \in Seq(T) /\ Len(d) = j + 1 /\ d[j + 1] = c /\ \A i \in 1..j : d[i] = q[i]
  <2>1. PICK e : e = <<c>>
    OBVIOUS
  <2>2. e \in Seq(T) /\ Len(e) = 1 /\ e[1] = c
    BY <1>4, <2>1
  <2>3. /\ a \o e \in Seq(T)
        /\ Len(a \o e) = Len(a) + Len(e)
        /\ \A i \in 1..(Len(a) + Len(e)) :
             (a \o e)[i] = IF i <= Len(a) THEN a[i] ELSE e[i - Len(a)]
    <3>1. a \in Seq(T) /\ e \in Seq(T)
      BY <1>7, <2>2
    <3> QED
      BY <3>1, ConcatProperties
  <2>4. /\ d \in Seq(T) /\ Len(d) = j + 1
        /\ \A i \in 1..(j + 1) : d[i] = IF i <= j THEN a[i] ELSE e[i - j]
    <3>1. d = a \o e /\ Len(a) = j /\ Len(e) = 1
      BY <1>7, <1>10, <2>1, <2>2
    <3> QED
      BY <2>3, <3>1
  <2>5. d[j + 1] = e[1]
    <3>1. j + 1 \in 1..(j + 1) /\ ~(j + 1 <= j) /\ (j + 1) - j = 1
      BY <1>2
    <3> QED
      BY <2>4, <3>1
  <2>6. \A i \in 1..j : d[i] = a[i]
    BY <1>2, <2>4
  <2> QED
    BY <1>7, <2>2, <2>4, <2>5, <2>6
<1>12. /\ d \o b \in Seq(T)
       /\ Len(d \o b) = Len(d) + Len(b)
       /\ \A i \in 1..(Len(d) + Len(b)) :
            (d \o b)[i] = IF i <= Len(d) THEN d[i] ELSE b[i - Len(d)]
  <2>1. d \in Seq(T) /\ b \in Seq(T)
    BY <1>8, <1>11
  <2> QED
    BY <2>1, ConcatProperties
<1>13. /\ p \in Seq(T) /\ Len(p) = n + 1
       /\ \A i \in 1..(n + 1) : p[i] = IF i <= j + 1 THEN d[i] ELSE b[i - (j + 1)]
  <2>1. p = d \o b /\ Len(d) = j + 1 /\ Len(b) = n - j /\ (j + 1) + (n - j) = n + 1
    BY <1>2, <1>8, <1>9, <1>10, <1>11
  <2> QED
    BY <1>12, <2>1
<1>14. p[j + 1] = c /\ \A i \in 1..j : p[i] = q[i]
  <2>1. \A i \in 1..(j + 1) : i \in 1..(n + 1) /\ i <= j + 1
    BY <1>2
  <2>2. \A i \in 1..(j + 1) : p[i] = d[i]
    BY <1>13, <2>1
  <2>3. j + 1 \in 1..(j + 1) /\ \A i \in 1..j : i \in 1..(j + 1)
    BY <1>2
  <2> QED
    BY <1>11, <2>2, <2>3
<1>15. \A i \in (j + 1)..n : p[i + 1] = q[i]
  <2> SUFFICES ASSUME NEW i \in (j + 1)..n PROVE p[i + 1] = q[i]
    OBVIOUS
  <2>1. i + 1 \in 1..(n + 1) /\ ~(i + 1 <= j + 1) /\ i - j = (i + 1) - (j + 1)
    BY <1>2
  <2>2. p[i + 1] = b[i - j]
    BY <1>13, <2>1
  <2>3. (i - j) \in 1..(n - j) /\ j + (i - j) = i
    BY <1>2
  <2> QED
    BY <1>8, <2>2, <2>3
<1>16. IsSeq(p)
  <2>1. Len(p) \in Nat /\ p \in [1..Len(p) -> T]
    BY <1>13, LenProperties
  <2> QED
    BY <2>1 DEF IsSeq
<1> QED
  BY <1>1, <1>13, <1>14, <1>15, <1>16

\* The slots of an array go on in their order around a new one.
LEMMA InsertedOK ==
  ASSUME NEW ops, OpsOK(ops), NEW q, IsArray(q, ops),
         NEW op \in ops, op.name = "ins_arr", \A i \in 1..Len(q) : Id(q[i]) # op.id,
         NEW j \in 0..Len(q), NEW h \in 0..j,
         RefAt(q, h, op.ref),
         LaterUpTo(q, h, j, op.id),
         j < Len(q) => Before(Id(q[j + 1]), op.id),
         NEW p, p = InsertAt(q, j + 1, Chunk(op.id, 1))
  PROVE  /\ IsArray(p, ops)
         /\ \A i \in 1..Len(p) : p[i] = Chunk(op.id, 1) \/ \E m \in 1..Len(q) : p[i] = q[m]
<1> USE DEF RefAt, LaterUpTo
<1>1. PICK n, c : n = Len(q) /\ c = Chunk(op.id, 1)
  OBVIOUS
<1>2. IsSeq(q) /\ n \in Nat
  BY <1>1 DEF IsArray, IsSeq
<1>3. /\ IsSeq(p) /\ Len(p) = n + 1
      /\ p[j + 1] = c
      /\ \A i \in 1..j : p[i] = q[i]
      /\ \A i \in (j + 1)..n : p[i + 1] = q[i]
  BY <1>1, <1>2, InsertAtFacts
<1> DEFINE shift(i) == IF i <= j THEN i ELSE i + 1
<1>4. \A i \in 1..n : shift(i) \in 1..(n + 1) /\ p[shift(i)] = q[i]
  BY <1>1, <1>2, <1>3
<1>5. \A m \in 1..(n + 1) : m = j + 1 \/ \E i \in 1..n : m = shift(i)
  <2> SUFFICES ASSUME NEW m \in 1..(n + 1), m # j + 1 PROVE \E i \in 1..n : m = shift(i)
    OBVIOUS
  <2>1. CASE m <= j
    BY <1>1, <1>2, <2>1
  <2>2. CASE m > j + 1
    <3>1. (m - 1) \in 1..n /\ m = shift(m - 1)
      BY <1>1, <1>2, <2>2
    <3> QED
      BY <3>1
  <2> QED
    BY <1>2, <1>1, <2>1, <2>2
<1>6. Id(c) = op.id /\ IsSlot(c) /\ op.id \in Stamp
  <2>1. op.id \in Stamp /\ op.id = [sid |-> op.id.sid, time |-> op.id.time]
    BY StampFacts DEF OpsOK, OpOK
  <2>2. PICK d : d = op.id
    OBVIOUS
  <2>3. c = [sid |-> d.sid, time |-> d.time, span |-> 1, del |-> FALSE, s |-> 0]
    BY <1>1, <2>2 DEF Chunk
  <2>4. c.sid = d.sid /\ c.time = d.time /\ c.del = FALSE
    BY <2>3
  <2> QED
    BY <2>1, <2>2, <2>3, <2>4 DEF IsSlot, Id
<1>7. \A i \in 1..n : /\ IsSlot(q[i]) /\ Id(q[i]) \in Stamp
  BY <1>1, SlotFacts
<1>8. ASSUME NEW i \in 1..n, NEW o \in ops, o.name = "ins_arr", NEW g \in 0..(i - 1), After(q, i, g, o)
      PROVE  \E f \in 0..(shift(i) - 1) : After(p, shift(i), f, o)
  <2>1. shift(g) \in 0..(shift(i) - 1)
    BY <1>1, <1>2, <1>8
  <2>2. IF shift(g) = 0 THEN o.ref = Root ELSE Id(p[shift(g)]) = o.ref
    <3>1. CASE g = 0
      <4>1. shift(g) = 0
        BY <1>1, <1>2, <3>1
      <4> QED
        BY <1>8, <3>1, <4>1 DEF After
    <3>2. CASE g # 0
      <4>1. g \in 1..n /\ shift(g) # 0
        BY <1>1, <1>2, <1>8, <3>2
      <4>2. p[shift(g)] = q[g]
        BY <1>4, <4>1
      <4> QED
        BY <1>8, <3>2, <4>1, <4>2 DEF After
    <3> QED
      BY <3>1, <3>2
  <2>3. ASSUME NEW m \in (shift(g) + 1)..(shift(i) - 1) PROVE Before(Id(p[shift(i)]), Id(p[m]))
    <3>1. m \in 1..(n + 1)
      BY <1>1, <1>2, <1>8, <2>3
    <3>2. p[shift(i)] = q[i]
      BY <1>4
    <3>3. \A l \in (g + 1)..(i - 1) : Before(Id(q[i]), Id(q[l]))
      BY <1>8 DEF After
    <3>4. CASE m = j + 1
      <4>1. g <= j /\ j + 1 <= i /\ j < n
        BY <1>1, <1>2, <1>8, <2>3, <3>4
      <4>2. Before(Id(q[j + 1]), Id(c))
        BY <1>1, <1>6, <4>1
      <4>3. CASE i = j + 1
        BY <1>3, <3>2, <3>4, <4>2, <4>3
      <4>4. CASE i # j + 1
        <5>1. j + 1 \in (g + 1)..(i - 1) /\ j + 1 \in 1..n
          BY <1>1, <1>2, <1>8, <4>1, <4>4
        <5>2. Before(Id(q[i]), Id(q[j + 1]))
          BY <3>3, <5>1
        <5>3. Id(q[i]) \in Stamp /\ Id(q[j + 1]) \in Stamp /\ Id(c) \in Stamp
          BY <1>6, <1>7, <5>1
        <5>4. Before(Id(q[i]), Id(c))
          BY <4>2, <5>2, <5>3, BeforeFacts
        <5> QED
          BY <1>3, <3>2, <3>4, <5>4
      <4> QED
        BY <4>3, <4>4
    <3>5. CASE m # j + 1
      <4>1. PICK l \in 1..n : m = shift(l)
        BY <1>5, <3>1, <3>5
      <4>2. l \in (g + 1)..(i - 1)
        BY <1>1, <1>2, <1>8, <2>3, <4>1
      <4>3. p[m] = q[l]
        BY <1>4, <4>1
      <4> QED
        BY <3>2, <3>3, <4>2, <4>3
    <3> QED
      BY <3>4, <3>5
  <2> QED
    BY <2>1, <2>2, <2>3 DEF After
<1>9. \E f \in 0..j : After(p, j + 1, f, op)
  <2>1. IF h = 0 THEN op.ref = Root ELSE Id(p[h]) = op.ref
    <3>1. CASE h = 0
      BY <3>1
    <3>2. CASE h # 0
      <4>1. h \in 1..j /\ p[h] = q[h]
        BY <1>1, <1>2, <1>3, <3>2
      <4> QED
        BY <3>2, <4>1
    <3> QED
      BY <3>1, <3>2
  <2>2. ASSUME NEW m \in (h + 1)..((j + 1) - 1) PROVE Before(Id(p[j + 1]), Id(p[m]))
    <3>1. m \in (h + 1)..j /\ m \in 1..j
      BY <1>1, <1>2
    <3>2. p[m] = q[m] /\ p[j + 1] = c
      BY <1>3, <3>1
    <3> QED
      BY <1>6, <3>1, <3>2
  <2> QED
    BY <2>1, <2>2 DEF After
<1> HIDE DEF shift
<1>10. ASSUME NEW m \in 1..(n + 1)
       PROVE  /\ IsSlot(p[m])
              /\ \E o \in ops : /\ o.name = "ins_arr" /\ o.id = Id(p[m])
                                /\ \E f \in 0..(m - 1) : After(p, m, f, o)
  <2>1. CASE m = j + 1
    <3>1. \E f \in 0..(m - 1) : After(p, m, f, op)
      <4>1. (j + 1) - 1 = j
        BY <1>1, <1>2
      <4> QED
        BY <1>9, <2>1, <4>1
    <3>2. p[m] = c
      BY <1>3, <2>1
    <3> QED
      BY <1>6, <3>1, <3>2
  <2>2. CASE m # j + 1
    <3>1. PICK i \in 1..n : m = shift(i)
      BY <1>5, <2>2
    <3>2. PICK o \in ops : /\ o.name = "ins_arr" /\ o.id = Id(q[i])
                           /\ \E g \in 0..(i - 1) : After(q, i, g, o)
      BY <1>1 DEF IsArray
    <3>3. \E f \in 0..(m - 1) : After(p, m, f, o)
      BY <1>8, <3>1, <3>2
    <3>4. p[m] = q[i]
      BY <1>4, <3>1
    <3> QED
      BY <1>7, <3>2, <3>3, <3>4
  <2> QED
    BY <2>1, <2>2
<1>11. ASSUME NEW a \in 1..(n + 1), NEW b \in 1..(n + 1), Id(p[a]) = Id(p[b]) PROVE a = b
  <2>1. \A i \in 1..n : Id(q[i]) # Id(c)
    BY <1>1, <1>6
  <2>2. \A x, y \in 1..n : Id(q[x]) = Id(q[y]) => x = y
    BY <1>1 DEF IsArray
  <2>3. \A m \in 1..(n + 1) : (m = j + 1 /\ p[m] = c) \/ \E i \in 1..n : m = shift(i) /\ p[m] = q[i]
    BY <1>3, <1>4, <1>5
  <2> QED
    BY <1>11, <2>1, <2>2, <2>3
<1>12. IsArray(p, ops)
  BY <1>3, <1>10, <1>11 DEF IsArray
<1>13. \A i \in 1..Len(p) : p[i] = c \/ \E m \in 1..n : p[i] = q[m]
  <2> SUFFICES ASSUME NEW i \in 1..(n + 1) PROVE p[i] = c \/ \E m \in 1..n : p[i] = q[m]
    BY <1>3
  <2>1. CASE i = j + 1
    BY <1>3, <2>1
  <2>2. CASE i # j + 1
    BY <1>4, <1>5, <2>2
  <2> QED
    BY <2>1, <2>2
<1> QED
  BY <1>1, <1>12, <1>13

\* What insertAfterRef() comes to, from the place k to which all since h is later
LEMMA InsertAfterRefOK ==
  ASSUME NEW ops, OpsOK(ops), NEW q, IsArray(q, ops), NEW op \in ops, op.name = "ins_arr",
         NEW k \in 1..Len(q), NEW h \in 0..k,
         RefAt(q, h, op.ref),
         LaterUpTo(q, h, k, op.id),
         NEW p, p = InsertAfterRef(q, Chunk(op.id, 1), op.ref, k)
  PROVE  /\ IsArray(p, ops)
         /\ \A i \in 1..Len(p) : p[i] = Chunk(op.id, 1) \/ \E m \in 1..Len(q) : p[i] = q[m]
<1>1. PICK n, c : n = Len(q) /\ c = Chunk(op.id, 1)
  OBVIOUS
<1>2. IsSeq(q) /\ n \in Nat /\ q = [i \in 1..n |-> q[i]] /\ DOMAIN q = 1..n
  BY <1>1 DEF IsArray, IsSeq
<1>3. op.id \in Stamp /\ Id(c) = op.id /\ c.sid = op.id.sid /\ c.time = op.id.time /\ c.span = 1
  <2>1. op.id \in Stamp /\ op.id = [sid |-> op.id.sid, time |-> op.id.time]
    BY StampFacts DEF OpsOK, OpOK
  <2>2. PICK d : d = op.id
    OBVIOUS
  <2>3. c = [sid |-> d.sid, time |-> d.time, span |-> 1, del |-> FALSE, s |-> 0]
    BY <1>1, <2>2 DEF Chunk
  <2>4. c.sid = d.sid /\ c.time = d.time /\ c.span = 1
    BY <2>3
  <2> QED
    BY <2>1, <2>2, <2>4 DEF Id
<1>4. \A m \in 1..n : Before(c, q[m]) <=> Before(op.id, Id(q[m]))
  BY <1>1, <1>3, SlotFacts DEF Before
<1> DEFINE S == {m \in k..n : m = n \/ ~Before(c, q[m + 1])}
<1>5. PICK j : j = Min(S)
  OBVIOUS
<1>6. /\ j \in k..n
      /\ j = n \/ ~Before(op.id, Id(q[j + 1]))
      /\ \A m \in (k + 1)..j : Before(op.id, Id(q[m]))
  <2>1. S \in SUBSET Nat /\ n \in S
    BY <1>1, <1>2
  <2>2. j \in S /\ \A m \in S : j <= m
    <3> HIDE DEF S
    <3> QED
      BY <1>5, <2>1, MinOK
  <2>3. j \in k..n /\ (j = n \/ ~Before(c, q[j + 1]))
    BY <2>2
  <2>4. j = n \/ ~Before(op.id, Id(q[j + 1]))
    <3>1. CASE j # n
      <4>1. j + 1 \in 1..n
        BY <1>1, <1>2, <2>3, <3>1
      <4> QED
        BY <1>4, <2>3, <4>1
    <3> QED
      BY <3>1
  <2>5. ASSUME NEW m \in (k + 1)..j PROVE Before(op.id, Id(q[m]))
    <3>1. m \in 1..n /\ (m - 1) \in k..n /\ m - 1 # n /\ (m - 1) + 1 = m /\ m - 1 < j
      BY <1>1, <1>2, <2>3
    <3>2. m - 1 \notin S
      <4>1. PICK l : l = m - 1
        OBVIOUS
      <4>2. l \in Nat /\ l < j /\ j \in Nat
        BY <1>1, <1>2, <2>3, <3>1, <4>1
      <4>3. l \notin S
        <5> HIDE DEF S
        <5> QED
          BY <2>2, <4>2
      <4> QED
        BY <4>1, <4>3
    <3>3. Before(c, q[m])
      BY <3>1, <3>2
    <3> QED
      BY <1>4, <3>1, <3>3
  <2> QED
    BY <2>3, <2>4, <2>5
<1> DEFINE unlinked == {m \in k..j : q[m].s = 0}
           continues(m) == /\ q[m].sid = c.sid
                           /\ EndTime(q[m]) + 1 = c.time
                           /\ EndTime(q[m]) = op.ref.time
           linked == [m \in DOMAIN q |-> IF m \in unlinked /\ continues(m)
                                         THEN [q[m] EXCEPT !.s = c.time] ELSE q[m]]
           isSplit == unlinked # {} /\ continues(Max(unlinked))
<1>7. ASSUME NEW m \in 1..n PROVE ~continues(m)
  <2>1. EndTime(q[m]) = q[m].time /\ ~(q[m].sid = op.id.sid /\ q[m].time + 1 = op.id.time)
    BY <1>1, SlotFacts
  <2> QED
    BY <1>3, <2>1
<1>8. linked = q
  <2>1. linked = [m \in 1..n |-> q[m]]
    <3> HIDE DEF continues, unlinked
    <3> QED
      BY <1>2, <1>7
  <2> QED
    BY <1>2, <2>1
<1>9. ~isSplit
  <2>1. unlinked = k..j
    <3>1. \A m \in k..j : q[m].s = 0
      BY <1>1, <1>2, <1>6, SlotFacts
    <3> QED
      BY <3>1
  <2>2. PICK top : top = Max(unlinked)
    OBVIOUS
  <2>3. top \in 1..n
    <3>1. top = CHOOSE x \in k..j : \A y \in k..j : x >= y
      BY <2>1, <2>2 DEF Max
    <3>2. j \in k..j /\ \A y \in k..j : j >= y
      BY <1>1, <1>2, <1>6
    <3>3. top \in k..j
      BY <3>1, <3>2
    <3> QED
      BY <1>1, <1>2, <1>6, <3>3
  <2> HIDE DEF continues, unlinked
  <2> QED
    BY <1>7, <2>2, <2>3
<1>10. p = IF j < n /\ Id(q[j + 1]) = op.id THEN q ELSE InsertAt(q, j + 1, c)
  <2>1. p = IF j < Len(q) /\ Id(q[j + 1]) = Id(c) THEN linked
            ELSE IF isSplit /\ ~q[j].del
                 THEN [linked EXCEPT ![j].span = @ + c.span, ![j].s = 0]
                 ELSE InsertAt(linked, j + 1, c)
    BY <1>1, <1>5 DEF InsertAfterRef
  <2> HIDE DEF linked, isSplit
  <2> QED
    BY <1>1, <1>3, <1>8, <1>9, <2>1
<1>11. CASE j < n /\ Id(q[j + 1]) = op.id
  <2>1. p = q
    BY <1>10, <1>11
  <2> QED
    BY <2>1
<1>12. CASE ~(j < n /\ Id(q[j + 1]) = op.id)
  <2>1. p = InsertAt(q, j + 1, Chunk(op.id, 1))
    BY <1>1, <1>10, <1>12
  <2>2. LaterUpTo(q, h, j, op.id)
    <3> SUFFICES ASSUME NEW m \in (h + 1)..j PROVE Before(op.id, Id(q[m]))
      BY DEF LaterUpTo
    <3>1. m \in (h + 1)..k \/ m \in (k + 1)..j
      BY <1>1, <1>2, <1>6
    <3> QED
      BY <1>6, <3>1 DEF LaterUpTo
  <2>3. j < Len(q) => Before(Id(q[j + 1]), op.id)
    <3> SUFFICES ASSUME j < n PROVE Before(Id(q[j + 1]), op.id)
      BY <1>1
    <3>1. j + 1 \in 1..n /\ j # n
      BY <1>1, <1>2, <1>6
    <3>2. Id(q[j + 1]) \in Stamp /\ Id(q[j + 1]) # op.id /\ ~Before(op.id, Id(q[j + 1]))
      BY <1>1, <1>6, <1>12, <3>1, SlotFacts
    <3> QED
      BY <1>3, <3>2, BeforeFacts
  <2>4. ASSUME NEW i \in 1..n, Id(q[i]) = op.id PROVE FALSE
    <3>1. PICK o \in ops : /\ o.name = "ins_arr" /\ o.id = Id(q[i])
                           /\ \E g \in 0..(i - 1) : After(q, i, g, o)
      BY <1>1 DEF IsArray
    <3>2. o = op
      BY <2>4, <3>1 DEF OpsOK
    <3>3. PICK g \in 0..(i - 1) : After(q, i, g, op)
      BY <3>1, <3>2
    <3>4. /\ RefAt(q, g, op.ref)
          /\ LaterUpTo(q, g, i - 1, op.id)
      BY <2>4, <3>3 DEF After
    <3>5. g = h
      <4>1. CASE g = 0 /\ h # 0
        <5>1. h \in 1..n /\ Id(q[h]) = Root
          BY <1>1, <1>2, <3>4, <4>1 DEF RefAt
        <5> QED
          BY <1>1, <5>1, SlotFacts, StampFacts
      <4>2. CASE g # 0 /\ h = 0
        <5>1. g \in 1..n /\ Id(q[g]) = Root
          BY <1>1, <1>2, <3>4, <4>2 DEF RefAt
        <5> QED
          BY <1>1, <5>1, SlotFacts, StampFacts
      <4>3. CASE g # 0 /\ h # 0
        <5>1. g \in 1..n /\ h \in 1..n /\ Id(q[g]) = Id(q[h])
          BY <1>1, <1>2, <3>4, <4>3 DEF RefAt
        <5> QED
          BY <1>1, <5>1 DEF IsArray
      <4> QED
        BY <4>1, <4>2, <4>3
    <3>6. i \notin (h + 1)..j
      <4>1. ~Before(op.id, op.id)
        BY <1>3, BeforeFacts
      <4> QED
        BY <2>2, <2>4, <4>1 DEF LaterUpTo
    <3>7. i >= j + 1 /\ j < n
      BY <1>1, <1>2, <1>6, <3>5, <3>6
    <3>8. i # j + 1
      BY <1>12, <2>4, <3>7
    <3>9. j + 1 \in (g + 1)..(i - 1) /\ j # n
      BY <1>1, <1>2, <1>6, <3>5, <3>7, <3>8
    <3> QED
      BY <1>6, <3>4, <3>9 DEF LaterUpTo
  <2>5. j \in 0..Len(q) /\ h \in 0..j
    BY <1>1, <1>2, <1>6
  <2>6. \A i \in 1..Len(q) : Id(q[i]) # op.id
    BY <1>1, <2>4
  <2> QED
    <3>1. LaterUpTo(q, h, j, op.id)
      BY <2>2
    <3>2. RefAt(q, h, op.ref)
      OBVIOUS
    <3>3. j \in 0..Len(q)
      BY <2>5
    <3>4. h \in 0..j
      BY <2>5
    <3> HIDE DEF S, unlinked, continues, linked, isSplit
    <3> QED
      BY ONLY OpsOK(ops), IsArray(q, ops), op \in ops, op.name = "ins_arr",
              <2>1, <2>3, <2>6, <3>1, <3>2, <3>3, <3>4, InsertedOK
<1> QED
  BY <1>11, <1>12

\* An array takes one more slot, or it stays as it is.
LEMMA InsOK ==
  ASSUME NEW ops, OpsOK(ops), NEW q, IsArray(q, ops), NEW op \in ops, op.name = "ins_arr",
         NEW p, p = Ins(q, Root, op.ref, op.id, 1)
  PROVE  /\ IsArray(p, ops)
         /\ \A i \in 1..Len(p) : p[i] = Chunk(op.id, 1) \/ \E m \in 1..Len(q) : p[i] = q[m]
<1>1. PICK n, c : n = Len(q) /\ c = Chunk(op.id, 1)
  OBVIOUS
<1>2. IsSeq(q) /\ n \in Nat /\ (q = <<>> <=> n = 0)
  <2>1. IsSeq(q) /\ n \in Nat /\ q = [i \in 1..n |-> q[i]]
    BY <1>1 DEF IsArray, IsSeq
  <2>2. n = 0 => q = <<>>
    BY <2>1
  <2> QED
    BY <1>1, <2>1, <2>2
<1>3. op.id \in Stamp /\ Id(c) = op.id /\ c.sid = op.id.sid /\ c.time = op.id.time
  <2>1. op.id \in Stamp /\ op.id = [sid |-> op.id.sid, time |-> op.id.time]
    BY StampFacts DEF OpsOK, OpOK
  <2>2. PICK d : d = op.id
    OBVIOUS
  <2>3. c = [sid |-> d.sid, time |-> d.time, span |-> 1, del |-> FALSE, s |-> 0]
    BY <1>1, <2>2 DEF Chunk
  <2>4. c.sid = d.sid /\ c.time = d.time
    BY <2>3
  <2> QED
    BY <2>1, <2>2, <2>4 DEF Id
<1>4. \A m \in 1..n : Before(q[m], c) <=> Before(Id(q[m]), op.id)
  BY <1>1, <1>3, SlotFacts DEF Before
<1>5. PICK k : k = FindById(q, op.ref)
  OBVIOUS
<1>6. p = IF op.ref = Root THEN InsAfterRoot(q, c, Root)
          ELSE IF k = 0 THEN q
          ELSE InsAfterChunk(q, c, op.ref, k, op.ref.time - q[k].time)
  BY <1>1, <1>5 DEF Ins
<1>7. CASE op.ref = Root /\ (n = 0 \/ Before(Id(q[1]), op.id))
  <2>1. p = InsertAt(q, 0 + 1, c)
    <3>1. CASE n = 0
      <4>1. p = <<c>> /\ q = <<>>
        BY <1>2, <1>6, <1>7, <3>1 DEF InsAfterRoot
      <4>2. InsertAt(<<>>, 1, c) = <<c>>
        <5>1. SubSeq(<<>>, 1, 1 - 1) = <<>> /\ SubSeq(<<>>, 1, Len(<<>>)) = <<>>
          OBVIOUS
        <5>2. (<<>> \o <<c>>) \o <<>> = <<c>>
          <6>1. <<c>> \in Seq({c}) /\ <<>> \in Seq({c})
            OBVIOUS
          <6> QED
            BY <6>1, ConcatEmptySeq
        <5> QED
          BY <5>1, <5>2 DEF InsertAt
      <4> QED
        BY <4>1, <4>2
    <3>2. CASE n # 0
      <4>1. 1 \in 1..n
        BY <1>2, <3>2
      <4>2. Before(q[1], c)
        BY <1>4, <1>7, <3>2, <4>1
      <4> QED
        BY <1>2, <1>6, <1>7, <3>2, <4>2 DEF InsAfterRoot
    <3> QED
      BY <3>1, <3>2
  <2>2. ASSUME NEW i \in 1..n, Id(q[i]) = op.id PROVE FALSE
    <3>1. PICK o \in ops : /\ o.name = "ins_arr" /\ o.id = Id(q[i])
                           /\ \E g \in 0..(i - 1) : After(q, i, g, o)
      BY <1>1 DEF IsArray
    <3>2. o = op
      BY <2>2, <3>1 DEF OpsOK
    <3>3. PICK g \in 0..(i - 1) : After(q, i, g, op)
      BY <3>1, <3>2
    <3>4. /\ RefAt(q, g, op.ref)
          /\ LaterUpTo(q, g, i - 1, op.id)
      BY <2>2, <3>3 DEF After
    <3>5. g = 0
      <4>1. CASE g # 0
        <5>1. g \in 1..n /\ Id(q[g]) = Root
          BY <1>1, <1>2, <1>7, <3>4, <4>1 DEF RefAt
        <5> QED
          BY <1>1, <5>1, SlotFacts, StampFacts
      <4> QED
        BY <4>1
    <3>6. 1 \in 1..n /\ n # 0 /\ Id(q[1]) \in Stamp
      BY <1>1, <1>2, SlotFacts
    <3>7. ~Before(op.id, Id(q[1])) /\ ~Before(op.id, op.id)
      BY <1>3, <1>7, <3>6, BeforeFacts
    <3>8. i # 1
      BY <1>7, <2>2, <3>6, <3>7
    <3>9. 1 \in (g + 1)..(i - 1)
      BY <1>2, <3>5, <3>8
    <3> QED
      BY <3>4, <3>7, <3>9 DEF LaterUpTo
  <2>3. 0 \in 0..Len(q) /\ 0 \in 0..0 /\ RefAt(q, 0, op.ref)
    BY <1>1, <1>2, <1>7 DEF RefAt
  <2>4. 0 < Len(q) => Before(Id(q[0 + 1]), op.id)
    BY <1>1, <1>2, <1>7
  <2>5. \A i \in 1..Len(q) : Id(q[i]) # op.id
    BY <1>1, <2>2
  <2>6. LaterUpTo(q, 0, 0, op.id)
    BY DEF LaterUpTo
  <2> QED
    BY <1>1, <2>1, <2>3, <2>4, <2>5, <2>6, InsertedOK
<1>8. CASE op.ref = Root /\ ~(n = 0 \/ Before(Id(q[1]), op.id))
  <2>1. 1 \in 1..n /\ q # <<>>
    BY <1>2, <1>8
  <2>2. ~Before(q[1], c)
    BY <1>4, <1>8, <2>1
  <2>3. ContainsId(q[1], op.id) <=> op.id = Id(q[1])
    BY <1>1, <1>3, <2>1, SlotFacts
  <2>4. p = IF op.id = Id(q[1]) THEN q ELSE InsertAfterRef(q, c, Root, 1)
    BY <1>3, <1>6, <1>8, <2>1, <2>2, <2>3 DEF InsAfterRoot
  <2>5. CASE op.id = Id(q[1])
    <3>1. p = q
      BY <2>4, <2>5
    <3> QED
      BY <3>1
  <2>6. CASE op.id # Id(q[1])
    <3>1. p = InsertAfterRef(q, Chunk(op.id, 1), op.ref, 1)
      BY <1>1, <1>8, <2>4, <2>6
    <3>2. Before(op.id, Id(q[1]))
      <4>1. Id(q[1]) \in Stamp
        BY <1>1, <2>1, SlotFacts
      <4> QED
        BY <1>3, <1>8, <2>6, <4>1, BeforeFacts
    <3>3. LaterUpTo(q, 0, 1, op.id)
      BY <3>2 DEF LaterUpTo
    <3>4. 1 \in 1..Len(q) /\ 0 \in 0..1 /\ RefAt(q, 0, op.ref)
      BY <1>1, <1>8, <2>1 DEF RefAt
    <3> QED
      BY <3>1, <3>3, <3>4, InsertAfterRefOK
  <2> QED
    BY <2>5, <2>6
<1>9. CASE op.ref # Root /\ k = 0
  <2>1. p = q
    BY <1>6, <1>9
  <2> QED
    BY <2>1
<1>10. CASE op.ref # Root /\ k # 0
  <2>1. k \in 1..n /\ ContainsId(q[k], op.ref)
    <3> DEFINE I == {i \in 1..Len(q) : ContainsId(q[i], op.ref)}
    <3>1. k = IF I # {} THEN Min(I) ELSE 0
      BY <1>5 DEF FindById, SelectInSeq
    <3>2. I \in SUBSET Nat /\ I # {}
      BY <1>10, <3>1
    <3>3. k \in I
      <4> HIDE DEF I
      <4> QED
        BY <3>1, <3>2, MinOK
    <3> QED
      BY <1>1, <3>3
  <2>2. Id(q[k]) = op.ref
    <3>1. op.ref \in Stamp \cup {Root}
      BY DEF OpsOK, OpOK
    <3>2. \A x \in Stamp \cup {Root} : ContainsId(q[k], x) <=> x = Id(q[k])
      <4>1. \A i \in 1..Len(q) : \A x \in Stamp \cup {Root} : ContainsId(q[i], x) <=> x = Id(q[i])
        BY SlotFacts
      <4> QED
        BY <1>1, <2>1, <4>1
    <3> QED
      BY <2>1, <3>1, <3>2
  <2>3. op.ref.time - q[k].time = 0 /\ q[k].span = 1
    BY <1>1, <2>1, <2>2, SlotFacts
  <2>4. p = InsertAfterRef(q, Chunk(op.id, 1), op.ref, k)
    BY <1>1, <1>6, <1>10, <2>3 DEF InsAfterChunk
  <2>5. k \in 1..Len(q) /\ k \in 0..k /\ RefAt(q, k, op.ref)
    BY <1>1, <1>2, <1>10, <2>1, <2>2 DEF RefAt
  <2>6. LaterUpTo(q, k, k, op.id)
    BY <1>2, <2>1 DEF LaterUpTo
  <2> QED
    BY <2>4, <2>5, <2>6, InsertAfterRefOK
<1> QED
  BY <1>7, <1>8, <1>9, <1>10

\* No two slots of an array become one.
LEMMA NothingMerged ==
  ASSUME NEW ops, OpsOK(ops), NEW q, IsArray(q, ops)
  PROVE  /\ \A k : MergeAt(q, k) = q
         /\ \A k \in 1..(Len(q) - 1) : ~Mergeable(q[k], q[k + 1])
<1>1. Len(q) \in Nat
  BY DEF IsArray, IsSeq
<1>2. ASSUME NEW k \in 1..(Len(q) - 1) PROVE ~Mergeable(q[k], q[k + 1])
  <2>1. k \in 1..Len(q) /\ k + 1 \in 1..Len(q)
    BY <1>1
  <2>2. \A i, j \in 1..Len(q) : ~(q[i].sid = q[j].sid /\ q[i].time + 1 = q[j].time)
    BY SlotFacts
  <2>3. EndTime(q[k]) = q[k].time
    BY <2>1, SlotFacts
  <2> QED
    BY <2>1, <2>2, <2>3 DEF Mergeable
<1> QED
  BY <1>2 DEF MergeAt

\* mergeTombstones2() finds nothing to do.
LEMMA MergeTombstones2OK ==
  ASSUME NEW ops, OpsOK(ops), NEW q, IsArray(q, ops), NEW start, NEW end,
         FindById(q, start) \in 1..Len(q)
  PROVE  MergeTombstones2(q, start, end) = q
<1>1. PICK n, k : n = Len(q) /\ k = FindById(q, start)
  OBVIOUS
<1>2. n \in Nat /\ k \in 1..n
  BY <1>1 DEF IsArray, IsSeq
<1>3. PICK base, last : base = [q |-> q, k |-> k, stop |-> FALSE] /\ last = [q |-> q, k |-> k, stop |-> TRUE]
  OBVIOUS
<1> DEFINE next(st) == IF st.stop THEN st ELSE MergeRound(st.q, st.k, end)
<1>4. next(base) = last
  <2>1. next(base) = MergeRound(q, k, end)
    BY <1>3
  <2>2. CASE k = n
    BY <1>1, <1>3, <2>1, <2>2 DEF MergeRound
  <2>3. CASE k # n
    <3>1. k \in 1..(Len(q) - 1) /\ ~Mergeable(q[k], q[k + 1]) /\ MergeAt(q, k + 1) = q
      BY <1>1, <1>2, <2>3, NothingMerged
    <3>2. q[k].s = 0
      BY <1>1, <1>2, SlotFacts
    <3> QED
      BY <1>1, <1>3, <2>1, <2>3, <3>1, <3>2 DEF MergeRound
  <2> QED
    BY <2>2, <2>3
<1>5. next(last) = last
  BY <1>3
<1> DEFINE after[i \in 0..Len(q)] ==
             IF i = 0 THEN [q |-> q, k |-> k, stop |-> FALSE] ELSE next(after[i - 1])
<1>6. MergeFrom(q, k, end) = after[Len(q)].q
  BY DEF MergeFrom
<1>7. after[n] = last
  <2> HIDE DEF next
  <2>1. \E f : f = [i \in 0..n |-> IF i = 0 THEN base ELSE next(f[i - 1])]
    <3> DEFINE f == [i \in 0..n |-> IF i = 0 THEN base ELSE last]
    <3>1. \A i \in 0..n : f[i] = IF i = 0 THEN base ELSE last
      OBVIOUS
    <3>2. ASSUME NEW i \in 0..n
          PROVE  (IF i = 0 THEN base ELSE last) = (IF i = 0 THEN base ELSE next(f[i - 1]))
      <4>1. CASE i = 0
        BY <4>1
      <4>2. CASE i # 0
        <5>1. i - 1 \in 0..n
          BY <1>2, <4>2
        <5>2. f[i - 1] = base \/ f[i - 1] = last
          BY <3>1, <5>1
        <5> QED
          BY <1>4, <1>5, <4>2, <5>2
      <4> QED
        BY <4>1, <4>2
    <3>3. f = [i \in 0..n |-> IF i = 0 THEN base ELSE next(f[i - 1])]
      BY <3>2
    <3> QED
      BY <3>3
  <2>2. after = [i \in 0..n |-> IF i = 0 THEN base ELSE next(after[i - 1])]
    BY <1>1, <1>3, <2>1
  <2> HIDE DEF after
  <2>3. \A i \in 0..n : after[i] = IF i = 0 THEN base ELSE next(after[i - 1])
    BY <2>2
  <2>4. after[1] = last
    <3>1. 0 \in 0..n /\ 1 \in 0..n /\ 1 - 1 = 0
      BY <1>2
    <3> QED
      BY <1>4, <2>3, <3>1
  <2> DEFINE S == {i \in Nat : after[i + 1] = last}
  <2>5. 0 \in S
    BY <2>4
  <2>6. \A i \in 1..(n - 1) : i - 1 \in S => i \in S
    <3> SUFFICES ASSUME NEW i \in 1..(n - 1), i - 1 \in S PROVE i \in S
      OBVIOUS
    <3>1. i + 1 \in 0..n /\ i + 1 # 0 /\ (i + 1) - 1 = i /\ (i - 1) + 1 = i /\ i \in Nat
      BY <1>2
    <3> QED
      BY <1>5, <2>3, <3>1
  <2>7. n - 1 \in S
    <3>1. n - 1 \in Nat /\ n - 1 \in 0..(n - 1)
      BY <1>2
    <3> HIDE DEF S
    <3>2. 0..(n - 1) \subseteq S
      BY <2>5, <2>6, <3>1, Upward
    <3> QED
      BY <3>1, <3>2
  <2>8. (n - 1) + 1 = n
    BY <1>2
  <2> QED
    BY <2>7, <2>8
<1>8. MergeFrom(q, k, end) = q
  <2> HIDE DEF after
  <2> QED
    BY <1>1, <1>3, <1>6, <1>7
<1>9. MergeTombstones2(q, start, end) = MergeAt(q, k - 1)
  <2> HIDE DEF after, next
  <2> QED
    BY <1>1, <1>8 DEF MergeTombstones2
<1> QED
  BY <1>9, NothingMerged

\* Deleting a slot that is there leaves its tombstone.
LEMMA KillOK ==
  ASSUME NEW ops, OpsOK(ops), NEW q, IsArray(q, ops), NEW k \in 1..Len(q), NEW p, p = Kill(q, k)
  PROVE  /\ IsArray(p, ops) /\ Len(p) = Len(q)
         /\ \A i \in 1..Len(q) : Id(p[i]) = Id(q[i]) /\ (p[i].del <=> q[i].del \/ i = k)
<1>1. PICK n : n = Len(q)
  OBVIOUS
<1>2. n \in Nat /\ q = [i \in 1..n |-> q[i]] /\ k \in 1..n
  BY <1>1 DEF IsArray, IsSeq
<1>3. p = [i \in 1..n |-> IF i = k THEN [q[i] EXCEPT !.del = TRUE] ELSE q[i]]
  BY <1>2 DEF Kill
<1>4. Len(p) = n /\ IsSeq(p)
  <2>1. p = [i \in 1..n |-> p[i]]
    BY <1>3
  <2> QED
    BY <1>2, <2>1, MakeSeq
<1>5. ASSUME NEW i \in 1..n
      PROVE  /\ IsSlot(p[i]) /\ Id(p[i]) = Id(q[i]) /\ (p[i].del <=> q[i].del \/ i = k)
  <2>1. PICK c : c = q[i]
    OBVIOUS
  <2>2. c = [sid |-> c.sid, time |-> c.time, span |-> 1, del |-> c.del, s |-> 0] /\ c.del \in BOOLEAN
    BY <1>1, <2>1, SlotFacts DEF IsSlot
  <2>3. CASE i = k
    <3>1. PICK d : d = [c EXCEPT !.del = TRUE]
      OBVIOUS
    <3>2. d = [sid |-> c.sid, time |-> c.time, span |-> 1, del |-> TRUE, s |-> 0]
      <4>1. PICK x, y, z : x = c.sid /\ y = c.time /\ z = c.del
        OBVIOUS
      <4>2. c = [sid |-> x, time |-> y, span |-> 1, del |-> z, s |-> 0]
        BY <2>2, <4>1
      <4>3. d = [sid |-> x, time |-> y, span |-> 1, del |-> TRUE, s |-> 0]
        BY <3>1, <4>2
      <4> QED
        BY <4>1, <4>3
    <3>3. d.sid = c.sid /\ d.time = c.time /\ d.del = TRUE
      BY <3>2
    <3>4. p[i] = d
      BY <1>3, <2>1, <2>3, <3>1
    <3>5. IsSlot(d) /\ Id(d) = Id(c)
      BY <3>2, <3>3 DEF IsSlot, Id
    <3> QED
      BY <2>1, <2>3, <3>3, <3>4, <3>5
  <2>4. CASE i # k
    <3>1. p[i] = q[i]
      BY <1>3, <2>4
    <3> QED
      BY <2>1, <2>2, <2>4, <3>1 DEF IsSlot
  <2> QED
    BY <2>3, <2>4
<1>6. ASSUME NEW i \in 1..n
      PROVE  \E o \in ops : /\ o.name = "ins_arr" /\ o.id = Id(p[i])
                            /\ \E h \in 0..(i - 1) : After(p, i, h, o)
  <2>1. PICK o \in ops : /\ o.name = "ins_arr" /\ o.id = Id(q[i])
                         /\ \E h \in 0..(i - 1) : After(q, i, h, o)
    BY <1>1 DEF IsArray
  <2>2. PICK h \in 0..(i - 1) : After(q, i, h, o)
    BY <2>1
  <2>3. \A m \in 1..n : Id(p[m]) = Id(q[m])
    BY <1>5
  <2>4. RefAt(p, h, o.ref)
    <3>1. h = 0 \/ h \in 1..n
      BY <1>2
    <3> QED
      BY <2>2, <2>3, <3>1 DEF After, RefAt
  <2>5. LaterUpTo(p, h, i - 1, Id(p[i]))
    <3> SUFFICES ASSUME NEW m \in (h + 1)..(i - 1) PROVE Before(Id(p[i]), Id(p[m]))
      BY DEF LaterUpTo
    <3>1. m \in 1..n
      BY <1>2
    <3> QED
      BY <2>2, <2>3, <3>1 DEF After, LaterUpTo
  <2> QED
    BY <2>1, <2>3, <2>4, <2>5 DEF After
<1>7. \A i, j \in 1..n : Id(p[i]) = Id(p[j]) => i = j
  <2>1. \A i, j \in 1..n : Id(q[i]) = Id(q[j]) => i = j
    BY <1>1 DEF IsArray
  <2> QED
    BY <1>5, <2>1
<1>8. IsArray(p, ops)
  BY <1>4, <1>5, <1>6, <1>7 DEF IsArray
<1> QED
  BY <1>1, <1>4, <1>5, <1>8

\* Where the slot ref is, it is deleted; else nothing is.
LEMMA DeleteOK ==
  ASSUME NEW ops, OpsOK(ops), NEW q, IsArray(q, ops), NEW ref \in Stamp \cup {Root},
         NEW p, p = Delete(q, <<[sid |-> ref.sid, time |-> ref.time, span |-> 1]>>)
  PROVE  /\ IsArray(p, ops) /\ Len(p) = Len(q)
         /\ \A i \in 1..Len(q) : Id(p[i]) = Id(q[i]) /\ (p[i].del <=> q[i].del \/ Id(q[i]) = ref)
<1>1. PICK n, span : n = Len(q) /\ span = [sid |-> ref.sid, time |-> ref.time, span |-> 1]
  OBVIOUS
<1>2. n \in Nat
  BY <1>1 DEF IsArray, IsSeq
<1>3. ref = [sid |-> ref.sid, time |-> ref.time] /\ ref.time \in Nat
  BY StampFacts
<1>4. PICK t : t = ref.time
  OBVIOUS
<1>5. span.sid = ref.sid /\ span.time = t /\ span.span = 1 /\ t \in Nat /\ t + 1 - 1 = t
  BY <1>1, <1>3, <1>4
<1>6. p = DeleteSpan(q, span)
  <2>1. PICK spans : spans = <<span>>
    OBVIOUS
  <2>2. Len(spans) = 1 /\ spans[1] = span
    BY <2>1
  <2> DEFINE after[i \in 0..Len(spans)] == IF i = 0 THEN q ELSE DeleteSpan(after[i - 1], spans[i])
  <2>3. p = after[Len(spans)]
    BY <1>1, <2>1 DEF Delete
  <2>4. \E f : f = [i \in 0..1 |-> IF i = 0 THEN q ELSE DeleteSpan(f[i - 1], spans[i])]
    <3> DEFINE f == [i \in 0..1 |-> IF i = 0 THEN q ELSE DeleteSpan(q, spans[1])]
    <3>1. f[0] = q
      OBVIOUS
    <3>2. f = [i \in 0..1 |-> IF i = 0 THEN q ELSE DeleteSpan(f[i - 1], spans[i])]
      <4>1. \A i \in 0..1 : i = 0 \/ i = 1
        OBVIOUS
      <4>2. f = [i \in 0..1 |-> f[i]]
        OBVIOUS
      <4>3. f[1] = DeleteSpan(f[1 - 1], spans[1])
        BY <3>1
      <4> HIDE DEF f
      <4> QED
        BY <3>1, <4>1, <4>2, <4>3
    <3> QED
      BY <3>2
  <2>5. after = [i \in 0..1 |-> IF i = 0 THEN q ELSE DeleteSpan(after[i - 1], spans[i])]
    BY <2>2, <2>4
  <2> HIDE DEF after
  <2>6. after[0] = q
    BY <2>5
  <2>7. after[1] = DeleteSpan(after[0], spans[1])
    <3>1. after[1] = DeleteSpan(after[1 - 1], spans[1])
      BY <2>5
    <3> QED
      BY <3>1
  <2> QED
    BY <2>2, <2>3, <2>6, <2>7
<1>7. PICK k : k = FindById(q, [sid |-> span.sid, time |-> span.time])
  OBVIOUS
<1>8. k = FindById(q, ref)
  BY <1>3, <1>4, <1>5, <1>7
<1> DEFINE I == {i \in 1..Len(q) : ContainsId(q[i], ref)}
<1>9. I = {i \in 1..n : Id(q[i]) = ref}
  <2>1. \A i \in 1..Len(q) : ContainsId(q[i], ref) <=> ref = Id(q[i])
    BY SlotFacts
  <2> QED
    BY <1>1, <2>1
<1>10. k = IF I # {} THEN Min(I) ELSE 0
  BY <1>8 DEF FindById, SelectInSeq
<1>11. CASE I = {}
  <2>1. p = q
    BY <1>6, <1>7, <1>10, <1>11 DEF DeleteSpan
  <2>2. \A i \in 1..n : Id(q[i]) # ref
    BY <1>9, <1>11
  <2>3. \A i \in 1..n : q[i].del \in BOOLEAN
    BY <1>1, SlotFacts DEF IsSlot
  <2> QED
    BY <1>1, <2>1, <2>2, <2>3
<1>12. CASE I # {}
  <2>1. k \in I
    <3>1. I \in SUBSET Nat
      OBVIOUS
    <3> HIDE DEF I
    <3> QED
      BY <1>10, <1>12, <3>1, MinOK
  <2>2. k \in 1..n /\ Id(q[k]) = ref /\ k # 0
    BY <1>2, <1>9, <2>1
  <2>3. q[k].sid = ref.sid /\ q[k].time = t /\ q[k].span = 1 /\ q[k].s = 0 /\ EndTime(q[k]) = t
    BY <1>1, <1>4, <2>2, SlotFacts
  <2>4. PICK dead : dead = IF q[k].del THEN q ELSE Kill(q, k)
    OBVIOUS
  <2>5. PICK base, last : base = [q |-> q, k |-> k, stop |-> FALSE] /\ last = [q |-> dead, k |-> k, stop |-> TRUE]
    OBVIOUS
  <2>6. DeleteRound(q, k, t, t) = last
    <3>1. t <= t /\ t >= t /\ ~(t > t) /\ ~(t < t)
      BY <1>5
    <3>2. q[k].del \in BOOLEAN
      BY <1>1, <2>2, SlotFacts DEF IsSlot
    <3>3. CASE q[k].del
      BY <2>3, <2>4, <2>5, <3>1, <3>3 DEF DeleteRound
    <3>4. CASE ~q[k].del
      BY <2>3, <2>4, <2>5, <3>1, <3>4 DEF DeleteRound
    <3> QED
      BY <3>2, <3>3, <3>4
  <2> DEFINE next(st) == IF st.stop THEN st ELSE DeleteRound(st.q, st.k, t, t)
             after[i \in 0..(Len(q) + 1)] ==
               IF i = 0 THEN [q |-> q, k |-> k, stop |-> FALSE] ELSE next(after[i - 1])
  <2>7. DeleteFrom(q, k, t, t) = after[Len(q) + 1]
    BY DEF DeleteFrom
  <2>8. next(base) = last /\ next(last) = last
    BY <2>5, <2>6
  <2>9. after[n + 1] = last
    <3> HIDE DEF next
    <3>1. PICK N : N = n + 1
      OBVIOUS
    <3>2. N \in Nat /\ N # 0
      BY <1>2, <3>1
    <3>3. \E f : f = [i \in 0..N |-> IF i = 0 THEN base ELSE next(f[i - 1])]
      <4> DEFINE f == [i \in 0..N |-> IF i = 0 THEN base ELSE last]
      <4>1. \A i \in 0..N : f[i] = IF i = 0 THEN base ELSE last
        OBVIOUS
      <4>2. ASSUME NEW i \in 0..N
            PROVE  (IF i = 0 THEN base ELSE last) = (IF i = 0 THEN base ELSE next(f[i - 1]))
        <5>1. CASE i = 0
          BY <5>1
        <5>2. CASE i # 0
          <6>1. i - 1 \in 0..N
            BY <3>2, <5>2
          <6>2. f[i - 1] = base \/ f[i - 1] = last
            BY <4>1, <6>1
          <6> QED
            BY <2>8, <5>2, <6>2
        <5> QED
          BY <5>1, <5>2
      <4>3. f = [i \in 0..N |-> IF i = 0 THEN base ELSE next(f[i - 1])]
        BY <4>2
      <4> QED
        BY <4>3
    <3>4. after = [i \in 0..N |-> IF i = 0 THEN base ELSE next(after[i - 1])]
      BY <1>1, <2>5, <3>1, <3>3
    <3> HIDE DEF after
    <3>5. \A i \in 0..N : after[i] = IF i = 0 THEN base ELSE next(after[i - 1])
      BY <3>4
    <3>6. after[1] = last
      <4>1. 0 \in 0..N /\ 1 \in 0..N /\ 1 - 1 = 0
        BY <3>2
      <4> QED
        BY <2>8, <3>5, <4>1
    <3> DEFINE S == {i \in Nat : after[i + 1] = last}
    <3>7. 0 \in S
      BY <3>6
    <3>8. \A i \in 1..n : i - 1 \in S => i \in S
      <4> SUFFICES ASSUME NEW i \in 1..n, i - 1 \in S PROVE i \in S
        OBVIOUS
      <4>1. i + 1 \in 0..N /\ i + 1 # 0 /\ (i + 1) - 1 = i /\ (i - 1) + 1 = i /\ i \in Nat
        BY <1>2, <3>1
      <4> QED
        BY <2>8, <3>5, <4>1
    <3>9. n \in S
      <4> HIDE DEF S
      <4>1. 0..n \subseteq S
        BY <1>2, <3>7, <3>8, Upward
      <4> QED
        BY <1>2, <4>1
    <3> QED
      BY <3>9
  <2>10. DeleteFrom(q, k, t, t) = last
    <3> HIDE DEF after
    <3> QED
      BY <1>1, <2>7, <2>9
  <2>11. /\ IsArray(dead, ops) /\ Len(dead) = Len(q)
         /\ \A i \in 1..Len(q) : Id(dead[i]) = Id(q[i]) /\ (dead[i].del <=> q[i].del \/ i = k)
    <3>1. \A i \in 1..Len(q) : q[i].del \in BOOLEAN
      BY SlotFacts DEF IsSlot
    <3>2. CASE q[k].del
      BY <2>4, <3>1, <3>2
    <3>3. CASE ~q[k].del
      <4>1. dead = Kill(q, k) /\ k \in 1..Len(q)
        BY <1>1, <2>2, <2>4, <3>3
      <4> QED
        BY <4>1, KillOK
    <3> QED
      BY <3>2, <3>3
  <2>12. p = MergeTombstones2(dead, Id(q[k]), Id(dead[k]))
    <3>1. p = LET done == DeleteFrom(q, k, t, t) IN MergeTombstones2(done.q, Id(q[k]), Id(done.q[done.k]))
      BY <1>5, <1>6, <1>7, <2>2 DEF DeleteSpan
    <3> HIDE DEF after, next
    <3>2. last.q = dead /\ last.k = k
      BY <2>5
    <3> QED
      BY <2>10, <3>1, <3>2
  <2>13. FindById(dead, Id(q[k])) \in 1..Len(dead)
    <3> DEFINE J == {i \in 1..Len(dead) : ContainsId(dead[i], ref)}
    <3>1. FindById(dead, ref) = IF J # {} THEN Min(J) ELSE 0
      BY DEF FindById, SelectInSeq
    <3>2. k \in 1..Len(dead) /\ Id(dead[k]) = ref
      BY <1>1, <2>2, <2>11
    <3>3. k \in J
      <4>1. \A i \in 1..Len(dead) : ContainsId(dead[i], ref) <=> ref = Id(dead[i])
        BY <2>11, SlotFacts
      <4> QED
        BY <3>2, <4>1
    <3>4. J \in SUBSET Nat
      OBVIOUS
    <3>5. Min(J) \in J
      <4> HIDE DEF J
      <4> QED
        BY <3>3, <3>4, MinOK
    <3> QED
      BY <2>2, <3>1, <3>3, <3>5
  <2>14. p = dead
    BY <2>11, <2>12, <2>13, MergeTombstones2OK
  <2>15. \A i \in 1..n : i = k <=> Id(q[i]) = ref
    <3>1. \A i, j \in 1..n : Id(q[i]) = Id(q[j]) => i = j
      BY <1>1 DEF IsArray
    <3> QED
      BY <2>2, <3>1
  <2> QED
    BY <1>1, <2>11, <2>14, <2>15
<1> QED
  BY <1>11, <1>12

\* Decoding finds no links to make.
LEMMA IngestOK ==
  ASSUME NEW ops, OpsOK(ops), NEW q, IsArray(q, ops)
  PROVE  Ingest(q) = q
<1>1. Len(q) \in Nat /\ q = [i \in 1..Len(q) |-> q[i]] /\ DOMAIN q = 1..Len(q)
  BY DEF IsArray, IsSeq
<1> DEFINE continued(k) == \E m \in (k + 1)..Len(q) : q[m].sid = q[k].sid /\ q[m].time = EndTime(q[k]) + 1
<1>2. ASSUME NEW k \in 1..Len(q) PROVE ~continued(k) /\ [q[k] EXCEPT !.s = 0] = q[k]
  <2>1. EndTime(q[k]) = q[k].time /\ q[k].time \in Nat
    BY SlotFacts
  <2>2. \A m \in 1..Len(q) : ~(q[k].sid = q[m].sid /\ q[k].time + 1 = q[m].time)
    BY SlotFacts
  <2>3. \A m \in (k + 1)..Len(q) : m \in 1..Len(q)
    BY <1>1
  <2>4. PICK c : c = q[k]
    OBVIOUS
  <2>5. PICK x, y, z : x = c.sid /\ y = c.time /\ z = c.del
    OBVIOUS
  <2>6. c = [sid |-> x, time |-> y, span |-> 1, del |-> z, s |-> 0]
    BY <2>4, <2>5, SlotFacts DEF IsSlot
  <2>7. [c EXCEPT !.s = 0] = c
    BY <2>6
  <2> QED
    BY <2>1, <2>2, <2>3, <2>4, <2>7
<1>3. Ingest(q) = [k \in 1..Len(q) |-> [q[k] EXCEPT !.s = IF continued(k) THEN EndTime(q[k]) + 1 ELSE 0]]
  BY <1>1 DEF Ingest
<1> HIDE DEF continued
<1>4. Ingest(q) = [k \in 1..Len(q) |-> q[k]]
  BY <1>2, <1>3
<1> QED
  BY <1>1, <1>4

\* What is shown of an array
LEMMA ShownOK ==
  ASSUME NEW ops, OpsOK(ops), NEW q, IsArray(q, ops)
  PROVE  Shown(q) = {Id(q[i]) : i \in {j \in 1..Len(q) : ~q[j].del}} /\ Shown(q) \subseteq Stamp
<1>1. Len(q) \in Nat /\ DOMAIN q = 1..Len(q)
  BY DEF IsArray, IsSeq
<1>2. ASSUME NEW i \in 1..Len(q) PROVE Elems(Id(q[i]), q[i].span) = {Id(q[i])} /\ Id(q[i]) \in Stamp
  <2>1. PICK a : a = Id(q[i])
    OBVIOUS
  <2>2. a \in Stamp /\ q[i].span = 1
    BY <2>1, SlotFacts
  <2>3. a = [sid |-> a.sid, time |-> a.time] /\ a.time \in Nat
    BY <2>2, StampFacts
  <2>4. Elems(a, 1) = {[sid |-> a.sid, time |-> a.time + 0]}
    <3>1. 0..(1 - 1) = {0}
      OBVIOUS
    <3> QED
      BY <3>1 DEF Elems
  <2>5. a.time + 0 = a.time
    BY <2>3
  <2> QED
    BY <2>1, <2>2, <2>3, <2>4, <2>5
<1>3. Shown(q) = UNION {Elems(Id(c), c.span) : c \in {x \in {q[i] : i \in 1..Len(q)} : ~x.del}}
  BY <1>1 DEF Shown, ToSet
<1>4. ASSUME NEW x PROVE x \in Shown(q) <=> \E i \in 1..Len(q) : ~q[i].del /\ x = Id(q[i])
  BY <1>2, <1>3
<1> QED
  BY <1>2, <1>4

-----------------------------------------------------------------------------
(* Values, and what hangs below them.                                      *)

\* A node that is known by its parts
LEMMA ValuesOfKind ==
  ASSUME NEW n
  PROVE  /\ n.kind = "con" => Values(n) = {}
         /\ n.kind = "obj" => Values(n) = {n.keys[k] : k \in Keys} \ {Root}
         /\ n.kind = "vec" => Values(n) = ToSet(n.elements) \ {Root}
         /\ n.kind = "val" => Values(n) = {n.val} \ {Root}
         /\ n.kind = "arr" => Values(n) = {n.slot[e] : e \in Shown(n.rga)}
BY DEF Values

\* What puts v in its place, of which there is one
PutBy(op, x, v) == Puts(op) /\ op.obj = x /\ op.val = v

\* A value of a node was put there by an operation, and is later than the node.
LEMMA ValuePut ==
  ASSUME NEW ops, OpsOK(ops), NEW x, NEW n, NodeOK(x, n, ops), NEW v \in Values(n)
  PROVE  v \in Stamp /\ x.time < v.time /\ \E op \in ops : PutBy(op, x, v)
<1>1. \E op \in ops : PutBy(op, x, v)
  <2>1. CASE n.kind = "con"
    BY <2>1, ValuesOfKind
  <2>2. CASE n.kind = "obj"
    <3>1. PICK k \in Keys : v = n.keys[k] /\ v # Root
      BY <2>2, ValuesOfKind
    <3> QED
      BY <3>1 DEF NodeOK, PutBy, Puts
  <2>3. CASE n.kind = "vec"
    <3>1. IsSeq(n.elements)
      BY DEF NodeOK
    <3>2. DOMAIN n.elements = 1..Len(n.elements)
      BY <3>1 DEF IsSeq
    <3>3. PICK i \in 1..Len(n.elements) : v = n.elements[i] /\ v # Root
      BY <2>3, <3>2, ValuesOfKind DEF ToSet
    <3> QED
      BY <3>3 DEF NodeOK, PutBy, Puts
  <2>4. CASE n.kind = "val"
    <3>1. v = n.val /\ v # Root
      BY <2>4, ValuesOfKind
    <3> QED
      BY <3>1 DEF NodeOK, PutBy, Puts
  <2>5. CASE n.kind = "arr"
    <3>1. PICK e \in Shown(n.rga) : v = n.slot[e]
      BY <2>5, ValuesOfKind
    <3>2. IsArray(n.rga, ops) /\ \A i \in 1..Len(n.rga) : Id(n.rga[i]) \in DOMAIN n.slot
      BY DEF NodeOK
    <3>3. e \in DOMAIN n.slot
      BY <3>2, ShownOK
    <3>4. PICK op \in ops : Fills(op, e) /\ op.obj = x /\ op.val = n.slot[e]
      BY <3>3 DEF NodeOK
    <3> QED
      BY <3>1, <3>4 DEF Fills, PutBy, Puts
  <2>6. n.kind \in AllKinds
    BY DEF NodeOK
  <2> QED
    BY <2>1, <2>2, <2>3, <2>4, <2>5, <2>6 DEF AllKinds
<1>2. PICK op \in ops : PutBy(op, x, v)
  BY <1>1
<1>3. OpOK(op) /\ Puts(op) /\ op.obj = x /\ op.val = v
  BY <1>2 DEF OpsOK, PutBy
<1> QED
  BY <1>1, <1>3 DEF OpOK

\* Times in an index
LEMMA WellTimes ==
  ASSUME NEW ops, NEW t \in Nat, NEW ix, Well(ix, ops, t)
  PROVE  \A x \in DOMAIN ix : x \in Stamp \cup {Root} /\ x.time \in Nat /\ x.time < t
BY StampFacts DEF Well

\* The tree below a node: a recursion that ends, because values are later than nodes.
Below1(ix, f, x) == {x} \cup UNION {f[v] : v \in Values(ix[x]) \cap DOMAIN ix}

LEMMA TreeExists ==
  ASSUME NEW ops, OpsOK(ops), NEW t \in Nat, NEW ix, Well(ix, ops, t)
  PROVE  \E f : f = [x \in DOMAIN ix |-> Below1(ix, f, x)]
<1> DEFINE D == DOMAIN ix
           Built(n, f) == /\ f = [x \in D |-> f[x]]
                          /\ \A x \in D : x.time >= t - n => f[x] = Below1(ix, f, x)
           S == {n \in Nat : \E f : Built(n, f)}
<1>1. \A x \in D : x.time \in Nat /\ x.time < t
  BY WellTimes
<1>2. \A x \in D : \A v \in Values(ix[x]) : v.time \in Nat /\ x.time < v.time
  <2>1. \A x \in D : NodeOK(x, ix[x], ops)
    BY DEF Well
  <2> QED
    BY <2>1, ValuePut, StampFacts
<1>3. 0 \in S
  <2>1. Built(0, [x \in D |-> {}])
    BY <1>1
  <2> QED
    BY <2>1
<1>4. ASSUME NEW n \in 1..t, n - 1 \in S PROVE n \in S
  <2>1. PICK f : Built(n - 1, f)
    BY <1>4
  <2> DEFINE g == [x \in D |-> IF x.time >= t - (n - 1) THEN f[x] ELSE Below1(ix, f, x)]
  <2>2. ASSUME NEW x \in D, x.time >= t - n PROVE g[x] = Below1(ix, g, x)
    <3>1. ASSUME NEW v \in Values(ix[x]) \cap D PROVE g[v] = f[v]
      <4>1. v.time \in Nat /\ x.time < v.time /\ v \in D
        BY <1>2
      <4>2. v.time >= t - (n - 1)
        BY <1>1, <2>2, <4>1
      <4> QED
        BY <4>1, <4>2
    <3>2. Below1(ix, g, x) = Below1(ix, f, x)
      <4> HIDE DEF g
      <4> QED
        BY <3>1 DEF Below1
    <3>3. g[x] = Below1(ix, f, x)
      <4> HIDE DEF D
      <4>1. g[x] = IF x.time >= t - (n - 1) THEN f[x] ELSE Below1(ix, f, x)
        OBVIOUS
      <4> QED
        BY <2>1, <4>1
    <3> QED
      BY <3>2, <3>3
  <2>3. g = [x \in D |-> g[x]]
    OBVIOUS
  <2>4. Built(n, g)
    <3> HIDE DEF g
    <3> QED
      BY <2>2, <2>3
  <2>5. n \in Nat
    OBVIOUS
  <2> HIDE DEF Built
  <2> QED
    BY <2>4, <2>5
<1>5. t \in S
  <2> HIDE DEF S
  <2>1. 0..t \subseteq S
    BY <1>3, <1>4, Upward
  <2> QED
    BY <2>1
<1>6. PICK f : Built(t, f)
  BY <1>5
<1>7. \A x \in D : f[x] = Below1(ix, f, x)
  BY <1>1, <1>6
<1>8. f = [x \in D |-> Below1(ix, f, x)]
  BY <1>6, <1>7
<1> QED
  BY <1>8

\* The tree of a node holds what its members refer to, and each member but the node itself
\* is there because another one refers to it.
LEMMA TreeOK ==
  ASSUME NEW ops, OpsOK(ops), NEW t \in Nat, NEW ix, Well(ix, ops, t), NEW id \in DOMAIN ix
  PROVE  /\ Tree(ix, id) \subseteq DOMAIN ix
         /\ id \in Tree(ix, id)
         /\ \A w \in Tree(ix, id) :
              /\ Values(ix[w]) \cap DOMAIN ix \subseteq Tree(ix, id)
              /\ w # id => \E p \in Tree(ix, id) : w \in Values(ix[p])
              /\ w.time >= id.time
<1> DEFINE D == DOMAIN ix
           tree[x \in DOMAIN ix] ==
             {x} \cup UNION {tree[v] : v \in Values(ix[x]) \cap DOMAIN ix}
<1>1. Tree(ix, id) = tree[id]
  BY DEF Tree
<1>2. tree = [x \in D |-> Below1(ix, tree, x)]
  <2>1. \E f : f = [x \in DOMAIN ix |-> {x} \cup UNION {f[v] : v \in Values(ix[x]) \cap DOMAIN ix}]
    BY TreeExists DEF Below1
  <2> QED
    BY <2>1 DEF Below1
<1> HIDE DEF tree
<1>3. \A x \in D : x.time \in Nat /\ x.time < t
  BY WellTimes
<1>4. \A x \in D : \A v \in Values(ix[x]) : v.time \in Nat /\ x.time < v.time
  <2>1. \A x \in D : NodeOK(x, ix[x], ops)
    BY DEF Well
  <2> QED
    BY <2>1, ValuePut, StampFacts
<1> DEFINE Good(x) == /\ tree[x] \subseteq D /\ x \in tree[x]
                      /\ \A w \in tree[x] :
                           /\ Values(ix[w]) \cap D \subseteq tree[x]
                           /\ w # x => \E p \in tree[x] : w \in Values(ix[p])
                           /\ w.time >= x.time
           S == {n \in Nat : \A x \in D : x.time >= t - n => Good(x)}
<1>5. 0 \in S
  <2>1. \A x \in D : ~(x.time >= t - 0)
    BY <1>3
  <2> HIDE DEF Good
  <2> QED
    BY <2>1
<1>6. ASSUME NEW n \in 1..t, n - 1 \in S PROVE n \in S
  <2>1. ASSUME NEW x \in D, x.time >= t - n PROVE Good(x)
    <3> DEFINE K == Values(ix[x]) \cap D
    <3>1. ASSUME NEW v \in K PROVE Good(v) /\ v.time >= x.time
      <4>1. v.time \in Nat /\ x.time < v.time /\ v \in D
        BY <1>4
      <4>2. v.time >= t - (n - 1)
        BY <1>3, <2>1, <4>1
      <4>3. \A y \in D : y.time >= t - (n - 1) => Good(y)
        <5> HIDE DEF Good
        <5> QED
          BY <1>6
      <4>4. Good(v)
        <5> HIDE DEF Good
        <5> QED
          BY <4>1, <4>2, <4>3
      <4> QED
        BY <1>3, <4>1, <4>4
    <3>2. tree[x] = {x} \cup UNION {tree[v] : v \in K}
      BY <1>2 DEF Below1
    <3>3. \A w \in tree[x] : w = x \/ \E v \in K : w \in tree[v]
      BY <3>2
    <3>4. x \in tree[x] /\ \A v \in K : tree[v] \subseteq tree[x]
      BY <3>2
    <3>5. ASSUME NEW w \in tree[x]
          PROVE  /\ w \in D
                 /\ Values(ix[w]) \cap D \subseteq tree[x]
                 /\ w # x => \E p \in tree[x] : w \in Values(ix[p])
                 /\ w.time >= x.time
      <4>1. CASE w = x
        <5>1. \A v \in K : v \in tree[x]
          BY <3>1, <3>4
        <5> QED
          BY <1>3, <4>1, <5>1
      <4>2. CASE w # x
        <5>1. PICK v \in K : w \in tree[v]
          BY <3>3, <4>2
        <5>2. Good(v) /\ v.time >= x.time /\ tree[v] \subseteq tree[x] /\ v \in D
          BY <3>1, <3>4
        <5>3. w \in D /\ Values(ix[w]) \cap D \subseteq tree[x] /\ w.time >= v.time
          BY <5>1, <5>2
        <5>4. \E p \in tree[x] : w \in Values(ix[p])
          <6>1. CASE w = v
            BY <3>4, <6>1
          <6>2. CASE w # v
            BY <5>1, <5>2, <6>2
          <6> QED
            BY <6>1, <6>2
        <5>5. w.time >= x.time
          BY <1>3, <5>2, <5>3
        <5> QED
          BY <5>3, <5>4, <5>5
      <4> QED
        BY <4>1, <4>2
    <3> HIDE DEF K
    <3> QED
      BY <3>4, <3>5
  <2> HIDE DEF Good
  <2> QED
    BY <2>1
<1>7. t \in S
  <2> HIDE DEF S
  <2>1. 0..t \subseteq S
    BY <1>5, <1>6, Upward
  <2> QED
    BY <2>1
<1>8. Good(id)
  <2>1. id.time >= t - t
    BY <1>3
  <2> HIDE DEF Good
  <2> QED
    BY <1>7, <2>1
<1> QED
  BY <1>1, <1>8

\* What is not in the index has no tree.
LEMMA NoTree ==
  ASSUME NEW ix, NEW id, id \notin DOMAIN ix
  PROVE  Tree(ix, id) = {}
BY DEF Tree

-----------------------------------------------------------------------------
(* Collecting, and setting a node.                                         *)

\* What an operation leaves of an index: what stays is as it was, but for node x.
Keeps(ix, p, gone) ==
  /\ DOMAIN p \subseteq DOMAIN ix
  /\ \A y \in DOMAIN p : p[y] = ix[y]
  /\ \A y \in DOMAIN ix : (\A s \in gone : s = Root \/ y.time < s.time) => y \in DOMAIN p

\* With what no node refers to goes what only hangs below it.
LEMMA GcOK ==
  ASSUME NEW ops, OpsOK(ops), NEW t \in Nat, NEW ix, Well(ix, ops, t), Whole(ix),
         NEW gone, \A s \in gone, x \in DOMAIN ix : s = Root \/ s \notin Values(ix[x]),
         NEW p, p = GcTree(ix, gone)
  PROVE  Well(p, ops, t) /\ Whole(p) /\ Keeps(ix, p, gone)
<1> DEFINE D == DOMAIN ix
           all == UNION {Tree(ix, id) : id \in gone \ {Root}}
<1>1. p = [id \in D \ all |-> ix[id]]
  BY DEF GcTree
<1>2. ASSUME NEW w \in all
      PROVE  \E s \in (gone \ {Root}) \cap D : w \in Tree(ix, s)
  <2>1. PICK s \in gone \ {Root} : w \in Tree(ix, s)
    OBVIOUS
  <2>2. s \in D
    BY <2>1, NoTree
  <2> QED
    BY <2>1, <2>2
<1> HIDE DEF all
<1>3. \A x \in D : NodeOK(x, ix[x], ops) /\ x \in Stamp \cup {Root}
  BY DEF Well
<1>4. \A x \in D : x.time \in Nat /\ x.time < t
  BY WellTimes
<1>5. Root \notin all
  <2> SUFFICES ASSUME Root \in all PROVE FALSE
    OBVIOUS
  <2>1. PICK s \in (gone \ {Root}) \cap D : Root \in Tree(ix, s)
    BY <1>2
  <2>2. PICK y \in Tree(ix, s) : Root \in Values(ix[y])
    BY <2>1, TreeOK
  <2>3. y \in D
    BY <2>1, <2>2, TreeOK
  <2>4. Root \in Stamp
    BY <1>3, <2>2, <2>3, ValuePut
  <2> QED
    BY <2>4, StampFacts
<1>6. Well(p, ops, t)
  <2>1. Root \in DOMAIN p
    BY <1>1, <1>5 DEF Well
  <2>2. IsFcn(p)
    BY <1>1 DEF IsFcn
  <2>3. \A x \in DOMAIN p : x \in Stamp \cup {Root} /\ x.time < t /\ NodeOK(x, p[x], ops)
    BY <1>1 DEF Well
  <2> QED
    BY <2>1, <2>2, <2>3 DEF Well
<1>7. Whole(p)
  <2> SUFFICES ASSUME NEW x \in D \ all, NEW w \in Values(ix[x]) PROVE w \notin all
    <3>1. \A x \in D : Values(ix[x]) \subseteq D
      BY DEF Whole
    <3> QED
      BY <1>1, <3>1 DEF Whole
  <2> SUFFICES ASSUME w \in all PROVE FALSE
    OBVIOUS
  <2>1. PICK s \in (gone \ {Root}) \cap D : w \in Tree(ix, s)
    BY <1>2
  <2>2. w # s
    BY <2>1
  <2>3. PICK y \in Tree(ix, s) : w \in Values(ix[y])
    BY <2>1, <2>2, TreeOK
  <2>4. y \in D
    BY <2>1, <2>3, TreeOK
  <2>5. PICK a \in ops : PutBy(a, x, w)
    BY <1>3, ValuePut
  <2>6. PICK b \in ops : PutBy(b, y, w)
    BY <1>3, <2>3, <2>4, ValuePut
  <2>7. a = b
    BY <2>5, <2>6 DEF PutBy, OpsOK
  <2>8. x = y
    BY <2>5, <2>6, <2>7 DEF PutBy
  <2>9. x \in all
    BY <2>1, <2>3, <2>8 DEF all
  <2> QED
    BY <2>9
<1>8. Keeps(ix, p, gone)
  <2>1. DOMAIN p \subseteq D /\ \A y \in DOMAIN p : p[y] = ix[y]
    BY <1>1
  <2>2. ASSUME NEW y \in D, \A s \in gone : s = Root \/ y.time < s.time PROVE y \notin all
    <3> SUFFICES ASSUME y \in all PROVE FALSE
      OBVIOUS
    <3>1. PICK s \in (gone \ {Root}) \cap D : y \in Tree(ix, s)
      BY <1>2
    <3>2. y.time >= s.time
      BY <3>1, TreeOK
    <3>3. y.time < s.time
      BY <2>2, <3>1
    <3> QED
      BY <1>4, <3>1, <3>2, <3>3
  <2> QED
    BY <1>1, <2>1, <2>2 DEF Keeps
<1> QED
  BY <1>6, <1>7, <1>8

\* What is collected was in the node, and is there no more.
Dropped(gone, was, n) == \A s \in gone : s = Root \/ (s \in Values(was) /\ s \notin Values(n))

SetNode(ix, x, n) == [ix EXCEPT ![x] = n]

LEMMA SetNodeOK ==
  ASSUME NEW ops, OpsOK(ops), NEW t \in Nat, NEW ix, Well(ix, ops, t), Whole(ix),
         NEW x \in DOMAIN ix, NEW n, NodeOK(x, n, ops), Values(n) \subseteq DOMAIN ix,
         NEW gone, Dropped(gone, ix[x], n),
         NEW q, q = SetNode(ix, x, n),
         NEW p, p = GcTree(q, gone)
  PROVE  /\ Well(p, ops, t) /\ Whole(p)
         /\ Well(q, ops, t) /\ Whole(q)
         /\ DOMAIN q = DOMAIN ix
         /\ x \in DOMAIN p /\ p[x] = n
         /\ Keeps(q, p, gone)
<1>1. IsFcn(ix)
  BY DEF Well
<1>2. q = [y \in DOMAIN ix |-> IF y = x THEN n ELSE ix[y]]
  BY <1>1 DEF IsFcn, SetNode
<1>3. \A y \in DOMAIN ix : NodeOK(y, ix[y], ops) /\ y \in Stamp \cup {Root} /\ y.time < t
  BY DEF Well
<1>4. Well(q, ops, t)
  <2>1. Root \in DOMAIN q
    BY <1>2 DEF Well
  <2>2. IsFcn(q)
    BY <1>2 DEF IsFcn
  <2> QED
    BY <1>2, <1>3, <2>1, <2>2 DEF Well
<1>5. Whole(q)
  BY <1>2 DEF Whole
<1>6. \A s \in gone, y \in DOMAIN q : s = Root \/ s \notin Values(q[y])
  <2> SUFFICES ASSUME NEW s \in gone, NEW y \in DOMAIN ix, s # Root, s \in Values(q[y]) PROVE FALSE
    BY <1>2
  <2>1. y # x /\ s \in Values(ix[x]) /\ s \in Values(ix[y])
    BY <1>2 DEF Dropped
  <2>2. PICK a \in ops : PutBy(a, x, s)
    BY <1>3, <2>1, ValuePut
  <2>3. PICK b \in ops : PutBy(b, y, s)
    BY <1>3, <2>1, ValuePut
  <2>4. a = b
    BY <2>2, <2>3 DEF PutBy, OpsOK
  <2> QED
    BY <2>1, <2>2, <2>3, <2>4 DEF PutBy
<1>7. Well(p, ops, t) /\ Whole(p) /\ Keeps(q, p, gone)
  BY <1>4, <1>5, <1>6, GcOK
<1>8. x \in DOMAIN p
  <2>1. \A s \in gone : s = Root \/ x.time < s.time
    BY <1>3, ValuePut DEF Dropped
  <2> QED
    BY <1>2, <1>7, <2>1 DEF Keeps
<1>9. p[x] = n /\ DOMAIN q = DOMAIN ix
  BY <1>2, <1>7, <1>8 DEF Keeps
<1> QED
  BY <1>4, <1>5, <1>7, <1>8, <1>9

\* A node with one of its parts set
LEMMA NodeParts ==
  ASSUME NEW x, NEW n, NEW ops, NodeOK(x, n, ops), NEW f
  PROVE  /\ [n EXCEPT !.keys = f] = [kind |-> n.kind, keys |-> f, elements |-> n.elements,
                                     val |-> n.val, rga |-> n.rga, slot |-> n.slot]
         /\ [n EXCEPT !.elements = f] = [kind |-> n.kind, keys |-> n.keys, elements |-> f,
                                         val |-> n.val, rga |-> n.rga, slot |-> n.slot]
         /\ [n EXCEPT !.val = f] = [kind |-> n.kind, keys |-> n.keys, elements |-> n.elements,
                                    val |-> f, rga |-> n.rga, slot |-> n.slot]
         /\ [n EXCEPT !.rga = f] = [kind |-> n.kind, keys |-> n.keys, elements |-> n.elements,
                                    val |-> n.val, rga |-> f, slot |-> n.slot]
         /\ [n EXCEPT !.slot = f] = [kind |-> n.kind, keys |-> n.keys, elements |-> n.elements,
                                     val |-> n.val, rga |-> n.rga, slot |-> f]
<1>1. PICK a, b, c, d, e, g : /\ a = n.kind /\ b = n.keys /\ c = n.elements
                              /\ d = n.val /\ e = n.rga /\ g = n.slot
  OBVIOUS
<1>2. n = [kind |-> a, keys |-> b, elements |-> c, val |-> d, rga |-> e, slot |-> g]
  BY <1>1 DEF NodeOK
<1> QED
  BY <1>1, <1>2

-----------------------------------------------------------------------------
(* The operations.                                                         *)

\* A new node has nothing in it.
LEMMA NewNodeOK ==
  ASSUME NEW ops, NEW x, NEW kind \in AllKinds
  PROVE  NodeOK(x, NewNode(kind), ops) /\ Values(NewNode(kind)) = {}
<1>1. PICK n, keys : n = NewNode(kind) /\ keys = [k \in Keys |-> Root]
  OBVIOUS
<1>2. n = [kind |-> kind, keys |-> keys, elements |-> <<>>, val |-> Root, rga |-> <<>>, slot |-> <<>>]
  BY <1>1 DEF NewNode
<1>3. /\ n.kind = kind /\ n.keys = keys /\ n.elements = <<>> /\ n.val = Root
      /\ n.rga = <<>> /\ n.slot = <<>>
  BY <1>2
<1>4. IsSeq(<<>>) /\ Len(<<>>) = 0 /\ DOMAIN <<>> = {} /\ IsFcn(<<>>)
  BY DEF IsSeq, IsFcn
<1>5. IsArray(<<>>, ops)
  BY <1>4 DEF IsArray
<1>6. \A k \in Keys : keys[k] = Root
  BY <1>1
<1>7. NodeOK(x, n, ops)
  <2>1. keys = [k \in Keys |-> keys[k]]
    BY <1>1
  <2> QED
    BY <1>2, <1>3, <1>4, <1>5, <1>6, <2>1 DEF NodeOK
<1>8. Values(n) = {}
  <2>1. ToSet(<<>>) = {}
    BY <1>4 DEF ToSet
  <2>2. Shown(<<>>) = {}
    BY <2>1 DEF Shown
  <2>3. {n.keys[k] : k \in Keys} \ {Root} = {}
    BY <1>3, <1>6
  <2>4. {n.slot[e] : e \in Shown(n.rga)} = {}
    BY <1>3, <2>2
  <2>5. ToSet(n.elements) \ {Root} = {} /\ {n.val} \ {Root} = {}
    BY <1>3, <2>1
  <2> QED
    BY <1>3, <2>3, <2>4, <2>5, ValuesOfKind DEF AllKinds
<1> QED
  BY <1>1, <1>7, <1>8

LEMMA AddNodeOK ==
  ASSUME NEW ops, OpsOK(ops), NEW t \in Nat, NEW ix, Well(ix, ops, t), Whole(ix),
         NEW id \in Stamp, id.time < t, NEW kind \in AllKinds,
         NEW p, p = AddNode(ix, id, kind)
  PROVE  /\ Well(p, ops, t) /\ Whole(p)
         /\ DOMAIN p = DOMAIN ix \cup {id} /\ \A x \in DOMAIN ix : p[x] = ix[x]
<1>1. CASE id \in DOMAIN ix
  <2>1. p = ix
    BY <1>1 DEF AddNode
  <2> QED
    BY <1>1, <2>1
<1>2. CASE id \notin DOMAIN ix
  <2>1. p = [x \in DOMAIN ix \cup {id} |-> IF x = id THEN NewNode(kind) ELSE ix[x]]
    BY <1>2 DEF AddNode
  <2>2. \A x \in DOMAIN ix : p[x] = ix[x]
    BY <1>2, <2>1
  <2>3. NodeOK(id, p[id], ops) /\ Values(p[id]) = {}
    <3>1. p[id] = NewNode(kind)
      BY <2>1
    <3> QED
      BY <3>1, NewNodeOK
  <2>4. Well(p, ops, t)
    <3>1. IsFcn(p)
      BY <2>1 DEF IsFcn
    <3> QED
      BY <2>1, <2>2, <2>3, <3>1 DEF Well
  <2>5. Whole(p)
    BY <2>1, <2>2, <2>3 DEF Whole
  <2> QED
    BY <2>1, <2>2, <2>4, <2>5
<1> QED
  BY <1>1, <1>2

\* The values of a place: one operation put each of them there.
LEMMA SamePut ==
  ASSUME NEW ops, OpsOK(ops), NEW a \in ops, NEW b \in ops, Puts(a), Puts(b), a.val = b.val
  PROVE  a = b
BY DEF OpsOK

LEMMA InsObjOK ==
  ASSUME NEW ops, OpsOK(ops), NEW t \in Nat, NEW ix, Well(ix, ops, t), Whole(ix),
         NEW op \in ops, op.name = "ins_obj",
         NEW p, p = InsObj(ix, op.obj, op.key, op.val)
  PROVE  /\ Well(p, ops, t) /\ Whole(p)
         /\ Is(ix, op.obj, "obj") /\ op.val \in DOMAIN ix
            /\ (ix[op.obj].keys[op.key] = Root \/ Before(ix[op.obj].keys[op.key], op.val)) =>
              op.obj \in DOMAIN p /\ op.key \in DOMAIN p[op.obj].keys
              /\ p[op.obj].keys[op.key] = op.val
<1>1. PICK x, k, v : x = op.obj /\ k = op.key /\ v = op.val
  OBVIOUS
<1>2. PICK n : n = ix[x]
  OBVIOUS
<1>3. PICK old : old = n.keys[k]
  OBVIOUS
<1>4. k \in Keys /\ v \in Stamp /\ x.time < v.time /\ Puts(op) /\ x.time \in Nat /\ v.time \in Nat
  <2>1. OpOK(op) /\ Puts(op)
    BY DEF OpsOK, Puts
  <2> QED
    BY <1>1, <2>1, StampFacts DEF OpOK
<1>5. p = IF \/ ~Is(ix, x, "obj") \/ v \notin DOMAIN ix \/ x.time >= v.time
             \/ old # Root /\ ~Before(old, v)
          THEN ix
          ELSE GcTree([ix EXCEPT ![x].keys[k] = v], {old})
  BY <1>1, <1>2, <1>3 DEF InsObj
<1>6. CASE ~(Is(ix, x, "obj") /\ v \in DOMAIN ix /\ (old = Root \/ Before(old, v)))
  <2>1. p = ix
    BY <1>5, <1>6
  <2> QED
    BY <1>1, <1>2, <1>3, <1>6, <2>1
<1>7. CASE Is(ix, x, "obj") /\ v \in DOMAIN ix /\ (old = Root \/ Before(old, v))
  <2>1. x \in DOMAIN ix /\ n.kind = "obj" /\ NodeOK(x, n, ops)
    BY <1>2, <1>7 DEF Is, Well
  <2>2. PICK keys : keys = [n.keys EXCEPT ![k] = v]
    OBVIOUS
  <2>3. keys = [j \in Keys |-> IF j = k THEN v ELSE n.keys[j]]
    BY <2>1, <2>2 DEF NodeOK
  <2>4. PICK n1 : n1 = [n EXCEPT !.keys = keys]
    OBVIOUS
  <2>5. n1 = [kind |-> n.kind, keys |-> keys, elements |-> n.elements,
              val |-> n.val, rga |-> n.rga, slot |-> n.slot]
    BY <2>1, <2>4, NodeParts
  <2>6. /\ n1.kind = "obj" /\ n1.keys = keys /\ n1.elements = n.elements /\ n1.val = n.val
        /\ n1.rga = n.rga /\ n1.slot = n.slot
    BY <2>1, <2>5
  <2>7. NodeOK(x, n1, ops)
    <3>1. n1 = [kind |-> n1.kind, keys |-> n1.keys, elements |-> n1.elements, val |-> n1.val,
                rga |-> n1.rga, slot |-> n1.slot] /\ n1.kind \in AllKinds
      BY <2>1, <2>5, <2>6 DEF AllKinds
    <3>2. \A j \in Keys : n1.keys[j] # Root =>
            \E o \in ops : o.name = "ins_obj" /\ o.obj = x /\ o.key = j /\ o.val = n1.keys[j]
      <4> SUFFICES ASSUME NEW j \in Keys, keys[j] # Root
                   PROVE  \E o \in ops : o.name = "ins_obj" /\ o.obj = x /\ o.key = j /\ o.val = keys[j]
        BY <2>6
      <4>1. CASE j = k
        BY <1>1, <2>3, <4>1
      <4>2. CASE j # k
        BY <2>1, <2>3, <4>2 DEF NodeOK
      <4> QED
        BY <4>1, <4>2
    <3>3. n1.keys = [j \in Keys |-> n1.keys[j]]
      BY <2>3, <2>6
    <3> QED
      BY <2>1, <2>6, <3>1, <3>2, <3>3 DEF NodeOK
  <2>8. \A u \in Values(n1) : u = v \/ \E j \in Keys : j # k /\ u = n.keys[j]
    BY <2>3, <2>6, ValuesOfKind
  <2>9. \A j \in Keys : n.keys[j] = Root \/ n.keys[j] \in Values(n)
    BY <2>1, ValuesOfKind
  <2>10. Values(n1) \subseteq DOMAIN ix
    <3>1. Values(n) \subseteq DOMAIN ix /\ Root \in DOMAIN ix
      BY <1>2, <2>1 DEF Whole, Well
    <3> QED
      BY <1>7, <2>8, <2>9, <3>1
  <2>11. old = Root \/ (old \in Values(n) /\ old \notin Values(n1))
    <3> SUFFICES ASSUME old # Root PROVE old \in Values(n) /\ old \notin Values(n1)
      OBVIOUS
    <3>1. old \in Values(n)
      BY <1>3, <1>4, <2>9
    <3>2. old # v
      <4>1. ~Before(v, v)
        BY <1>4, BeforeFacts
      <4> QED
        BY <1>7, <4>1
    <3>3. ASSUME NEW j \in Keys, j # k, old = n.keys[j] PROVE FALSE
      <4>1. PICK a \in ops : a.name = "ins_obj" /\ a.key = k /\ a.val = old
        BY <1>3, <1>4, <2>1 DEF NodeOK
      <4>2. PICK b \in ops : b.name = "ins_obj" /\ b.key = j /\ b.val = old
        BY <2>1, <3>3 DEF NodeOK
      <4>3. a = b
        BY <4>1, <4>2, SamePut DEF Puts
      <4> QED
        BY <3>3, <4>1, <4>2, <4>3
    <3> QED
      BY <2>8, <3>1, <3>2, <3>3
  <2>12. PICK q : q = SetNode(ix, x, n1)
    OBVIOUS
  <2>13. p = GcTree(q, {old})
    <3>1. [ix EXCEPT ![x].keys[k] = v] = q
      BY <1>2, <2>2, <2>4, <2>12 DEF SetNode
    <3>2. ~(x.time >= v.time)
      BY <1>4
    <3>3. p = GcTree([ix EXCEPT ![x].keys[k] = v], {old})
      BY <1>5, <1>7, <3>2
    <3> QED
      BY <3>1, <3>3
  <2>14. Dropped({old}, ix[x], n1)
    BY <1>2, <2>11 DEF Dropped
  <2>15. Well(p, ops, t) /\ Whole(p) /\ x \in DOMAIN p /\ p[x] = n1
    <3>1. x \in DOMAIN ix
      BY <2>1
    <3> QED
      BY <2>7, <2>10, <2>12, <2>13, <2>14, <3>1, SetNodeOK
  <2>16. k \in DOMAIN n1.keys /\ n1.keys[k] = v
    BY <1>4, <2>3, <2>6
  <2> QED
    BY <1>1, <2>15, <2>16
<1> QED
  BY <1>6, <1>7

LEMMA InsValOK ==
  ASSUME NEW ops, OpsOK(ops), NEW t \in Nat, NEW ix, Well(ix, ops, t), Whole(ix),
         NEW op \in ops, op.name = "ins_val",
         NEW p, p = InsVal(ix, op.obj, op.val)
  PROVE  /\ Well(p, ops, t) /\ Whole(p)
         /\ Is(ix, op.obj, "val") /\ op.val \in DOMAIN ix
            /\ (ix[op.obj].val = Root \/ Before(ix[op.obj].val, op.val)) =>
              op.obj \in DOMAIN p /\ p[op.obj].val = op.val
         /\ \A y \in DOMAIN ix :
              Is(ix, op.obj, "val") /\ ix[op.obj].val = Root /\ y # op.obj => y \in DOMAIN p /\ p[y] = ix[y]
<1>1. PICK x, v : x = op.obj /\ v = op.val
  OBVIOUS
<1>2. PICK n : n = ix[x]
  OBVIOUS
<1>3. PICK old : old = n.val
  OBVIOUS
<1>4. v \in Stamp /\ x.time < v.time /\ Puts(op) /\ x.time \in Nat /\ v.time \in Nat /\ Before(x, v)
  <2>1. OpOK(op) /\ Puts(op)
    BY DEF OpsOK, Puts
  <2> QED
    BY <1>1, <2>1, StampFacts DEF OpOK, Before
<1>5. p = IF \/ ~Is(ix, x, "val") \/ v \notin DOMAIN ix
             \/ old # Root /\ ~Before(old, v)
             \/ ~Before(x, v)
          THEN ix
          ELSE GcTree([ix EXCEPT ![x].val = v], {old})
  BY <1>1, <1>2, <1>3 DEF InsVal
<1>6. CASE ~(Is(ix, x, "val") /\ v \in DOMAIN ix /\ (old = Root \/ Before(old, v)))
  <2>1. p = ix
    BY <1>5, <1>6
  <2> QED
    BY <1>1, <1>2, <1>3, <1>6, <2>1
<1>7. CASE Is(ix, x, "val") /\ v \in DOMAIN ix /\ (old = Root \/ Before(old, v))
  <2>1. x \in DOMAIN ix /\ n.kind = "val" /\ NodeOK(x, n, ops)
    BY <1>2, <1>7 DEF Is, Well
  <2>4. PICK n1 : n1 = [n EXCEPT !.val = v]
    OBVIOUS
  <2>5. n1 = [kind |-> n.kind, keys |-> n.keys, elements |-> n.elements,
              val |-> v, rga |-> n.rga, slot |-> n.slot]
    BY <2>1, <2>4, NodeParts
  <2>6. /\ n1.kind = "val" /\ n1.keys = n.keys /\ n1.elements = n.elements /\ n1.val = v
        /\ n1.rga = n.rga /\ n1.slot = n.slot
    BY <2>1, <2>5
  <2>7. NodeOK(x, n1, ops)
    <3>1. n1 = [kind |-> n1.kind, keys |-> n1.keys, elements |-> n1.elements, val |-> n1.val,
                rga |-> n1.rga, slot |-> n1.slot] /\ n1.kind \in AllKinds
      BY <2>1, <2>5, <2>6 DEF AllKinds
    <3> QED
      BY <1>1, <2>1, <2>6, <3>1 DEF NodeOK
  <2>8. Values(n1) \subseteq {v}
    BY <2>6, ValuesOfKind
  <2>11. old = Root \/ (old \in Values(n) /\ old \notin Values(n1))
    <3> SUFFICES ASSUME old # Root PROVE old \in Values(n) /\ old \notin Values(n1)
      OBVIOUS
    <3>1. old \in Values(n)
      BY <1>3, <2>1, ValuesOfKind
    <3>2. old # v
      <4>1. ~Before(v, v)
        BY <1>4, BeforeFacts
      <4> QED
        BY <1>7, <4>1
    <3> QED
      BY <2>8, <3>1, <3>2
  <2>12. PICK q : q = SetNode(ix, x, n1)
    OBVIOUS
  <2>13. p = GcTree(q, {old})
    <3>1. [ix EXCEPT ![x].val = v] = q
      BY <1>2, <2>4, <2>12 DEF SetNode
    <3> QED
      BY <1>4, <1>5, <1>7, <3>1
  <2>14. Dropped({old}, ix[x], n1)
    BY <1>2, <2>11 DEF Dropped
  <2>15. Well(p, ops, t) /\ Whole(p) /\ x \in DOMAIN p /\ p[x] = n1 /\ Keeps(q, p, {old}) /\ DOMAIN q = DOMAIN ix
    <3>1. x \in DOMAIN ix
      BY <2>1
    <3>2. Values(n1) \subseteq DOMAIN ix
      BY <1>7, <2>8
    <3> QED
      BY <2>7, <2>12, <2>13, <2>14, <3>1, <3>2, SetNodeOK
  <2>16. \A y \in DOMAIN ix : old = Root /\ y # x => y \in DOMAIN p /\ p[y] = ix[y]
    <3>1. \A y \in DOMAIN ix : y # x => q[y] = ix[y]
      BY <2>12 DEF SetNode
    <3> QED
      BY <2>15, <3>1 DEF Keeps
  <2> QED
    BY <1>1, <1>2, <1>3, <2>6, <2>15, <2>16
<1> QED
  BY <1>6, <1>7

-----------------------------------------------------------------------------
(* Vectors.                                                                *)

\* Setting an index of a vector: up to it there are holes.
SetAt(s, i, v) == [s \o [j \in 1..(i + 1 - Len(s)) |-> Root] EXCEPT ![i + 1] = v]

LEMMA HolesOK ==
  ASSUME NEW s, IsSeq(s), NEW i \in Nat, NEW v, NEW e, e = SetAt(s, i, v)
  PROVE  /\ IsSeq(e) /\ i + 1 \in 1..Len(e)
         /\ \A m \in 1..Len(e) : e[m] = IF m = i + 1 THEN v ELSE IF m <= Len(s) THEN s[m] ELSE Root
<1>1. PICK n : n = Len(s)
  OBVIOUS
<1>2. n \in Nat /\ s = [m \in 1..n |-> s[m]]
  BY <1>1 DEF IsSeq
<1>3. PICK k : k = IF n < i + 1 THEN i + 1 - n ELSE 0
  OBVIOUS
<1>4. k \in Nat /\ 1..(i + 1 - n) = 1..k
  BY <1>2, <1>3
<1>h. PICK h : h = [j \in 1..(i + 1 - n) |-> Root]
  OBVIOUS
<1>5. h = [j \in 1..k |-> Root]
  BY <1>4, <1>h
<1>6. Len(h) = k /\ \A j \in 1..k : h[j] = Root
  <2>1. h = [j \in 1..k |-> h[j]] /\ \A j \in 1..k : h[j] = Root
    BY <1>5
  <2> QED
    BY <1>4, <2>1, MakeSeq
<1>7. PICK w : w = s \o h
  OBVIOUS
<1>8. /\ w = [m \in 1..(n + k) |-> w[m]]
      /\ \A m \in 1..(n + k) : w[m] = IF m <= n THEN s[m] ELSE h[m - n]
  <2>1. PICK T : T = {s[m] : m \in 1..n} \cup {Root}
    OBVIOUS
  <2>2. s \in Seq(T)
    <3>1. s \in [1..n -> T]
      BY <1>2, <2>1
    <3> QED
      BY <1>2, <3>1
  <2>3. h \in Seq(T)
    <3>1. h \in [1..k -> T]
      BY <1>5, <2>1
    <3> QED
      BY ONLY <1>4, <3>1
  <2>4. /\ s \o h \in Seq(T) /\ Len(s \o h) = Len(s) + Len(h)
        /\ \A m \in 1..(Len(s) + Len(h)) : (s \o h)[m] = IF m <= Len(s) THEN s[m] ELSE h[m - Len(s)]
    BY <2>2, <2>3, ConcatProperties
  <2>5. w \in Seq(T) /\ Len(w) = n + k
    BY <1>1, <1>6, <1>7, <2>4
  <2>6. w \in [1..(n + k) -> T]
    BY <2>5, LenProperties
  <2> QED
    BY <1>1, <1>6, <1>7, <2>4, <2>6
<1>9. i + 1 \in 1..(n + k)
  BY <1>2, <1>3
<1>10. e = [m \in 1..(n + k) |-> IF m = i + 1 THEN v ELSE w[m]]
  BY <1>1, <1>h, <1>7, <1>8 DEF SetAt
<1>11. n + k \in Nat
  BY <1>2, <1>4
<1>12. e = [m \in 1..(n + k) |-> e[m]]
  BY <1>10
<1>13. IsSeq(e) /\ Len(e) = n + k
  BY <1>11, <1>12, MakeSeq
<1>14. \A m \in 1..(n + k) : ~(m <= n) => h[m - n] = Root
  <2> SUFFICES ASSUME NEW m \in 1..(n + k), ~(m <= n) PROVE h[m - n] = Root
    OBVIOUS
  <2>1. m - n \in 1..k
    BY <1>2, <1>4
  <2> QED
    BY <1>6, <2>1
<1>15. \A m \in 1..(n + k) : e[m] = IF m = i + 1 THEN v ELSE IF m <= n THEN s[m] ELSE Root
  BY <1>8, <1>10, <1>14
<1> QED
  BY <1>1, <1>9, <1>13, <1>15

\* What is at an index
VecAt(n, i) == IF i < Len(n.elements) THEN n.elements[i + 1] ELSE Root

LEMMA InsVecOK ==
  ASSUME NEW ops, OpsOK(ops), NEW t \in Nat, NEW ix, Well(ix, ops, t), Whole(ix),
         NEW op \in ops, op.name = "ins_vec",
         NEW p, p = InsVec(ix, op.obj, op.index, op.val)
  PROVE  /\ Well(p, ops, t) /\ Whole(p)
         /\ Is(ix, op.obj, "vec") /\ op.val \in DOMAIN ix
            /\ (VecAt(ix[op.obj], op.index) = Root \/ Before(VecAt(ix[op.obj], op.index), op.val)) =>
              op.obj \in DOMAIN p /\ op.index + 1 \in DOMAIN p[op.obj].elements
              /\ p[op.obj].elements[op.index + 1] = op.val
<1>1. PICK x, i, v : x = op.obj /\ i = op.index /\ v = op.val
  OBVIOUS
<1>2. PICK n : n = ix[x]
  OBVIOUS
<1>3. PICK old : old = VecAt(n, i)
  OBVIOUS
<1>4. i \in Nat /\ v \in Stamp /\ x.time < v.time /\ Puts(op) /\ x.time \in Nat /\ v.time \in Nat
  <2>1. OpOK(op) /\ Puts(op)
    BY DEF OpsOK, Puts
  <2> QED
    BY <1>1, <2>1, StampFacts DEF OpOK
<1>h. PICK elements : elements = SetAt(n.elements, i, v)
  OBVIOUS
<1>5. p = IF \/ ~Is(ix, x, "vec") \/ v \notin DOMAIN ix \/ x.time >= v.time
             \/ old # Root /\ ~Before(old, v)
          THEN ix
          ELSE GcTree([ix EXCEPT ![x].elements = elements], {old})
  BY <1>1, <1>2, <1>3, <1>h DEF InsVec, VecAt, SetAt
<1>6. CASE ~(Is(ix, x, "vec") /\ v \in DOMAIN ix /\ (old = Root \/ Before(old, v)))
  <2>1. p = ix
    BY <1>5, <1>6
  <2> QED
    BY <1>1, <1>2, <1>3, <1>6, <2>1
<1>7. CASE Is(ix, x, "vec") /\ v \in DOMAIN ix /\ (old = Root \/ Before(old, v))
  <2>1. x \in DOMAIN ix /\ n.kind = "vec" /\ NodeOK(x, n, ops) /\ IsSeq(n.elements)
    <3>1. x \in DOMAIN ix /\ n.kind = "vec" /\ NodeOK(x, n, ops)
      BY <1>2, <1>7 DEF Is, Well
    <3> QED
      BY <3>1 DEF NodeOK
  <2>2. PICK len : len = Len(n.elements)
    OBVIOUS
  <2>3. /\ IsSeq(elements) /\ i + 1 \in 1..Len(elements)
        /\ \A m \in 1..Len(elements) :
             elements[m] = IF m = i + 1 THEN v ELSE IF m <= len THEN n.elements[m] ELSE Root
    <3>1. PICK was : was = n.elements
      OBVIOUS
    <3>2. IsSeq(was) /\ i \in Nat /\ elements = SetAt(was, i, v)
      BY <1>4, <1>h, <2>1, <3>1
    <3>3. /\ IsSeq(elements) /\ i + 1 \in 1..Len(elements)
          /\ \A m \in 1..Len(elements) :
               elements[m] = IF m = i + 1 THEN v ELSE IF m <= Len(was) THEN was[m] ELSE Root
      BY ONLY <3>2, HolesOK
    <3> QED
      BY <2>2, <3>1, <3>3
  <2>4. PICK n1 : n1 = [n EXCEPT !.elements = elements]
    OBVIOUS
  <2>5. n1 = [kind |-> n.kind, keys |-> n.keys, elements |-> elements,
              val |-> n.val, rga |-> n.rga, slot |-> n.slot]
    BY <2>1, <2>4, NodeParts
  <2>6. /\ n1.kind = "vec" /\ n1.keys = n.keys /\ n1.elements = elements /\ n1.val = n.val
        /\ n1.rga = n.rga /\ n1.slot = n.slot
    BY <2>1, <2>5
  <2>f. /\ n.keys = [k \in Keys |-> n.keys[k]] /\ len \in Nat
        /\ \A m \in 1..len : n.elements[m] # Root =>
             \E o \in ops : o.name = "ins_vec" /\ o.obj = x /\ o.index = m - 1 /\ o.val = n.elements[m]
    BY <2>1, <2>2 DEF NodeOK, IsSeq
  <2>7. NodeOK(x, n1, ops)
    <3>1. n1 = [kind |-> n1.kind, keys |-> n1.keys, elements |-> n1.elements, val |-> n1.val,
                rga |-> n1.rga, slot |-> n1.slot] /\ n1.kind \in AllKinds
      BY <2>1, <2>5, <2>6 DEF AllKinds
    <3>2. \A m \in 1..Len(n1.elements) : n1.elements[m] # Root =>
            \E o \in ops : o.name = "ins_vec" /\ o.obj = x /\ o.index = m - 1 /\ o.val = n1.elements[m]
      <4> SUFFICES ASSUME NEW m \in 1..Len(elements), elements[m] # Root
                   PROVE  \E o \in ops : o.name = "ins_vec" /\ o.obj = x /\ o.index = m - 1 /\ o.val = elements[m]
        BY <2>6
      <4>1. CASE m = i + 1
        <5>1. m - 1 = i /\ elements[m] = v
          BY <1>4, <2>3, <4>1
        <5> QED
          BY <1>1, <5>1
      <4>2. CASE m # i + 1
        <5>1. elements[m] = n.elements[m] /\ m <= len
          BY <2>3, <4>2
        <5>2. m \in 1..len
          BY <2>f, <5>1
        <5> QED
          BY <2>f, <5>1, <5>2
      <4> QED
        BY <4>1, <4>2
    <3> QED
      BY <2>1, <2>3, <2>6, <3>1, <3>2 DEF NodeOK
  <2>8. \A u \in Values(n1) : u = v \/ \E m \in 1..len : m # i + 1 /\ u = n.elements[m] /\ u # Root
    <3> SUFFICES ASSUME NEW u \in Values(n1), u # v
                 PROVE  \E m \in 1..len : m # i + 1 /\ u = n.elements[m] /\ u # Root
      OBVIOUS
    <3>1. u \in ToSet(elements) /\ u # Root
      BY <2>6, ValuesOfKind
    <3>2. PICK m \in 1..Len(elements) : u = elements[m]
      BY <2>3, <3>1 DEF ToSet, IsSeq
    <3>3. m # i + 1 /\ m <= len /\ u = n.elements[m]
      BY <2>3, <3>1, <3>2
    <3>4. m \in 1..len
      BY <2>f, <3>3
    <3> QED
      BY <3>1, <3>3, <3>4
  <2>9. \A m \in 1..len : n.elements[m] = Root \/ n.elements[m] \in Values(n)
    <3>1. \A m \in 1..len : n.elements[m] \in ToSet(n.elements)
      BY <2>1, <2>2 DEF ToSet, IsSeq
    <3> QED
      BY <2>1, <3>1, ValuesOfKind
  <2>10. Values(n1) \subseteq DOMAIN ix
    <3>1. Values(n) \subseteq DOMAIN ix
      BY <1>2, <2>1 DEF Whole
    <3> QED
      BY <1>7, <2>8, <2>9, <3>1
  <2>11. old = Root \/ (old \in Values(n) /\ old \notin Values(n1))
    <3> SUFFICES ASSUME old # Root PROVE old \in Values(n) /\ old \notin Values(n1)
      OBVIOUS
    <3>i. i + 1 \in 1..len /\ old = n.elements[i + 1]
      BY <1>3, <1>4, <2>2, <2>f DEF VecAt
    <3>1. old \in Values(n)
      BY <2>9, <3>i
    <3>2. old # v
      <4>1. ~Before(v, v)
        BY <1>4, BeforeFacts
      <4> QED
        BY <1>7, <4>1
    <3>3. ASSUME NEW m \in 1..len, m # i + 1, old = n.elements[m] PROVE FALSE
      <4>1. PICK a \in ops : a.name = "ins_vec" /\ a.index = (i + 1) - 1 /\ a.val = old
        BY <2>f, <3>i
      <4>2. PICK b \in ops : b.name = "ins_vec" /\ b.index = m - 1 /\ b.val = old
        BY <2>f, <3>3
      <4>3. a = b
        BY <4>1, <4>2, SamePut DEF Puts
      <4> QED
        BY <1>4, <3>3, <4>1, <4>2, <4>3
    <3> QED
      BY <2>8, <3>1, <3>2, <3>3
  <2>12. PICK q : q = SetNode(ix, x, n1)
    OBVIOUS
  <2>13. p = GcTree(q, {old})
    <3>1. [ix EXCEPT ![x].elements = elements] = q
      BY <1>2, <2>4, <2>12 DEF SetNode
    <3>2. ~(x.time >= v.time)
      BY <1>4
    <3>3. p = GcTree([ix EXCEPT ![x].elements = elements], {old})
      BY <1>5, <1>7, <3>2
    <3> QED
      BY <3>1, <3>3
  <2>14. Dropped({old}, ix[x], n1)
    BY <1>2, <2>11 DEF Dropped
  <2>15. Well(p, ops, t) /\ Whole(p) /\ x \in DOMAIN p /\ p[x] = n1
    BY <2>1, <2>7, <2>10, <2>12, <2>13, <2>14, SetNodeOK
  <2>16. i + 1 \in DOMAIN n1.elements /\ n1.elements[i + 1] = v
    BY <2>3, <2>6 DEF IsSeq
  <2> QED
    BY <1>1, <2>15, <2>16
<1> QED
  BY <1>6, <1>7

-----------------------------------------------------------------------------
(* Arrays.                                                                 *)

\* No two slots have the same value.
LEMMA SlotValues ==
  ASSUME NEW ops, OpsOK(ops), NEW x, NEW n, NodeOK(x, n, ops),
         NEW e \in DOMAIN n.slot, NEW f \in DOMAIN n.slot, n.slot[e] = n.slot[f]
  PROVE  e = f
<1>1. \A y \in DOMAIN n.slot : \E op \in ops : Fills(op, y) /\ op.obj = x /\ op.val = n.slot[y]
  BY DEF NodeOK
<1>2. PICK a \in ops : Fills(a, e) /\ a.val = n.slot[e]
  BY <1>1
<1>3. PICK b \in ops : Fills(b, f) /\ b.val = n.slot[e]
  BY <1>1
<1>4. a = b
  BY <1>2, <1>3, SamePut DEF Fills, Puts
<1> QED
  BY <1>2, <1>3, <1>4 DEF Fills

\* What is shown has a value, which is one of the array's.
LEMMA ShownValues ==
  ASSUME NEW ops, OpsOK(ops), NEW x, NEW n, NodeOK(x, n, ops), n.kind = "arr"
  PROVE  /\ Shown(n.rga) \subseteq DOMAIN n.slot /\ Shown(n.rga) \subseteq Stamp
         /\ IsArray(n.rga, ops) /\ IsFcn(n.slot)
         /\ \A e \in Shown(n.rga) : n.slot[e] \in Values(n)
         /\ \A u \in Values(n) : \E e \in Shown(n.rga) : u = n.slot[e]
<1>1. IsArray(n.rga, ops) /\ IsFcn(n.slot) /\ \A i \in 1..Len(n.rga) : Id(n.rga[i]) \in DOMAIN n.slot
  BY DEF NodeOK
<1>2. Shown(n.rga) = {Id(n.rga[i]) : i \in {j \in 1..Len(n.rga) : ~n.rga[j].del}} /\ Shown(n.rga) \subseteq Stamp
  BY <1>1, ShownOK
<1>3. Shown(n.rga) \subseteq DOMAIN n.slot
  BY <1>1, <1>2
<1>4. Values(n) = {n.slot[e] : e \in Shown(n.rga)}
  BY ValuesOfKind
<1> QED
  BY <1>1, <1>2, <1>3, <1>4

\* What an array node is when its chunks or its slots change.
LEMMA ArrNodeOK ==
  ASSUME NEW ops, NEW x, NEW n, NodeOK(x, n, ops), n.kind = "arr",
         NEW rga, IsArray(rga, ops), NEW slot, IsFcn(slot),
         \A i \in 1..Len(rga) : Id(rga[i]) \in DOMAIN slot,
         \A e \in DOMAIN slot : \E op \in ops : Fills(op, e) /\ op.obj = x /\ op.val = slot[e],
         NEW n1, n1 = [kind |-> n.kind, keys |-> n.keys, elements |-> n.elements,
                       val |-> n.val, rga |-> rga, slot |-> slot]
  PROVE  NodeOK(x, n1, ops) /\ n1.kind = "arr" /\ n1.rga = rga /\ n1.slot = slot
<1>1. /\ n1.kind = "arr" /\ n1.keys = n.keys /\ n1.elements = n.elements /\ n1.val = n.val
      /\ n1.rga = rga /\ n1.slot = slot
  OBVIOUS
<1>2. n1 = [kind |-> n1.kind, keys |-> n1.keys, elements |-> n1.elements, val |-> n1.val,
            rga |-> n1.rga, slot |-> n1.slot] /\ n1.kind \in AllKinds
  BY <1>1 DEF AllKinds
<1> QED
  BY <1>1, <1>2 DEF NodeOK

LEMMA UpdArrOK ==
  ASSUME NEW ops, OpsOK(ops), NEW t \in Nat, NEW ix, Well(ix, ops, t), Whole(ix),
         NEW op \in ops, op.name = "upd_arr",
         NEW p, p = UpdArr(ix, op.obj, op.ref, op.val)
  PROVE  /\ Well(p, ops, t) /\ Whole(p)
         /\ Is(ix, op.obj, "arr") /\ op.val \in DOMAIN ix
            /\ op.ref \in Slots(ix, op.obj) /\ Before(ix[op.obj].slot[op.ref], op.val) =>
              op.obj \in DOMAIN p /\ op.ref \in DOMAIN p[op.obj].slot
              /\ p[op.obj].slot[op.ref] = op.val
<1>1. PICK x, e, v : x = op.obj /\ e = op.ref /\ v = op.val
  OBVIOUS
<1>2. PICK n : n = ix[x]
  OBVIOUS
<1>3. PICK old : old = n.slot[e]
  OBVIOUS
<1>4. v \in Stamp
  <2>1. OpOK(op) /\ Puts(op)
    BY DEF OpsOK, Puts
  <2> QED
    BY <1>1, <2>1 DEF OpOK
<1>5. p = IF ~Is(ix, x, "arr") \/ v \notin DOMAIN ix THEN ix
          ELSE IF e \notin Shown(n.rga) \/ ~Before(old, v) THEN ix
          ELSE GcTree([ix EXCEPT ![x].slot[e] = v], {old})
  BY <1>1, <1>2, <1>3 DEF UpdArr, Slots
<1>6. CASE ~(Is(ix, x, "arr") /\ v \in DOMAIN ix /\ e \in Shown(n.rga) /\ Before(old, v))
  <2>1. p = ix
    BY <1>5, <1>6
  <2> QED
    BY <1>1, <1>2, <1>3, <1>6, <2>1 DEF Slots
<1>7. CASE Is(ix, x, "arr") /\ v \in DOMAIN ix /\ e \in Shown(n.rga) /\ Before(old, v)
  <2>1. x \in DOMAIN ix /\ n.kind = "arr" /\ NodeOK(x, n, ops)
    BY <1>2, <1>7 DEF Is, Well
  <2>2. /\ Shown(n.rga) \subseteq DOMAIN n.slot /\ IsArray(n.rga, ops) /\ IsFcn(n.slot)
        /\ \A f \in Shown(n.rga) : n.slot[f] \in Values(n)
    BY <2>1, ShownValues
  <2>3. e \in DOMAIN n.slot
    BY <1>7, <2>2
  <2>4. PICK slot : slot = [n.slot EXCEPT ![e] = v]
    OBVIOUS
  <2>5. slot = [f \in DOMAIN n.slot |-> IF f = e THEN v ELSE n.slot[f]]
    BY <2>2, <2>4 DEF IsFcn
  <2>6. PICK n1 : n1 = [n EXCEPT !.slot = slot]
    OBVIOUS
  <2>7. n1 = [kind |-> n.kind, keys |-> n.keys, elements |-> n.elements,
              val |-> n.val, rga |-> n.rga, slot |-> slot]
    BY <2>1, <2>6, NodeParts
  <2>8. \A f \in DOMAIN slot : \E o \in ops : Fills(o, f) /\ o.obj = x /\ o.val = slot[f]
    <3> SUFFICES ASSUME NEW f \in DOMAIN n.slot
                 PROVE  \E o \in ops : Fills(o, f) /\ o.obj = x /\ o.val = slot[f]
      BY <2>5
    <3>1. CASE f = e
      BY <1>1, <2>5, <3>1 DEF Fills
    <3>2. CASE f # e
      BY <2>1, <2>5, <3>2 DEF NodeOK
    <3> QED
      BY <3>1, <3>2
  <2>9. \A i \in 1..Len(n.rga) : Id(n.rga[i]) \in DOMAIN slot
    BY <2>1, <2>5 DEF NodeOK
  <2>i. IsFcn(slot)
    BY <2>5 DEF IsFcn
  <2>10. NodeOK(x, n1, ops) /\ n1.kind = "arr" /\ n1.rga = n.rga /\ n1.slot = slot
    BY <2>1, <2>2, <2>7, <2>8, <2>9, <2>i, ArrNodeOK
  <2>11. \A u \in Values(n1) : u = v \/ \E f \in Shown(n.rga) : f # e /\ u = n.slot[f]
    <3>1. Values(n1) = {slot[f] : f \in Shown(n.rga)}
      BY <2>10, ValuesOfKind
    <3> QED
      BY <2>2, <2>5, <3>1
  <2>12. Values(n1) \subseteq DOMAIN ix
    <3>1. Values(n) \subseteq DOMAIN ix
      BY <1>2, <2>1 DEF Whole
    <3> QED
      BY <1>7, <2>2, <2>11, <3>1
  <2>13. old \in Values(n) /\ old \notin Values(n1)
    <3>1. old \in Values(n)
      BY <1>3, <1>7, <2>2
    <3>2. old # v
      <4>1. ~Before(v, v)
        BY <1>4, BeforeFacts
      <4> QED
        BY <1>7, <4>1
    <3>3. ASSUME NEW f \in Shown(n.rga), f # e, old = n.slot[f] PROVE FALSE
      <4>1. f \in DOMAIN n.slot
        BY <2>2
      <4> QED
        BY <1>3, <2>1, <2>3, <3>3, <4>1, SlotValues
    <3> QED
      BY <2>11, <3>1, <3>2, <3>3
  <2>14. PICK q : q = SetNode(ix, x, n1)
    OBVIOUS
  <2>15. p = GcTree(q, {old})
    <3>1. [ix EXCEPT ![x].slot[e] = v] = q
      BY <1>2, <2>4, <2>6, <2>14 DEF SetNode
    <3> QED
      BY <1>5, <1>7, <3>1
  <2>16. Dropped({old}, ix[x], n1)
    BY <1>2, <2>13 DEF Dropped
  <2>17. Well(p, ops, t) /\ Whole(p) /\ x \in DOMAIN p /\ p[x] = n1
    BY <2>1, <2>10, <2>12, <2>14, <2>15, <2>16, SetNodeOK
  <2>18. e \in DOMAIN n1.slot /\ n1.slot[e] = v
    BY <2>3, <2>5, <2>10
  <2> QED
    BY <1>1, <2>17, <2>18
<1> QED
  BY <1>6, <1>7

LEMMA InsArrOK ==
  ASSUME NEW ops, OpsOK(ops), NEW t \in Nat, NEW ix, Well(ix, ops, t), Whole(ix),
         NEW op \in ops, op.name = "ins_arr",
         NEW p, p = InsArr(ix, op.obj, op.ref, op.id, op.val)
  PROVE  Well(p, ops, t) /\ Whole(p)
<1>1. PICK x, id, v : x = op.obj /\ id = op.id /\ v = op.val
  OBVIOUS
<1>2. PICK n : n = ix[x]
  OBVIOUS
<1>3. PICK rga : rga = Ins(n.rga, Root, op.ref, id, 1)
  OBVIOUS
<1>4. id \in Stamp
  <2>1. OpOK(op)
    BY DEF OpsOK
  <2> QED
    BY <1>1, <2>1 DEF OpOK
<1>5. PICK slot : slot = [y \in DOMAIN n.slot \cup {id} |-> IF y = id THEN v ELSE n.slot[y]]
  OBVIOUS
<1>6. p = ix \/ (Is(ix, x, "arr") /\ v \in DOMAIN ix /\ p = [ix EXCEPT ![x].rga = rga, ![x].slot = slot])
  BY <1>1, <1>2, <1>3, <1>5 DEF InsArr
<1>7. CASE Is(ix, x, "arr") /\ v \in DOMAIN ix /\ p = [ix EXCEPT ![x].rga = rga, ![x].slot = slot]
  <2>1. x \in DOMAIN ix /\ n.kind = "arr" /\ NodeOK(x, n, ops)
    BY <1>2, <1>7 DEF Is, Well
  <2>2. /\ Shown(n.rga) \subseteq DOMAIN n.slot /\ IsArray(n.rga, ops) /\ IsFcn(n.slot)
        /\ \A f \in Shown(n.rga) : n.slot[f] \in Values(n)
    BY <2>1, ShownValues
  <2>3. /\ IsArray(rga, ops)
        /\ \A i \in 1..Len(rga) : rga[i] = Chunk(id, 1) \/ \E m \in 1..Len(n.rga) : rga[i] = n.rga[m]
    BY <1>1, <1>3, <2>2, InsOK
  <2>4. Id(Chunk(id, 1)) = id
    BY <1>4, StampFacts DEF Id, Chunk
  <2>5. \A i \in 1..Len(n.rga) : Id(n.rga[i]) \in DOMAIN n.slot
    BY <2>1 DEF NodeOK
  <2>6. \A i \in 1..Len(rga) : Id(rga[i]) \in DOMAIN slot
    BY <1>5, <2>3, <2>4, <2>5
  <2>7. IsFcn(slot)
    BY <1>5 DEF IsFcn
  <2>8. \A f \in DOMAIN slot : \E o \in ops : Fills(o, f) /\ o.obj = x /\ o.val = slot[f]
    <3> SUFFICES ASSUME NEW f \in DOMAIN n.slot \cup {id}
                 PROVE  \E o \in ops : Fills(o, f) /\ o.obj = x /\ o.val = slot[f]
      BY <1>5
    <3>1. CASE f = id
      BY <1>1, <1>5, <3>1 DEF Fills
    <3>2. CASE f # id
      BY <1>5, <2>1, <3>2 DEF NodeOK
    <3> QED
      BY <3>1, <3>2
  <2>9. PICK n0 : n0 = [n EXCEPT !.rga = rga]
    OBVIOUS
  <2>10. PICK n1 : n1 = [n0 EXCEPT !.slot = slot]
    OBVIOUS
  <2>11. n1 = [kind |-> n.kind, keys |-> n.keys, elements |-> n.elements,
               val |-> n.val, rga |-> rga, slot |-> slot]
    <3>1. n0 = [kind |-> n.kind, keys |-> n.keys, elements |-> n.elements,
                val |-> n.val, rga |-> rga, slot |-> n.slot]
      BY <2>1, <2>9, NodeParts
    <3> QED
      BY <2>10, <3>1
  <2>12. NodeOK(x, n1, ops) /\ n1.kind = "arr" /\ n1.rga = rga /\ n1.slot = slot
    BY <2>1, <2>3, <2>6, <2>7, <2>8, <2>11, ArrNodeOK
  <2>13. Values(n1) \subseteq DOMAIN ix
    <3> SUFFICES ASSUME NEW f \in Shown(rga) PROVE slot[f] \in DOMAIN ix
      BY <2>12, ValuesOfKind
    <3>1. Shown(rga) = {Id(rga[i]) : i \in {j \in 1..Len(rga) : ~rga[j].del}}
      BY <2>3, ShownOK
    <3>2. PICK i \in 1..Len(rga) : f = Id(rga[i]) /\ ~rga[i].del
      BY <3>1
    <3>3. CASE f = id
      BY <1>5, <1>7, <3>3
    <3>4. CASE f # id
      <4>1. PICK m \in 1..Len(n.rga) : rga[i] = n.rga[m]
        BY <2>3, <2>4, <3>2, <3>4
      <4>2. Shown(n.rga) = {Id(n.rga[k]) : k \in {j \in 1..Len(n.rga) : ~n.rga[j].del}}
        BY <2>2, ShownOK
      <4>3. f \in Shown(n.rga)
        BY <3>2, <4>1, <4>2
      <4>4. slot[f] = n.slot[f] /\ n.slot[f] \in Values(n)
        BY <1>5, <2>2, <3>4, <4>3
      <4>5. Values(n) \subseteq DOMAIN ix
        BY <1>2, <2>1 DEF Whole
      <4> QED
        BY <4>4, <4>5
    <3> QED
      BY <3>3, <3>4
  <2>14. p = SetNode(ix, x, n1)
    <3>1. n1 = [n EXCEPT !.rga = rga, !.slot = slot]
      BY <2>9, <2>10
    <3>2. p = [ix EXCEPT ![x] = n1]
      BY <1>2, <1>7, <2>1, <3>1
    <3> QED
      BY <3>2 DEF SetNode
  <2>15. PICK c : c = GcTree(p, {})
    OBVIOUS
  <2>16. Dropped({}, ix[x], n1)
    BY DEF Dropped
  <2> QED
    BY <2>1, <2>12, <2>13, <2>14, <2>15, <2>16, SetNodeOK
<1> QED
  BY <1>6, <1>7

LEMMA DelArrOK ==
  ASSUME NEW ops, OpsOK(ops), NEW t \in Nat, NEW ix, Well(ix, ops, t), Whole(ix),
         NEW op \in ops, op.name = "del",
         NEW p, p = DelArr(ix, op.obj, op.ref)
  PROVE  Well(p, ops, t) /\ Whole(p)
<1>1. PICK x, e : x = op.obj /\ e = op.ref
  OBVIOUS
<1>2. PICK n : n = ix[x]
  OBVIOUS
<1>3. PICK rga : rga = Delete(n.rga, <<[sid |-> e.sid, time |-> e.time, span |-> 1]>>)
  OBVIOUS
<1>4. e \in Stamp \cup {Root}
  <2>1. OpOK(op)
    BY DEF OpsOK
  <2> QED
    BY <1>1, <2>1 DEF OpOK
<1>5. PICK gone : gone = {n.slot[f] : f \in {e} \cap Shown(n.rga)}
  OBVIOUS
<1>6. p = IF ~Is(ix, x, "arr") THEN ix ELSE GcTree([ix EXCEPT ![x].rga = rga], gone)
  <2>1. [ix EXCEPT ![x].rga = Delete(@, <<[sid |-> e.sid, time |-> e.time, span |-> 1]>>)]
          = [ix EXCEPT ![x].rga = rga]
    BY <1>2, <1>3
  <2> QED
    BY <1>1, <1>2, <1>5, <2>1 DEF DelArr, Slots
<1>7. CASE ~Is(ix, x, "arr")
  BY <1>6, <1>7
<1>8. CASE Is(ix, x, "arr")
  <2>1. x \in DOMAIN ix /\ n.kind = "arr" /\ NodeOK(x, n, ops)
    BY <1>2, <1>8 DEF Is, Well
  <2>2. /\ Shown(n.rga) \subseteq DOMAIN n.slot /\ IsArray(n.rga, ops) /\ IsFcn(n.slot)
        /\ \A f \in Shown(n.rga) : n.slot[f] \in Values(n)
    BY <2>1, ShownValues
  <2>3. /\ IsArray(rga, ops) /\ Len(rga) = Len(n.rga)
        /\ \A i \in 1..Len(n.rga) : Id(rga[i]) = Id(n.rga[i]) /\ (rga[i].del <=> n.rga[i].del \/ Id(n.rga[i]) = e)
    BY <1>3, <1>4, <2>2, DeleteOK
  <2>4. \A f \in Shown(rga) : f \in Shown(n.rga) /\ f # e
    <3>1. Shown(rga) = {Id(rga[i]) : i \in {j \in 1..Len(rga) : ~rga[j].del}}
      BY <2>3, ShownOK
    <3>2. Shown(n.rga) = {Id(n.rga[k]) : k \in {j \in 1..Len(n.rga) : ~n.rga[j].del}}
      BY <2>2, ShownOK
    <3> SUFFICES ASSUME NEW f \in Shown(rga) PROVE f \in Shown(n.rga) /\ f # e
      OBVIOUS
    <3>3. PICK i \in 1..Len(rga) : f = Id(rga[i]) /\ ~rga[i].del
      BY <3>1
    <3>4. f = Id(n.rga[i]) /\ ~n.rga[i].del /\ i \in 1..Len(n.rga) /\ f # e
      BY <2>3, <3>3
    <3> QED
      BY <3>2, <3>4
  <2>5. \A i \in 1..Len(rga) : Id(rga[i]) \in DOMAIN n.slot
    BY <2>1, <2>3 DEF NodeOK
  <2>6. PICK n1 : n1 = [n EXCEPT !.rga = rga]
    OBVIOUS
  <2>7. n1 = [kind |-> n.kind, keys |-> n.keys, elements |-> n.elements,
              val |-> n.val, rga |-> rga, slot |-> n.slot]
    BY <2>1, <2>6, NodeParts
  <2>8. \A f \in DOMAIN n.slot : \E o \in ops : Fills(o, f) /\ o.obj = x /\ o.val = n.slot[f]
    BY <2>1 DEF NodeOK
  <2>9. NodeOK(x, n1, ops) /\ n1.kind = "arr" /\ n1.rga = rga /\ n1.slot = n.slot
    BY <2>1, <2>2, <2>3, <2>5, <2>7, <2>8, ArrNodeOK
  <2>10. Values(n1) = {n.slot[f] : f \in Shown(rga)}
    BY <2>9, ValuesOfKind
  <2>11. Values(n1) \subseteq DOMAIN ix
    <3>1. Values(n) \subseteq DOMAIN ix
      BY <1>2, <2>1 DEF Whole
    <3> QED
      BY <2>2, <2>4, <2>10, <3>1
  <2>12. Dropped(gone, n, n1)
    <3> SUFFICES ASSUME e \in Shown(n.rga)
                 PROVE  n.slot[e] \in Values(n) /\ n.slot[e] \notin Values(n1)
      BY <1>5 DEF Dropped
    <3>1. ASSUME NEW f \in Shown(rga), n.slot[e] = n.slot[f] PROVE FALSE
      <4>1. f \in DOMAIN n.slot /\ e \in DOMAIN n.slot /\ f # e
        BY <2>2, <2>4, <3>1
      <4> QED
        BY <2>1, <3>1, <4>1, SlotValues
    <3> QED
      BY <2>2, <2>10, <3>1
  <2>13. PICK q : q = SetNode(ix, x, n1)
    OBVIOUS
  <2>14. p = GcTree(q, gone)
    <3>1. [ix EXCEPT ![x].rga = rga] = q
      BY <1>2, <2>6, <2>13 DEF SetNode
    <3> QED
      BY <1>6, <1>8, <3>1
  <2> QED
    BY <1>2, <2>1, <2>9, <2>11, <2>12, <2>13, <2>14, SetNodeOK
<1> QED
  BY <1>7, <1>8

-----------------------------------------------------------------------------
(* Patches.                                                                *)

\* An operation made before t leaves an index that refers to nothing missing.
LEMMA ApplyOpOK ==
  ASSUME NEW ops, OpsOK(ops), NEW t \in Nat, NEW ix, Well(ix, ops, t), Whole(ix),
         NEW op \in ops, op.name = "new" => op.id.time < t,
         NEW p, p = ApplyOp(ix, op)
  PROVE  Well(p, ops, t) /\ Whole(p)
<1>1. OpOK(op)
  BY DEF OpsOK
<1>2. CASE op.name = "new"
  <2>1. PICK id, kind : id = op.id /\ kind = op.kind
    OBVIOUS
  <2>2. p = AddNode(ix, id, kind)
    BY <1>2, <2>1 DEF ApplyOp
  <2>3. id \in Stamp /\ id.time < t /\ kind \in AllKinds
    BY <1>1, <1>2, <2>1 DEF OpOK
  <2> QED
    BY <2>2, <2>3, AddNodeOK
<1>3. CASE op.name = "ins_obj"
  <2>1. p = InsObj(ix, op.obj, op.key, op.val)
    BY <1>3 DEF ApplyOp
  <2> QED
    BY <1>3, <2>1, InsObjOK
<1>4. CASE op.name = "ins_vec"
  <2>1. p = InsVec(ix, op.obj, op.index, op.val)
    BY <1>4 DEF ApplyOp
  <2> QED
    BY <1>4, <2>1, InsVecOK
<1>5. CASE op.name = "ins_val"
  <2>1. p = InsVal(ix, op.obj, op.val)
    BY <1>5 DEF ApplyOp
  <2> QED
    BY <1>5, <2>1, InsValOK
<1>6. CASE op.name = "ins_arr"
  <2>1. p = InsArr(ix, op.obj, op.ref, op.id, op.val)
    BY <1>6 DEF ApplyOp
  <2> QED
    BY <1>6, <2>1, InsArrOK
<1>7. CASE op.name = "upd_arr"
  <2>1. p = UpdArr(ix, op.obj, op.ref, op.val)
    BY <1>7 DEF ApplyOp
  <2> QED
    BY <1>7, <2>1, UpdArrOK
<1>8. CASE op.name = "del"
  <2>1. p = DelArr(ix, op.obj, op.ref)
    BY <1>8 DEF ApplyOp
  <2> QED
    BY <1>8, <2>1, DelArrOK
<1> QED
  BY <1>1, <1>2, <1>3, <1>4, <1>5, <1>6, <1>7, <1>8 DEF OpOK, Puts

\* f has the index before the first operation of s, and after each.
Applied(f, ix, s) ==
  /\ f[0] = ix
  /\ \A i \in 1..Len(s) : f[i] = ApplyOp(f[i - 1], s[i])

LEMMA ApplyPatchSteps ==
  ASSUME NEW ix, NEW p, Len(p.ops) \in Nat
  PROVE  \E f : Applied(f, ix, p.ops) /\ ApplyPatch(ix, p) = f[Len(p.ops)]
<1> DEFINE n == Len(p.ops)
           step(x, i) == ApplyOp(x, p.ops[i])
           Is0(g, k) == g = [i \in 0..k |-> IF i = 0 THEN ix ELSE step(g[i - 1], i)]
           Built == {k \in 0..n : \E g : Is0(g, k)}
           after[i \in 0..Len(p.ops)] == IF i = 0 THEN ix ELSE ApplyOp(after[i - 1], p.ops[i])
<1>1. n \in Nat
  OBVIOUS
<1>2. ApplyPatch(ix, p) = after[n]
  BY DEF ApplyPatch
<1>3. after = CHOOSE g : Is0(g, n)
  OBVIOUS
<1>4. \A x, i : step(x, i) = ApplyOp(x, p.ops[i])
  OBVIOUS
<1> HIDE DEF after, n, step
<1>5. 0..n \subseteq Built
  <2>1. 0 \in Built
    <3> DEFINE g == [i \in 0..0 |-> ix]
    <3>1. Is0(g, 0)
      OBVIOUS
    <3> HIDE DEF Is0
    <3> QED
      BY <1>1, <3>1
  <2>2. ASSUME NEW k \in 1..n, k - 1 \in Built PROVE k \in Built
    <3>1. PICK g : Is0(g, k - 1)
      BY <2>2
    <3> DEFINE h == [i \in 0..k |-> IF i = k THEN step(g[k - 1], k) ELSE g[i]]
    <3>2. \A i \in 0..k : h[i] = IF i = 0 THEN ix ELSE step(h[i - 1], i)
      BY <1>1, <3>1
    <3>3. Is0(h, k)
      BY <3>2
    <3> HIDE DEF Is0
    <3> QED
      BY <1>1, <3>3
  <2> HIDE DEF Built
  <2> QED
    BY <1>1, <2>1, <2>2, Upward
<1>6. Is0(after, n)
  <2> HIDE DEF Is0
  <2> QED
    BY <1>1, <1>3, <1>5
<1>7. after[0] = ix /\ \A i \in 1..n : after[i] = step(after[i - 1], i)
  BY <1>1, <1>6
<1>8. Applied(after, ix, p.ops)
  BY <1>4, <1>7 DEF Applied, n
<1> QED
  BY <1>2, <1>8 DEF n

LEMMA ApplyPatchOK ==
  ASSUME NEW ops, OpsOK(ops), NEW t \in Nat, NEW ix, Well(ix, ops, t), Whole(ix),
         NEW p, Len(p.ops) \in Nat, \A i \in 1..Len(p.ops) : p.ops[i] \in ops,
         \A i \in 1..Len(p.ops) : p.ops[i].name = "new" => p.ops[i].id.time < t
  PROVE  Well(ApplyPatch(ix, p), ops, t) /\ Whole(ApplyPatch(ix, p))
<1>1. PICK f : Applied(f, ix, p.ops) /\ ApplyPatch(ix, p) = f[Len(p.ops)]
  BY ApplyPatchSteps
<1>2. PICK n : n = Len(p.ops)
  OBVIOUS
<1> DEFINE S == {i \in 0..n : Well(f[i], ops, t) /\ Whole(f[i])}
<1>3. 0 \in S
  BY <1>1, <1>2 DEF Applied
<1>4. ASSUME NEW i \in 1..n, i - 1 \in S PROVE i \in S
  <2>1. f[i] = ApplyOp(f[i - 1], p.ops[i])
    BY <1>1, <1>2 DEF Applied
  <2>2. Well(f[i - 1], ops, t) /\ Whole(f[i - 1])
    BY <1>4
  <2>3. p.ops[i] \in ops /\ (p.ops[i].name = "new" => p.ops[i].id.time < t)
    BY <1>2
  <2>4. Well(f[i], ops, t) /\ Whole(f[i])
    BY <2>1, <2>2, <2>3, ApplyOpOK
  <2> QED
    BY <2>4
<1>5. n \in S
  <2> HIDE DEF S
  <2>1. 0..n \subseteq S
    BY <1>2, <1>3, <1>4, Upward
  <2> QED
    BY <1>2, <2>1
<1> QED
  BY <1>1, <1>2, <1>5

\* More operations, a later time
LEMMA Grown ==
  ASSUME NEW ops, NEW more, ops \subseteq more, NEW t \in Nat, NEW u \in Nat, t <= u,
         NEW ix, Well(ix, ops, t)
  PROVE  Well(ix, more, u)
<1>1. \A q : IsArray(q, ops) => IsArray(q, more)
  BY DEF IsArray
<1>2. \A x, n : NodeOK(x, n, ops) => NodeOK(x, n, more)
  <2> SUFFICES ASSUME NEW x, NEW n, NodeOK(x, n, ops) PROVE NodeOK(x, n, more)
    OBVIOUS
  <2>1. IsArray(n.rga, more)
    BY <1>1 DEF NodeOK
  <2> QED
    BY <2>1 DEF NodeOK
<1>3. \A x \in DOMAIN ix : x \in Stamp \cup {Root} /\ x.time \in Nat /\ x.time < t
  BY WellTimes
<1>4. \A x \in DOMAIN ix : x.time < u
  BY <1>3
<1> QED
  BY <1>2, <1>4 DEF Well

\* The operations that make a value
LEMMA MakeOK ==
  ASSUME NEW id, NEW kind, NEW made, made = Make(id, kind)
  PROVE  /\ made \in Seq(ToSet(made)) /\ Len(made) \in Nat \ {0}
         /\ made[1] = [name |-> "new", id |-> id, kind |-> kind]
         /\ kind # "val" => Len(made) = 1
         /\ kind = "val" =>
              /\ Len(made) = 3
              /\ made[2] = [name |-> "new", id |-> At(id, 1), kind |-> "con"]
              /\ made[3] = [name |-> "ins_val", id |-> At(id, 2), obj |-> id, val |-> At(id, 1)]
<1>1. CASE kind # "val"
  <2>1. PICK a : a = [name |-> "new", id |-> id, kind |-> kind]
    OBVIOUS
  <2>2. made = <<a>>
    BY <1>1, <2>1 DEF Make
  <2>3. Len(made) = 1 /\ made[1] = a /\ made \in Seq({a}) /\ ToSet(made) = {a}
    BY <2>2 DEF ToSet
  <2> QED
    BY <1>1, <2>1, <2>3
<1>2. CASE kind = "val"
  <2>1. PICK a, b, c : /\ a = [name |-> "new", id |-> id, kind |-> "val"]
                       /\ b = [name |-> "new", id |-> At(id, 1), kind |-> "con"]
                       /\ c = [name |-> "ins_val", id |-> At(id, 2), obj |-> id, val |-> At(id, 1)]
    OBVIOUS
  <2>2. made = <<a, b, c>>
    BY <1>2, <2>1 DEF Make
  <2>3. /\ Len(made) = 3 /\ made[1] = a /\ made[2] = b /\ made[3] = c
        /\ made \in Seq({a, b, c}) /\ ToSet(made) = {a, b, c}
    BY <2>2 DEF ToSet
  <2> QED
    BY <1>2, <2>1, <2>3
<1> QED
  BY <1>1, <1>2

New(s) == {s[i] : i \in 1..Len(s)}

\* The operations s, of a patch of session r made at time t.
Made(s, r, t) ==
  /\ IsSeq(s)
  /\ \A o \in New(s) :
       /\ OpOK(o)
       /\ o.name = "new" => o.id.sid = r /\ o.id.time < t + Len(s)
       /\ Puts(o) => o.val.sid = r /\ t <= o.val.time /\ o.val.time < t + Len(s)
       /\ o.name = "ins_arr" => o.id.sid = r /\ t < o.id.time /\ o.id.time < t + Len(s)
  /\ \A a, b \in New(s) : Puts(a) /\ Puts(b) /\ a.val = b.val => a = b
  /\ \A a, b \in New(s) : a.name = "ins_arr" /\ b.name = "ins_arr" => a = b

\* They go with the operations made before.
LEMMA MadeOK ==
  ASSUME NEW ops, OpsOK(ops), NEW r \in Sid, NEW t \in Nat, \A o \in ops : OpBelow(o, r, t),
         NEW s, Made(s, r, t)
  PROVE  /\ OpsOK(ops \cup New(s))
         /\ \A o \in New(s) : OpBelow(o, r, t + Len(s)) /\ \A q \in Sid \ {r} : \A u : OpBelow(o, q, u)
<1>1. \A o \in ops \cup New(s) : OpOK(o)
  BY DEF OpsOK, Made
<1>2. \A a \in ops, b \in New(s) : Puts(a) /\ Puts(b) => a.val # b.val
  <2> SUFFICES ASSUME NEW a \in ops, NEW b \in New(s), Puts(a), Puts(b), a.val = b.val PROVE FALSE
    OBVIOUS
  <2>1. b.val.sid = r /\ t <= b.val.time
    BY DEF Made
  <2>2. a.val.sid = r => a.val.time < t
    BY DEF OpBelow
  <2>3. b.val \in Stamp
    BY <1>1 DEF OpOK
  <2>4. b.val.time \in Nat
    BY <2>3, StampFacts
  <2> QED
    BY <2>1, <2>2, <2>4
<1>3. \A a \in ops, b \in New(s) :
        a.name = "ins_arr" /\ b.name = "ins_arr" =>
          /\ a.id # b.id
          /\ ~(a.id.sid = b.id.sid /\ a.id.time + 1 = b.id.time)
          /\ ~(b.id.sid = a.id.sid /\ b.id.time + 1 = a.id.time)
  <2> SUFFICES ASSUME NEW a \in ops, NEW b \in New(s), a.name = "ins_arr", b.name = "ins_arr"
               PROVE  /\ a.id # b.id
                      /\ ~(a.id.sid = b.id.sid /\ a.id.time + 1 = b.id.time)
                      /\ ~(b.id.sid = a.id.sid /\ b.id.time + 1 = a.id.time)
    OBVIOUS
  <2>1. b.id.sid = r /\ t < b.id.time
    BY DEF Made
  <2>2. a.id.sid = r => a.id.time < t
    BY DEF OpBelow
  <2>3. a.id \in Stamp /\ b.id \in Stamp
    BY <1>1 DEF OpOK
  <2>4. a.id.time \in Nat /\ b.id.time \in Nat
    BY <2>3, StampFacts
  <2> QED
    BY <2>1, <2>2, <2>4
<1>4. \A b \in New(s) : b.name = "ins_arr" => b.id.time \in Nat
  <2> SUFFICES ASSUME NEW b \in New(s), b.name = "ins_arr" PROVE b.id.time \in Nat
    OBVIOUS
  <2>1. b.id \in Stamp
    BY <1>1 DEF OpOK
  <2> QED
    BY <2>1, StampFacts
<1>5. \A a, b \in ops \cup New(s) : Puts(a) /\ Puts(b) /\ a.val = b.val => a = b
  BY <1>2 DEF OpsOK, Made
<1>6. \A a, b \in ops \cup New(s) :
        a.name = "ins_arr" /\ b.name = "ins_arr" =>
          /\ a.id = b.id => a = b
          /\ ~(a.id.sid = b.id.sid /\ a.id.time + 1 = b.id.time)
  <2> SUFFICES ASSUME NEW a \in ops \cup New(s), NEW b \in ops \cup New(s),
                      a.name = "ins_arr", b.name = "ins_arr"
               PROVE  /\ a.id = b.id => a = b
                      /\ ~(a.id.sid = b.id.sid /\ a.id.time + 1 = b.id.time)
    OBVIOUS
  <2>1. CASE a \in ops /\ b \in ops
    BY <2>1 DEF OpsOK
  <2>2. CASE a \in ops /\ b \in New(s)
    BY <1>3, <2>2
  <2>3. CASE a \in New(s) /\ b \in ops
    BY <1>3, <2>3
  <2>4. CASE a \in New(s) /\ b \in New(s)
    <3>1. a = b
      BY <2>4 DEF Made
    <3> QED
      BY <1>4, <2>4, <3>1
  <2> QED
    BY <2>1, <2>2, <2>3, <2>4
<1>7. OpsOK(ops \cup New(s))
  BY <1>1, <1>5, <1>6 DEF OpsOK
<1>8. \A o \in New(s) : OpBelow(o, r, t + Len(s)) /\ \A q \in Sid \ {r} : \A u : OpBelow(o, q, u)
  BY DEF Made, OpBelow
<1> QED
  BY <1>7, <1>8

LEMMA AtFacts ==
  ASSUME NEW r \in Sid, NEW t \in Nat, NEW n \in Nat
  PROVE  At([sid |-> r, time |-> t], n) = [sid |-> r, time |-> t + n]
         /\ [sid |-> r, time |-> t + n] \in Stamp
BY DEF At, Stamp

\* A value is made, and the operation op puts it in place.
MadeAndPlaced(s, r, t, kind, op) ==
  LET id == [sid |-> r, time |-> t]
      made == Make(id, kind)
  IN  /\ s = Append(made, op)
      /\ OpOK(op) /\ Puts(op) /\ op.val = id
      /\ op.name = "ins_arr" => op.id = At(id, Len(made))

LEMMA PlacedOK ==
  ASSUME NEW r \in Sid, NEW t \in Nat, NEW kind \in AllKinds,
         NEW op, NEW s, MadeAndPlaced(s, r, t, kind, op)
  PROVE  Made(s, r, t)
<1>i. PICK id : id = [sid |-> r, time |-> t]
  OBVIOUS
<1>m. PICK made : made = Make(id, kind)
  OBVIOUS
<1>o. /\ s = Append(made, op)
      /\ OpOK(op) /\ Puts(op) /\ op.val = id
      /\ op.name = "ins_arr" => op.id = At(id, Len(made))
  BY <1>i, <1>m DEF MadeAndPlaced
<1>1. PICK n : n = Len(made)
  OBVIOUS
<1>a. /\ made \in Seq(ToSet(made)) /\ Len(made) \in Nat \ {0}
      /\ made[1] = [name |-> "new", id |-> id, kind |-> kind]
      /\ kind # "val" => Len(made) = 1
      /\ kind = "val" =>
           /\ Len(made) = 3
           /\ made[2] = [name |-> "new", id |-> At(id, 1), kind |-> "con"]
           /\ made[3] = [name |-> "ins_val", id |-> At(id, 2), obj |-> id, val |-> At(id, 1)]
  BY ONLY <1>m, MakeOK
<1>b. /\ IsSeq(s) /\ Len(s) = Len(made) + 1 /\ s[Len(made) + 1] = op
      /\ \A i \in 1..Len(made) : s[i] = made[i]
  <2>1. PICK T : T = ToSet(made) \cup {op}
    OBVIOUS
  <2>2. made \in Seq(T) /\ op \in T
    BY <1>a, <2>1
  <2>3. /\ s \in Seq(T) /\ Len(s) = Len(made) + 1 /\ s[Len(made) + 1] = op
        /\ \A i \in 1..Len(made) : s[i] = made[i]
    BY <1>o, <2>2, AppendProperties
  <2>4. Len(s) \in Nat /\ s \in [1..Len(s) -> T]
    BY <2>3, LenProperties
  <2> QED
    BY <2>3, <2>4 DEF IsSeq
<1>2. made \in Seq(ToSet(made)) /\ n \in Nat \ {0}
  BY <1>1, <1>a
<1>3. /\ IsSeq(s) /\ Len(s) = n + 1 /\ s[n + 1] = op
      /\ \A i \in 1..n : s[i] = made[i]
  BY <1>1, <1>b
<1>4. /\ id \in Stamp /\ id.sid = r /\ id.time = t
      /\ At(id, n) \in Stamp /\ At(id, n).sid = r /\ At(id, n).time = t + n
      /\ At(id, 1) \in Stamp /\ At(id, 1).sid = r /\ At(id, 1).time = t + 1
  <2>1. At(id, n) = [sid |-> r, time |-> t + n] /\ [sid |-> r, time |-> t + n] \in Stamp
    BY <1>2, <1>i, AtFacts
  <2>2. At(id, 1) = [sid |-> r, time |-> t + 1] /\ [sid |-> r, time |-> t + 1] \in Stamp
    BY <1>i, AtFacts
  <2>3. id \in Stamp
    BY <1>i DEF Stamp
  <2> QED
    BY <1>i, <2>1, <2>2, <2>3
<1>5. made[1] = [name |-> "new", id |-> id, kind |-> kind]
  BY <1>a
<1>6. kind # "val" => n = 1
  BY <1>1, <1>a
<1>7. kind = "val" =>
        /\ n = 3
        /\ made[2] = [name |-> "new", id |-> At(id, 1), kind |-> "con"]
        /\ made[3] = [name |-> "ins_val", id |-> At(id, 2), obj |-> id, val |-> At(id, 1)]
  BY ONLY <1>1, <1>a
<1> DEFINE IsNew(o) == o.name = "new" /\ o.id \in {id, At(id, 1)} /\ (o.id = At(id, 1) => n = 3) /\ o.kind \in AllKinds
           IsInner(o) == /\ o = [name |-> "ins_val", id |-> At(id, 2), obj |-> id, val |-> At(id, 1)]
                         /\ n = 3
<1>8. \A o \in New(s) : IsNew(o) \/ IsInner(o) \/ o = op
  <2> SUFFICES ASSUME NEW i \in 1..(n + 1) PROVE IsNew(s[i]) \/ IsInner(s[i]) \/ s[i] = op
    BY <1>3 DEF New
  <2>1. CASE i = n + 1
    BY <1>3, <2>1
  <2>2. CASE i = 1
    BY <1>2, <1>3, <1>4, <1>5, <2>2
  <2>3. CASE i # n + 1 /\ i # 1
    <3>1. n = 3 /\ kind = "val"
      BY <1>2, <1>6, <1>7, <2>3
    <3>2. i = 2 \/ i = 3
      BY <2>3, <3>1
    <3>3. CASE i = 2
      BY <1>3, <1>7, <3>1, <3>3 DEF AllKinds
    <3>4. CASE i = 3
      BY <1>3, <1>7, <3>1, <3>4
    <3> QED
      BY <3>2, <3>3, <3>4
  <2> QED
    BY <2>1, <2>2, <2>3
<1>9. ASSUME NEW o \in New(s)
      PROVE  /\ OpOK(o)
             /\ o.name = "new" => o.id.sid = r /\ o.id.time < t + Len(s)
             /\ Puts(o) => o.val.sid = r /\ t <= o.val.time /\ o.val.time < t + Len(s)
             /\ o.name = "ins_arr" => o.id.sid = r /\ t < o.id.time /\ o.id.time < t + Len(s)
  <2>1. CASE IsNew(o)
    <3>1. o.id \in Stamp /\ o.id.sid = r /\ o.id.time < t + Len(s)
      BY <1>2, <1>3, <1>4, <2>1
    <3> QED
      BY <2>1, <3>1 DEF OpOK, Puts
  <2>2. CASE IsInner(o)
    <3>1. o.name = "ins_val" /\ o.obj = id /\ o.val = At(id, 1)
      BY <2>2
    <3>2. o.obj \in Stamp /\ o.val \in Stamp /\ o.obj.time < o.val.time
      BY <1>4, <3>1
    <3>3. Len(s) = 4
      BY <1>3, <2>2
    <3> QED
      BY <1>4, <3>1, <3>2, <3>3 DEF OpOK, Puts
  <2>3. CASE o = op
    <3>1. op.name # "new"
      BY <1>o DEF Puts
    <3> QED
      BY <1>1, <1>2, <1>3, <1>4, <1>o, <2>3, <3>1
  <2> QED
    BY <1>8, <2>1, <2>2, <2>3
<1>10. ASSUME NEW a \in New(s), NEW b \in New(s), Puts(a), Puts(b), a.val = b.val PROVE a = b
  <2>1. ~IsNew(a) /\ ~IsNew(b)
    BY <1>10 DEF Puts
  <2>2. id # At(id, 1)
    BY <1>4
  <2> QED
    BY <1>8, <1>10, <1>o, <2>1, <2>2
<1>11. ASSUME NEW a \in New(s), NEW b \in New(s), a.name = "ins_arr", b.name = "ins_arr" PROVE a = b
  BY <1>8, <1>11
<1> QED
  BY <1>1, <1>3, <1>9, <1>10, <1>11 DEF Made

-----------------------------------------------------------------------------
(* The invariant is kept.                                                  *)

\* What is left to show of a step of r: the other replicas stay.
LEMMA StepOK ==
  ASSUME IndInv, kinds' = kinds, NEW r \in Sid,
         \A p \in patches' : PatchOK(p),
         NEW ops, OpsOf(patches) \subseteq ops, OpsOf(patches') = ops, OpsOK(ops),
         NEW t \in Nat, time[r] <= t, time' = [time EXCEPT ![r] = t],
         \A op \in ops : OpBelow(op, r, t) /\ \A q \in Sid \ {r} : OpBelow(op, q, time[q]),
         NEW ix, Well(ix, ops, t), Whole(ix), index' = [index EXCEPT ![r] = ix]
  PROVE  IndInv'
<1>1. kinds' \in Docs
  BY DEF IndInv
<1>2. time' = [q \in Sid |-> IF q = r THEN t ELSE time[q]] /\ \A q \in Sid : time[q] \in Nat
  BY DEF IndInv
<1>3. time' = [q \in Sid |-> time'[q]] /\ \A q \in Sid : time'[q] \in Nat
  BY <1>2
<1>4. index' = [q \in Sid |-> IF q = r THEN ix ELSE index[q]]
  BY DEF IndInv
<1>5. index' = [q \in Sid |-> index'[q]]
  BY <1>4
<1>6. \A op \in OpsOf(patches'), q \in Sid : OpBelow(op, q, time'[q])
  BY <1>2
<1>7. ASSUME NEW q \in Sid PROVE Well(index'[q], ops, time'[q]) /\ Whole(index'[q])
  <2>1. CASE q = r
    BY <1>2, <1>4, <2>1
  <2>2. CASE q # r
    <3>1. Well(index[q], OpsOf(patches), time[q]) /\ Whole(index[q])
      BY DEF IndInv
    <3>2. PICK old, u, x : old = OpsOf(patches) /\ u = time[q] /\ x = index[q]
      OBVIOUS
    <3>3. Well(x, old, u) /\ old \subseteq ops /\ u \in Nat /\ u <= u
      BY <1>2, <3>1, <3>2
    <3>4. Well(x, ops, u)
      BY <3>3, Grown
    <3> QED
      BY <1>2, <1>4, <2>2, <3>1, <3>2, <3>4
  <2> QED
    BY <2>1, <2>2
<1>8. OpsOK(OpsOf(patches'))
  OBVIOUS
<1>9. \A q \in Sid : Well(index'[q], OpsOf(patches'), time'[q]) /\ Whole(index'[q])
  BY <1>7
<1> QED
  BY <1>1, <1>3, <1>5, <1>6, <1>8, <1>9 DEF IndInv

LEMMA PublishOK ==
  ASSUME IndInv, NEW r \in Sid, NEW s, Made(s, r, time[r]), Publish(r, s)
  PROVE  IndInv'
<1>1. PICK t, ix, old : t = time[r] /\ ix = index[r] /\ old = OpsOf(patches)
  OBVIOUS
<1>2. PICK p : p = [id |-> NextId(r), ops |-> s, deps |-> seen[r]]
  OBVIOUS
<1>3. /\ t \in Nat /\ OpsOK(old) /\ Well(ix, old, t) /\ Whole(ix)
      /\ \A o \in old, q \in Sid : OpBelow(o, q, time[q])
      /\ \A x \in patches : PatchOK(x)
  BY <1>1 DEF IndInv
<1>4. p.ops = s /\ p.id.time = t
  BY <1>1, <1>2 DEF NextId
<1>5. /\ kinds' = kinds
      /\ patches' = patches \cup {p}
      /\ index' = [index EXCEPT ![r] = ApplyPatch(ix, p)]
      /\ time' = [time EXCEPT ![r] = t + Len(s)]
  BY <1>1, <1>2 DEF Publish
<1>6. Made(s, r, t)
  BY <1>1
<1>7. Len(s) \in Nat /\ IsSeq(s)
  BY <1>6 DEF Made, IsSeq
<1>8. PICK u : u = t + Len(s)
  OBVIOUS
<1>9. u \in Nat /\ t <= u
  BY <1>3, <1>7, <1>8
<1>10. PICK ops : ops = old \cup New(s)
  OBVIOUS
<1>11. OpsOf(patches') = ops
  BY <1>1, <1>4, <1>5, <1>10 DEF OpsOf, New
<1>12. \A o \in old : OpBelow(o, r, t)
  BY <1>1, <1>3
<1>13. /\ OpsOK(ops)
       /\ \A o \in New(s) : OpBelow(o, r, u) /\ \A q \in Sid \ {r} : \A w : OpBelow(o, q, w)
  BY <1>3, <1>6, <1>8, <1>10, <1>12, MadeOK
<1>14. \A o \in old : OpBelow(o, r, u)
  <2> SUFFICES ASSUME NEW o \in old PROVE OpBelow(o, r, u)
    OBVIOUS
  <2>1. OpBelow(o, r, t) /\ OpOK(o)
    BY <1>3, <1>12 DEF OpsOK
  <2>2. /\ o.name = "new" => o.id.time \in Nat
        /\ o.name = "ins_arr" => o.id.time \in Nat
        /\ Puts(o) => o.val.time \in Nat
    BY <2>1, StampFacts DEF OpOK
  <2> QED
    BY <1>3, <1>9, <2>1, <2>2 DEF OpBelow
<1>15. \A o \in ops : OpBelow(o, r, u) /\ \A q \in Sid \ {r} : OpBelow(o, q, time[q])
  BY <1>3, <1>10, <1>13, <1>14
<1>16. PatchOK(p)
  <2>1. \A i \in 1..Len(s) : s[i].name = "new" => s[i].id.time < t + Len(s)
    BY <1>6 DEF Made, New
  <2> QED
    BY <1>3, <1>4, <1>7, <2>1 DEF PatchOK
<1>17. Well(ix, ops, u)
  BY <1>3, <1>9, <1>10, Grown
<1>18. /\ \A i \in 1..Len(p.ops) : p.ops[i] \in ops
       /\ \A i \in 1..Len(p.ops) : p.ops[i].name = "new" => p.ops[i].id.time < u
       /\ Len(p.ops) \in Nat
  BY <1>4, <1>6, <1>7, <1>8, <1>10 DEF Made, New
<1>19. PICK after : after = ApplyPatch(ix, p)
  OBVIOUS
<1>20. Well(after, ops, u) /\ Whole(after)
  BY <1>3, <1>9, <1>13, <1>17, <1>18, <1>19, ApplyPatchOK
<1>21. \A x \in patches' : PatchOK(x)
  BY <1>3, <1>5, <1>16
<1>22. OpsOf(patches) \subseteq ops /\ time[r] <= u
  BY <1>1, <1>9, <1>10
<1>23. time' = [time EXCEPT ![r] = u] /\ index' = [index EXCEPT ![r] = after]
  BY <1>5, <1>8, <1>19
<1> QED
  BY <1>5, <1>9, <1>11, <1>13, <1>15, <1>20, <1>21, <1>22, <1>23, StepOK

\* The operation that puts a value in place
Placed(id, n, place) ==
  LET fields == [id |-> At(id, n), val |-> id]
  IN  [x \in DOMAIN place \cup DOMAIN fields |-> IF x \in DOMAIN place THEN place[x] ELSE fields[x]]

LEMMA PlacedFields ==
  ASSUME NEW id, NEW n, NEW place, NEW op, op = Placed(id, n, place),
         NEW obj, NEW name
  PROVE  /\ place = [name |-> name, obj |-> obj] => op.name = name /\ op.obj = obj /\ op.val = id
         /\ \A k : place = [name |-> name, obj |-> obj, key |-> k] =>
              op.name = name /\ op.obj = obj /\ op.val = id /\ op.key = k
         /\ \A i : place = [name |-> name, obj |-> obj, index |-> i] =>
              op.name = name /\ op.obj = obj /\ op.val = id /\ op.index = i
         /\ \A ref : place = [name |-> name, obj |-> obj, ref |-> ref] =>
              op.name = name /\ op.obj = obj /\ op.val = id /\ op.ref = ref /\ op.id = At(id, n)
<1>1. PICK fields : fields = [id |-> At(id, n), val |-> id]
  OBVIOUS
<1>2. DOMAIN fields = {"id", "val"} /\ fields["id"] = At(id, n) /\ fields["val"] = id
  BY <1>1
<1>3. op = [x \in DOMAIN place \cup {"id", "val"} |-> IF x \in DOMAIN place THEN place[x] ELSE fields[x]]
  BY <1>1, <1>2 DEF Placed
<1>4. ASSUME place = [name |-> name, obj |-> obj]
      PROVE  op.name = name /\ op.obj = obj /\ op.val = id
  <2>1. DOMAIN place = {"name", "obj"} /\ place["name"] = name /\ place["obj"] = obj
    BY <1>4
  <2> QED
    BY ONLY <1>2, <1>3, <2>1
<1>5. ASSUME NEW k, place = [name |-> name, obj |-> obj, key |-> k]
      PROVE  op.name = name /\ op.obj = obj /\ op.val = id /\ op.key = k
  <2>1. DOMAIN place = {"name", "obj", "key"} /\ place["name"] = name /\ place["obj"] = obj /\ place["key"] = k
    BY <1>5
  <2> QED
    BY ONLY <1>2, <1>3, <2>1
<1>6. ASSUME NEW i, place = [name |-> name, obj |-> obj, index |-> i]
      PROVE  op.name = name /\ op.obj = obj /\ op.val = id /\ op.index = i
  <2>1. DOMAIN place = {"name", "obj", "index"} /\ place["name"] = name /\ place["obj"] = obj /\ place["index"] = i
    BY <1>6
  <2> QED
    BY ONLY <1>2, <1>3, <2>1
<1>7. ASSUME NEW ref, place = [name |-> name, obj |-> obj, ref |-> ref]
      PROVE  op.name = name /\ op.obj = obj /\ op.val = id /\ op.ref = ref /\ op.id = At(id, n)
  <2>1. DOMAIN place = {"name", "obj", "ref"} /\ place["name"] = name /\ place["obj"] = obj /\ place["ref"] = ref
    BY <1>7
  <2> QED
    BY ONLY <1>2, <1>3, <2>1
<1> QED
  BY <1>4, <1>5, <1>6, <1>7

LEMMA PutInPlaceOK ==
  ASSUME IndInv, NEW r \in Sid, NEW kind \in AllKinds, NEW place,
         NEW op, op = Placed(NextId(r), Len(Make(NextId(r), kind)), place),
         OpOK(op), Puts(op), op.val = NextId(r),
         op.name = "ins_arr" => op.id = At(NextId(r), Len(Make(NextId(r), kind))),
         PutInPlace(r, kind, place)
  PROVE  IndInv'
<1>1. PICK s, t : s = Append(Make(NextId(r), kind), op) /\ t = time[r]
  OBVIOUS
<1>2. MadeAndPlaced(s, r, t, kind, op)
  BY <1>1 DEF MadeAndPlaced, NextId
<1>3. t \in Nat
  BY <1>1 DEF IndInv
<1>4. Made(s, r, t)
  BY <1>2, <1>3, PlacedOK
<1>5. Publish(r, s)
  BY <1>1 DEF PutInPlace, Placed
<1> QED
  BY <1>1, <1>4, <1>5, PublishOK

\* What is live is in the index, and older than what is made now.
LEMMA LiveOK ==
  ASSUME IndInv, NEW r \in Sid, NEW kind, NEW x \in LiveOf(r, kind)
  PROVE  /\ x \in DOMAIN index[r] /\ index[r][x].kind = kind /\ x \in Stamp \cup {Root}
         /\ x.time \in Nat /\ time[r] \in Nat /\ x.time < time[r]
         /\ NodeOK(x, index[r][x], OpsOf(patches))
<1>1. PICK ops, t, ix : ops = OpsOf(patches) /\ t = time[r] /\ ix = index[r]
  OBVIOUS
<1>2. OpsOK(ops) /\ t \in Nat /\ Well(ix, ops, t)
  BY <1>1 DEF IndInv
<1>3. Root \in DOMAIN ix
  BY <1>2 DEF Well
<1>4. Tree(ix, Root) \subseteq DOMAIN ix
  BY <1>2, <1>3, TreeOK
<1>5. x \in DOMAIN ix /\ ix[x].kind = kind
  BY <1>1, <1>4 DEF LiveOf, Live
<1>6. x \in Stamp \cup {Root} /\ x.time \in Nat /\ x.time < t
  BY <1>2, <1>5, WellTimes
<1>7. NodeOK(x, ix[x], ops)
  BY <1>2, <1>5 DEF Well
<1> QED
  BY <1>1, <1>2, <1>5, <1>6, <1>7

LEMMA NextIdOK ==
  ASSUME IndInv, NEW r \in Sid
  PROVE  NextId(r) \in Stamp /\ NextId(r).time = time[r] /\ NextId(r).sid = r
BY DEF NextId, IndInv, Stamp

LEMMA SetValOK ==
  ASSUME IndInv, NEW r \in Sid, NEW kind \in AllKinds, NEW x, SetVal(r, x, kind)
  PROVE  IndInv'
<1>1. PICK place : place = [name |-> "ins_val", obj |-> x]
  OBVIOUS
<1>2. PICK op : op = Placed(NextId(r), Len(Make(NextId(r), kind)), place)
  OBVIOUS
<1>3. op.name = "ins_val" /\ op.obj = x /\ op.val = NextId(r)
  BY <1>1, <1>2, PlacedFields
<1>4. x \in Stamp \cup {Root} /\ x.time < time[r] /\ NextId(r) \in Stamp /\ NextId(r).time = time[r]
  BY LiveOK, NextIdOK DEF SetVal
<1>5. OpOK(op) /\ Puts(op)
  BY <1>3, <1>4 DEF OpOK, Puts
<1>6. PutInPlace(r, kind, place)
  BY <1>1 DEF SetVal
<1> QED
  BY <1>2, <1>3, <1>5, <1>6, PutInPlaceOK

LEMMA SetKeyOK ==
  ASSUME IndInv, NEW r \in Sid, NEW kind \in AllKinds, NEW x, NEW k \in Keys, SetKey(r, x, k, kind)
  PROVE  IndInv'
<1>1. PICK place : place = [name |-> "ins_obj", obj |-> x, key |-> k]
  OBVIOUS
<1>2. PICK op : op = Placed(NextId(r), Len(Make(NextId(r), kind)), place)
  OBVIOUS
<1>3. op.name = "ins_obj" /\ op.obj = x /\ op.val = NextId(r) /\ op.key = k
  BY <1>1, <1>2, PlacedFields
<1>4. x \in Stamp \cup {Root} /\ x.time < time[r] /\ NextId(r) \in Stamp /\ NextId(r).time = time[r]
  BY LiveOK, NextIdOK DEF SetKey
<1>5. OpOK(op) /\ Puts(op)
  BY <1>3, <1>4 DEF OpOK, Puts
<1>6. PutInPlace(r, kind, place)
  BY <1>1 DEF SetKey
<1> QED
  BY <1>2, <1>3, <1>5, <1>6, PutInPlaceOK

LEMMA SetIndexOK ==
  ASSUME IndInv, NEW r \in Sid, NEW kind \in AllKinds, NEW x, NEW i \in Nat, SetIndex(r, x, i, kind)
  PROVE  IndInv'
<1>1. PICK place : place = [name |-> "ins_vec", obj |-> x, index |-> i]
  OBVIOUS
<1>2. PICK op : op = Placed(NextId(r), Len(Make(NextId(r), kind)), place)
  OBVIOUS
<1>3. op.name = "ins_vec" /\ op.obj = x /\ op.val = NextId(r) /\ op.index = i
  BY <1>1, <1>2, PlacedFields
<1>4. x \in Stamp \cup {Root} /\ x.time < time[r] /\ NextId(r) \in Stamp /\ NextId(r).time = time[r]
  BY LiveOK, NextIdOK DEF SetIndex
<1>5. OpOK(op) /\ Puts(op)
  BY <1>3, <1>4 DEF OpOK, Puts
<1>6. PutInPlace(r, kind, place)
  BY <1>1 DEF SetIndex
<1> QED
  BY <1>2, <1>3, <1>5, <1>6, PutInPlaceOK

\* The slots shown are identifiers.
LEMMA SlotsOK ==
  ASSUME IndInv, NEW r \in Sid, NEW x \in LiveOf(r, "arr")
  PROVE  Slots(index[r], x) \subseteq Stamp
<1>1. PICK ops, n : ops = OpsOf(patches) /\ n = index[r][x]
  OBVIOUS
<1>2. NodeOK(x, n, ops) /\ n.kind = "arr" /\ OpsOK(ops)
  BY <1>1, LiveOK DEF IndInv
<1>3. Shown(n.rga) \subseteq Stamp
  BY <1>2, ShownValues
<1> QED
  BY <1>1, <1>3 DEF Slots

LEMMA InsSlotOK ==
  ASSUME IndInv, NEW r \in Sid, NEW kind \in AllKinds, NEW x, NEW ref, InsSlot(r, x, ref, kind)
  PROVE  IndInv'
<1>1. PICK place : place = [name |-> "ins_arr", obj |-> x, ref |-> ref]
  OBVIOUS
<1>n. PICK n : n = Len(Make(NextId(r), kind))
  OBVIOUS
<1>2. PICK op : op = Placed(NextId(r), n, place)
  OBVIOUS
<1>3. op.name = "ins_arr" /\ op.obj = x /\ op.val = NextId(r) /\ op.ref = ref /\ op.id = At(NextId(r), n)
  BY <1>1, <1>2, PlacedFields
<1>4. x \in Stamp \cup {Root} /\ x.time < time[r] /\ NextId(r) \in Stamp /\ NextId(r).time = time[r]
  BY LiveOK, NextIdOK DEF InsSlot
<1>5. ref \in Stamp \cup {Root}
  BY SlotsOK DEF InsSlot
<1>6. At(NextId(r), n) \in Stamp
  <2>1. PICK id, t : id = NextId(r) /\ t = time[r]
    OBVIOUS
  <2>2. id = [sid |-> r, time |-> t] /\ t \in Nat
    BY <2>1 DEF NextId, IndInv
  <2>3. n \in Nat
    <3>1. PICK made : made = Make(id, kind)
      OBVIOUS
    <3>2. Len(made) \in Nat
      BY <3>1, MakeOK
    <3> QED
      BY <1>n, <2>1, <3>1, <3>2
  <2>4. At([sid |-> r, time |-> t], n) \in Stamp
    BY <2>2, <2>3, AtFacts
  <2> QED
    BY <2>1, <2>2, <2>4
<1>7. OpOK(op) /\ Puts(op)
  BY <1>3, <1>4, <1>5, <1>6 DEF OpOK, Puts
<1>8. PutInPlace(r, kind, place)
  BY <1>1 DEF InsSlot
<1> QED
  BY <1>n, <1>2, <1>3, <1>7, <1>8, PutInPlaceOK

LEMMA UpdSlotOK ==
  ASSUME IndInv, NEW r \in Sid, NEW kind \in AllKinds, NEW x, NEW ref, UpdSlot(r, x, ref, kind)
  PROVE  IndInv'
<1>1. PICK place : place = [name |-> "upd_arr", obj |-> x, ref |-> ref]
  OBVIOUS
<1>2. PICK op : op = Placed(NextId(r), Len(Make(NextId(r), kind)), place)
  OBVIOUS
<1>3. op.name = "upd_arr" /\ op.obj = x /\ op.val = NextId(r) /\ op.ref = ref
  BY <1>1, <1>2, PlacedFields
<1>4. x \in Stamp \cup {Root} /\ x.time < time[r] /\ NextId(r) \in Stamp /\ NextId(r).time = time[r]
  BY LiveOK, NextIdOK DEF UpdSlot
<1>5. ref \in Stamp \cup {Root}
  BY SlotsOK DEF UpdSlot
<1>6. OpOK(op) /\ Puts(op)
  BY <1>3, <1>4, <1>5 DEF OpOK, Puts
<1>7. PutInPlace(r, kind, place)
  BY <1>1 DEF UpdSlot
<1> QED
  BY <1>2, <1>3, <1>6, <1>7, PutInPlaceOK

LEMMA DelSlotOK ==
  ASSUME IndInv, NEW r \in Sid, NEW x, NEW ref, DelSlot(r, x, ref)
  PROVE  IndInv'
<1>1. PICK op : op = [name |-> "del", id |-> NextId(r), obj |-> x, ref |-> ref]
  OBVIOUS
<1>2. PICK s : s = <<op>>
  OBVIOUS
<1>3. op.name = "del" /\ op.ref = ref
  BY <1>1
<1>4. ref \in Stamp
  BY SlotsOK DEF DelSlot
<1>5. OpOK(op) /\ ~Puts(op)
  BY <1>3, <1>4 DEF OpOK, Puts
<1>6. IsSeq(s) /\ New(s) = {op}
  <2>1. Len(s) = 1 /\ s[1] = op /\ s = [i \in 1..1 |-> s[i]]
    BY <1>2
  <2> QED
    BY <2>1 DEF IsSeq, New
<1>7. Made(s, r, time[r])
  BY <1>3, <1>5, <1>6 DEF Made
<1>8. Publish(r, s)
  BY <1>1, <1>2 DEF DelSlot
<1> QED
  BY <1>7, <1>8, PublishOK

LEMMA DeliverOK ==
  ASSUME IndInv, NEW r \in Sid, NEW p \in patches, Deliver(r, p)
  PROVE  IndInv'
<1>1. PICK t, ix, ops : t = time[r] /\ ix = index[r] /\ ops = OpsOf(patches)
  OBVIOUS
<1>2. /\ t \in Nat /\ OpsOK(ops) /\ Well(ix, ops, t) /\ Whole(ix)
      /\ \A o \in ops, q \in Sid : OpBelow(o, q, time[q])
      /\ \A x \in patches : PatchOK(x)
  BY <1>1 DEF IndInv
<1>3. PICK u : u = Larger(t, p.id.time + Len(p.ops))
  OBVIOUS
<1>4. PICK after : after = ApplyPatch(ix, p)
  OBVIOUS
<1>5. /\ kinds' = kinds /\ patches' = patches
      /\ index' = [index EXCEPT ![r] = after]
      /\ time' = [time EXCEPT ![r] = u]
  BY <1>1, <1>3, <1>4 DEF Deliver
<1>6. /\ p.id.time \in Nat /\ Len(p.ops) \in Nat
      /\ \A i \in 1..Len(p.ops) : p.ops[i].name = "new" => p.ops[i].id.time < p.id.time + Len(p.ops)
  BY <1>2 DEF PatchOK, IsSeq
<1>7. u \in Nat /\ t <= u /\ p.id.time + Len(p.ops) <= u
  BY <1>2, <1>3, <1>6 DEF Larger
<1>8. \A i \in 1..Len(p.ops) : p.ops[i] \in ops
  BY <1>1 DEF OpsOf
<1>9. \A i \in 1..Len(p.ops) : p.ops[i].name = "new" => p.ops[i].id.time < u
  <2> SUFFICES ASSUME NEW i \in 1..Len(p.ops), p.ops[i].name = "new" PROVE p.ops[i].id.time < u
    OBVIOUS
  <2>1. OpOK(p.ops[i])
    BY <1>2, <1>8 DEF OpsOK
  <2>2. p.ops[i].id \in Stamp
    BY <2>1 DEF OpOK
  <2>3. p.ops[i].id.time \in Nat
    BY <2>2, StampFacts
  <2> QED
    BY <1>6, <1>7, <2>3
<1>10. Well(ix, ops, u)
  BY <1>2, <1>7, Grown
<1>11. Well(after, ops, u) /\ Whole(after)
  BY <1>2, <1>4, <1>6, <1>7, <1>8, <1>9, <1>10, ApplyPatchOK
<1>12. \A o \in ops : OpBelow(o, r, u) /\ \A q \in Sid \ {r} : OpBelow(o, q, time[q])
  <2> SUFFICES ASSUME NEW o \in ops PROVE OpBelow(o, r, u)
    BY <1>2
  <2>1. OpBelow(o, r, t) /\ OpOK(o)
    BY <1>1, <1>2 DEF OpsOK
  <2>2. /\ o.name = "new" => o.id.time \in Nat
        /\ o.name = "ins_arr" => o.id.time \in Nat
        /\ Puts(o) => o.val.time \in Nat
    BY <2>1, StampFacts DEF OpOK
  <2> QED
    BY <1>2, <1>7, <2>1, <2>2 DEF OpBelow
<1>13. OpsOf(patches') = ops /\ OpsOf(patches) \subseteq ops /\ time[r] <= u /\ \A x \in patches' : PatchOK(x)
  BY <1>1, <1>2, <1>5, <1>7
<1> QED
  BY <1>2, <1>5, <1>7, <1>11, <1>12, <1>13, StepOK

LEMMA ReloadOK ==
  ASSUME IndInv, NEW r \in Sid, Reload(r)
  PROVE  IndInv'
<1>1. PICK t, ix, ops : t = time[r] /\ ix = index[r] /\ ops = OpsOf(patches)
  OBVIOUS
<1>2. /\ t \in Nat /\ OpsOK(ops) /\ Well(ix, ops, t) /\ Whole(ix)
      /\ \A o \in ops, q \in Sid : OpBelow(o, q, time[q])
      /\ \A x \in patches : PatchOK(x)
      /\ time = [q \in Sid |-> time[q]]
  BY <1>1 DEF IndInv
<1>3. PICK live : live = Tree(ix, Root)
  OBVIOUS
<1>4. /\ live \subseteq DOMAIN ix /\ Root \in live
      /\ \A x \in live : Values(ix[x]) \cap DOMAIN ix \subseteq live
  <2>1. Root \in DOMAIN ix
    BY <1>2 DEF Well
  <2> QED
    BY <1>2, <1>3, <2>1, TreeOK
<1>5. PICK p : p = [x \in live |-> [ix[x] EXCEPT !.rga = Ingest(@)]]
  OBVIOUS
<1>6. \A x \in live : p[x] = ix[x]
  <2> SUFFICES ASSUME NEW x \in live PROVE p[x] = ix[x]
    OBVIOUS
  <2>1. PICK n : n = ix[x]
    OBVIOUS
  <2>2. NodeOK(x, n, ops)
    BY <1>2, <1>4, <2>1 DEF Well
  <2>3. Ingest(n.rga) = n.rga
    <3>1. IsArray(n.rga, ops)
      BY <2>2 DEF NodeOK
    <3> QED
      BY <1>2, <3>1, IngestOK
  <2>4. p[x] = [n EXCEPT !.rga = n.rga]
    BY <1>5, <2>1, <2>3
  <2>5. [n EXCEPT !.rga = n.rga] = [kind |-> n.kind, keys |-> n.keys, elements |-> n.elements,
                                    val |-> n.val, rga |-> n.rga, slot |-> n.slot]
    BY <2>2, NodeParts
  <2>6. n = [kind |-> n.kind, keys |-> n.keys, elements |-> n.elements,
             val |-> n.val, rga |-> n.rga, slot |-> n.slot]
    BY <2>2 DEF NodeOK
  <2> QED
    BY <2>1, <2>4, <2>5, <2>6
<1>7. DOMAIN p = live /\ p = [x \in live |-> p[x]]
  BY <1>5
<1>8. Well(p, ops, t)
  <2>1. IsFcn(p)
    BY <1>7 DEF IsFcn
  <2> QED
    BY <1>2, <1>4, <1>6, <1>7, <2>1 DEF Well
<1>9. Whole(p)
  BY <1>2, <1>4, <1>6, <1>7 DEF Whole
<1>10. /\ kinds' = kinds /\ patches' = patches /\ time' = time
       /\ index' = [index EXCEPT ![r] = p]
  <2>1. p = [x \in Live(r) |-> [index[r][x] EXCEPT !.rga = Ingest(index[r][x].rga)]]
    BY <1>1, <1>3, <1>5 DEF Live
  <2>2. /\ kinds' = kinds /\ patches' = patches /\ time' = time
        /\ index' = [index EXCEPT ![r] = [x \in Live(r) |-> [index[r][x] EXCEPT !.rga = Ingest(index[r][x].rga)]]]
    BY DEF Reload
  <2> QED
    BY <2>1, <2>2
<1>11. time' = [time EXCEPT ![r] = t] /\ time[r] <= t
  BY <1>1, <1>2, <1>10
<1>12. \A o \in ops : OpBelow(o, r, t) /\ \A q \in Sid \ {r} : OpBelow(o, q, time[q])
  BY <1>1, <1>2
<1>13. OpsOf(patches') = ops /\ OpsOf(patches) \subseteq ops /\ \A x \in patches' : PatchOK(x)
  BY <1>1, <1>2, <1>10
<1> QED
  BY <1>2, <1>8, <1>9, <1>10, <1>11, <1>12, <1>13, StepOK

LEMMA InitOK ==
  ASSUME Init
  PROVE  IndInv
<1>1. PICK doc, author : doc = kinds /\ author = Min(Sid)
  OBVIOUS
<1>2. author \in Sid /\ author \in Nat
  <2>1. Sid \in SUBSET Nat /\ Sid # {}
    BY SidAssumption, SidsAssumption
  <2> QED
    BY <1>1, <2>1, MinOK
<1>3. doc \in Docs /\ doc \subseteq AllKinds
  BY <1>1, DocsAssumption DEF Init
<1>4. PICK kind : kind = First(doc)
  OBVIOUS
<1>5. kind \in AllKinds
  <2>1. CASE doc \cap {"arr", "vec"} = {}
    BY <1>4, <2>1 DEF First, AllKinds
  <2>2. CASE doc \cap {"arr", "vec"} # {}
    <3>1. \E k \in doc : k \in {"arr", "vec"}
      BY <2>2
    <3>2. kind = CHOOSE k \in doc : k \in {"arr", "vec"}
      BY <1>4, <2>2 DEF First
    <3> QED
      BY <3>1, <3>2 DEF AllKinds
  <2> QED
    BY <2>1, <2>2
<1>6. PICK id, t : id = [sid |-> author, time |-> 1] /\ t = 1
  OBVIOUS
<1>7. PICK made : made = Make(id, kind)
  OBVIOUS
<1>8. PICK op : op = [name |-> "ins_val", id |-> At(id, Len(made)), obj |-> Root, val |-> id]
  OBVIOUS
<1>9. op.name = "ins_val" /\ op.obj = Root /\ op.val = id
  BY <1>8
<1>10. id \in Stamp /\ id.time = 1 /\ Root.time = 0
  BY <1>2, <1>6 DEF Stamp, Root
<1>11. OpOK(op) /\ Puts(op)
  BY <1>9, <1>10 DEF OpOK, Puts
<1>12. PICK s : s = Append(made, op)
  OBVIOUS
<1>13. t \in Nat /\ id = [sid |-> author, time |-> t] /\ op.val = id /\ op.name # "ins_arr"
  BY <1>6, <1>9
<1>14. Made(s, author, t)
  <2>1. MadeAndPlaced(s, author, t, kind, op)
    BY <1>7, <1>11, <1>12, <1>13 DEF MadeAndPlaced
  <2> QED
    BY <1>2, <1>5, <1>13, <2>1, PlacedOK
<1>15. PICK p : p = FirstPatch(doc)
  OBVIOUS
<1>16. p = [id |-> id, ops |-> s, deps |-> {}]
  BY <1>1, <1>4, <1>6, <1>7, <1>8, <1>12, <1>15 DEF FirstPatch
<1>17. p.id = id /\ p.ops = s
  BY <1>16
<1>18. PICK ops : ops = New(s)
  OBVIOUS
<1>19. /\ OpsOK(ops)
       /\ \A o \in New(s) : OpBelow(o, author, t + Len(s)) /\ \A q \in Sid \ {author} : \A u : OpBelow(o, q, u)
  <2>1. OpsOK({}) /\ \A o \in {} : OpBelow(o, author, t)
    BY DEF OpsOK
  <2>2. PICK none : none = {}
    OBVIOUS
  <2>3. OpsOK(none) /\ \A o \in none : OpBelow(o, author, t)
    BY <2>1, <2>2
  <2>4. none \cup New(s) = ops
    BY <1>18, <2>2
  <2>5. /\ OpsOK(none \cup New(s))
        /\ \A o \in New(s) : OpBelow(o, author, t + Len(s)) /\ \A q \in Sid \ {author} : \A u : OpBelow(o, q, u)
    BY <1>2, <1>13, <1>14, <2>3, MadeOK
  <2> QED
    BY <2>4, <2>5
<1>20. Len(s) \in Nat /\ IsSeq(s)
  BY <1>14 DEF Made, IsSeq
<1>21. PICK end : end = t + Len(s)
  OBVIOUS
<1>22. end \in Nat /\ end > 0
  BY <1>13, <1>20, <1>21, <1>6
<1>23. PICK ix : ix = [x \in {Root} |-> NewNode("val")]
  OBVIOUS
<1>24. Well(ix, ops, end) /\ Whole(ix)
  <2>1. NodeOK(Root, NewNode("val"), ops) /\ Values(NewNode("val")) = {}
    BY NewNodeOK DEF AllKinds
  <2>2. DOMAIN ix = {Root} /\ ix[Root] = NewNode("val") /\ IsFcn(ix)
    BY <1>23 DEF IsFcn
  <2>3. Root.time < end
    BY <1>10, <1>22
  <2> QED
    BY <2>1, <2>2, <2>3 DEF Well, Whole
<1>25. PICK after : after = ApplyPatch(ix, p)
  OBVIOUS
<1>26. /\ \A i \in 1..Len(p.ops) : p.ops[i] \in ops
       /\ \A i \in 1..Len(p.ops) : p.ops[i].name = "new" => p.ops[i].id.time < end
       /\ Len(p.ops) \in Nat
  BY <1>14, <1>17, <1>18, <1>20, <1>21 DEF Made, New
<1>27. Well(after, ops, end) /\ Whole(after)
  BY <1>19, <1>22, <1>24, <1>25, <1>26, ApplyPatchOK
<1>28. PatchOK(p)
  <2>1. p.id.time \in Nat /\ p.id.time = t
    BY <1>6, <1>17
  <2> QED
    BY <1>17, <1>20, <1>21, <1>26, <2>1 DEF PatchOK
<1>29. /\ index = [q \in Sid |-> after] /\ time = [q \in Sid |-> end] /\ patches = {p}
  BY <1>1, <1>6, <1>15, <1>17, <1>21, <1>23, <1>25 DEF Init
<1>30. OpsOf(patches) = ops
  BY <1>17, <1>18, <1>29 DEF OpsOf, New
<1>31. \A o \in ops, q \in Sid : OpBelow(o, q, end)
  BY <1>18, <1>19, <1>21
<1>32. time = [q \in Sid |-> time[q]] /\ index = [q \in Sid |-> index[q]]
  BY <1>29
<1>33. \A q \in Sid : time[q] = end /\ index[q] = after
  BY <1>29
<1> QED
  BY <1>1, <1>3, <1>19, <1>22, <1>27, <1>28, <1>29, <1>30, <1>31, <1>32, <1>33 DEF IndInv

LEMMA NextOK ==
  ASSUME IndInv, [Next]_vars
  PROVE  IndInv'
<1>1. \A kind \in kinds : kind \in AllKinds
  BY DocsAssumption DEF IndInv
<1>2. 0..MaxIndex \subseteq Nat
  BY MaxIndexAssumption
<1>3. ASSUME NEW r \in Sid, Edit(r) PROVE IndInv'
  <2>1. CASE \E node \in LiveOf(r, "val"), kind \in kinds : SetVal(r, node, kind)
    BY <1>1, <2>1, SetValOK
  <2>2. CASE \E obj \in LiveOf(r, "obj"), k \in Keys, kind \in kinds : SetKey(r, obj, k, kind)
    BY <1>1, <2>2, SetKeyOK
  <2>3. CASE \E vec \in LiveOf(r, "vec"), i \in 0..MaxIndex, kind \in kinds : SetIndex(r, vec, i, kind)
    BY <1>1, <1>2, <2>3, SetIndexOK
  <2>4. CASE \E arr \in LiveOf(r, "arr") : \E ref \in Slots(index[r], arr) \cup {Root}, kind \in kinds : InsSlot(r, arr, ref, kind)
    BY <1>1, <2>4, InsSlotOK
  <2>5. CASE \E arr \in LiveOf(r, "arr") : \E ref \in Slots(index[r], arr), kind \in kinds : UpdSlot(r, arr, ref, kind)
    BY <1>1, <2>5, UpdSlotOK
  <2>6. CASE \E arr \in LiveOf(r, "arr") : \E ref \in Slots(index[r], arr) : DelSlot(r, arr, ref)
    BY <2>6, DelSlotOK
  <2> QED
    BY <1>3, <2>1, <2>2, <2>3, <2>4, <2>5, <2>6 DEF Edit
<1>4. CASE \E r \in Sid, p \in patches : Deliver(r, p)
  BY <1>4, DeliverOK
<1>5. CASE \E r \in Sid : Reload(r)
  BY <1>5, ReloadOK
<1>6. CASE UNCHANGED vars
  BY <1>6 DEF vars, IndInv, OpsOf
<1> QED
  BY <1>3, <1>4, <1>5, <1>6 DEF Next

(* In every state a value is in one place, put there by an operation that  *)
(* is known, and later than the node it is in.                             *)
THEOREM Invariance == Spec => []IndInv
<1>1. Init => IndInv
  BY InitOK
<1>2. IndInv /\ [Next]_vars => IndInv'
  BY NextOK
<1> QED
  BY <1>1, <1>2, PTL DEF Spec

(* The values of the nodes in the index of a document are in the index:    *)
(* what _gcTree() collects below a value that lost is referred to by       *)
(* nobody else.                                                            *)
THEOREM NoDangling == Spec => []NoneMissing
<1>1. IndInv => NoneMissing
  BY DEF IndInv, Whole, NoneMissing
<1> QED
  BY <1>1, Invariance, PTL

-----------------------------------------------------------------------------
(* A local edit is there.                                                  *)

\* The first n operations of s make the value id.
Makes(s, n, id, kind) ==
  /\ Len(s) \in Nat /\ n \in 1..Len(s)
  /\ s[1] = [name |-> "new", id |-> id, kind |-> kind]
  /\ kind # "val" => n = 1
  /\ kind = "val" =>
       /\ n = 3
       /\ s[2] = [name |-> "new", id |-> At(id, 1), kind |-> "con"]
       /\ s[3] = [name |-> "ins_val", id |-> At(id, 2), obj |-> id, val |-> At(id, 1)]

\* The operations s are among ops, before time t.
Among(s, ops, t) == \A i \in 1..Len(s) : s[i] \in ops /\ (s[i].name = "new" => s[i].id.time < t)

\* When the value is made, what was there is as it was.
LEMMA ValueMade ==
  ASSUME NEW ops, OpsOK(ops), NEW t \in Nat, NEW ix, Well(ix, ops, t), Whole(ix),
         NEW id \in Stamp, id \notin DOMAIN ix, NEW kind \in AllKinds,
         NEW n, NEW s, NEW f, Applied(f, ix, s), Among(s, ops, t), Makes(s, n, id, kind)
  PROVE  /\ Well(f[n], ops, t) /\ Whole(f[n]) /\ id \in DOMAIN f[n]
         /\ \A y \in DOMAIN ix : y \in DOMAIN f[n] /\ f[n][y] = ix[y]
<1>1. f[0] = ix /\ \A i \in 1..Len(s) : f[i] = ApplyOp(f[i - 1], s[i])
  BY DEF Applied
<1>s. /\ Len(s) \in Nat /\ n \in 1..Len(s)
      /\ \A i \in 1..Len(s) : s[i] \in ops /\ (s[i].name = "new" => s[i].id.time < t)
      /\ s[1] = [name |-> "new", id |-> id, kind |-> kind]
      /\ kind # "val" => n = 1
      /\ kind = "val" =>
           /\ n = 3
           /\ s[2] = [name |-> "new", id |-> At(id, 1), kind |-> "con"]
           /\ s[3] = [name |-> "ins_val", id |-> At(id, 2), obj |-> id, val |-> At(id, 1)]
  BY DEF Makes, Among
<1>h. OpsOK(ops) /\ t \in Nat /\ Well(ix, ops, t) /\ Whole(ix) /\ id \in Stamp /\ kind \in AllKinds
  OBVIOUS
<1>2. PICK a : a = s[1]
  OBVIOUS
<1>3. a.name = "new" /\ a.id = id /\ a.kind = kind
  BY <1>2, <1>s
<1>4. 1 \in 1..Len(s)
  BY <1>s
<1>5. id.time < t
  BY <1>2, <1>3, <1>4, <1>s
<1>6. PICK f1 : f1 = f[1]
  OBVIOUS
<1>7. f1 = AddNode(ix, id, kind)
  <2>1. f[1] = ApplyOp(f[1 - 1], s[1])
    BY <1>1, <1>4
  <2>2. f1 = ApplyOp(ix, a)
    BY <1>1, <1>2, <1>6, <2>1
  <2> QED
    BY <1>3, <2>2 DEF ApplyOp
<1>8. /\ Well(f1, ops, t) /\ Whole(f1) /\ DOMAIN f1 = DOMAIN ix \cup {id}
      /\ \A y \in DOMAIN ix : f1[y] = ix[y]
  BY ONLY <1>h, <1>5, <1>7, AddNodeOK
<1>9. CASE kind # "val"
  BY <1>6, <1>8, <1>9, <1>s
<1>10. CASE kind = "val"
  <2>1. n = 3 /\ 2 \in 1..Len(s) /\ 3 \in 1..Len(s)
    BY <1>10, <1>s
  <2>2. PICK b, c : b = s[2] /\ c = s[3]
    OBVIOUS
  <2>3. /\ b.name = "new" /\ b.id = At(id, 1) /\ b.kind = "con"
        /\ c.name = "ins_val" /\ c.obj = id /\ c.val = At(id, 1)
    BY <1>10, <1>s, <2>2
  <2>4. PICK id1 : id1 = At(id, 1)
    OBVIOUS
  <2>5. b \in ops /\ c \in ops /\ id1.time < t
    BY <1>s, <2>1, <2>2, <2>3, <2>4
  <2>6. id1 \in Stamp
    <3>1. OpOK(b)
      BY <2>5 DEF OpsOK
    <3> QED
      BY <2>3, <2>4, <3>1 DEF OpOK
  <2>7. PICK f2, f3 : f2 = f[2] /\ f3 = f[3]
    OBVIOUS
  <2>8. f2 = AddNode(f1, id1, "con")
    <3>1. f[2] = ApplyOp(f[2 - 1], s[2])
      BY <1>1, <2>1
    <3>2. f2 = ApplyOp(f1, b)
      BY <1>6, <2>2, <2>7, <3>1
    <3> QED
      BY <2>3, <2>4, <3>2 DEF ApplyOp
  <2>9. f3 = InsVal(f2, c.obj, c.val)
    <3>1. f[3] = ApplyOp(f[3 - 1], s[3])
      BY <1>1, <2>1
    <3>2. f3 = ApplyOp(f2, c)
      BY <2>2, <2>7, <3>1
    <3> QED
      BY <2>3, <3>2 DEF ApplyOp
  <2>10. /\ Well(f2, ops, t) /\ Whole(f2) /\ DOMAIN f2 = DOMAIN f1 \cup {id1}
         /\ \A y \in DOMAIN f1 : f2[y] = f1[y]
    <3>1. "con" \in AllKinds
      BY DEF AllKinds
    <3> QED
      BY ONLY <1>h, <1>8, <2>5, <2>6, <2>8, <3>1, AddNodeOK
  <2>11. /\ Well(f3, ops, t) /\ Whole(f3)
         /\ Is(f2, c.obj, "val") /\ c.val \in DOMAIN f2
            /\ (f2[c.obj].val = Root \/ Before(f2[c.obj].val, c.val)) =>
              c.obj \in DOMAIN f3 /\ f3[c.obj].val = c.val
         /\ \A y \in DOMAIN f2 :
              Is(f2, c.obj, "val") /\ f2[c.obj].val = Root /\ y # c.obj => y \in DOMAIN f3 /\ f3[y] = f2[y]
    <3>1. c.name = "ins_val" /\ c \in ops /\ Well(f2, ops, t) /\ Whole(f2)
      BY <2>3, <2>5, <2>10
    <3> QED
      BY ONLY <1>h, <2>9, <3>1, InsValOK
  <2>12. f2[id] = NewNode("val")
    <3>1. f1[id] = NewNode("val")
      BY <1>7, <1>10 DEF AddNode
    <3> QED
      BY <1>8, <2>10, <3>1
  <2>13. Is(f2, id, "val") /\ f2[id].val = Root /\ id1 \in DOMAIN f2
    BY <1>8, <2>10, <2>12 DEF Is, NewNode
  <2>14. id \in DOMAIN f3 /\ \A y \in DOMAIN f2 : y # id => y \in DOMAIN f3 /\ f3[y] = f2[y]
    BY <2>3, <2>4, <2>11, <2>13
  <2>15. \A y \in DOMAIN ix : y # id /\ y \in DOMAIN f2 /\ f2[y] = ix[y]
    BY <1>8, <2>10
  <2> QED
    BY <2>1, <2>7, <2>11, <2>14, <2>15
<1> QED
  BY <1>9, <1>10

\* A local edit: the operation that places the value finds the value made, and all else as it was.
LEMMA EditedAs ==
  ASSUME IndInv, NEW r \in Sid, NEW kind \in AllKinds, NEW place,
         NEW op, op = Placed(NextId(r), Len(Make(NextId(r), kind)), place),
         OpOK(op), Puts(op), op.val = NextId(r),
         op.name = "ins_arr" => op.id = At(NextId(r), Len(Make(NextId(r), kind))),
         PutInPlace(r, kind, place)
  PROVE  \E ops, ix : \E t \in Nat :
           /\ OpsOK(ops) /\ op \in ops /\ Well(ix, ops, t) /\ Whole(ix)
           /\ op.val \in DOMAIN ix /\ index'[r] = ApplyOp(ix, op)
           /\ \A y \in DOMAIN index[r] : y \in DOMAIN ix /\ ix[y] = index[r][y]
<1>1. PICK id, t, x, old : id = NextId(r) /\ t = time[r] /\ x = index[r] /\ old = OpsOf(patches)
  OBVIOUS
<1>2. /\ id = [sid |-> r, time |-> t] /\ t \in Nat /\ id \in Stamp /\ id.time = t
      /\ Well(x, old, t) /\ Whole(x)
  BY <1>1, NextIdOK DEF NextId, IndInv
<1>3. PICK made : made = Make(id, kind)
  OBVIOUS
<1>4. PICK s : s = Append(made, op)
  OBVIOUS
<1>5. op.val = id /\ (op.name = "ins_arr" => op.id = At(id, Len(made)))
  BY <1>1, <1>3
<1>h. kind \in AllKinds
  OBVIOUS
<1>6. Made(s, r, t)
  <2>1. MadeAndPlaced(s, r, t, kind, op)
    BY <1>2, <1>3, <1>4, <1>5 DEF MadeAndPlaced
  <2> QED
    BY <1>2, <2>1, PlacedOK
<1>7. PICK p : p = [id |-> id, ops |-> s, deps |-> seen[r]]
  OBVIOUS
<1>8. /\ patches' = patches \cup {p} /\ index' = [index EXCEPT ![r] = ApplyPatch(x, p)] /\ p.ops = s
  BY <1>1, <1>3, <1>4, <1>7 DEF PutInPlace, Publish, Placed
<1>9. IndInv'
  BY PutInPlaceOK
<1>10. PICK ops : ops = OpsOf(patches')
  OBVIOUS
<1>11. OpsOK(ops)
  BY <1>9, <1>10 DEF IndInv
<1>12. old \subseteq ops /\ New(s) \subseteq ops
  BY <1>1, <1>8, <1>10 DEF OpsOf, New
<1>13. PICK u : u = t + Len(s)
  OBVIOUS
<1>14. Len(s) \in Nat /\ IsSeq(s)
  BY <1>6 DEF Made, IsSeq
<1>15. u \in Nat /\ t <= u
  BY <1>2, <1>13, <1>14
<1>16. Well(x, ops, u)
  BY <1>2, <1>12, <1>15, Grown
<1>17. PICK f : Applied(f, x, p.ops) /\ ApplyPatch(x, p) = f[Len(p.ops)]
  BY <1>8, <1>14, ApplyPatchSteps
<1>18. PICK n : n = Len(made)
  OBVIOUS
<1>19. /\ made \in Seq(ToSet(made)) /\ Len(made) \in Nat \ {0}
       /\ made[1] = [name |-> "new", id |-> id, kind |-> kind]
       /\ kind # "val" => Len(made) = 1
       /\ kind = "val" =>
            /\ Len(made) = 3
            /\ made[2] = [name |-> "new", id |-> At(id, 1), kind |-> "con"]
            /\ made[3] = [name |-> "ins_val", id |-> At(id, 2), obj |-> id, val |-> At(id, 1)]
  BY ONLY <1>3, MakeOK
<1>20. Len(s) = Len(made) + 1 /\ s[Len(made) + 1] = op /\ \A i \in 1..Len(made) : s[i] = made[i]
  <2>1. PICK T : T = ToSet(made) \cup {op}
    OBVIOUS
  <2>2. made \in Seq(T) /\ op \in T
    BY <1>19, <2>1
  <2> QED
    BY <1>4, <2>2, AppendProperties
<1>21. n \in Nat \ {0} /\ Len(s) = n + 1 /\ n \in 1..Len(s) /\ s[n + 1] = op /\ \A i \in 1..n : s[i] = made[i]
  BY <1>14, <1>18, <1>19, <1>20
<1>22. Makes(s, n, id, kind)
  <2>1. s[1] = made[1]
    BY <1>21
  <2>2. CASE kind # "val"
    BY <1>14, <1>18, <1>19, <1>21, <2>1, <2>2 DEF Makes
  <2>3. CASE kind = "val"
    <3>1. n = 3
      BY <1>18, <1>19, <2>3
    <3>2. s[2] = made[2] /\ s[3] = made[3]
      BY <1>21, <3>1
    <3> QED
      BY <1>14, <1>19, <1>21, <2>1, <2>3, <3>1, <3>2 DEF Makes
  <2> QED
    BY <2>2, <2>3
<1>24. Among(s, ops, u)
  BY <1>6, <1>12, <1>13 DEF Made, New, Among
<1>25. id \notin DOMAIN x
  BY <1>2, WellTimes
<1>26. Applied(f, x, s)
  BY <1>8, <1>17
<1>27. PICK ix : ix = f[n]
  OBVIOUS
<1>28. /\ Well(ix, ops, u) /\ Whole(ix) /\ id \in DOMAIN ix
       /\ \A y \in DOMAIN x : y \in DOMAIN ix /\ ix[y] = x[y]
  BY ONLY <1>h, <1>2, <1>11, <1>15, <1>16, <1>22, <1>24, <1>25, <1>26, <1>27, ValueMade
<1>29. index'[r] = ApplyOp(ix, op)
  <2>1. n + 1 \in 1..Len(s) /\ (n + 1) - 1 = n
    BY <1>21
  <2>2. f[n + 1] = ApplyOp(f[(n + 1) - 1], s[n + 1])
    BY <1>26, <2>1 DEF Applied
  <2>3. ApplyPatch(x, p) = f[n + 1]
    BY <1>8, <1>17, <1>21
  <2>4. index'[r] = ApplyPatch(x, p)
    BY <1>8 DEF IndInv
  <2> QED
    BY <1>21, <1>27, <2>1, <2>2, <2>3, <2>4
<1>30. op \in ops
  BY <1>12, <1>21 DEF New
<1> QED
  BY <1>1, <1>5, <1>11, <1>15, <1>28, <1>29, <1>30

\* Where there was a value, it is older than a new one.
LEMMA OlderValue ==
  ASSUME IndInv, NEW r \in Sid, NEW x \in DOMAIN index[r], NEW v \in Values(index[r][x])
  PROVE  Before(v, NextId(r))
<1>1. PICK ops, t, ix : ops = OpsOf(patches) /\ t = time[r] /\ ix = index[r]
  OBVIOUS
<1>2. t \in Nat /\ Well(ix, ops, t) /\ Whole(ix)
  BY <1>1 DEF IndInv
<1>3. v \in DOMAIN ix
  BY <1>1, <1>2 DEF Whole
<1>4. v.time < t
  BY <1>2, <1>3, WellTimes
<1> QED
  BY <1>1, <1>4, NextIdOK DEF Before

LEMMA KeyThere ==
  ASSUME IndInv, NEW r \in Sid, NEW kind \in AllKinds, NEW x, NEW k \in Keys, SetKey(r, x, k, kind)
  PROVE  Holds(index'[r], x, "keys", k, NextId(r))
<1>1. PICK place : place = [name |-> "ins_obj", obj |-> x, key |-> k]
  OBVIOUS
<1>2. PICK op : op = Placed(NextId(r), Len(Make(NextId(r), kind)), place)
  OBVIOUS
<1>3. op.name = "ins_obj" /\ op.obj = x /\ op.val = NextId(r) /\ op.key = k
  BY <1>1, <1>2, PlacedFields
<1>4. /\ x \in Stamp \cup {Root} /\ x.time < time[r] /\ NextId(r) \in Stamp /\ NextId(r).time = time[r]
      /\ x \in DOMAIN index[r] /\ index[r][x].kind = "obj"
  BY LiveOK, NextIdOK DEF SetKey
<1>5. OpOK(op) /\ Puts(op)
  BY <1>3, <1>4 DEF OpOK, Puts
<1>6. PutInPlace(r, kind, place)
  BY <1>1 DEF SetKey
<1>7. PICK ops, ix : \E t \in Nat :
           /\ OpsOK(ops) /\ op \in ops /\ Well(ix, ops, t) /\ Whole(ix)
           /\ op.val \in DOMAIN ix /\ index'[r] = ApplyOp(ix, op)
           /\ \A y \in DOMAIN index[r] : y \in DOMAIN ix /\ ix[y] = index[r][y]
  BY <1>2, <1>3, <1>5, <1>6, EditedAs
<1>8. PICK p : p = index'[r]
  OBVIOUS
<1>9. p = InsObj(ix, op.obj, op.key, op.val)
  BY <1>3, <1>7, <1>8 DEF ApplyOp
<1>10. Is(ix, op.obj, "obj") /\ op.val \in DOMAIN ix /\ ix[op.obj] = index[r][x]
  BY <1>3, <1>4, <1>7 DEF Is
<1>11. ix[op.obj].keys[op.key] = Root \/ Before(ix[op.obj].keys[op.key], op.val)
  <2>1. index[r][x].keys[k] = Root \/ index[r][x].keys[k] \in Values(index[r][x])
    BY <1>4, ValuesOfKind
  <2>2. index[r][x].keys[k] = Root \/ Before(index[r][x].keys[k], NextId(r))
    BY <1>4, <2>1, OlderValue
  <2> QED
    BY <1>3, <1>10, <2>2
<1>12. op.obj \in DOMAIN p /\ op.key \in DOMAIN p[op.obj].keys /\ p[op.obj].keys[op.key] = op.val
  BY <1>3, <1>7, <1>9, <1>10, <1>11, InsObjOK
<1> QED
  BY <1>3, <1>8, <1>12 DEF Holds

LEMMA IndexThere ==
  ASSUME IndInv, NEW r \in Sid, NEW kind \in AllKinds, NEW x, NEW i \in Nat, SetIndex(r, x, i, kind)
  PROVE  Holds(index'[r], x, "elements", i + 1, NextId(r))
<1>1. PICK place : place = [name |-> "ins_vec", obj |-> x, index |-> i]
  OBVIOUS
<1>2. PICK op : op = Placed(NextId(r), Len(Make(NextId(r), kind)), place)
  OBVIOUS
<1>3. op.name = "ins_vec" /\ op.obj = x /\ op.val = NextId(r) /\ op.index = i
  BY <1>1, <1>2, PlacedFields
<1>4. /\ x \in Stamp \cup {Root} /\ x.time < time[r] /\ NextId(r) \in Stamp /\ NextId(r).time = time[r]
      /\ x \in DOMAIN index[r] /\ index[r][x].kind = "vec" /\ NodeOK(x, index[r][x], OpsOf(patches))
  BY LiveOK, NextIdOK DEF SetIndex
<1>5. OpOK(op) /\ Puts(op)
  BY <1>3, <1>4 DEF OpOK, Puts
<1>6. PutInPlace(r, kind, place)
  BY <1>1 DEF SetIndex
<1>7. PICK ops, ix : \E t \in Nat :
           /\ OpsOK(ops) /\ op \in ops /\ Well(ix, ops, t) /\ Whole(ix)
           /\ op.val \in DOMAIN ix /\ index'[r] = ApplyOp(ix, op)
           /\ \A y \in DOMAIN index[r] : y \in DOMAIN ix /\ ix[y] = index[r][y]
  BY <1>2, <1>3, <1>5, <1>6, EditedAs
<1>8. PICK p : p = index'[r]
  OBVIOUS
<1>9. p = InsVec(ix, op.obj, op.index, op.val)
  BY <1>3, <1>7, <1>8 DEF ApplyOp
<1>10. Is(ix, op.obj, "vec") /\ op.val \in DOMAIN ix /\ ix[op.obj] = index[r][x]
  BY <1>3, <1>4, <1>7 DEF Is
<1>11. VecAt(ix[op.obj], op.index) = Root \/ Before(VecAt(ix[op.obj], op.index), op.val)
  <2>1. PICK n, old : n = index[r][x] /\ old = VecAt(n, i)
    OBVIOUS
  <2>2. n.kind = "vec" /\ IsSeq(n.elements)
    <3>1. NodeOK(x, n, OpsOf(patches)) /\ n.kind = "vec"
      BY <1>4, <2>1
    <3> QED
      BY <3>1 DEF NodeOK
  <2>3. old = Root \/ old \in ToSet(n.elements)
    <3>1. CASE i < Len(n.elements)
      <4>1. i + 1 \in DOMAIN n.elements /\ old = n.elements[i + 1]
        BY <2>1, <2>2, <3>1 DEF IsSeq, VecAt
      <4> QED
        BY <4>1 DEF ToSet
    <3>2. CASE ~(i < Len(n.elements))
      BY <2>1, <3>2 DEF VecAt
    <3> QED
      BY <3>1, <3>2
  <2>4. old = Root \/ old \in Values(n)
    BY <2>2, <2>3, ValuesOfKind
  <2>5. old = Root \/ Before(old, NextId(r))
    BY <1>4, <2>1, <2>4, OlderValue
  <2> QED
    BY <1>3, <1>10, <2>1, <2>5
<1>12. op.obj \in DOMAIN p /\ op.index + 1 \in DOMAIN p[op.obj].elements /\ p[op.obj].elements[op.index + 1] = op.val
  BY <1>3, <1>7, <1>9, <1>10, <1>11, InsVecOK
<1> QED
  BY <1>3, <1>8, <1>12 DEF Holds

LEMMA ValThere ==
  ASSUME IndInv, NEW r \in Sid, NEW kind \in AllKinds, NEW x, SetVal(r, x, kind)
  PROVE  x \in DOMAIN index'[r] /\ index'[r][x].val = NextId(r)
<1>1. PICK place : place = [name |-> "ins_val", obj |-> x]
  OBVIOUS
<1>2. PICK op : op = Placed(NextId(r), Len(Make(NextId(r), kind)), place)
  OBVIOUS
<1>3. op.name = "ins_val" /\ op.obj = x /\ op.val = NextId(r)
  BY <1>1, <1>2, PlacedFields
<1>4. /\ x \in Stamp \cup {Root} /\ x.time < time[r] /\ NextId(r) \in Stamp /\ NextId(r).time = time[r]
      /\ x \in DOMAIN index[r] /\ index[r][x].kind = "val"
  BY LiveOK, NextIdOK DEF SetVal
<1>5. OpOK(op) /\ Puts(op)
  BY <1>3, <1>4 DEF OpOK, Puts
<1>6. PutInPlace(r, kind, place)
  BY <1>1 DEF SetVal
<1>7. PICK ops, ix : \E t \in Nat :
           /\ OpsOK(ops) /\ op \in ops /\ Well(ix, ops, t) /\ Whole(ix)
           /\ op.val \in DOMAIN ix /\ index'[r] = ApplyOp(ix, op)
           /\ \A y \in DOMAIN index[r] : y \in DOMAIN ix /\ ix[y] = index[r][y]
  BY <1>2, <1>3, <1>5, <1>6, EditedAs
<1>8. PICK p : p = index'[r]
  OBVIOUS
<1>9. p = InsVal(ix, op.obj, op.val)
  BY <1>3, <1>7, <1>8 DEF ApplyOp
<1>10. Is(ix, op.obj, "val") /\ op.val \in DOMAIN ix /\ ix[op.obj] = index[r][x]
  BY <1>3, <1>4, <1>7 DEF Is
<1>11. ix[op.obj].val = Root \/ Before(ix[op.obj].val, op.val)
  <2>1. index[r][x].val = Root \/ index[r][x].val \in Values(index[r][x])
    BY <1>4, ValuesOfKind
  <2>2. index[r][x].val = Root \/ Before(index[r][x].val, NextId(r))
    BY <1>4, <2>1, OlderValue
  <2> QED
    BY <1>3, <1>10, <2>2
<1>12. op.obj \in DOMAIN p /\ p[op.obj].val = op.val
  BY <1>3, <1>7, <1>9, <1>10, <1>11, InsValOK
<1> QED
  BY <1>3, <1>8, <1>12

LEMMA SlotThere ==
  ASSUME IndInv, NEW r \in Sid, NEW kind \in AllKinds, NEW x, NEW ref, UpdSlot(r, x, ref, kind)
  PROVE  Holds(index'[r], x, "slot", ref, NextId(r))
<1>1. PICK place : place = [name |-> "upd_arr", obj |-> x, ref |-> ref]
  OBVIOUS
<1>2. PICK op : op = Placed(NextId(r), Len(Make(NextId(r), kind)), place)
  OBVIOUS
<1>3. op.name = "upd_arr" /\ op.obj = x /\ op.val = NextId(r) /\ op.ref = ref
  BY <1>1, <1>2, PlacedFields
<1>4. /\ x \in Stamp \cup {Root} /\ x.time < time[r] /\ NextId(r) \in Stamp /\ NextId(r).time = time[r]
      /\ x \in DOMAIN index[r] /\ index[r][x].kind = "arr" /\ NodeOK(x, index[r][x], OpsOf(patches))
  BY LiveOK, NextIdOK DEF UpdSlot
<1>s. ref \in Slots(index[r], x) /\ ref \in Stamp
  BY SlotsOK DEF UpdSlot
<1>5. OpOK(op) /\ Puts(op)
  BY <1>3, <1>4, <1>s DEF OpOK, Puts
<1>6. PutInPlace(r, kind, place)
  BY <1>1 DEF UpdSlot
<1>7. PICK ops, ix : \E t \in Nat :
           /\ OpsOK(ops) /\ op \in ops /\ Well(ix, ops, t) /\ Whole(ix)
           /\ op.val \in DOMAIN ix /\ index'[r] = ApplyOp(ix, op)
           /\ \A y \in DOMAIN index[r] : y \in DOMAIN ix /\ ix[y] = index[r][y]
  BY <1>2, <1>3, <1>5, <1>6, EditedAs
<1>8. PICK p : p = index'[r]
  OBVIOUS
<1>9. p = UpdArr(ix, op.obj, op.ref, op.val)
  BY <1>3, <1>7, <1>8 DEF ApplyOp
<1>10. Is(ix, op.obj, "arr") /\ op.val \in DOMAIN ix /\ ix[op.obj] = index[r][x]
  BY <1>3, <1>4, <1>7 DEF Is
<1>11. op.ref \in Slots(ix, op.obj) /\ Before(ix[op.obj].slot[op.ref], op.val)
  <2>1. PICK n, all : n = index[r][x] /\ all = OpsOf(patches)
    OBVIOUS
  <2>2. NodeOK(x, n, all) /\ n.kind = "arr" /\ OpsOK(all)
    BY <1>4, <2>1 DEF IndInv
  <2>3. ref \in Shown(n.rga)
    BY <1>s, <2>1 DEF Slots
  <2>4. n.slot[ref] \in Values(n)
    BY <2>2, <2>3, ShownValues
  <2>5. Before(n.slot[ref], NextId(r))
    BY <1>4, <2>1, <2>4, OlderValue
  <2> QED
    BY <1>3, <1>10, <2>1, <2>3, <2>5 DEF Slots
<1>12. op.obj \in DOMAIN p /\ op.ref \in DOMAIN p[op.obj].slot /\ p[op.obj].slot[op.ref] = op.val
  BY <1>3, <1>7, <1>9, <1>10, <1>11, UpdArrOK
<1> QED
  BY <1>3, <1>8, <1>12 DEF Holds

(* What is set is there at once: no local edit loses against a value its   *)
(* author has seen.                                                        *)
THEOREM EditsWin == Spec => LocalWins
<1>1. IndInv => \A r \in {x \in Sid : seen'[x] # seen[x] /\ patches' # patches}, kind \in kinds :
       /\ \A obj \in LiveOf(r, "obj"), k \in Keys :
            SetKey(r, obj, k, kind) => Holds(index'[r], obj, "keys", k, NextId(r))
       /\ \A vec \in LiveOf(r, "vec"), i \in 0..MaxIndex :
            SetIndex(r, vec, i, kind) => Holds(index'[r], vec, "elements", i + 1, NextId(r))
       /\ \A node \in LiveOf(r, "val") :
            SetVal(r, node, kind) => node \in DOMAIN index'[r] /\ index'[r][node].val = NextId(r)
       /\ \A arr \in LiveOf(r, "arr") : \A ref \in Slots(index[r], arr) :
            UpdSlot(r, arr, ref, kind) => Holds(index'[r], arr, "slot", ref, NextId(r))
  <2> SUFFICES ASSUME IndInv, NEW r \in Sid, NEW kind \in kinds
               PROVE  /\ \A obj \in LiveOf(r, "obj"), k \in Keys :
                           SetKey(r, obj, k, kind) => Holds(index'[r], obj, "keys", k, NextId(r))
                      /\ \A vec \in LiveOf(r, "vec"), i \in 0..MaxIndex :
                           SetIndex(r, vec, i, kind) => Holds(index'[r], vec, "elements", i + 1, NextId(r))
                      /\ \A node \in LiveOf(r, "val") :
                           SetVal(r, node, kind) => node \in DOMAIN index'[r] /\ index'[r][node].val = NextId(r)
                      /\ \A arr \in LiveOf(r, "arr") : \A ref \in Slots(index[r], arr) :
                           UpdSlot(r, arr, ref, kind) => Holds(index'[r], arr, "slot", ref, NextId(r))
    OBVIOUS
  <2>1. kind \in AllKinds
    BY DocsAssumption DEF IndInv
  <2>2. 0..MaxIndex \subseteq Nat
    BY MaxIndexAssumption
  <2>3. \A obj \in LiveOf(r, "obj"), k \in Keys :
          SetKey(r, obj, k, kind) => Holds(index'[r], obj, "keys", k, NextId(r))
    BY <2>1, KeyThere
  <2>4. \A vec \in LiveOf(r, "vec"), i \in 0..MaxIndex :
          SetIndex(r, vec, i, kind) => Holds(index'[r], vec, "elements", i + 1, NextId(r))
    BY <2>1, <2>2, IndexThere
  <2>5. \A node \in LiveOf(r, "val") :
          SetVal(r, node, kind) => node \in DOMAIN index'[r] /\ index'[r][node].val = NextId(r)
    BY <2>1, ValThere
  <2>6. \A arr \in LiveOf(r, "arr") : \A ref \in Slots(index[r], arr) :
          UpdSlot(r, arr, ref, kind) => Holds(index'[r], arr, "slot", ref, NextId(r))
    BY <2>1, SlotThere
  <2> QED
    BY <2>3, <2>4, <2>5, <2>6
<1> QED
  BY <1>1, Invariance, PTL DEF LocalWins

=============================================================================
