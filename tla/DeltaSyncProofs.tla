--------------------------- MODULE DeltaSyncProofs ---------------------------
(***************************************************************************)
(* Proofs about DeltaSync, for every set of sessions, documents, keys and  *)
(* every number of edits and exchanges, exclusive or not: that an object   *)
(* has the latest values among the edits its peer's clock covers           *)
(* (ObjFaithful).                                                          *)
(***************************************************************************)
EXTENDS DeltaSync, TLAPS

-----------------------------------------------------------------------------
(* The strengthening.  A delta is applied some steps after it was computed *)
(* and against a version vector older still: what is said of the clock of  *)
(* a peer has to be said of every clock under way.                         *)

\* The edits a clock covers, and those the clock of each peer covers.
KnownBy(c) == {op \in made : Has(c, op.id)}

known == [p \in Sid |-> KnownBy(clock[p])]

\* The clock that comes with a message: of the request, or of the delta.
ClockOf(m) == IF m.type = 1 THEN m.vv ELSE m.delta.vv1

Clocks == {clock[p] : p \in Sid} \cup {ClockOf(m) : m \in net}

\* An edit has an identifier; one of the object takes its value from the tick before.
IsEdit(op) ==
  /\ op.id \in Stamp
  /\ op.kind = "ins_obj" => op.key \in Keys /\ op.val \in Stamp /\ op.id = At(op.val, 1)

IsMessage(m) ==
  /\ m.type \in 1..3 /\ m.from \in Sid /\ m.to \in Sid
  /\ ClockOf(m) \in Clock /\ ClockOf(m).sid = m.from
  /\ m.type # 1 => \A k \in DOMAIN m.delta.obj : k \in Keys /\ m.delta.obj[k] \in Stamp

Typed ==
  /\ clock \in [Sid -> Clock] /\ \A p \in Sid : clock[p].sid = p
  /\ obj \in [Sid -> [Keys -> Stamp \cup {Root}]]
  /\ \A op \in made : IsEdit(op)
  /\ \A m \in net : IsMessage(m)

\* The author of an edit has it.
OwnKnown == \A op \in made : op \in known[op.id.sid]

\* A clock is ahead of what it covers, behind its sessions' own clocks, and covers
\* the edit whose value it covers.
ClockSane(c) ==
  /\ \A q \in Sid : VersionVector(c)[q] < c.time /\ VersionVector(c)[q] < clock[q].time
  /\ \A op \in made : op.kind = "ins_obj" /\ Has(c, op.val) => Has(c, op.id)

ClocksSane == \A c \in Clocks : ClockSane(c)

\* A clock under way covers nothing its sender lacks.
NetCovered == \A m \in net : KnownBy(ClockOf(m)) \subseteq known[m.from]

\* The values of key k in a set of edits, and the latest of them.
Values(ops, k) == {op.val : op \in {x \in ops : x.kind = "ins_obj" /\ x.key = k}}

Latest(v, vals) == v \in vals /\ \A w \in vals : ~Before(v, w)

\* A delta has the latest value of a key, unless the receiver knows of that.
ObjOf(d, p) ==
  \A k \in Keys :
    IF k \in DOMAIN d.obj THEN Latest(d.obj[k], Values(KnownBy(d.vv1), k))
    ELSE Values(KnownBy(d.vv1), k) = {}
      \/ \E v \in Values(known[p], k) : Latest(v, Values(KnownBy(d.vv1), k))

NetLatest == \A m \in net : m.type # 1 => ObjOf(m.delta, m.to)

IndInv ==
  /\ Typed
  /\ OwnKnown
  /\ ClocksSane
  /\ NetCovered
  /\ ObjFaithful
  /\ NetLatest

-----------------------------------------------------------------------------
(* Timestamps and clocks.                                                  *)

Value == Stamp \cup {Root}

LEMMA StampFields ==
  ASSUME NEW x \in Value
  PROVE  x.sid \in Nat /\ x.time \in Nat /\ x = [sid |-> x.sid, time |-> x.time]
<1>1. CASE x \in Stamp
  <2>1. x = [sid |-> x.sid, time |-> x.time] /\ x.sid \in Sid /\ x.time \in Nat
    BY <1>1 DEF Stamp
  <2> QED
    BY <2>1, SidAssumption
<1>2. CASE x = Root
  BY <1>2 DEF Root
<1> QED
  BY <1>1, <1>2 DEF Value

\* The order of timestamps is strict and total.
LEMMA BeforeOrder ==
  ASSUME NEW x \in Value, NEW y \in Value
  PROVE  /\ ~Before(x, x)
         /\ Before(x, y) => ~Before(y, x)
         /\ Before(x, y) \/ Before(y, x) \/ x = y
         /\ \A z \in Value : Before(x, y) /\ Before(y, z) => Before(x, z)
<1>1. \A z \in Value : z.sid \in Nat /\ z.time \in Nat
  BY StampFields
<1>2. x.sid = y.sid /\ x.time = y.time => x = y
  BY StampFields
<1>3. Before(x, y) \/ Before(y, x) \/ x = y
  BY <1>1, <1>2 DEF Before
<1>4. ASSUME NEW z \in Value, Before(x, y), Before(y, z) PROVE Before(x, z)
  BY <1>1, <1>4 DEF Before
<1> QED
  BY <1>1, <1>3, <1>4 DEF Before

\* A value is the latest of some: of all of them together with others.
ValueIs(v, vals) == IF vals = {} THEN v = Root ELSE Latest(v, vals)

LEMMA RootFirst ==
  ASSUME NEW v \in Stamp
  PROVE  Before(Root, v)
<1>1. v.sid \in Nat \ {0} /\ v.time \in Nat /\ Root.sid = 0 /\ Root.time = 0
  BY SidAssumption DEF Stamp, Root
<1> QED
  BY <1>1 DEF Before

\* ObjNode.put() keeps the latest of the values on both sides.
LEMMA LatestOfBoth ==
  ASSUME NEW A \in SUBSET Stamp, NEW B \in SUBSET Stamp, NEW v, ValueIs(v, A),
         NEW w, Latest(w, B)
  PROVE  ValueIs(IF Before(v, w) THEN w ELSE v, A \cup B)
<1>1. v \in Value /\ w \in Value /\ w \in B
  BY DEF Value, ValueIs, Latest
<1>2. \A x \in A \cup B : x \in Value
  BY DEF Value
<1>3. CASE A = {}
  <2>1. v = Root /\ w \in Stamp
    BY <1>1, <1>3 DEF ValueIs
  <2>2. Before(v, w) /\ A \cup B = B /\ B # {}
    BY <1>1, <1>3, <2>1, RootFirst
  <2> QED
    BY <2>2 DEF ValueIs
<1>4. CASE A # {}
  <2>1. Latest(v, A)
    BY <1>4 DEF ValueIs
  <2>2. CASE Before(v, w)
    <3>1. ASSUME NEW x \in A, Before(w, x) PROVE FALSE
      <4>1. Before(v, x)
        BY <1>1, <1>2, <2>2, <3>1, BeforeOrder
      <4> QED
        BY <2>1, <4>1 DEF Latest
    <3> QED
      BY <1>1, <2>2, <3>1 DEF ValueIs, Latest
  <2>3. CASE ~Before(v, w)
    <3>1. ASSUME NEW x \in B, Before(v, x) PROVE FALSE
      <4>1. ~Before(w, x)
        BY DEF Latest
      <4>2. w = x \/ Before(x, w)
        BY <1>1, <1>2, <4>1, BeforeOrder
      <4> QED
        BY <1>1, <1>2, <2>3, <3>1, <4>2, BeforeOrder
    <3> QED
      BY <2>1, <2>3, <3>1 DEF ValueIs, Latest
  <2> QED
    BY <2>2, <2>3
<1> QED
  BY <1>3, <1>4

\* Values whose latest is known add nothing.
LEMMA LatestKnown ==
  ASSUME NEW A \in SUBSET Stamp, NEW B \in SUBSET Stamp, NEW v, ValueIs(v, A),
         NEW w \in A, Latest(w, B)
  PROVE  ValueIs(v, A \cup B)
<1>1. Latest(v, A)
  BY DEF ValueIs
<1>2. v \in Value /\ w \in Value
  BY <1>1 DEF Value, Latest
<1>3. ASSUME NEW x \in B, Before(v, x) PROVE FALSE
  <2>1. ~Before(w, x) /\ ~Before(v, w) /\ x \in Value
    BY <1>1 DEF Latest, Value
  <2>2. w = x \/ Before(x, w)
    BY <1>2, <2>1, BeforeOrder
  <2> QED
    BY <1>2, <1>3, <2>1, <2>2, BeforeOrder
<1> QED
  BY <1>1, <1>3 DEF ValueIs, Latest

LEMMA VectorEntries ==
  ASSUME NEW c \in Clock, NEW q \in Sid
  PROVE  /\ VersionVector(c)[q] = (IF q = c.sid THEN c.time - 1 ELSE c.peers[q])
         /\ VersionVector(c)[q] \in Int
         /\ c.time \in Nat /\ c.sid \in Sid
BY DEF VersionVector, Clock

\* What a clock covers is what its version vector says.
LEMMA HasVector ==
  ASSUME NEW c \in Clock, NEW id \in Stamp
  PROVE  Has(c, id) <=> id.time <= VersionVector(c)[id.sid]
BY DEF Has, VersionVector, Clock, Stamp

\* advanceCC() takes the greater entries; the next tick is behind all of them.
LEMMA AdvanceCCVector ==
  ASSUME NEW c \in Clock, NEW d \in Clock,
         \A q \in Sid : VersionVector(d)[q] < d.time
  PROVE  /\ AdvanceCC(c, d) \in Clock
         /\ AdvanceCC(c, d).sid = c.sid
         /\ AdvanceCC(c, d).time = Larger(c.time, d.time)
         /\ \A q \in Sid : VersionVector(AdvanceCC(c, d))[q] =
              IF q = c.sid THEN Larger(c.time, d.time) - 1
              ELSE Larger(VersionVector(c)[q], VersionVector(d)[q])
<1> DEFINE vv  == VersionVector(d)
           top == CHOOSE t \in {vv[q] : q \in Sid} : \A q \in Sid : vv[q] <= t
           a   == AdvanceCC(c, d)
<1>1. /\ d.sid \in Sid /\ vv[d.sid] = d.time - 1 /\ d.time \in Nat
      /\ c.time \in Nat /\ c.sid \in Sid
  <2>1. d.sid \in Sid /\ d.time \in Nat /\ c.time \in Nat /\ c.sid \in Sid
    BY DEF Clock
  <2> QED
    BY <2>1, VectorEntries
<1>2. \A q \in Sid : vv[q] \in Int /\ vv[q] <= d.time - 1
  <2> SUFFICES ASSUME NEW q \in Sid PROVE vv[q] \in Int /\ vv[q] <= d.time - 1
    OBVIOUS
  <2>1. vv[q] \in Int /\ vv[q] < d.time
    BY VectorEntries
  <2> HIDE DEF vv
  <2> QED
    BY <1>1, <2>1
<1>3. \E t \in {vv[q] : q \in Sid} : \A q \in Sid : vv[q] <= t
  BY <1>1, <1>2
<1>4. top \in {vv[q] : q \in Sid} /\ \A q \in Sid : vv[q] <= top
  BY <1>3
<1>5. top = d.time - 1
  <2> HIDE DEF vv, top
  <2>1. PICK q \in Sid : top = vv[q]
    BY <1>4
  <2> QED
    BY <1>1, <1>2, <1>4, <2>1
<1>6. a = [c EXCEPT !.peers = [q \in Sid |-> IF q = c.sid THEN c.peers[q] ELSE Larger(c.peers[q], vv[q])],
                    !.time = Larger(c.time, top + 1)]
  BY DEF AdvanceCC, Clock
<1>7. c = [sid |-> c.sid, time |-> c.time, peers |-> c.peers]
  BY DEF Clock
<1> HIDE DEF vv, top, a
<1>8. /\ a.sid = c.sid /\ a.time = Larger(c.time, d.time)
      /\ a.peers = [q \in Sid |-> IF q = c.sid THEN c.peers[q] ELSE Larger(c.peers[q], vv[q])]
      /\ a = [sid |-> a.sid, time |-> a.time, peers |-> a.peers]
  <2>1. top + 1 = d.time
    BY <1>1, <1>5
  <2> QED
    BY <1>6, <1>7, <2>1
<1>9. c.peers \in [Sid -> Nat]
  BY DEF Clock
<1>10. \A q \in Sid : Larger(c.peers[q], vv[q]) \in Nat
  <2> SUFFICES ASSUME NEW q \in Sid PROVE Larger(c.peers[q], vv[q]) \in Nat
    OBVIOUS
  <2>1. c.peers[q] \in Nat /\ vv[q] \in Int
    BY <1>2, <1>9
  <2> QED
    BY <2>1 DEF Larger
<1>11. a.peers \in [Sid -> Nat] /\ a.time \in Nat
  BY <1>1, <1>8, <1>9, <1>10 DEF Larger
<1>12. a \in Clock
  BY <1>1, <1>8, <1>11 DEF Clock
<1>13. ASSUME NEW q \in Sid
       PROVE  VersionVector(a)[q] = IF q = c.sid THEN Larger(c.time, d.time) - 1
                                    ELSE Larger(VersionVector(c)[q], vv[q])
  <2>1. VersionVector(a)[q] = IF q = a.sid THEN a.time - 1 ELSE a.peers[q]
    BY <1>12, VectorEntries
  <2>2. q # c.sid => VersionVector(c)[q] = c.peers[q]
    BY VectorEntries
  <2> QED
    BY <1>8, <2>1, <2>2
<1> QED
  BY <1>8, <1>12, <1>13 DEF a, vv

-----------------------------------------------------------------------------
(* What IndInv says of one clock, one message, one key.                    *)

MsgCovered(m) == KnownBy(ClockOf(m)) \subseteq known[m.from]

\* What holds of a peer's object.
ObjLatest(p) == \A k \in Keys : ValueIs(obj[p][k], Values(known[p], k))

LEMMA KnownIs ==
  ASSUME NEW p \in Sid
  PROVE  known[p] = KnownBy(clock[p]) /\ known[p] \subseteq made
BY DEF known, KnownBy

LEMMA KnownIsNext ==
  ASSUME NEW p \in Sid
  PROVE  known'[p] = {op \in made' : Has(clock'[p], op.id)}
BY DEF known, KnownBy

LEMMA ValuesOfKind ==
  ASSUME NEW p \in Sid, NEW k
  PROVE  Values(known[p], k) = {op.val : op \in {x \in KnownOf(p, "ins_obj") : x.key = k}}
<1>1. {x \in known[p] : x.kind = "ins_obj" /\ x.key = k} = {x \in KnownOf(p, "ins_obj") : x.key = k}
  BY KnownIs DEF KnownOf, KnownBy
<1> QED
  BY <1>1 DEF Values

LEMMA ObjFaithfulKeys == ObjFaithful <=> \A p \in Sid : ObjLatest(p)
<1> DEFINE vals(p, k) == {op.val : op \in {x \in KnownOf(p, "ins_obj") : x.key = k}}
           Is(p, k) == IF vals(p, k) = {} THEN obj[p][k] = Root
                       ELSE obj[p][k] \in vals(p, k) /\ \A v \in vals(p, k) : ~Before(obj[p][k], v)
<1>1. ASSUME NEW p \in Sid, NEW k PROVE Is(p, k) <=> ValueIs(obj[p][k], Values(known[p], k))
  <2>1. vals(p, k) = Values(known[p], k)
    BY ValuesOfKind
  <2> HIDE DEF vals
  <2> QED
    BY <2>1 DEF ValueIs, Latest
<1>2. ObjFaithful <=> \A p \in Sid, k \in Keys : Is(p, k)
  BY DEF ObjFaithful
<1> HIDE DEF Is
<1> QED
  BY <1>1, <1>2 DEF ObjLatest

LEMMA ObjFaithfulKeysNext == ObjFaithful' <=> (\A p \in Sid : ObjLatest(p))'
BY ObjFaithfulKeys, PTL

LEMMA EditValues ==
  ASSUME NEW ops, \A op \in ops : IsEdit(op), NEW k
  PROVE  Values(ops, k) \in SUBSET Stamp
BY DEF Values, IsEdit

LEMMA ValuesUnion ==
  ASSUME NEW a, NEW b, NEW k
  PROVE  Values(a \cup b, k) = Values(a, k) \cup Values(b, k)
BY DEF Values

LEMMA ValuesSubset ==
  ASSUME NEW a, NEW b, NEW k, a \subseteq b
  PROVE  Values(a, k) \subseteq Values(b, k)
BY DEF Values

\* A clock that covers the value of an edit covers the edit.
LEMMA CoversValue ==
  ASSUME Typed, NEW c \in Clock, ClockSane(c), NEW ops \in SUBSET made, NEW k,
         NEW v \in Values(ops, k), Has(c, v)
  PROVE  \E op \in ops : Has(c, op.id) /\ op.kind = "ins_obj" /\ op.key = k /\ op.val = v
<1>1. PICK op \in ops : op.kind = "ins_obj" /\ op.key = k /\ op.val = v
  BY DEF Values
<1> QED
  BY <1>1 DEF ClockSane

-----------------------------------------------------------------------------
(* The delta a peer makes.                                                 *)

\* It covers what its clock says, and has what the receiver does not know of, if the
\* version vector it was made against covers nothing the receiver lacks.
LEMMA FreshDelta ==
  ASSUME IndInv, NEW p \in Sid, NEW r \in Sid, NEW cc \in Clock, ClockSane(cc),
         \A op \in made : Has(cc, op.id) => op \in known[r]
  PROVE  LET d == DeltaOf(p, cc)
         IN  /\ d.vv1 = clock[p] /\ KnownBy(d.vv1) = known[p]
             /\ \A k \in DOMAIN d.obj : k \in Keys /\ d.obj[k] \in Stamp
             /\ ObjOf(d, r)
<1> DEFINE d == DeltaOf(p, cc)
<1>1. d.vv1 = clock[p] /\ KnownBy(d.vv1) = known[p] /\ d.obj = ObjDelta(p, cc)
  BY KnownIs DEF DeltaOf
<1> HIDE DEF d
<1>2. DOMAIN d.obj = {x \in Keys : obj[p][x] # Root /\ ~Has(cc, obj[p][x])}
  BY <1>1 DEF ObjDelta
<1>3. \A k \in DOMAIN d.obj : d.obj[k] = obj[p][k]
  BY <1>1, <1>2 DEF ObjDelta
<1>4. known[p] \in SUBSET made /\ \A op \in known[p] : IsEdit(op)
  BY KnownIs DEF IndInv, Typed
<1>5. \A k \in Keys : obj[p][k] \in Stamp \cup {Root} /\ ValueIs(obj[p][k], Values(known[p], k))
  BY ObjFaithfulKeys DEF IndInv, Typed, ObjLatest
<1>7. \A k \in DOMAIN d.obj : k \in Keys /\ d.obj[k] \in Stamp
  BY <1>2, <1>3, <1>5
<1>8. ASSUME NEW k \in Keys, k \in DOMAIN d.obj PROVE Latest(d.obj[k], Values(KnownBy(d.vv1), k))
  <2>1. d.obj[k] = obj[p][k] /\ obj[p][k] # Root
    BY <1>2, <1>3, <1>8
  <2> QED
    BY <1>1, <1>5, <2>1 DEF ValueIs
<1>9. ASSUME NEW k \in Keys, k \notin DOMAIN d.obj, Values(KnownBy(d.vv1), k) # {}
      PROVE  \E v \in Values(known[r], k) : Latest(v, Values(KnownBy(d.vv1), k))
  <2>1. Latest(obj[p][k], Values(known[p], k))
    BY <1>1, <1>5, <1>9 DEF ValueIs
  <2>2. obj[p][k] \in Values(known[p], k) /\ obj[p][k] \in Stamp
    BY <1>4, <2>1, EditValues DEF Latest
  <2>3. obj[p][k] # Root
    BY <2>2, SidAssumption DEF Root, Stamp
  <2>4. Has(cc, obj[p][k])
    BY <1>2, <1>9, <2>3
  <2>5. PICK op \in known[p] : Has(cc, op.id) /\ op.kind = "ins_obj" /\ op.key = k /\ op.val = obj[p][k]
    BY <1>4, <2>2, <2>4, CoversValue DEF IndInv
  <2>6. op \in known[r]
    BY <1>4, <2>5
  <2>7. obj[p][k] \in Values(known[r], k)
    BY <2>5, <2>6 DEF Values
  <2> QED
    BY <1>1, <2>1, <2>7
<1>10. ObjOf(d, r)
  BY <1>8, <1>9 DEF ObjOf
<1> QED
  BY <1>1, <1>7, <1>10 DEF d

-----------------------------------------------------------------------------
(* What stays true while peers learn of edits that others made.            *)

\* Only clocks move on, and only known edits spread.
Spreads ==
  /\ made' = made
  /\ \A p \in Sid : known[p] \subseteq known'[p]
  /\ \A p \in Sid : clock[p].time <= clock'[p].time

LEMMA ObjOfSpreads ==
  ASSUME NEW d, NEW p \in Sid, known[p] \subseteq known'[p], ObjOf(d, p),
         KnownBy(d.vv1)' = KnownBy(d.vv1)
  PROVE  ObjOf(d, p)'
<1>1. \A k : Values(known[p], k) \subseteq Values(known'[p], k)
  BY ValuesSubset
<1> QED
  BY <1>1 DEF ObjOf

-----------------------------------------------------------------------------
(* Initially.                                                              *)

LEMMA InitInv == Init => IndInv
<1> SUFFICES ASSUME Init PROVE IndInv
  OBVIOUS
<1>1. made = {} /\ net = {}
  BY DEF Init
<1> DEFINE none == [q \in Sid |-> 0]
<1>2. \A p \in Sid : clock[p] = [sid |-> p, time |-> 1, peers |-> none]
  BY DEF Init, NewClock
<1>0. none \in [Sid -> Nat] /\ (\A q \in Sid : none[q] = 0) /\ 1 \in Nat
  OBVIOUS
<1> HIDE DEF none
<1>3. \A p \in Sid : clock[p] \in Clock /\ clock[p].sid = p /\ clock[p].time = 1
  <2> SUFFICES ASSUME NEW p \in Sid
               PROVE  clock[p] \in Clock /\ clock[p].sid = p /\ clock[p].time = 1
    OBVIOUS
  <2>1. clock[p] = [sid |-> p, time |-> 1, peers |-> none]
    BY <1>2
  <2> QED
    BY <2>1, <1>0 DEF Clock
<1>4. Typed
  BY <1>1, <1>3 DEF Init, Typed
<1>5. ASSUME NEW p \in Sid, NEW q \in Sid PROVE VersionVector(clock[p])[q] = 0
  <2>1. clock[p].peers[q] = 0
    <3>1. clock[p] = [sid |-> p, time |-> 1, peers |-> none]
      BY <1>2
    <3> QED
      BY <3>1, <1>0
  <2>2. VersionVector(clock[p])[q] = IF q = p THEN 1 - 1 ELSE clock[p].peers[q]
    BY <1>3, VectorEntries
  <2> QED
    BY <2>1, <2>2
<1>6. ClocksSane
  BY <1>1, <1>3, <1>5 DEF ClocksSane, Clocks, ClockSane
<1>7. ObjFaithful
  BY <1>1 DEF Init, ObjFaithful, KnownOf
<1>8. OwnKnown /\ NetCovered /\ NetLatest
  BY <1>1 DEF OwnKnown, NetCovered, NetLatest
<1> QED
  BY <1>4, <1>6, <1>7, <1>8 DEF IndInv

-----------------------------------------------------------------------------
(* Local edits.                                                            *)

\* An edit of peer p takes its identifier, and its value if it is one of the object,
\* from the ticks that p's clock moves on by.
EditOf(p, op, ticks) ==
  /\ IsEdit(op)
  /\ ticks \in Nat
  /\ op.id.sid = p /\ clock[p].time <= op.id.time /\ op.id.time < clock[p].time + ticks
  /\ op.kind = "ins_obj" => op.id.time = clock[p].time + ticks - 1 /\ clock[p].time <= op.val.time

LEMMA EditClock ==
  ASSUME Typed, NEW p \in Sid, NEW op, NEW ticks, Edit(p, op, ticks), EditOf(p, op, ticks)
  PROVE  /\ clock' \in [Sid -> Clock]
         /\ clock'[p].sid = p /\ clock'[p].time = clock[p].time + ticks
         /\ \A q \in Sid : q # p => clock'[q] = clock[q]
         /\ \A q \in Sid : VersionVector(clock'[p])[q] =
              IF q = p THEN clock[p].time + ticks - 1 ELSE VersionVector(clock[p])[q]
<1>1. clock \in [Sid -> Clock] /\ clock[p].sid = p /\ ticks \in Nat
  BY DEF Typed, EditOf
<1>2. clock' = [clock EXCEPT ![p] = [clock[p] EXCEPT !.time = clock[p].time + ticks]]
  BY <1>1 DEF Edit, Tick
<1> DEFINE c == [clock[p] EXCEPT !.time = clock[p].time + ticks]
<1>3. clock[p] \in Clock
  BY <1>1
<1>4. c \in Clock /\ c.sid = p /\ c.time = clock[p].time + ticks /\ c.peers = clock[p].peers
  BY <1>1, <1>3 DEF Clock
<1> HIDE DEF c
<1>5. clock'[p] = c /\ clock' \in [Sid -> Clock] /\ \A q \in Sid : q # p => clock'[q] = clock[q]
  BY <1>1, <1>2, <1>4 DEF c
<1>6. ASSUME NEW q \in Sid
      PROVE  VersionVector(c)[q] = IF q = p THEN clock[p].time + ticks - 1 ELSE VersionVector(clock[p])[q]
  <2>1. VersionVector(c)[q] = IF q = p THEN c.time - 1 ELSE c.peers[q]
    BY <1>4, VectorEntries
  <2>2. VersionVector(clock[p])[q] = IF q = p THEN clock[p].time - 1 ELSE clock[p].peers[q]
    BY <1>1, <1>3, VectorEntries
  <2>3. CASE q = p
    <3>1. VersionVector(c)[q] = c.time - 1
      BY <2>1, <2>3
    <3>2. c.time - 1 = clock[p].time + ticks - 1
      BY <1>1, <1>3, <1>4 DEF Clock
    <3> QED
      BY <2>3, <3>1, <3>2
  <2>4. CASE q # p
    <3>1. VersionVector(c)[q] = c.peers[q] /\ VersionVector(clock[p])[q] = clock[p].peers[q]
      BY <2>1, <2>2, <2>4
    <3> QED
      BY <1>4, <2>4, <3>1
  <2> QED
    BY <2>3, <2>4
<1> QED
  BY <1>4, <1>5, <1>6

\* No clock under way covers the new edit, nor its value.
LEMMA EditUncovered ==
  ASSUME Typed, NEW p \in Sid, NEW op, NEW ticks, EditOf(p, op, ticks),
         NEW c \in Clock, ClockSane(c)
  PROVE  ~Has(c, op.id) /\ (op.kind = "ins_obj" => ~Has(c, op.val))
<1>1. /\ op.id \in Stamp /\ op.id.sid = p /\ clock[p].time <= op.id.time
      /\ VersionVector(c)[p] < clock[p].time
      /\ VersionVector(c)[p] \in Int /\ clock[p].time \in Nat
  BY VectorEntries DEF EditOf, IsEdit, ClockSane, Typed, Clock
<1>2. ~Has(c, op.id)
  <2>1. Has(c, op.id) <=> op.id.time <= VersionVector(c)[p]
    BY <1>1, HasVector
  <2>2. op.id.time \in Nat
    BY <1>1 DEF Stamp
  <2> QED
    BY <1>1, <2>1, <2>2
<1>3. ASSUME op.kind = "ins_obj" PROVE ~Has(c, op.val)
  <2>1. op.val \in Stamp /\ op.val.sid = p /\ clock[p].time <= op.val.time /\ op.val.time \in Nat
    BY <1>1, <1>3 DEF EditOf, IsEdit, At, Stamp
  <2>2. Has(c, op.val) <=> op.val.time <= VersionVector(c)[p]
    BY <2>1, HasVector
  <2> QED
    BY <1>1, <2>1, <2>2
<1> QED
  BY <1>2, <1>3

\* The clock of the editor covers the edit, and what it covered before.
LEMMA EditCovered ==
  ASSUME Typed, NEW p \in Sid, NEW op, NEW ticks, Edit(p, op, ticks), EditOf(p, op, ticks),
         ClockSane(clock[p])
  PROVE  /\ Has(clock'[p], op.id)
         /\ \A id \in Stamp : Has(clock[p], id) => Has(clock'[p], id)
         /\ \A id \in Stamp : id.sid # p => (Has(clock'[p], id) <=> Has(clock[p], id))
         /\ \A q \in Sid : VersionVector(clock'[p])[q] < clock'[p].time
         /\ \A q \in Sid : VersionVector(clock'[p])[q] < clock'[q].time
<1>1. /\ clock[p] \in Clock /\ clock'[p] \in Clock /\ op.id \in Stamp /\ op.id.sid = p
      /\ clock[p].sid = p /\ ticks \in Nat /\ clock[p].time \in Nat
      /\ op.id.time < clock[p].time + ticks /\ clock'[p].time = clock[p].time + ticks
  BY EditClock DEF EditOf, IsEdit, Typed, Clock
<1>2. /\ VersionVector(clock'[p])[p] = clock[p].time + ticks - 1
      /\ \A q \in Sid : q # p => VersionVector(clock'[p])[q] = VersionVector(clock[p])[q]
      /\ VersionVector(clock[p])[p] = clock[p].time - 1
  BY <1>1, EditClock, VectorEntries
<1>3. \A id \in Stamp : /\ Has(clock'[p], id) <=> id.time <= VersionVector(clock'[p])[id.sid]
                        /\ Has(clock[p], id) <=> id.time <= VersionVector(clock[p])[id.sid]
  BY <1>1, HasVector
<1>4. Has(clock'[p], op.id)
  <2>1. op.id.time \in Nat
    BY <1>1 DEF Stamp
  <2> QED
    BY <1>1, <1>2, <1>3, <2>1
<1>5. ASSUME NEW id \in Stamp, Has(clock[p], id) PROVE Has(clock'[p], id)
  <2>1. id.sid \in Sid /\ id.time \in Nat
    BY DEF Stamp
  <2> QED
    BY <1>1, <1>2, <1>3, <1>5, <2>1
<1>6. ASSUME NEW id \in Stamp, id.sid # p PROVE Has(clock'[p], id) <=> Has(clock[p], id)
  <2>1. id.sid \in Sid
    BY DEF Stamp
  <2> QED
    BY <1>2, <1>3, <1>6, <2>1
<1>7. ASSUME NEW q \in Sid
      PROVE  VersionVector(clock'[p])[q] < clock'[p].time /\ VersionVector(clock'[p])[q] < clock'[q].time
  <2>1. q # p => clock'[q] = clock[q]
    BY EditClock
  <2>2. VersionVector(clock[p])[q] < clock[p].time /\ VersionVector(clock[p])[q] < clock[q].time
    BY DEF ClockSane
  <2>3. VersionVector(clock[p])[q] \in Int
    BY <1>1, VectorEntries
  <2> QED
    BY <1>1, <1>2, <2>1, <2>2, <2>3
<1> QED
  BY <1>4, <1>5, <1>6, <1>7

\* The editor has one more edit; no one else does, and no clock under way covers it.
LEMMA EditKnown ==
  ASSUME IndInv, NEW p \in Sid, NEW op, NEW ticks, Edit(p, op, ticks), EditOf(p, op, ticks)
  PROVE  /\ made' = made \cup {op}
         /\ known'[p] = known[p] \cup {op}
         /\ \A q \in Sid : q # p => known'[q] = known[q]
         /\ \A c \in Clock : ClockSane(c) => KnownBy(c)' = KnownBy(c)
<1>1. Typed /\ OwnKnown /\ made' = made \cup {op} /\ \A q \in Sid : clock[q] \in Clock /\ ClockSane(clock[q])
  BY DEF IndInv, Edit, Typed, ClocksSane, Clocks
<1>2. ASSUME NEW c \in Clock, ClockSane(c) PROVE KnownBy(c)' = KnownBy(c)
  <2>1. ~Has(c, op.id)
    BY <1>1, <1>2, EditUncovered
  <2> QED
    BY <1>1, <2>1 DEF KnownBy
<1>3. ASSUME NEW q \in Sid, q # p PROVE known'[q] = known[q]
  <2>1. clock'[q] = clock[q] /\ ~Has(clock[q], op.id)
    BY <1>1, <1>3, EditClock, EditUncovered
  <2>2. known'[q] = {x \in made' : Has(clock[q], x.id)} /\ known[q] = {x \in made : Has(clock[q], x.id)}
    BY <2>1, KnownIs, KnownIsNext DEF KnownBy
  <2> QED
    BY <1>1, <2>1, <2>2
<1>4. known'[p] = known[p] \cup {op}
  <2>1. Has(clock'[p], op.id)
    BY <1>1, EditCovered
  <2>2. ASSUME NEW x \in made PROVE Has(clock'[p], x.id) <=> Has(clock[p], x.id)
    <3>1. x.id \in Stamp /\ (x.id.sid = p => Has(clock[p], x.id))
      BY <1>1, KnownIs DEF Typed, IsEdit, OwnKnown, KnownBy
    <3> QED
      BY <1>1, <3>1, EditCovered
  <2>3. known'[p] = {x \in made' : Has(clock'[p], x.id)} /\ known[p] = {x \in made : Has(clock[p], x.id)}
    BY KnownIs, KnownIsNext DEF KnownBy
  <2> QED
    BY <1>1, <2>1, <2>2, <2>3
<1> QED
  BY <1>1, <1>2, <1>3, <1>4

\* Every edit keeps what is said of clocks and of what they cover.
LEMMA EditKeepsClocks ==
  ASSUME IndInv, NEW p \in Sid, NEW op, NEW ticks, Edit(p, op, ticks), EditOf(p, op, ticks),
         obj' \in [Sid -> [Keys -> Stamp \cup {Root}]]
  PROVE  Typed' /\ OwnKnown' /\ ClocksSane' /\ NetCovered'
<1>1. Typed /\ ClockSane(clock[p]) /\ net' = net /\ IsEdit(op) /\ op.id.sid = p /\ op.id \in Stamp
  BY DEF IndInv, ClocksSane, Clocks, Edit, EditOf, IsEdit
<1>2. /\ made' = made \cup {op}
      /\ known'[p] = known[p] \cup {op}
      /\ \A q \in Sid : q # p => known'[q] = known[q]
      /\ \A c \in Clock : ClockSane(c) => KnownBy(c)' = KnownBy(c)
  BY EditKnown
<1>3. /\ clock' \in [Sid -> Clock]
      /\ clock'[p].sid = p
      /\ \A q \in Sid : q # p => clock'[q] = clock[q]
  BY <1>1, EditClock
<1>4. \A q \in Sid : clock[q] \in Clock /\ clock[q].sid = q /\ ClockSane(clock[q]) /\ known[q] \subseteq made
  BY KnownIs DEF IndInv, Typed, ClocksSane, Clocks
<1>5. \A m \in net : ClockOf(m) \in Clock /\ ClockSane(ClockOf(m))
  BY DEF IndInv, Typed, IsMessage, ClocksSane, Clocks
<1>6. Typed'
  <2>6. \A x \in made' : IsEdit(x)
    BY <1>1, <1>2 DEF Typed
  <2>7. \A q \in Sid : clock'[q].sid = q
    BY <1>3, <1>4
  <2> QED
    BY <1>1, <1>3, <2>6, <2>7 DEF Typed, IsMessage, ClockOf
<1>7. OwnKnown'
  <2>1. ASSUME NEW x \in made, x.id.sid \in Sid PROVE x \in known'[x.id.sid]
    BY <1>2, <2>1 DEF IndInv, OwnKnown
  <2>2. \A x \in made : x.id.sid \in Sid
    BY <1>1 DEF Typed, IsEdit, Stamp
  <2> QED
    BY <1>1, <1>2, <2>1, <2>2 DEF OwnKnown
<1>8. \A id \in Stamp : Has(clock[p], id) => Has(clock'[p], id)
  BY <1>1, EditCovered
<1>9. Has(clock'[p], op.id)
  BY <1>1, EditCovered
<1>10. ASSUME NEW c \in Clock, ClockSane(c) PROVE ~Has(c, op.id) /\ ClockSane(c)'
  <2>1. ~Has(c, op.id) /\ (op.kind = "ins_obj" => ~Has(c, op.val))
    BY <1>1, <1>10, EditUncovered
  <2>2. ASSUME NEW q \in Sid
        PROVE  VersionVector(c)[q] < c.time /\ VersionVector(c)[q] < clock'[q].time
    <3>1. clock'[p].time = clock[p].time + ticks /\ ticks \in Nat /\ clock[q].time \in Nat
      BY <1>1, <1>4, EditClock DEF EditOf, Clock
    <3>2. clock[q].time <= clock'[q].time
      BY <1>3, <3>1
    <3>3. clock'[q].time \in Nat
      BY <1>3, <3>1 DEF Clock
    <3> QED
      BY <1>10, <3>1, <3>2, <3>3, VectorEntries DEF ClockSane
  <2> QED
    BY <1>2, <1>10, <2>1, <2>2 DEF ClockSane
<1>11. ASSUME NEW c, c = clock'[p] PROVE ClockSane(c)'
  <2>1. \A q \in Sid : VersionVector(clock'[p])[q] < clock'[p].time /\ VersionVector(clock'[p])[q] < clock'[q].time
    BY <1>1, EditCovered
  <2>2. ASSUME NEW x \in made', x.kind = "ins_obj", Has(clock'[p], x.val) PROVE Has(clock'[p], x.id)
    <3>1. CASE x = op
      BY <1>9, <3>1
    <3>2. CASE x # op
      <4>1. x \in made /\ IsEdit(x)
        BY <1>1, <1>2, <3>2 DEF Typed
      <4>2. CASE x.id.sid = p
        <5>1. x \in known[p]
          BY <4>1, <4>2 DEF IndInv, OwnKnown
        <5>2. Has(clock[p], x.id)
          BY <5>1, KnownIs DEF KnownBy
        <5> QED
          BY <1>8, <4>1, <5>2 DEF IsEdit
      <4>3. CASE x.id.sid # p
        <5>1. x.val \in Stamp /\ x.val.sid # p /\ x.id \in Stamp
          BY <2>2, <4>1, <4>3 DEF IsEdit, At
        <5>2. Has(clock[p], x.val)
          BY <1>1, <2>2, <5>1, EditCovered
        <5>3. Has(clock[p], x.id)
          BY <1>1, <2>2, <4>1, <5>2 DEF ClockSane
        <5> QED
          BY <1>8, <5>1, <5>3
      <4> QED
        BY <4>2, <4>3
    <3> QED
      BY <3>1, <3>2
  <2> QED
    BY <1>11, <2>1, <2>2 DEF ClockSane
<1>12. ClocksSane'
  <2>1. ASSUME NEW c \in Clocks' PROVE ClockSane(c)'
    <3>1. c = clock'[p] \/ (\E q \in Sid : q # p /\ c = clock[q]) \/ \E m \in net : c = ClockOf(m)
      BY <1>1, <1>3 DEF Clocks
    <3>2. CASE c = clock'[p]
      BY <1>11, <3>2
    <3>3. CASE c # clock'[p]
      <4>1. c \in Clock /\ ClockSane(c)
        BY <1>4, <1>5, <3>1, <3>3
      <4> QED
        BY <1>10, <4>1
    <3> QED
      BY <3>2, <3>3
  <2> QED
    BY <2>1 DEF ClocksSane
<1>14. NetCovered'
  <2> SUFFICES ASSUME NEW m \in net PROVE KnownBy(ClockOf(m))' \subseteq known'[m.from]
    BY <1>1 DEF NetCovered
  <2>1. m.from \in Sid /\ KnownBy(ClockOf(m)) \subseteq known[m.from]
    BY DEF IndInv, Typed, IsMessage, NetCovered
  <2>2. KnownBy(ClockOf(m))' = KnownBy(ClockOf(m))
    <3> DEFINE c == ClockOf(m)
    <3>1. c \in Clock /\ ClockSane(c) /\ ClockOf(m)' = c
      BY <1>5 DEF ClockOf
    <3> HIDE DEF c
    <3>2. KnownBy(c)' = KnownBy(c)
      BY <1>2, <3>1
    <3> QED
      BY <3>1, <3>2 DEF KnownBy, c
  <2> QED
    BY <1>2, <2>1, <2>2
<1> QED
  BY <1>6, <1>7, <1>12, <1>14

\* Deltas under way have no less of what they had: the receiver may have edited.
LEMMA EditKeepsDeltas ==
  ASSUME IndInv, NEW p \in Sid, NEW op, NEW ticks, Edit(p, op, ticks), EditOf(p, op, ticks)
  PROVE  NetLatest'
<1> SUFFICES ASSUME NEW m \in net, m.type # 1 PROVE ObjOf(m.delta, m.to)'
  BY DEF NetLatest, Edit
<1>1. m.to \in Sid /\ ObjOf(m.delta, m.to)
  BY DEF IndInv, Typed, IsMessage, NetLatest
<1>2. known[m.to] \subseteq known'[m.to]
  BY <1>1, EditKnown
<1>3. KnownBy(m.delta.vv1)' = KnownBy(m.delta.vv1)
  <2>1. m.delta.vv1 \in Clock /\ ClockSane(m.delta.vv1)
    BY DEF IndInv, Typed, IsMessage, ClockOf, ClocksSane, Clocks
  <2> DEFINE c == m.delta.vv1
  <2> HIDE DEF c
  <2>2. c \in Clock /\ ClockSane(c)
    BY <2>1 DEF c
  <2>3. KnownBy(c)' = KnownBy(c)
    BY <2>2, EditKnown
  <2> QED
    BY <2>3 DEF KnownBy, c
<1> QED
  BY <1>1, <1>2, <1>3, ObjOfSpreads

\* Edits of the string and of the array leave the values of the object alone.
LEMMA PlainEdit ==
  ASSUME IndInv, NEW p \in Sid, NEW op, NEW ticks, Edit(p, op, ticks), EditOf(p, op, ticks),
         op.kind # "ins_obj", obj' = obj
  PROVE  IndInv'
<1>1. Typed' /\ OwnKnown' /\ ClocksSane' /\ NetCovered'
  BY EditKeepsClocks DEF IndInv, Typed
<1>2. NetLatest'
  BY EditKeepsDeltas
<1>3. ObjFaithful'
  <2>1. ASSUME NEW q \in Sid, NEW k \in Keys PROVE Values(known'[q], k) = Values(known[q], k)
    <3>1. known'[q] = known[q] \/ known'[q] = known[q] \cup {op}
      BY EditKnown
    <3>2. Values({op}, k) = {}
      BY DEF Values
    <3>3. Values(known[q] \cup {op}, k) = Values(known[q], k) \cup Values({op}, k)
      BY ValuesUnion
    <3> QED
      BY <3>1, <3>2, <3>3
  <2>2. \A q \in Sid : ObjLatest(q)
    BY ObjFaithfulKeys DEF IndInv
  <2>3. \A q \in Sid : ObjLatest(q)'
    BY <2>1, <2>2 DEF ObjLatest
  <2> QED
    BY <2>3, ObjFaithfulKeysNext
<1> QED
  BY <1>1, <1>2, <1>3 DEF IndInv

\* ObjApi.set(): the new value is the latest of its key.
LEMMA ObjSetKeeps ==
  ASSUME IndInv, NEW p \in Sid, NEW k \in Keys, ObjSet(p, k)
  PROVE  IndInv'
<1> DEFINE op == [kind |-> "ins_obj", id |-> At(Now(p), 1), key |-> k, val |-> Now(p)]
<1>1. Edit(p, op, 2) /\ obj' = [obj EXCEPT ![p] = Puts(@, [x \in {k} |-> Now(p)])]
  BY DEF ObjSet
<1>2. clock[p] \in Clock /\ clock[p].sid = p
  BY DEF IndInv, Typed
<1>3. Now(p) = [sid |-> p, time |-> clock[p].time] /\ clock[p].time \in Nat
  BY <1>2 DEF Now, TickStamp, Clock
<1>4. Now(p) \in Stamp /\ Now(p).sid = p /\ Now(p).time = clock[p].time
  BY <1>3 DEF Stamp
<1>5. At(Now(p), 1) = [sid |-> p, time |-> clock[p].time + 1]
  BY <1>4 DEF At
<1>6. /\ op.kind = "ins_obj" /\ op.key = k /\ op.val = Now(p) /\ op.id = At(op.val, 1)
      /\ op.id.sid = p /\ op.id.time = clock[p].time + 1 /\ op.id \in Stamp
  BY <1>3, <1>5 DEF Stamp
<1> HIDE DEF op
<1>7. IsEdit(op)
  BY <1>4, <1>6 DEF IsEdit
<1>8. EditOf(p, op, 2)
  BY <1>3, <1>4, <1>6, <1>7 DEF EditOf
<1>9. obj \in [Sid -> [Keys -> Stamp \cup {Root}]]
  BY DEF IndInv, Typed
<1> DEFINE o == Puts(obj[p], [x \in {k} |-> Now(p)])
<1>10. /\ o \in [Keys -> Stamp \cup {Root}]
       /\ o[k] = IF Before(obj[p][k], Now(p)) THEN Now(p) ELSE obj[p][k]
       /\ \A x \in Keys : x # k => o[x] = obj[p][x]
  <2>1. obj[p] \in [Keys -> Stamp \cup {Root}]
    BY <1>9
  <2> QED
    BY <1>4, <2>1 DEF Puts
<1>11. obj' = [obj EXCEPT ![p] = o]
  BY <1>1
<1> HIDE DEF o
<1>12. obj' \in [Sid -> [Keys -> Stamp \cup {Root}]] /\ obj'[p] = o /\ \A q \in Sid : q # p => obj'[q] = obj[q]
  <2> DEFINE T == [Keys -> Stamp \cup {Root}]
  <2>1. o \in T /\ obj \in [Sid -> T]
    BY <1>9, <1>10
  <2> HIDE DEF T
  <2>2. obj' \in [Sid -> T] /\ obj'[p] = o /\ \A q \in Sid : q # p => obj'[q] = obj[q]
    BY <1>11, <2>1
  <2> QED
    BY <2>2 DEF T
<1>13. Typed' /\ OwnKnown' /\ ClocksSane' /\ NetCovered'
  BY <1>1, <1>8, <1>12, EditKeepsClocks
<1>14. NetLatest'
  BY <1>1, <1>8, EditKeepsDeltas
<1>15. known'[p] = known[p] \cup {op} /\ \A q \in Sid : q # p => known'[q] = known[q]
  BY <1>1, <1>8, EditKnown
<1>16. \A q \in Sid : ObjLatest(q)
  BY ObjFaithfulKeys DEF IndInv
<1>17. ASSUME NEW x \in Keys PROVE ValueIs(o[x], Values(known[p] \cup {op}, x))
  <2>1. Values(known[p] \cup {op}, x) = Values(known[p], x) \cup Values({op}, x)
    BY ValuesUnion
  <2>2. Values(known[p], x) \in SUBSET Stamp /\ ValueIs(obj[p][x], Values(known[p], x))
    BY <1>16, KnownIs, EditValues DEF IndInv, Typed, ObjLatest
  <2>3. CASE x = k
    <3>1. Values({op}, k) = {Now(p)}
      BY <1>6 DEF Values
    <3>2. Latest(Now(p), {Now(p)})
      BY <1>4, BeforeOrder DEF Latest, Value
    <3>3. ValueIs(IF Before(obj[p][k], Now(p)) THEN Now(p) ELSE obj[p][k], Values(known[p], k) \cup {Now(p)})
      BY <1>4, <2>2, <2>3, <3>2, LatestOfBoth
    <3> QED
      BY <1>10, <2>1, <2>3, <3>1, <3>3
  <2>4. CASE x # k
    <3>1. Values({op}, x) = {}
      BY <1>6, <2>4 DEF Values
    <3> QED
      BY <1>10, <2>1, <2>2, <2>4, <3>1
  <2> QED
    BY <2>3, <2>4
<1>18. \A q \in Sid : ObjLatest(q)'
  <2> SUFFICES ASSUME NEW q \in Sid, NEW x \in Keys PROVE ValueIs(obj'[q][x], Values(known'[q], x))
    BY DEF ObjLatest
  <2> QED
    BY <1>12, <1>15, <1>16, <1>17 DEF ObjLatest
<1>19. ObjFaithful'
  BY <1>18, ObjFaithfulKeysNext
<1> QED
  BY <1>13, <1>14, <1>19 DEF IndInv

LEMMA StampOf ==
  ASSUME IndInv, NEW p \in Sid
  PROVE  /\ clock[p].time \in Nat
         /\ \A n \in Nat : At(Now(p), n) \in Stamp /\ At(Now(p), n).sid = p
                           /\ At(Now(p), n).time = clock[p].time + n
         /\ Now(p) \in Stamp /\ Now(p).sid = p /\ Now(p).time = clock[p].time
<1>1. clock[p] \in Clock /\ clock[p].sid = p
  BY DEF IndInv, Typed
<1>2. Now(p) = [sid |-> p, time |-> clock[p].time] /\ clock[p].time \in Nat
  BY <1>1 DEF Now, TickStamp, Clock
<1>3. Now(p) \in Stamp /\ Now(p).sid = p /\ Now(p).time = clock[p].time
  BY <1>2 DEF Stamp
<1>4. ASSUME NEW n \in Nat
      PROVE  At(Now(p), n) \in Stamp /\ At(Now(p), n).sid = p
               /\ At(Now(p), n).time = clock[p].time + n
  <2>1. At(Now(p), n) = [sid |-> p, time |-> clock[p].time + n]
    BY <1>3 DEF At
  <2> QED
    BY <1>2, <2>1 DEF Stamp
<1> QED
  BY <1>2, <1>3, <1>4

LEMMA StrInsKeeps ==
  ASSUME IndInv, NEW p \in Sid, NEW pos, StrIns(p, pos)
  PROVE  IndInv'
<1> DEFINE op == [kind |-> "ins_str", id |-> Now(p), span |-> 2, ref |-> InsAtAfter(str[p], Root, pos)]
<1>1. Edit(p, op, 2) /\ obj' = obj
  BY DEF StrIns
<1>2. op.kind = "ins_str" /\ op.id = Now(p)
  OBVIOUS
<1> HIDE DEF op
<1>3. EditOf(p, op, 2)
  BY <1>2, StampOf DEF EditOf, IsEdit
<1> QED
  BY <1>1, <1>2, <1>3, PlainEdit

LEMMA StrDelKeeps ==
  ASSUME IndInv, NEW p \in Sid, NEW pos, StrDel(p, pos)
  PROVE  IndInv'
<1> DEFINE op == [kind |-> "del_str", id |-> Now(p), what |-> FindInterval(str[p], pos, 1)]
<1>1. Edit(p, op, 1) /\ obj' = obj
  BY DEF StrDel
<1>2. op.kind = "del_str" /\ op.id = Now(p)
  OBVIOUS
<1> HIDE DEF op
<1>3. EditOf(p, op, 1)
  BY <1>2, StampOf DEF EditOf, IsEdit
<1> QED
  BY <1>1, <1>2, <1>3, PlainEdit

LEMMA ArrInsKeeps ==
  ASSUME IndInv, NEW p \in Sid, NEW pos, ArrIns(p, pos)
  PROVE  IndInv'
<1> DEFINE op == [kind |-> "ins_arr", id |-> At(Now(p), 2), span |-> 2,
                  ref |-> InsAtAfter(arr[p], Root, pos), vals |-> <<Now(p), At(Now(p), 1)>>]
<1>1. Edit(p, op, 4) /\ obj' = obj
  BY DEF ArrIns
<1>2. op.kind = "ins_arr" /\ op.id = At(Now(p), 2)
  OBVIOUS
<1> HIDE DEF op
<1>3. EditOf(p, op, 4)
  BY <1>2, StampOf DEF EditOf, IsEdit
<1> QED
  BY <1>1, <1>2, <1>3, PlainEdit

LEMMA ArrUpdKeeps ==
  ASSUME IndInv, NEW p \in Sid, NEW pos, ArrUpd(p, pos)
  PROVE  IndInv'
<1> DEFINE op == [kind |-> "upd_arr", id |-> At(Now(p), 1), ref |-> View(arr[p])[pos + 1],
                  vals |-> <<Now(p)>>]
<1>1. Edit(p, op, 2) /\ obj' = obj
  BY DEF ArrUpd
<1>2. op.kind = "upd_arr" /\ op.id = At(Now(p), 1)
  OBVIOUS
<1> HIDE DEF op
<1>3. EditOf(p, op, 2)
  BY <1>2, StampOf DEF EditOf, IsEdit
<1> QED
  BY <1>1, <1>2, <1>3, PlainEdit

LEMMA ArrDelKeeps ==
  ASSUME IndInv, NEW p \in Sid, NEW pos, ArrDel(p, pos)
  PROVE  IndInv'
<1> DEFINE op == [kind |-> "del_arr", id |-> Now(p), what |-> FindInterval(arr[p], pos, 1)]
<1>1. Edit(p, op, 1) /\ obj' = obj
  BY DEF ArrDel
<1>2. op.kind = "del_arr" /\ op.id = Now(p)
  OBVIOUS
<1> HIDE DEF op
<1>3. EditOf(p, op, 1)
  BY <1>2, StampOf DEF EditOf, IsEdit
<1> QED
  BY <1>1, <1>2, <1>3, PlainEdit

-----------------------------------------------------------------------------
(* Applying a delta.                                                       *)

\* The two halves of the invariant: the peers, and each message under way.
PeersInv ==
  /\ clock \in [Sid -> Clock] /\ \A p \in Sid : clock[p].sid = p
  /\ obj \in [Sid -> [Keys -> Stamp \cup {Root}]]
  /\ \A op \in made : IsEdit(op)
  /\ OwnKnown
  /\ \A p \in Sid : ClockSane(clock[p])
  /\ ObjFaithful

MessageInv(m) ==
  /\ IsMessage(m)
  /\ ClockSane(ClockOf(m))
  /\ MsgCovered(m)
  /\ m.type # 1 => ObjOf(m.delta, m.to)

LEMMA Halves == IndInv <=> PeersInv /\ \A m \in net : MessageInv(m)
<1>1. ClocksSane <=> (\A p \in Sid : ClockSane(clock[p])) /\ \A m \in net : ClockSane(ClockOf(m))
  BY DEF ClocksSane, Clocks
<1>2. NetCovered <=> \A m \in net : MsgCovered(m)
  BY DEF NetCovered, MsgCovered
<1>3. Typed <=> /\ clock \in [Sid -> Clock] /\ \A p \in Sid : clock[p].sid = p
                /\ obj \in [Sid -> [Keys -> Stamp \cup {Root}]]
                /\ \A op \in made : IsEdit(op)
                /\ \A m \in net : IsMessage(m)
  BY DEF Typed
<1> QED
  BY <1>1, <1>2, <1>3 DEF IndInv, PeersInv, MessageInv, NetLatest

LEMMA HalvesNext == IndInv' <=> (PeersInv' /\ (\A m \in net : MessageInv(m))')
BY Halves, PTL

LEMMA MessageInvSpreads ==
  ASSUME PeersInv, clock' \in [Sid -> Clock], Spreads, NEW m, MessageInv(m)
  PROVE  MessageInv(m)'
<1>1. /\ IsMessage(m) /\ ClockSane(ClockOf(m)) /\ MsgCovered(m) /\ ClockOf(m) \in Clock
      /\ m.from \in Sid /\ m.to \in Sid
  BY DEF MessageInv, IsMessage
<1>2. ASSUME NEW q \in Sid PROVE clock[q].time \in Nat /\ clock'[q].time \in Nat
  BY <1>2 DEF PeersInv, Clock
<1>3. ASSUME NEW c, c = ClockOf(m) PROVE ClockSane(c)'
  <2>1. ASSUME NEW q \in Sid PROVE VersionVector(c)[q] < c.time /\ VersionVector(c)[q] < clock'[q].time
    BY <1>1, <1>2, <1>3, VectorEntries DEF ClockSane, Spreads
  <2> QED
    BY <1>1, <1>3, <2>1 DEF ClockSane, Spreads
<1>4. MsgCovered(m)'
  BY <1>1 DEF MsgCovered, Spreads, KnownBy, ClockOf
<1>5. m.type # 1 => ObjOf(m.delta, m.to)'
  <2>1. KnownBy(m.delta.vv1)' = KnownBy(m.delta.vv1)
    BY DEF Spreads, KnownBy
  <2> QED
    BY <1>1, <2>1, ObjOfSpreads DEF MessageInv, Spreads
<1>6. ClockSane(ClockOf(m))'
  BY <1>3
<1>7. IsMessage(m)'
  BY <1>1 DEF IsMessage, ClockOf
<1> QED
  BY <1>4, <1>5, <1>6, <1>7 DEF MessageInv

\* What has to hold of a delta for peer p to apply it.
Fit(d, p) ==
  /\ d.vv1 \in Clock /\ ClockSane(d.vv1)
  /\ \A k \in DOMAIN d.obj : k \in Keys /\ d.obj[k] \in Stamp
  /\ ObjOf(d, p)

LEMMA AdvanceCCHas ==
  ASSUME NEW c \in Clock, NEW d \in Clock, \A q \in Sid : VersionVector(d)[q] < d.time,
         NEW id \in Stamp
  PROVE  /\ Has(c, id) => Has(AdvanceCC(c, d), id)
         /\ id.sid # c.sid => (Has(AdvanceCC(c, d), id) <=> Has(c, id) \/ Has(d, id))
<1> DEFINE a == AdvanceCC(c, d)
<1>1. /\ a \in Clock
      /\ \A q \in Sid : VersionVector(a)[q] = IF q = c.sid THEN Larger(c.time, d.time) - 1
                                              ELSE Larger(VersionVector(c)[q], VersionVector(d)[q])
  BY AdvanceCCVector
<1> HIDE DEF a
<1>2. id.sid \in Sid /\ id.time \in Nat
  BY DEF Stamp
<1>3. /\ Has(a, id) <=> id.time <= VersionVector(a)[id.sid]
      /\ Has(c, id) <=> id.time <= VersionVector(c)[id.sid]
      /\ Has(d, id) <=> id.time <= VersionVector(d)[id.sid]
  BY <1>1, HasVector
<1>4. /\ VersionVector(c)[id.sid] \in Int /\ VersionVector(d)[id.sid] \in Int
      /\ c.time \in Nat /\ d.time \in Nat
      /\ id.sid = c.sid => VersionVector(c)[id.sid] = c.time - 1
  BY <1>2, VectorEntries
<1>5. CASE id.sid = c.sid
  <2>1. VersionVector(a)[id.sid] = Larger(c.time, d.time) - 1
    BY <1>1, <1>2, <1>5
  <2>2. Larger(c.time, d.time) \in Nat /\ c.time <= Larger(c.time, d.time)
    BY <1>4 DEF Larger
  <2> QED
    BY <1>2, <1>3, <1>4, <1>5, <2>1, <2>2 DEF a
<1>6. CASE id.sid # c.sid
  <2>1. VersionVector(a)[id.sid] = Larger(VersionVector(c)[id.sid], VersionVector(d)[id.sid])
    BY <1>1, <1>2, <1>6
  <2>2. Has(a, id) <=> Has(c, id) \/ Has(d, id)
    BY <1>2, <1>3, <1>4, <2>1 DEF Larger
  <2> QED
    BY <1>6, <2>2 DEF a
<1> QED
  BY <1>5, <1>6

LEMMA ApplyClock ==
  ASSUME PeersInv, NEW p \in Sid, NEW d, Fit(d, p), ApplyDelta(p, d), made' = made
  PROVE  /\ clock' \in [Sid -> Clock] /\ \A q \in Sid : clock'[q].sid = q
         /\ Spreads
         /\ clock'[p] = AdvanceCC(clock[p], d.vv1)
         /\ known'[p] = known[p] \cup KnownBy(d.vv1)
         /\ \A q \in Sid : q # p => clock'[q] = clock[q] /\ known'[q] = known[q]
<1>1. /\ clock \in [Sid -> Clock] /\ clock[p] \in Clock /\ clock[p].sid = p
      /\ d.vv1 \in Clock /\ \A q \in Sid : VersionVector(d.vv1)[q] < d.vv1.time
  BY DEF PeersInv, Fit, ClockSane
<1> DEFINE a == AdvanceCC(clock[p], d.vv1)
<1>2. a \in Clock /\ a.sid = p /\ a.time = Larger(clock[p].time, d.vv1.time)
  BY <1>1, AdvanceCCVector
<1>3. clock' = [clock EXCEPT ![p] = a]
  BY DEF ApplyDelta
<1>7. \A id \in Stamp : /\ Has(clock[p], id) => Has(a, id)
                        /\ id.sid # p => (Has(a, id) <=> Has(clock[p], id) \/ Has(d.vv1, id))
  BY <1>1, AdvanceCCHas
<1> HIDE DEF a
<1>4. /\ clock' \in [Sid -> Clock] /\ clock'[p] = a
      /\ \A q \in Sid : q # p => clock'[q] = clock[q]
  BY <1>1, <1>2, <1>3
<1>5. known'[p] = known[p] \cup KnownBy(d.vv1)
  <2>1. known'[p] = {x \in made : Has(a, x.id)} /\ known[p] = {x \in made : Has(clock[p], x.id)}
    BY <1>4, KnownIs, KnownIsNext DEF KnownBy
  <2>2. ASSUME NEW x \in made PROVE Has(a, x.id) <=> Has(clock[p], x.id) \/ Has(d.vv1, x.id)
    <3>1. x.id \in Stamp /\ (x.id.sid = p => Has(clock[p], x.id))
      BY KnownIs DEF PeersInv, IsEdit, OwnKnown, KnownBy
    <3> QED
      BY <1>7, <3>1
  <2>3. KnownBy(d.vv1) = {x \in made : Has(d.vv1, x.id)}
    BY DEF KnownBy
  <2> QED
    BY <2>1, <2>2, <2>3
<1>6. \A q \in Sid : q # p => known'[q] = known[q]
  BY <1>4, KnownIs, KnownIsNext DEF KnownBy
<1>8. ASSUME NEW q \in Sid PROVE clock[q].time <= clock'[q].time
  <2>1. clock[q].time \in Nat /\ d.vv1.time \in Nat
    BY <1>1 DEF Clock
  <2> QED
    BY <1>2, <1>4, <2>1 DEF Larger
<1>9. Spreads
  BY <1>5, <1>6, <1>8 DEF Spreads
<1>10. \A q \in Sid : clock'[q].sid = q
  BY <1>2, <1>4 DEF PeersInv
<1> QED
  BY <1>4, <1>5, <1>6, <1>9, <1>10 DEF a

LEMMA ApplySane ==
  ASSUME PeersInv, NEW p \in Sid, NEW d, Fit(d, p), ApplyDelta(p, d), made' = made,
         NEW q \in Sid, NEW c, c = clock'[q]
  PROVE  ClockSane(c)'
<1> DEFINE a == AdvanceCC(clock[p], d.vv1)
<1>1. /\ clock' \in [Sid -> Clock] /\ made' = made
      /\ clock'[p] = a /\ \A s \in Sid : s # p => clock'[s] = clock[s]
      /\ \A s \in Sid : clock[s].time <= clock'[s].time
  BY ApplyClock DEF Spreads
<1>2. /\ clock[p] \in Clock /\ clock[p].sid = p /\ ClockSane(clock[p])
      /\ d.vv1 \in Clock /\ ClockSane(d.vv1)
      /\ \A s \in Sid : VersionVector(d.vv1)[s] < d.vv1.time
  BY DEF PeersInv, Fit, ClockSane
<1>3. \A s \in Sid : clock[s].time \in Nat /\ clock'[s].time \in Nat
  <2> SUFFICES ASSUME NEW s \in Sid PROVE clock[s].time \in Nat /\ clock'[s].time \in Nat
    OBVIOUS
  <2> QED
    BY <1>1 DEF PeersInv, Clock
<1>4. CASE q # p
  <2>1. c = clock[q] /\ ClockSane(c) /\ c \in Clock
    BY <1>1, <1>4 DEF PeersInv
  <2>2. ASSUME NEW s \in Sid
        PROVE  VersionVector(c)[s] < c.time /\ VersionVector(c)[s] < clock'[s].time
    <3>1. VersionVector(c)[s] < c.time /\ VersionVector(c)[s] < clock[s].time
      BY <2>1 DEF ClockSane
    <3>2. VersionVector(c)[s] \in Int
      BY <2>1, VectorEntries
    <3> QED
      BY <1>1, <1>3, <3>1, <3>2
  <2> QED
    BY <1>1, <2>1, <2>2 DEF ClockSane
<1>5. CASE q = p
  <2>1. /\ a.time = Larger(clock[p].time, d.vv1.time)
        /\ \A s \in Sid : VersionVector(a)[s] =
             IF s = p THEN Larger(clock[p].time, d.vv1.time) - 1
             ELSE Larger(VersionVector(clock[p])[s], VersionVector(d.vv1)[s])
    BY <1>2, AdvanceCCVector
  <2>2. \A id \in Stamp : /\ Has(clock[p], id) => Has(a, id)
                          /\ id.sid # p => (Has(a, id) <=> Has(clock[p], id) \/ Has(d.vv1, id))
    BY <1>2, AdvanceCCHas
  <2>3. c = a
    BY <1>1, <1>5
  <2> HIDE DEF a
  <2>4. ASSUME NEW s \in Sid
        PROVE  VersionVector(a)[s] < a.time /\ VersionVector(a)[s] < clock'[s].time
    <3>1. /\ VersionVector(clock[p])[s] < clock[p].time /\ VersionVector(clock[p])[s] < clock[s].time
          /\ VersionVector(d.vv1)[s] < d.vv1.time /\ VersionVector(d.vv1)[s] < clock[s].time
      BY <1>2 DEF ClockSane
    <3>2. VersionVector(clock[p])[s] \in Int /\ VersionVector(d.vv1)[s] \in Int /\ d.vv1.time \in Nat
      BY <1>2, VectorEntries
    <3>3. CASE s = p
      <4>1. VersionVector(a)[s] = a.time - 1 /\ clock'[s].time = a.time /\ a.time \in Nat
        BY <1>1, <1>3, <2>1, <3>3
      <4> QED
        BY <4>1
    <3>4. CASE s # p
      <4>1. /\ VersionVector(a)[s] = Larger(VersionVector(clock[p])[s], VersionVector(d.vv1)[s])
            /\ clock'[s].time = clock[s].time
        BY <1>1, <2>1, <3>4
      <4> QED
        BY <1>3, <2>1, <3>1, <3>2, <4>1 DEF Larger
    <3> QED
      BY <3>3, <3>4
  <2>5. ASSUME NEW x \in made, x.kind = "ins_obj", Has(a, x.val) PROVE Has(a, x.id)
    <3>1. IsEdit(x) /\ x.id \in Stamp /\ x.val \in Stamp /\ x.val.sid = x.id.sid
      BY <2>5 DEF PeersInv, IsEdit, At
    <3>2. CASE x.id.sid = p
      <4>1. x \in known[p]
        BY <3>2 DEF PeersInv, OwnKnown
      <4>2. Has(clock[p], x.id)
        BY <4>1, KnownIs DEF KnownBy
      <4> QED
        BY <2>2, <3>1, <4>2
    <3>3. CASE x.id.sid # p
      <4>1. Has(clock[p], x.val) \/ Has(d.vv1, x.val)
        BY <2>2, <2>5, <3>1, <3>3
      <4>2. Has(clock[p], x.id) \/ Has(d.vv1, x.id)
        BY <1>2, <2>5, <4>1 DEF ClockSane
      <4> QED
        BY <2>2, <3>1, <3>3, <4>2
    <3> QED
      BY <3>2, <3>3
  <2> QED
    BY <1>1, <2>3, <2>4, <2>5 DEF ClockSane
<1> QED
  BY <1>4, <1>5

\* applyDelta() leaves each key with the latest value of what both sides knew.
LEMMA ApplyObj ==
  ASSUME PeersInv, NEW p \in Sid, NEW d, Fit(d, p), ApplyDelta(p, d), made' = made
  PROVE  obj' \in [Sid -> [Keys -> Stamp \cup {Root}]] /\ ObjFaithful'
<1> DEFINE T == [Keys -> Stamp \cup {Root}]
           o == Puts(obj[p], d.obj)
<1>1. obj \in [Sid -> T] /\ obj[p] \in T
  BY DEF PeersInv
<1>2. /\ o \in T
      /\ \A k \in Keys : o[k] = IF k \in DOMAIN d.obj /\ Before(obj[p][k], d.obj[k])
                                THEN d.obj[k] ELSE obj[p][k]
  BY <1>1 DEF Puts, Fit
<1>3. obj' = [obj EXCEPT ![p] = o]
  BY DEF ApplyDelta
<1> HIDE DEF T, o
<1>4. obj' \in [Sid -> T] /\ obj'[p] = o /\ \A q \in Sid : q # p => obj'[q] = obj[q]
  BY <1>1, <1>2, <1>3
<1>5. /\ known'[p] = known[p] \cup KnownBy(d.vv1)
      /\ \A q \in Sid : q # p => known'[q] = known[q]
  BY ApplyClock
<1>6. \A q \in Sid : ObjLatest(q)
  BY ObjFaithfulKeys DEF PeersInv
<1>7. ASSUME NEW k \in Keys PROVE ValueIs(o[k], Values(known[p] \cup KnownBy(d.vv1), k))
  <2>1. Values(known[p] \cup KnownBy(d.vv1), k) = Values(known[p], k) \cup Values(KnownBy(d.vv1), k)
    BY ValuesUnion
  <2>2. known[p] \subseteq made /\ KnownBy(d.vv1) \subseteq made /\ \A x \in made : IsEdit(x)
    BY KnownIs DEF PeersInv, Fit, KnownBy
  <2>3. Values(known[p], k) \in SUBSET Stamp /\ Values(KnownBy(d.vv1), k) \in SUBSET Stamp
    BY <2>2, EditValues
  <2>4. ValueIs(obj[p][k], Values(known[p], k))
    BY <1>6 DEF ObjLatest
  <2>5. CASE k \in DOMAIN d.obj
    <3>1. Latest(d.obj[k], Values(KnownBy(d.vv1), k))
      BY <2>5 DEF Fit, ObjOf
    <3>2. ValueIs(IF Before(obj[p][k], d.obj[k]) THEN d.obj[k] ELSE obj[p][k],
                  Values(known[p], k) \cup Values(KnownBy(d.vv1), k))
      BY <2>3, <2>4, <3>1, LatestOfBoth
    <3> QED
      BY <1>2, <2>1, <2>5, <3>2
  <2>6. CASE k \notin DOMAIN d.obj
    <3>1. o[k] = obj[p][k]
      BY <1>2, <2>6
    <3>2. CASE Values(KnownBy(d.vv1), k) = {}
      BY <2>1, <2>4, <3>1, <3>2
    <3>3. CASE Values(KnownBy(d.vv1), k) # {}
      <4>1. PICK v \in Values(known[p], k) : Latest(v, Values(KnownBy(d.vv1), k))
        BY <2>6, <3>3 DEF Fit, ObjOf
      <4> QED
        BY <2>1, <2>3, <2>4, <3>1, <4>1, LatestKnown
    <3> QED
      BY <3>2, <3>3
  <2> QED
    BY <2>5, <2>6
<1>8. \A q \in Sid : ObjLatest(q)'
  <2> SUFFICES ASSUME NEW q \in Sid, NEW k \in Keys PROVE ValueIs(obj'[q][k], Values(known'[q], k))
    BY DEF ObjLatest
  <2> QED
    BY <1>4, <1>5, <1>6, <1>7 DEF ObjLatest
<1>9. ObjFaithful'
  BY <1>8, ObjFaithfulKeysNext
<1> QED
  BY <1>4, <1>9 DEF T

LEMMA ApplyKeeps ==
  ASSUME PeersInv, NEW p \in Sid, NEW d, Fit(d, p), ApplyDelta(p, d), made' = made
  PROVE  PeersInv' /\ Spreads /\ clock' \in [Sid -> Clock]
<1>1. /\ clock' \in [Sid -> Clock] /\ \A q \in Sid : clock'[q].sid = q
      /\ Spreads
      /\ made' = made
  BY ApplyClock DEF Spreads
<1>2. obj' \in [Sid -> [Keys -> Stamp \cup {Root}]] /\ ObjFaithful'
  BY ApplyObj
<1>4. \A q \in Sid : ClockSane(clock[q])'
  BY ApplySane
<1>5. OwnKnown'
  <2>1. ASSUME NEW x \in made PROVE x \in known'[x.id.sid]
    <3>1. x \in known[x.id.sid] /\ x.id.sid \in Sid
      BY DEF PeersInv, OwnKnown, IsEdit, Stamp
    <3> QED
      BY <1>1, <3>1 DEF Spreads
  <2> QED
    BY <1>1, <2>1 DEF OwnKnown
<1>6. \A x \in made' : IsEdit(x)
  BY <1>1 DEF PeersInv
<1> QED
  BY <1>1, <1>2, <1>4, <1>5, <1>6 DEF PeersInv

-----------------------------------------------------------------------------
(* Exchanges.                                                              *)

\* The clock of a peer covers nothing it lacks.
LEMMA OwnClock ==
  ASSUME PeersInv, NEW p \in Sid
  PROVE  /\ clock[p] \in Clock /\ clock[p].sid = p /\ ClockSane(clock[p])
         /\ KnownBy(clock[p]) = known[p] /\ known[p] \subseteq made
         /\ \A op \in made : Has(clock[p], op.id) => op \in known[p]
BY KnownIs DEF PeersInv, KnownBy

\* A delta for r, made by p against a vector that covers nothing r lacks.
LEMMA DeltaFits ==
  ASSUME IndInv, NEW p \in Sid, NEW r \in Sid, NEW cc \in Clock, ClockSane(cc),
         \A op \in made : Has(cc, op.id) => op \in known[r]
  PROVE  Fit(DeltaOf(p, cc), r)
<1> DEFINE d == DeltaOf(p, cc)
<1>1. /\ d.vv1 = clock[p] /\ KnownBy(d.vv1) = known[p]
      /\ \A k \in DOMAIN d.obj : k \in Keys /\ d.obj[k] \in Stamp
      /\ ObjOf(d, r)
  BY FreshDelta
<1> HIDE DEF d
<1>2. clock[p] \in Clock /\ ClockSane(clock[p]) /\ known[p] \subseteq made
  BY Halves, OwnClock
<1>3. Fit(d, r)
  BY <1>1, <1>2 DEF Fit
<1> QED
  BY <1>3 DEF d

LEMMA DeltaMessage ==
  ASSUME IndInv, NEW p \in Sid, NEW r \in Sid, NEW cc \in Clock, ClockSane(cc),
         \A op \in made : Has(cc, op.id) => op \in known[r],
         NEW type \in {2, 3}
  PROVE  MessageInv([type |-> type, from |-> p, to |-> r, delta |-> DeltaOf(p, cc)])
<1> DEFINE d == DeltaOf(p, cc)
           m == [type |-> type, from |-> p, to |-> r, delta |-> d]
<1>1. d.vv1 = clock[p]
  BY DEF DeltaOf
<1>2. Fit(d, r)
  BY DeltaFits
<1> HIDE DEF d
<1>3. m.type = type /\ m.from = p /\ m.to = r /\ m.delta = d /\ m.type # 1 /\ m.type \in 1..3
  OBVIOUS
<1> HIDE DEF m
<1>4. ClockOf(m) = clock[p] /\ clock[p] \in Clock /\ clock[p].sid = p /\ ClockSane(clock[p])
  BY <1>1, <1>3, Halves, OwnClock DEF ClockOf
<1>5. IsMessage(m)
  BY <1>2, <1>3, <1>4 DEF IsMessage, Fit
<1>6. MsgCovered(m)
  BY <1>3, <1>4, Halves, OwnClock DEF MsgCovered
<1>7. MessageInv(m)
  BY <1>2, <1>3, <1>4, <1>5, <1>6 DEF MessageInv, Fit
<1> QED
  BY <1>7 DEF m, d

\* A request asks with the clock of its sender.
LEMMA RequestMessage ==
  ASSUME IndInv, NEW p \in Sid, NEW q \in Sid
  PROVE  MessageInv([type |-> 1, from |-> p, to |-> q, vv |-> clock[p]])
<1> DEFINE m == [type |-> 1, from |-> p, to |-> q, vv |-> clock[p]]
<1>1. m.type = 1 /\ m.from = p /\ m.to = q /\ m.vv = clock[p]
  OBVIOUS
<1> HIDE DEF m
<1>2. /\ clock[p] \in Clock /\ clock[p].sid = p /\ ClockSane(clock[p])
      /\ KnownBy(clock[p]) = known[p]
  BY Halves, OwnClock
<1>3. MessageInv(m)
  BY <1>1, <1>2 DEF MessageInv, IsMessage, MsgCovered, ClockOf
<1> QED
  BY <1>3 DEF m

\* The delta of a message fits its receiver, and its clock covers nothing its sender lacks.
LEMMA MessageFits ==
  ASSUME PeersInv, NEW m, MessageInv(m)
  PROVE  /\ m.from \in Sid /\ m.to \in Sid /\ ClockOf(m) \in Clock /\ ClockSane(ClockOf(m))
         /\ \A op \in made : Has(ClockOf(m), op.id) => op \in known[m.from]
         /\ m.type # 1 => ClockOf(m) = m.delta.vv1 /\ Fit(m.delta, m.to)
<1>1. /\ m.from \in Sid /\ m.to \in Sid /\ ClockOf(m) \in Clock /\ ClockSane(ClockOf(m))
      /\ MsgCovered(m) /\ IsMessage(m)
  BY DEF MessageInv, IsMessage
<1>2. \A op \in made : Has(ClockOf(m), op.id) => op \in known[m.from]
  BY <1>1 DEF MsgCovered, KnownBy
<1>3. ASSUME m.type # 1 PROVE ClockOf(m) = m.delta.vv1 /\ Fit(m.delta, m.to)
  <2>1. ClockOf(m) = m.delta.vv1
    BY <1>3 DEF ClockOf
  <2> QED
    BY <1>1, <1>3, <2>1 DEF Fit, IsMessage, MessageInv
<1> QED
  BY <1>1, <1>2, <1>3

\* A step of the exchange keeps the invariant if it keeps that of the peers, and what is
\* under way then was, or could have been, before.
LEMMA ExchangeKeeps ==
  ASSUME PeersInv, PeersInv', Spreads, \A m \in net' : MessageInv(m)
  PROVE  IndInv'
<1>1. clock' \in [Sid -> Clock]
  BY DEF PeersInv
<1>2. ASSUME NEW m \in net' PROVE MessageInv(m)'
  BY <1>1, <1>2, MessageInvSpreads
<1> QED
  BY <1>2, HalvesNext

LEMMA PeersSame ==
  ASSUME PeersInv, UNCHANGED <<doc, clock, made>>
  PROVE  PeersInv' /\ Spreads
<1>1. obj' = obj /\ clock' = clock /\ made' = made
  BY DEF doc
<1>2. known' = known
  BY <1>1 DEF known, KnownBy
<1>3. OwnKnown'
  BY <1>1, <1>2 DEF PeersInv, OwnKnown
<1>7. ObjFaithful'
  <2>1. \A q \in Sid : ObjLatest(q)
    BY ObjFaithfulKeys DEF PeersInv
  <2>2. \A q \in Sid : ObjLatest(q)'
    BY <1>1, <1>2, <2>1 DEF ObjLatest
  <2> QED
    BY <2>2, ObjFaithfulKeysNext
<1>4. \A q \in Sid : ClockSane(clock[q])'
  BY <1>1, <1>2 DEF PeersInv, ClockSane
<1>5. \A q \in Sid : clock[q].time \in Nat
  BY DEF PeersInv, Clock
<1>6. Spreads
  BY <1>1, <1>2, <1>5 DEF Spreads
<1> QED
  BY <1>1, <1>2, <1>3, <1>4, <1>6, <1>7 DEF PeersInv

LEMMA MergeKeeps ==
  ASSUME IndInv, NEW p \in Sid, NEW q \in Sid, Merge(p, q)
  PROVE  IndInv'
<1>1. PeersInv /\ \A m \in net : MessageInv(m)
  BY Halves
<1>2. Fit(DeltaOf(q, clock[p]), p)
  BY <1>1, OwnClock, DeltaFits
<1>3. ApplyDelta(p, DeltaOf(q, clock[p])) /\ net' = net /\ made' = made
  BY DEF Merge
<1>4. PeersInv' /\ Spreads
  BY <1>1, <1>2, <1>3, ApplyKeeps
<1> QED
  BY <1>1, <1>3, <1>4, ExchangeKeeps

LEMMA InitiateKeeps ==
  ASSUME IndInv, NEW p \in Sid, NEW q \in Sid, Initiate(p, q)
  PROVE  IndInv'
<1>1. PeersInv /\ \A m \in net : MessageInv(m)
  BY Halves
<1>2. PeersInv' /\ Spreads
  BY <1>1, PeersSame DEF Initiate
<1>3. \A m \in net' : MessageInv(m)
  BY <1>1, RequestMessage DEF Initiate
<1> QED
  BY <1>1, <1>2, <1>3, ExchangeKeeps

LEMMA ReplyKeeps ==
  ASSUME IndInv, NEW m \in net, Reply(m)
  PROVE  IndInv'
<1>1. PeersInv /\ \A x \in net : MessageInv(x)
  BY Halves
<1>2. PeersInv' /\ Spreads
  BY <1>1, PeersSame DEF Reply
<1>3. /\ m.from \in Sid /\ m.to \in Sid /\ m.vv \in Clock /\ ClockSane(m.vv)
      /\ \A op \in made : Has(m.vv, op.id) => op \in known[m.from]
  BY <1>1, MessageFits DEF Reply, ClockOf
<1> DEFINE answer == [type |-> 2, from |-> m.to, to |-> m.from, delta |-> DeltaOf(m.to, m.vv)]
<1>4. MessageInv(answer)
  BY <1>3, DeltaMessage
<1>5. net' = (net \ {m}) \cup {answer}
  BY DEF Reply
<1> HIDE DEF answer
<1>6. \A x \in net' : MessageInv(x)
  BY <1>1, <1>4, <1>5
<1> QED
  BY <1>1, <1>2, <1>6, ExchangeKeeps

\* The answer is made before the delta is applied, and still fits after it was.
LEMMA Finalize1Keeps ==
  ASSUME IndInv, NEW m \in net, Finalize1(m)
  PROVE  IndInv'
<1>1. PeersInv /\ \A x \in net : MessageInv(x)
  BY Halves
<1>2. /\ m.from \in Sid /\ m.to \in Sid /\ m.delta.vv1 \in Clock /\ ClockSane(m.delta.vv1)
      /\ \A op \in made : Has(m.delta.vv1, op.id) => op \in known[m.from]
      /\ Fit(m.delta, m.to)
  BY <1>1, MessageFits DEF Finalize1
<1>3. ApplyDelta(m.to, m.delta) /\ made' = made
  BY DEF Finalize1
<1>4. PeersInv' /\ Spreads
  BY <1>1, <1>2, <1>3, ApplyKeeps
<1> DEFINE answer == [type |-> 3, from |-> m.to, to |-> m.from, delta |-> DeltaOf(m.to, m.delta.vv1)]
<1>5. MessageInv(answer)
  BY <1>2, DeltaMessage
<1>6. net' = (net \ {m}) \cup {answer}
  BY DEF Finalize1
<1> HIDE DEF answer
<1>7. \A x \in net' : MessageInv(x)
  BY <1>1, <1>5, <1>6
<1> QED
  BY <1>1, <1>4, <1>7, ExchangeKeeps

LEMMA Finalize2Keeps ==
  ASSUME IndInv, NEW m \in net, Finalize2(m)
  PROVE  IndInv'
<1>1. PeersInv /\ \A x \in net : MessageInv(x)
  BY Halves
<1>2. m.to \in Sid /\ Fit(m.delta, m.to)
  BY <1>1, MessageFits DEF Finalize2
<1>3. ApplyDelta(m.to, m.delta) /\ net' = net \ {m} /\ made' = made
  BY DEF Finalize2
<1>4. PeersInv' /\ Spreads
  BY <1>1, <1>2, <1>3, ApplyKeeps
<1> QED
  BY <1>1, <1>3, <1>4, ExchangeKeeps

-----------------------------------------------------------------------------
(* The theorems.                                                           *)

LEMMA Stutter == IndInv /\ UNCHANGED vars => IndInv'
<1> SUFFICES ASSUME IndInv, UNCHANGED vars PROVE IndInv'
  OBVIOUS
<1>1. PeersInv /\ \A x \in net : MessageInv(x)
  BY Halves
<1>2. PeersInv' /\ Spreads /\ net' = net
  BY <1>1, PeersSame DEF vars, doc
<1> QED
  BY <1>1, <1>2, ExchangeKeeps

\* The inductive invariant of peers and messages under way.
THEOREM Invariance == Spec => []IndInv
<1>1. Init => IndInv
  BY InitInv
<1>2. IndInv /\ [Next]_vars => IndInv'
  <2> SUFFICES ASSUME IndInv, [Next]_vars PROVE IndInv'
    OBVIOUS
  <2>1. CASE \E p \in Sid : \E pos \in Positions(str[p]) : StrIns(p, pos)
    BY <2>1, StrInsKeeps
  <2>2. CASE \E p \in Sid : \E pos \in Positions(str[p]) : StrDel(p, pos)
    BY <2>2, StrDelKeeps
  <2>3. CASE \E p \in Sid : \E pos \in Positions(arr[p]) : ArrIns(p, pos)
    BY <2>3, ArrInsKeeps
  <2>4. CASE \E p \in Sid : \E pos \in Positions(arr[p]) : ArrUpd(p, pos)
    BY <2>4, ArrUpdKeeps
  <2>5. CASE \E p \in Sid : \E pos \in Positions(arr[p]) : ArrDel(p, pos)
    BY <2>5, ArrDelKeeps
  <2>6. CASE \E p \in Sid, k \in Keys : ObjSet(p, k)
    BY <2>6, ObjSetKeeps
  <2>7. CASE \E p, q \in Sid : Merge(p, q)
    BY <2>7, MergeKeeps
  <2>8. CASE \E p, q \in Sid : Initiate(p, q)
    BY <2>8, InitiateKeeps
  <2>9. CASE \E m \in net : Reply(m)
    BY <2>9, ReplyKeeps
  <2>10. CASE \E m \in net : Finalize1(m)
    BY <2>10, Finalize1Keeps
  <2>11. CASE \E m \in net : Finalize2(m)
    BY <2>11, Finalize2Keeps
  <2>12. CASE UNCHANGED vars
    BY <2>12, Stutter
  <2> QED
    BY <2>1, <2>2, <2>3, <2>4, <2>5, <2>6, <2>7, <2>8, <2>9, <2>10, <2>11, <2>12 DEF Next
<1> QED
  BY <1>1, <1>2, PTL DEF Spec

\* Each key of the object has the latest of the values a peer's clock covers, through
\* exchanges that cross, repeat and are computed from clocks long out of date: no delta
\* lacks one its receiver needs, and none brings back one that was overwritten.
THEOREM ObjectsFaithful == Spec => []ObjFaithful
<1>1. IndInv => ObjFaithful
  BY DEF IndInv
<1> QED
  BY <1>1, Invariance, PTL
=============================================================================
