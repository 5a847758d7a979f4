------------------------- MODULE PatchClockProofs -------------------------
(***************************************************************************)
(* Proofs about PatchClock: the inductive invariant IndInv, and from it    *)
(* type correctness, uniqueness of identifiers, contiguity of patches and  *)
(* exactness of version vectors, for every set of sessions, every set of   *)
(* spans and every bound on the operations.                                *)
(***************************************************************************)
EXTENDS PatchClock, TLAPS

-----------------------------------------------------------------------------
(* The strengthening.  IdsUnique alone is not inductive: a new operation   *)
(* is only known to be fresh because every operation of its session is in  *)
(* the document of that session, hence behind its clock.                   *)

ClocksWell == \A s \in Sid : clock[s].sid = s /\ clock[s].time >= 1

\* A session that does not exist yet has built and seen nothing, and nobody saw it.
DeadBlank ==
  \A s \in Sid \ live :
    /\ applied[s] = {}
    /\ patch[s] = <<>>
    /\ clock[s] = NewClock(s, 1)
    /\ \A op \in Created : op.sid # s
    /\ \A r \in Sid : clock[r].peers[s] = 0

OwnApplied == \A op \in Created : op \in applied[op.sid]

\* The operations of a builder or a patch, in order of time.
Ordered(ops) == \A i, j \in DOMAIN ops : i < j => End(ops[i]) <= ops[j].time

BuilderOwn ==
  \A s \in Sid : Ordered(patch[s]) /\ \A i \in DOMAIN patch[s] :
                   patch[s][i].sid = s /\ patch[s][i] \in applied[s]

\* What a builder holds last is the last thing its session did.
BuilderLast ==
  \A s \in Sid : patch[s] # <<>> =>
    \A op \in Created : op.sid = s => End(op) <= NextTime(patch[s])

SentOwn ==
  \A p \in sent :
    /\ p.ops # <<>>
    /\ Ordered(p.ops)
    /\ \A i \in DOMAIN p.ops : p.ops[i].sid = p.sid /\ p.ops[i] \in applied[p.sid]

\* A patch and what it depends on are a prefix of the life of its session.
SentClosed ==
  \A p \in sent : \A op \in Created :
    op.sid = p.sid /\ End(op) <= NextTime(p.ops) => op \in p.deps \cup OpsOf(p.ops)

PeersBehind == \A r, q \in Sid : r # q => clock[r].peers[q] < clock[q].time

IndInv ==
  /\ TypeOK
  /\ IdsUnique
  /\ PatchContiguous
  /\ ClockAhead
  /\ HasExact
  /\ ClocksWell
  /\ DeadBlank
  /\ OwnApplied
  /\ BuilderOwn
  /\ BuilderLast
  /\ SentOwn
  /\ SentClosed
  /\ PeersBehind

-----------------------------------------------------------------------------
(* What PatchBuilder makes of its patch when one more operation is built.  *)

Built(s, span) ==
  Append(Pad(patch[s], clock[s]),
         [sid |-> s, time |-> clock[s].time, span |-> span, nop |-> FALSE])

\* PatchBuilder.pad() keeps the patch contiguous and in order, and brings its end to
\* the session's clock; what it adds is one nop, later than all the session did.
LEMMA PadFacts ==
  ASSUME TypeOK, ClocksWell, ClockAhead, BuilderOwn, BuilderLast, PatchContiguous,
         NEW s \in live
  PROVE  LET ops == Pad(patch[s], clock[s])
         IN  /\ ops \in Seq(Op)
             /\ ops # <<>> => NextTime(ops) = clock[s].time
             /\ Contiguous(ops)
             /\ Ordered(ops)
             /\ \A i \in DOMAIN ops :
                  /\ ops[i].sid = s
                  /\ End(ops[i]) <= clock[s].time
                  /\ \/ ops[i] \in OpsOf(patch[s])
                     \/ /\ ops[i].nop
                        /\ \A o \in Created : o.sid = s => End(o) <= ops[i].time
             /\ OpsOf(patch[s]) \subseteq OpsOf(ops)
             /\ \A i, j \in DOMAIN ops :
                  \/ ops[i] \in OpsOf(patch[s])
                  \/ ops[j] \in OpsOf(patch[s])
                  \/ i = j
<1> DEFINE c == clock[s]
           p == patch[s]
           t == NextTime(p)
           nop == [sid |-> s, time |-> t, span |-> c.time - t, nop |-> TRUE]
<1>1. s \in Sid /\ c \in Clock /\ c.sid = s /\ c.time \in Nat \ {0} /\ p \in Seq(Op)
  BY DEF TypeOK, ClocksWell, Clock
<1>2. \A i \in DOMAIN p : /\ p[i] \in Op /\ p[i].sid = s
                          /\ p[i] \in applied[s] /\ p[i] \in Created
                          /\ End(p[i]) <= c.time
  BY <1>1 DEF BuilderOwn, ClockAhead, Created
<1>3. CASE p = <<>>
  <2>1. Pad(p, c) = <<>>
    BY <1>3 DEF Pad
  <2> QED  BY <2>1, <1>3, <1>1 DEF Contiguous, Ordered, OpsOf
<1>4. CASE p # <<>>
  <2>1. /\ Len(p) \in DOMAIN p /\ t = End(p[Len(p)]) /\ t \in Nat \ {0} /\ t <= c.time
        /\ Contiguous(p) /\ Ordered(p)
    BY <1>1, <1>2, <1>4 DEF NextTime, End, Op, PatchContiguous, BuilderOwn
  <2>2. \A o \in Created : o.sid = s => End(o) <= t
    BY <1>1, <1>4 DEF BuilderLast
  <2>3. CASE c.time - t = 0
    <3>1. Pad(p, c) = p /\ t = c.time
      BY <1>1, <2>1, <2>3 DEF Pad
    <3> QED  BY <3>1, <1>1, <1>2, <2>1 DEF OpsOf
  <2>4. CASE c.time - t > 0
    <3>1. Pad(p, c) = Append(p, nop)
      BY <1>1, <1>4, <2>4 DEF Pad
    <3>2. nop \in Op /\ End(nop) = c.time
      <4>1. /\ s \in Sid /\ t \in Nat \ {0} /\ c.time \in Nat
            /\ c.time - t \in Nat \ {0} /\ t + (c.time - t) = c.time
        BY <1>1, <2>1, <2>4
      <4> HIDE DEF t, c
      <4> QED  BY <4>1 DEF Op, End
    <3>3. /\ Append(p, nop) \in Seq(Op) /\ Append(p, nop) # <<>>
          /\ Len(Append(p, nop)) = Len(p) + 1
          /\ DOMAIN Append(p, nop) = 1..(Len(p) + 1)
          /\ DOMAIN p = 1..Len(p) /\ Len(p) \in Nat
          /\ Append(p, nop)[Len(p) + 1] = nop
          /\ \A i \in DOMAIN p : Append(p, nop)[i] = p[i]
      BY <1>1, <3>2
    <3> HIDE DEF nop, c, p, t
    <3>4. NextTime(Append(p, nop)) = c.time
      BY <3>2, <3>3 DEF NextTime
    <3>5. Contiguous(Append(p, nop))
      BY <3>3, <2>1 DEF Contiguous, nop
    <3>6. Ordered(Append(p, nop))
      <4> SUFFICES ASSUME NEW i \in 1..(Len(p) + 1), NEW j \in 1..(Len(p) + 1), i < j
                   PROVE  End(Append(p, nop)[i]) <= Append(p, nop)[j].time
        BY <3>3 DEF Ordered
      <4>1. CASE j = Len(p) + 1
        BY <4>1, <3>3, <1>2, <2>2 DEF nop
      <4>2. CASE j # Len(p) + 1
        BY <4>2, <3>3, <2>1 DEF Ordered
      <4> QED  BY <4>1, <4>2
    <3>7. \A i \in DOMAIN Append(p, nop) :
            Append(p, nop)[i] = nop \/ (i \in DOMAIN p /\ Append(p, nop)[i] = p[i])
      BY <3>3
    <3>8. OpsOf(p) \subseteq OpsOf(Append(p, nop))
      BY <3>3 DEF OpsOf
    <3>9. nop.sid = s /\ nop.nop /\ nop.time = t
      BY DEF nop
    <3>10. \A i \in DOMAIN p : p[i] \in OpsOf(p)
      BY DEF OpsOf
    <3>11. \A i, j \in DOMAIN Append(p, nop) :
             Append(p, nop)[i] \in OpsOf(p) \/ Append(p, nop)[j] \in OpsOf(p) \/ i = j
      BY <3>3, <3>10
    <3>12. \A i \in DOMAIN Append(p, nop) :
             /\ Append(p, nop)[i].sid = s
             /\ End(Append(p, nop)[i]) <= c.time
             /\ \/ Append(p, nop)[i] \in OpsOf(p)
                \/ /\ Append(p, nop)[i].nop
                   /\ \A o \in Created : o.sid = s => End(o) <= Append(p, nop)[i].time
      <4> TAKE i \in DOMAIN Append(p, nop)
      <4>1. CASE Append(p, nop)[i] = nop
        BY <4>1, <3>9, <3>2, <2>2, <1>1
      <4>2. CASE i \in DOMAIN p /\ Append(p, nop)[i] = p[i]
        BY <4>2, <1>2, <3>10
      <4> QED  BY <4>1, <4>2, <3>7
    <3> QED  BY <3>1, <3>3, <3>4, <3>5, <3>6, <3>8, <3>11, <3>12 DEF c, p
  <2> QED  BY <2>1, <2>3, <2>4, <1>1
<1> QED  BY <1>3, <1>4

\* Building one more operation: the patch of the session grows by operations that
\* are later than everything the session has done.
LEMMA BuildFacts ==
  ASSUME IndInv, NEW s \in Sid, NEW span \in Spans, Build(s, span)
  PROVE  LET ops == Built(s, span)
         IN  /\ s \in live
             /\ clock' = [clock EXCEPT ![s] = Tick(clock[s], span)]
             /\ patch' = [patch EXCEPT ![s] = ops]
             /\ applied' = [applied EXCEPT ![s] = @ \cup OpsOf(ops)]
             /\ UNCHANGED <<live, sent>>
             /\ ops \in Seq(Op)
             /\ ops # <<>>
             /\ NextTime(ops) = clock[s].time + span
             /\ Contiguous(ops)
             /\ Ordered(ops)
             /\ \A x \in OpsOf(ops) :
                  /\ x \in Op
                  /\ x.sid = s
                  /\ End(x) <= clock[s].time + span
                  /\ \/ x \in OpsOf(patch[s])
                     \/ /\ \A o \in Created : o.sid = s => End(o) <= x.time
                        /\ ~x.nop => End(x) = clock[s].time + span
             /\ OpsOf(patch[s]) \subseteq OpsOf(ops)
             /\ \A x, y \in OpsOf(ops) :
                  x \in OpsOf(patch[s]) \/ y \in OpsOf(patch[s])
                    \/ x = y \/ End(x) <= y.time \/ End(y) <= x.time
<1> DEFINE q == Pad(patch[s], clock[s])
           op == [sid |-> s, time |-> clock[s].time, span |-> span, nop |-> FALSE]
           T == clock[s].time
<1>1. /\ s \in live /\ clock[s].sid = s /\ T \in Nat \ {0} /\ span \in Nat /\ span > 0
      /\ clock' = [clock EXCEPT ![s] = Tick(clock[s], span)]
      /\ patch' = [patch EXCEPT ![s] = Append(q, op)]
      /\ applied' = [applied EXCEPT ![s] = @ \cup OpsOf(Append(q, op))]
      /\ UNCHANGED <<live, sent>>
  BY SpansAssumption DEF Build, TickStamp, IndInv, TypeOK, ClocksWell, Clock
<1>2. /\ q \in Seq(Op)
      /\ q # <<>> => NextTime(q) = T
      /\ Contiguous(q)
      /\ Ordered(q)
      /\ \A i \in DOMAIN q :
           /\ q[i].sid = s
           /\ End(q[i]) <= T
           /\ \/ q[i] \in OpsOf(patch[s])
              \/ /\ q[i].nop
                 /\ \A o \in Created : o.sid = s => End(o) <= q[i].time
      /\ OpsOf(patch[s]) \subseteq OpsOf(q)
      /\ \A i, j \in DOMAIN q :
           q[i] \in OpsOf(patch[s]) \/ q[j] \in OpsOf(patch[s]) \/ i = j
  BY <1>1, PadFacts DEF IndInv
<1>3. \A o \in Created : o.sid = s => End(o) <= T
  BY <1>1 DEF IndInv, OwnApplied, ClockAhead
<1>4. op \in Op /\ End(op) = T + span /\ op.time = T /\ op.sid = s /\ ~op.nop
  BY <1>1 DEF Op, End
<1> DEFINE ops == Append(q, op)
<1>5. ops = Built(s, span)
  BY DEF Built
<1> HIDE DEF q, op
<1>6. /\ ops \in Seq(Op) /\ ops # <<>> /\ Len(ops) = Len(q) + 1
      /\ DOMAIN ops = 1..(Len(q) + 1) /\ DOMAIN q = 1..Len(q) /\ Len(q) \in Nat
      /\ ops[Len(q) + 1] = op
      /\ \A i \in DOMAIN q : ops[i] = q[i] /\ q[i] \in Op
  <2>1. q \in Seq(Op) /\ op \in Op
    BY <1>2, <1>4
  <2> QED  BY <2>1
<1> HIDE DEF ops
<1>7. NextTime(ops) = T + span
  BY <1>4, <1>6 DEF NextTime
<1>8. Contiguous(ops)
  <2> SUFFICES ASSUME NEW i \in 2..(Len(q) + 1)
               PROVE  ops[i].time = End(ops[i - 1])
    BY <1>6 DEF Contiguous
  <2>1. CASE i = Len(q) + 1
    <3>1. q # <<>> /\ End(q[Len(q)]) = T
      BY <2>1, <1>2, <1>6 DEF NextTime
    <3> QED  BY <2>1, <3>1, <1>4, <1>6
  <2>2. CASE i # Len(q) + 1
    BY <2>2, <1>2, <1>6 DEF Contiguous
  <2> QED  BY <2>1, <2>2
<1>9. Ordered(ops)
  <2> SUFFICES ASSUME NEW i \in 1..(Len(q) + 1), NEW j \in 1..(Len(q) + 1), i < j
               PROVE  End(ops[i]) <= ops[j].time
    BY <1>6 DEF Ordered
  <2>1. CASE j = Len(q) + 1
    BY <2>1, <1>2, <1>4, <1>6
  <2>2. CASE j # Len(q) + 1
    BY <2>2, <1>2, <1>6 DEF Ordered
  <2> QED  BY <2>1, <2>2
<1>10. \A x \in OpsOf(ops) : x = op \/ \E i \in DOMAIN q : x = q[i]
  BY <1>6 DEF OpsOf
<1>11. OpsOf(patch[s]) \subseteq OpsOf(ops)
  <2>1. OpsOf(q) \subseteq OpsOf(ops)
    BY <1>6 DEF OpsOf
  <2> QED  BY <2>1, <1>2
<1>12. \A x \in OpsOf(ops) :
         /\ x \in Op
         /\ x.sid = s
         /\ End(x) <= T + span
         /\ \/ x \in OpsOf(patch[s])
            \/ /\ \A o \in Created : o.sid = s => End(o) <= x.time
               /\ ~x.nop => End(x) = T + span
  <2> TAKE x \in OpsOf(ops)
  <2>1. CASE x = op
    BY <2>1, <1>3, <1>4, <1>1
  <2>2. ASSUME NEW i \in DOMAIN q, x = q[i]
        PROVE  /\ x \in Op
               /\ x.sid = s
               /\ End(x) <= T + span
               /\ \/ x \in OpsOf(patch[s])
                  \/ x.nop /\ \A o \in Created : o.sid = s => End(o) <= x.time
    <3>1. q[i] \in Op /\ End(q[i]) \in Int /\ End(q[i]) <= T
      BY <1>2, <1>6 DEF Op, End
    <3> QED  BY <2>2, <3>1, <1>1, <1>2
  <2> QED  BY <2>1, <2>2, <1>10
<1>13. \A x, y \in OpsOf(ops) :
         x \in OpsOf(patch[s]) \/ y \in OpsOf(patch[s])
           \/ x = y \/ End(x) <= y.time \/ End(y) <= x.time
  <2> SUFFICES ASSUME NEW x \in OpsOf(ops), NEW y \in OpsOf(ops),
                      x \notin OpsOf(patch[s]), y \notin OpsOf(patch[s]), x # y
               PROVE  End(x) <= y.time \/ End(y) <= x.time
    OBVIOUS
  <2>1. CASE x = op
    BY <2>1, <1>2, <1>4, <1>10
  <2>2. CASE y = op
    BY <2>2, <1>2, <1>4, <1>10
  <2> QED  BY <2>1, <2>2, <1>2, <1>10
<1> QED  BY <1>1, <1>5, <1>6, <1>7, <1>8, <1>9, <1>11, <1>12, <1>13 DEF ops, q, op

-----------------------------------------------------------------------------
(* The invariant holds initially and every action keeps it.                *)

\* Before any session exists nothing was created, so the invariant holds.
LEMMA InitInv == Init => IndInv
<1> SUFFICES ASSUME Init PROVE IndInv
  OBVIOUS
<1>1. Created = {}
  BY DEF Init, Created
<1>2. TypeOK
  BY SidAssumption DEF Init, TypeOK, Clock, NewClock
<1>3. PatchContiguous /\ BuilderOwn
  BY DEF Init, PatchContiguous, Contiguous, BuilderOwn, Ordered
<1>4. ClocksWell /\ PeersBehind
  <2>1. \A s \in Sid : clock[s] = NewClock(s, 1)
    BY DEF Init
  <2>2. \A s, q \in Sid : /\ NewClock(s, 1).sid = s
                          /\ NewClock(s, 1).time = 1
                          /\ NewClock(s, 1).peers[q] = 0
    BY DEF NewClock
  <2> QED  BY <2>1, <2>2 DEF ClocksWell, PeersBehind
<1>6. DeadBlank
  BY <1>1 DEF Init, DeadBlank, NewClock
<1>5. IdsUnique /\ ClockAhead /\ HasExact /\ OwnApplied /\ BuilderLast /\ SentOwn /\ SentClosed
  BY <1>1 DEF Init, IdsUnique, ClockAhead, HasExact, OwnApplied, BuilderLast, SentOwn, SentClosed
<1> QED  BY <1>2, <1>3, <1>4, <1>5, <1>6 DEF IndInv

\* Model.create(): the new session was blank and nobody had heard of it.
LEMMA CreateInv == ASSUME IndInv, NEW s \in Sid, Create(s) PROVE IndInv'
<1> USE DEF IndInv
<1>1. /\ s \notin live /\ live' = live \cup {s} /\ UNCHANGED <<clock, patch, applied, sent>>
      /\ Created' = Created
  BY DEF Create, Created
<1>2. applied[s] = {} /\ (\A op \in Created : op.sid # s)
      /\ \A r \in Sid : clock[r].peers[s] = 0
  BY <1>1 DEF DeadBlank
<1>3. TypeOK'
  BY <1>1 DEF TypeOK
<1>4. /\ IdsUnique' /\ PatchContiguous' /\ ClocksWell' /\ OwnApplied' /\ BuilderOwn'
      /\ BuilderLast' /\ SentOwn' /\ SentClosed' /\ PeersBehind' /\ DeadBlank'
  BY <1>1 DEF IdsUnique, PatchContiguous, ClocksWell, OwnApplied, BuilderOwn, BuilderLast,
              SentOwn, SentClosed, PeersBehind, DeadBlank
<1>5. ClockAhead'
  BY <1>1, <1>2 DEF ClockAhead
<1>6. HasExact'
  <2> SUFFICES ASSUME NEW r \in live', NEW op \in Created', ~op.nop
               PROVE  Has(clock[r], [sid |-> op.sid, time |-> End(op) - 1])
                        <=> op \in applied[r]
    BY <1>1 DEF HasExact
  <2>1. CASE r = s
    <3>1. op \in Op /\ clock[r].sid = s /\ op.sid # s /\ op.sid \in Sid
      BY <2>1, <1>1, <1>2 DEF Created, TypeOK, Op, ClocksWell
    <3>2. clock[s] = NewClock(s, 1) /\ applied[s] = {}
      BY <1>1 DEF DeadBlank
    <3>3. End(op) \in Int /\ End(op) - 1 > 0
      BY <3>1 DEF Op, End
    <3>4. ~Has(NewClock(s, 1), [sid |-> op.sid, time |-> End(op) - 1])
      BY <3>1, <3>3 DEF Has, NewClock
    <3> QED  BY <2>1, <3>2, <3>4, <1>1
  <2>2. CASE r # s
    BY <2>2, <1>1 DEF HasExact
  <2> QED  BY <2>1, <2>2
<1> QED  BY <1>3, <1>4, <1>5, <1>6

\* Model.fork(): the copy knows what the session it left behind knows, that
\* session's own operations included, because the fork observes them all.
LEMMA ForkInv == ASSUME IndInv, NEW s \in Sid, NEW n \in Sid, ForkModel(s, n) PROVE IndInv'
<1> USE DEF IndInv
<1> DEFINE c == clock[s]
           f == Fork(c, n)
<1>1. /\ s \in live /\ n \notin live /\ s # n
      /\ live' = live \cup {n}
      /\ clock' = [clock EXCEPT ![n] = f]
      /\ applied' = [applied EXCEPT ![n] = applied[s]]
      /\ UNCHANGED <<patch, sent>>
  BY DEF ForkModel
<1>2. /\ applied[n] = {} /\ patch[n] = <<>>
      /\ \A op \in Created : op.sid # n
      /\ \A r \in Sid : clock[r].peers[n] = 0
  BY <1>1 DEF DeadBlank
<1>3. Created' = Created
  BY <1>1, <1>2 DEF Created, TypeOK
<1>4. c \in Clock /\ c.sid = s /\ c.time \in Nat /\ c.time >= 1
  BY DEF TypeOK, ClocksWell, Clock
<1>5. /\ f \in Clock /\ f.sid = n /\ f.time = c.time
      /\ f.peers[n] = 0
      /\ f.peers[s] = c.time - 1
      /\ \A q \in Sid \ {n, s} : f.peers[q] = c.peers[q]
  BY <1>1, <1>4 DEF Fork, Clock
<1>6. /\ clock'[n] = f /\ \A r \in Sid \ {n} : clock'[r] = clock[r]
      /\ applied'[n] = applied[s] /\ \A r \in Sid \ {n} : applied'[r] = applied[r]
  BY <1>1 DEF TypeOK
<1>7. \A op \in Created : op \in Op /\ op.sid \in Sid \ {n}
  BY <1>2 DEF Created, TypeOK, Op
<1> HIDE DEF c, f
<1>8. TypeOK'
  BY <1>1, <1>5 DEF TypeOK
<1>9. /\ IdsUnique' /\ PatchContiguous'
  BY <1>1, <1>3 DEF IdsUnique, PatchContiguous
<1>10. ClocksWell'
  BY <1>4, <1>5, <1>6 DEF ClocksWell
<1>11. ClockAhead'
  BY <1>1, <1>5, <1>6 DEF ClockAhead, c
<1>12. OwnApplied'
  BY <1>3, <1>6, <1>7 DEF OwnApplied
<1>13. BuilderOwn'
  BY <1>1, <1>2, <1>6 DEF BuilderOwn
<1>14. BuilderLast'
  BY <1>1, <1>3 DEF BuilderLast
<1>15. SentOwn'
  <2> SUFFICES ASSUME NEW p \in sent
               PROVE  /\ p.ops # <<>>
                      /\ Ordered(p.ops)
                      /\ \A i \in DOMAIN p.ops : p.ops[i].sid = p.sid /\ p.ops[i] \in applied'[p.sid]
    BY <1>1 DEF SentOwn
  <2>1. /\ p.sid \in Sid /\ p.ops \in Seq(Op) /\ p.ops # <<>> /\ Ordered(p.ops)
        /\ \A i \in DOMAIN p.ops : p.ops[i].sid = p.sid /\ p.ops[i] \in applied[p.sid]
    BY DEF SentOwn, TypeOK, Patch
  <2>2. p.sid # n
    BY <2>1, <1>2
  <2> QED  BY <2>1, <2>2, <1>6
<1>16. SentClosed'
  BY <1>1, <1>3 DEF SentClosed
<1>17. PeersBehind'
  <2> SUFFICES ASSUME NEW r \in Sid, NEW q \in Sid, r # q
               PROVE  clock'[r].peers[q] < clock'[q].time
    BY DEF PeersBehind
  <2>1. CASE r # n /\ q # n
    BY <2>1, <1>6 DEF PeersBehind
  <2>2. CASE r # n /\ q = n
    BY <2>2, <1>2, <1>4, <1>5, <1>6
  <2>3. CASE r = n /\ q = s
    BY <2>3, <1>1, <1>4, <1>5, <1>6 DEF c
  <2>4. CASE r = n /\ q # s
    BY <2>4, <1>5, <1>6 DEF PeersBehind, c
  <2> QED  BY <2>1, <2>2, <2>3, <2>4
<1>18. DeadBlank'
  <2> SUFFICES ASSUME NEW d \in Sid \ live, d # n
               PROVE  /\ applied'[d] = {}
                      /\ patch'[d] = <<>>
                      /\ clock'[d] = NewClock(d, 1)
                      /\ \A op \in Created : op.sid # d
                      /\ \A r \in Sid : clock'[r].peers[d] = 0
    BY <1>1, <1>3 DEF DeadBlank
  <2>1. /\ applied[d] = {} /\ patch[d] = <<>> /\ clock[d] = NewClock(d, 1)
        /\ \A op \in Created : op.sid # d
        /\ \A r \in Sid : clock[r].peers[d] = 0
    BY DEF DeadBlank
  <2>2. d # s
    BY <1>1
  <2> QED  BY <2>1, <2>2, <1>1, <1>5, <1>6 DEF c
<1>19. HasExact'
  <2> SUFFICES ASSUME NEW r \in live', NEW op \in Created, ~op.nop
               PROVE  Has(clock'[r], [sid |-> op.sid, time |-> End(op) - 1])
                        <=> op \in applied'[r]
    BY <1>3 DEF HasExact
  <2> DEFINE e == [sid |-> op.sid, time |-> End(op) - 1]
  <2>1. CASE r # n
    BY <2>1, <1>1, <1>6 DEF HasExact, TypeOK
  <2>2. CASE r = n
    <3>1. Has(c, e) <=> op \in applied[s]
      BY <1>1 DEF HasExact, c
    <3>2. Has(f, e) <=> Has(c, e)
      <4>1. op.sid \in Sid \ {n} /\ e.time \in Int
        BY <1>7 DEF Op, End
      <4>2. CASE op.sid = s
        BY <4>1, <4>2, <1>1, <1>4, <1>5 DEF Has
      <4>3. CASE op.sid # s
        BY <4>1, <4>3, <1>4, <1>5 DEF Has
      <4> QED  BY <4>2, <4>3
    <3> QED  BY <2>2, <3>1, <3>2, <1>6
  <2> QED  BY <2>1, <2>2
<1> QED  BY <1>8, <1>9, <1>10, <1>11, <1>12, <1>13, <1>14, <1>15, <1>16, <1>17, <1>18, <1>19

\* ModelApi.flush(): the builder's patch and what it depends on are all the session
\* did so far, so the published patch is closed under its session's past.
LEMMA FlushInv == ASSUME IndInv, NEW s \in Sid, Flush(s) PROVE IndInv'
<1> USE DEF IndInv
<1> DEFINE p == [sid |-> s, ops |-> patch[s], deps |-> applied[s] \ OpsOf(patch[s])]
<1>1. /\ patch[s] # <<>>
      /\ sent' = sent \cup {p}
      /\ patch' = [patch EXCEPT ![s] = <<>>]
      /\ UNCHANGED <<live, clock, applied>>
      /\ Created' = Created
  BY DEF Flush, Created
<1>2. /\ patch'[s] = <<>> /\ \A r \in Sid \ {s} : patch'[r] = patch[r]
  BY <1>1 DEF TypeOK
<1>3. p.sid = s /\ p.ops = patch[s] /\ p.deps = applied[s] \ OpsOf(patch[s])
  OBVIOUS
<1>4. p \in Patch
  BY DEF TypeOK, Patch
<1> HIDE DEF p
<1>5. TypeOK'
  BY <1>1, <1>4 DEF TypeOK
<1>6. PatchContiguous'
  <2>1. Contiguous(<<>>)
    BY DEF Contiguous
  <2> QED  BY <2>1, <1>1, <1>2, <1>3 DEF PatchContiguous
<1>7. /\ IdsUnique' /\ ClockAhead' /\ HasExact' /\ ClocksWell' /\ OwnApplied' /\ PeersBehind'
  BY <1>1 DEF IdsUnique, ClockAhead, HasExact, ClocksWell, OwnApplied, PeersBehind
<1>8. DeadBlank'
  BY <1>1, <1>2 DEF DeadBlank
<1>9. BuilderOwn'
  <2>1. Ordered(<<>>) /\ DOMAIN <<>> = {}
    BY DEF Ordered
  <2>2. \A r \in Sid : patch'[r] = <<>> \/ patch'[r] = patch[r]
    BY <1>2
  <2> QED  BY <2>1, <2>2, <1>1 DEF BuilderOwn
<1>10. BuilderLast'
  BY <1>1, <1>2 DEF BuilderLast
<1>11. SentOwn'
  BY <1>1, <1>3 DEF SentOwn, BuilderOwn
<1>12. SentClosed'
  <2> SUFFICES ASSUME NEW op \in Created, op.sid = s, End(op) <= NextTime(patch[s])
               PROVE  op \in p.deps \cup OpsOf(p.ops)
    BY <1>1, <1>3 DEF SentClosed
  <2>1. op \in applied[s]
    BY DEF OwnApplied
  <2> QED  BY <2>1, <1>3
<1> QED  BY <1>5, <1>6, <1>7, <1>8, <1>9, <1>10, <1>11, <1>12

\* A builder method: the new operations are later than all their session did, and no
\* other clock covers them yet.
LEMMA BuildInv ==
  ASSUME IndInv, NEW s \in Sid, NEW span \in Spans, Build(s, span) PROVE IndInv'
<1> USE DEF IndInv
<1> DEFINE ops == Built(s, span)
           T == clock[s].time
           c == Tick(clock[s], span)
<1>1. /\ s \in live
      /\ clock' = [clock EXCEPT ![s] = c]
      /\ patch' = [patch EXCEPT ![s] = ops]
      /\ applied' = [applied EXCEPT ![s] = @ \cup OpsOf(ops)]
      /\ UNCHANGED <<live, sent>>
      /\ ops \in Seq(Op)
      /\ ops # <<>>
      /\ NextTime(ops) = T + span
      /\ Contiguous(ops)
      /\ Ordered(ops)
      /\ \A x \in OpsOf(ops) :
           /\ x \in Op
           /\ x.sid = s
           /\ End(x) <= T + span
           /\ \/ x \in OpsOf(patch[s])
              \/ /\ \A o \in Created : o.sid = s => End(o) <= x.time
                 /\ ~x.nop => End(x) = T + span
      /\ OpsOf(patch[s]) \subseteq OpsOf(ops)
      /\ \A x, y \in OpsOf(ops) :
           x \in OpsOf(patch[s]) \/ y \in OpsOf(patch[s])
             \/ x = y \/ End(x) <= y.time \/ End(y) <= x.time
  BY BuildFacts
<1>2. span \in Nat /\ span > 0 /\ T \in Nat /\ T >= 1 /\ clock[s] \in Clock /\ clock[s].sid = s
  BY SpansAssumption DEF TypeOK, ClocksWell, Clock
<1>3. c \in Clock /\ c.sid = s /\ c.time = T + span /\ c.peers = clock[s].peers
  BY <1>2 DEF Tick, Clock
<1> HIDE DEF ops, c
<1>4. /\ clock'[s] = c /\ \A r \in Sid \ {s} : clock'[r] = clock[r]
      /\ patch'[s] = ops /\ \A r \in Sid \ {s} : patch'[r] = patch[r]
      /\ applied'[s] = applied[s] \cup OpsOf(ops)
      /\ \A r \in Sid \ {s} : applied'[r] = applied[r]
  BY <1>1 DEF TypeOK
<1>5. Created' = Created \cup OpsOf(ops)
  BY <1>1, <1>4 DEF Created
<1>6. \A op \in Created : op \in Op /\ (op.sid = s => op \in applied[s] /\ End(op) <= T)
  BY <1>1 DEF Created, TypeOK, OwnApplied, ClockAhead
<1>7. OpsOf(patch[s]) \subseteq Created /\ \A x \in OpsOf(patch[s]) : x \in applied[s]
  BY DEF BuilderOwn, OpsOf, Created
<1>8. \A x \in Op : End(x) > x.time /\ End(x) \in Int /\ x.time \in Int
  BY DEF Op, End
<1>9. \A x \in OpsOf(ops) :
        \/ x \in Created
        \/ /\ x \notin Created
           /\ \A o \in Created : o.sid = s => End(o) <= x.time
           /\ ~x.nop => End(x) = T + span
  BY <1>1, <1>7
<1>10. TypeOK'
  BY <1>1, <1>3 DEF TypeOK, OpsOf
<1>11. IdsUnique'
  <2> SUFFICES ASSUME NEW a \in Created', NEW b \in Created', a.sid = b.sid
               PROVE  a = b \/ End(a) <= b.time \/ End(b) <= a.time
    BY DEF IdsUnique
  <2>1. CASE a \in Created /\ b \in Created
    BY <2>1 DEF IdsUnique
  <2>2. CASE a \in Created /\ b \notin Created
    BY <2>2, <1>1, <1>5, <1>9
  <2>3. CASE a \notin Created /\ b \in Created
    BY <2>3, <1>1, <1>5, <1>9
  <2>4. CASE a \notin Created /\ b \notin Created
    BY <2>4, <1>1, <1>5, <1>7
  <2> QED  BY <2>1, <2>2, <2>3, <2>4
<1>12. PatchContiguous'
  BY <1>1, <1>4 DEF PatchContiguous
<1>13. ClockAhead'
  <2> SUFFICES ASSUME NEW r \in live, NEW op \in applied'[r] PROVE End(op) <= clock'[r].time
    BY <1>1 DEF ClockAhead
  <2>0. r \in Sid
    BY DEF TypeOK
  <2>1. CASE r # s
    BY <2>0, <2>1, <1>4 DEF ClockAhead
  <2>2. CASE r = s /\ op \in OpsOf(ops)
    BY <2>2, <1>1, <1>3, <1>4
  <2>3. CASE r = s /\ op \in applied[s]
    <3>1. op \in Op /\ End(op) <= T
      BY <2>3, <1>1, <1>2 DEF TypeOK, ClockAhead
    <3> QED  BY <2>3, <3>1, <1>2, <1>3, <1>4, <1>8
  <2> QED  BY <2>0, <2>1, <2>2, <2>3, <1>4
<1>14. ClocksWell'
  BY <1>2, <1>3, <1>4 DEF ClocksWell
<1>15. PeersBehind'
  <2> SUFFICES ASSUME NEW r \in Sid, NEW q \in Sid, r # q
               PROVE  clock'[r].peers[q] < clock'[q].time
    BY DEF PeersBehind
  <2>1. clock'[r].peers = clock[r].peers
    BY <1>3, <1>4
  <2>2. clock[r].peers[q] \in Nat /\ clock[q].time \in Nat /\ clock[r].peers[q] < clock[q].time
    BY DEF PeersBehind, TypeOK, Clock
  <2>3. clock'[q].time >= clock[q].time
    BY <2>2, <1>2, <1>3, <1>4
  <2>4. clock'[q].time \in Nat
    BY <2>2, <1>2, <1>3, <1>4
  <2> QED  BY <2>1, <2>2, <2>3, <2>4
<1>16. OwnApplied'
  BY <1>1, <1>4, <1>5, <1>6 DEF OwnApplied, Op
<1>17. BuilderOwn'
  BY <1>1, <1>4 DEF BuilderOwn, OpsOf
<1>18. BuilderLast'
  <2> SUFFICES ASSUME NEW r \in Sid, patch'[r] # <<>>, NEW op \in Created', op.sid = r
               PROVE  End(op) <= NextTime(patch'[r])
    BY DEF BuilderLast
  <2>1. CASE r = s /\ op \in OpsOf(ops)
    BY <2>1, <1>1, <1>4
  <2>2. CASE r = s /\ op \in Created
    BY <2>2, <1>1, <1>2, <1>4, <1>6, <1>8
  <2>3. CASE r # s
    BY <2>3, <1>1, <1>4, <1>5 DEF BuilderLast
  <2> QED  BY <2>1, <2>2, <2>3, <1>5
<1>19. SentOwn'
  <2> SUFFICES ASSUME NEW p \in sent
               PROVE  /\ p.ops # <<>>
                      /\ Ordered(p.ops)
                      /\ \A i \in DOMAIN p.ops : p.ops[i].sid = p.sid /\ p.ops[i] \in applied'[p.sid]
    BY <1>1 DEF SentOwn
  <2>1. p.sid \in Sid
    BY DEF TypeOK, Patch
  <2>2. applied[p.sid] \subseteq applied'[p.sid]
    BY <2>1, <1>4
  <2> QED  BY <2>2 DEF SentOwn
<1>20. SentClosed'
  <2> SUFFICES ASSUME NEW p \in sent, NEW op \in Created', op.sid = p.sid,
                      End(op) <= NextTime(p.ops)
               PROVE  op \in p.deps \cup OpsOf(p.ops)
    BY <1>1 DEF SentClosed
  <2>1. CASE op \in Created
    BY <2>1 DEF SentClosed
  <2>2. CASE op \notin Created
    <3>1. op \in OpsOf(ops) /\ op \in Op /\ p.sid = s
      BY <2>2, <1>1, <1>5
    <3>2. p \in Patch /\ p.ops # <<>> /\ Len(p.ops) \in DOMAIN p.ops /\ p.ops[Len(p.ops)] \in Op
      BY DEF SentOwn, TypeOK, Patch
    <3>3. p.ops[Len(p.ops)] \in Created /\ p.ops[Len(p.ops)].sid = s
      BY <3>1, <3>2 DEF SentOwn, Created
    <3>4. NextTime(p.ops) <= op.time /\ NextTime(p.ops) \in Int
      BY <2>2, <3>1, <3>2, <3>3, <1>8, <1>9 DEF NextTime
    <3> QED  BY <3>1, <3>4, <1>8
  <2> QED  BY <2>1, <2>2
<1>21. DeadBlank'
  <2> SUFFICES ASSUME NEW d \in Sid \ live
               PROVE  /\ applied'[d] = {}
                      /\ patch'[d] = <<>>
                      /\ clock'[d] = NewClock(d, 1)
                      /\ \A op \in Created' : op.sid # d
                      /\ \A r \in Sid : clock'[r].peers[d] = 0
    BY <1>1 DEF DeadBlank
  <2>1. /\ applied[d] = {} /\ patch[d] = <<>> /\ clock[d] = NewClock(d, 1)
        /\ \A op \in Created : op.sid # d
        /\ \A r \in Sid : clock[r].peers[d] = 0
    BY DEF DeadBlank
  <2>2. d # s
    BY <1>1
  <2>3. \A r \in Sid : clock'[r].peers = clock[r].peers
    BY <1>3, <1>4
  <2> QED  BY <2>1, <2>2, <2>3, <1>1, <1>4, <1>5
<1>22. HasExact'
  <2> SUFFICES ASSUME NEW r \in live, NEW op \in Created', ~op.nop
               PROVE  Has(clock'[r], [sid |-> op.sid, time |-> End(op) - 1])
                        <=> op \in applied'[r]
    BY <1>1 DEF HasExact
  <2> DEFINE e == [sid |-> op.sid, time |-> End(op) - 1]
  <2>0. r \in Sid /\ op \in Op /\ e.time \in Int /\ e.sid = op.sid /\ clock[r].sid = r
    BY <1>1, <1>5, <1>6, <1>8 DEF TypeOK, ClocksWell
  <2>1. CASE r = s /\ op.sid = s
    <3>1. End(op) <= T + span /\ op \in applied'[s]
      BY <2>1, <1>1, <1>2, <1>4, <1>5, <1>6, <1>8
    <3>2. e.time < c.time
      BY <3>1, <2>0, <1>2, <1>3, <1>8
    <3> QED  BY <2>1, <3>1, <3>2, <1>3, <1>4 DEF Has
  <2>2. CASE r = s /\ op.sid # s
    <3>1. op \in Created /\ op \notin OpsOf(ops)
      BY <2>2, <1>1, <1>5
    <3>2. Has(clock[r], e) <=> op \in applied[r]
      BY <3>1 DEF HasExact
    <3>3. Has(c, e) <=> Has(clock[s], e)
      BY <2>0, <2>2, <1>2, <1>3 DEF Has
    <3> QED  BY <2>2, <3>1, <3>2, <3>3, <1>4
  <2>3. CASE r # s /\ op \in Created
    BY <2>0, <2>3, <1>4 DEF HasExact
  <2>4. CASE r # s /\ op \notin Created
    <3>1. op.sid = s /\ End(op) = T + span
      BY <2>4, <1>1, <1>5, <1>9
    <3>2. op \notin applied'[r]
      BY <2>0, <2>4, <1>4 DEF Created
    <3>3. clock[r].peers[s] \in Nat /\ clock[r].peers[s] < T
      BY <2>0, <2>4 DEF PeersBehind, TypeOK, Clock
    <3>4. ~(e.time <= clock[r].peers[s])
      BY <3>1, <3>3, <1>2
    <3> QED  BY <2>0, <2>4, <3>1, <3>2, <3>4, <1>4 DEF Has
  <2> QED  BY <2>1, <2>2, <2>3, <2>4
<1> QED  BY <1>10, <1>11, <1>12, <1>13, <1>14, <1>15, <1>16, <1>17, <1>18, <1>19, <1>20,
            <1>21, <1>22

(* Applying a patch observes its last operation: ObservePatch picks an     *)
(* operation that ends last, and that is where the patch ends.             *)
LEMMA ObserveFacts ==
  ASSUME NEW c \in Clock, NEW q \in Sid, q # c.sid, NEW ops \in Seq(Op),
         ops # <<>>, Ordered(ops)
  PROVE  LET N == NextTime(ops)
             d == ObservePatch(c, q, ops)
         IN  /\ N \in Nat /\ N >= 1
             /\ \A x \in OpsOf(ops) : End(x) <= N
             /\ d \in Clock
             /\ d.sid = c.sid
             /\ d.time = Larger(c.time, N)
             /\ d.peers[q] = Larger(c.peers[q], N - 1)
             /\ \A s \in Sid \ {q} : d.peers[s] = c.peers[s]
<1> DEFINE N == NextTime(ops)
           last == CHOOSE op \in OpsOf(ops) : \A o \in OpsOf(ops) : End(o) <= End(op)
<1>1. /\ Len(ops) \in DOMAIN ops /\ N = End(ops[Len(ops)])
      /\ \A i \in DOMAIN ops : ops[i] \in Op /\ i \in Int /\ i <= Len(ops)
  BY DEF NextTime
<1>2. \A x \in Op : /\ End(x) = x.time + x.span /\ x.time \in Nat /\ x.span \in Nat
                    /\ x.time >= 1 /\ x.span >= 1
  BY DEF End, Op
<1>3. \A i \in DOMAIN ops : End(ops[i]) <= N
  <2> TAKE i \in DOMAIN ops
  <2>1. CASE i = Len(ops)
    BY <2>1, <1>1, <1>2
  <2>2. CASE i < Len(ops)
    <3>1. End(ops[i]) <= ops[Len(ops)].time
      BY <2>2, <1>1 DEF Ordered
    <3> QED  BY <3>1, <1>1, <1>2
  <2> QED  BY <2>1, <2>2, <1>1
<1>4. \A x \in OpsOf(ops) : x \in Op /\ End(x) <= N
  BY <1>1, <1>3 DEF OpsOf
<1>5. ops[Len(ops)] \in OpsOf(ops) /\ N \in Nat /\ N >= 1
  BY <1>1, <1>2 DEF OpsOf
<1>6. \E op \in OpsOf(ops) : \A o \in OpsOf(ops) : End(o) <= End(op)
  BY <1>1, <1>4, <1>5
<1>7. last \in OpsOf(ops) /\ \A o \in OpsOf(ops) : End(o) <= End(last)
  BY <1>6
<1>8. ObservePatch(c, q, ops) = Observe(c, [sid |-> q, time |-> last.time], last.span)
  BY DEF ObservePatch
<1> HIDE DEF last
<1>9. last \in Op /\ End(last) = N
  <2>1. last \in Op /\ End(last) <= N /\ End(last) \in Int
    BY <1>2, <1>4, <1>7
  <2>2. N <= End(last)
    BY <1>1, <1>5, <1>7
  <2> QED  BY <2>1, <2>2, <1>5
<1>10. last.time + last.span - 1 = N - 1 /\ N - 1 \in Nat /\ N - 1 + 1 = N
  BY <1>2, <1>5, <1>9
<1> DEFINE d == Observe(c, [sid |-> q, time |-> last.time], last.span)
<1> HIDE DEF N
<1>11. d = [c EXCEPT !.peers = [c.peers EXCEPT ![q] = Larger(c.peers[q], N - 1)],
                     !.time = Larger(c.time, N)]
  BY <1>10 DEF Observe
<1>12. c.peers \in [Sid -> Nat] /\ c.time \in Nat /\ c.sid \in Sid
       /\ c = [sid |-> c.sid, time |-> c.time, peers |-> c.peers]
  BY DEF Clock
<1>13. Larger(c.time, N) \in Nat /\ Larger(c.peers[q], N - 1) \in Nat
  BY <1>5, <1>10, <1>12 DEF Larger
<1>14. /\ d = [sid |-> c.sid, time |-> Larger(c.time, N),
               peers |-> [c.peers EXCEPT ![q] = Larger(c.peers[q], N - 1)]]
  BY <1>11, <1>12
<1>15. [c.peers EXCEPT ![q] = Larger(c.peers[q], N - 1)] \in [Sid -> Nat]
  BY <1>12, <1>13
<1> HIDE DEF d
<1>16. /\ d \in Clock
       /\ d.sid = c.sid
       /\ d.time = Larger(c.time, N)
       /\ d.peers[q] = Larger(c.peers[q], N - 1)
       /\ \A s \in Sid \ {q} : d.peers[s] = c.peers[s]
  BY <1>12, <1>13, <1>14, <1>15 DEF Clock
<1> QED  BY <1>4, <1>5, <1>8, <1>16 DEF N, d

\* Model.applyPatch(): causal delivery and the closure of patches make the observed
\* time cover just the operations that are now in the document.
LEMMA ApplyInv ==
  ASSUME IndInv, NEW r \in Sid, NEW p \in sent, Apply(r, p) PROVE IndInv'
<1> USE DEF IndInv
<1> DEFINE q == p.sid
           ops == p.ops
           N == NextTime(ops)
           d == ObservePatch(clock[r], q, ops)
<1>1. /\ r \in live /\ q # r /\ p.deps \subseteq applied[r]
      /\ clock' = [clock EXCEPT ![r] = d]
      /\ applied' = [applied EXCEPT ![r] = @ \cup OpsOf(ops)]
      /\ UNCHANGED <<live, patch, sent>>
  BY DEF Apply
<1>2. /\ p \in Patch /\ q \in Sid /\ ops \in Seq(Op) /\ ops # <<>> /\ Ordered(ops)
      /\ \A i \in DOMAIN ops : ops[i].sid = q /\ ops[i] \in applied[q]
  BY DEF SentOwn, TypeOK, Patch
<1>3. clock[r] \in Clock /\ clock[r].sid = r /\ clock[r].time >= 1
  BY DEF TypeOK, ClocksWell
<1>4. /\ N \in Nat /\ N >= 1
      /\ \A x \in OpsOf(ops) : End(x) <= N
      /\ d \in Clock
      /\ d.sid = r
      /\ d.time = Larger(clock[r].time, N)
      /\ d.peers[q] = Larger(clock[r].peers[q], N - 1)
      /\ \A s \in Sid \ {q} : d.peers[s] = clock[r].peers[s]
  BY <1>1, <1>2, <1>3, ObserveFacts
<1>5. \A x \in OpsOf(ops) : x.sid = q /\ x \in applied[q] /\ x \in Op /\ x \in Created
  BY <1>2 DEF OpsOf, Created
<1>6. ops[Len(ops)] \in OpsOf(ops) /\ N = End(ops[Len(ops)])
  BY <1>2 DEF OpsOf, NextTime
<1>7. q \in live /\ N <= clock[q].time
  <2>1. q \in live
    BY <1>2, <1>5, <1>6 DEF DeadBlank
  <2> QED  BY <2>1, <1>5, <1>6 DEF ClockAhead
<1>8. \A op \in Created : op.sid = q /\ End(op) <= N => op \in applied[r] \cup OpsOf(ops)
  BY <1>1 DEF SentClosed
<1>9. clock[r].time \in Nat /\ \A s \in Sid : clock[r].peers[s] \in Nat
  BY <1>3 DEF Clock
<1>10. \A x \in Op : End(x) > x.time /\ End(x) \in Int /\ x.time \in Int /\ x.sid \in Sid
  BY DEF Op, End
<1> HIDE DEF d, N, ops, q
<1>11. /\ clock'[r] = d /\ \A s \in Sid \ {r} : clock'[s] = clock[s]
       /\ applied'[r] = applied[r] \cup OpsOf(ops)
       /\ \A s \in Sid \ {r} : applied'[s] = applied[s]
  BY <1>1 DEF TypeOK
<1>12. \A s \in Sid : applied[s] \subseteq applied'[s]
  BY <1>11
<1>13. Created' = Created
  BY <1>5, <1>11 DEF Created
<1>14. TypeOK'
  BY <1>1, <1>4, <1>5 DEF TypeOK
<1>15. IdsUnique' /\ PatchContiguous' /\ BuilderLast' /\ SentClosed'
  BY <1>1, <1>13 DEF IdsUnique, PatchContiguous, BuilderLast, SentClosed
<1>16. ClocksWell'
  <2>1. d.time >= 1
    BY <1>3, <1>4, <1>9 DEF Larger
  <2> QED  BY <2>1, <1>4, <1>11 DEF ClocksWell
<1>17. OwnApplied' /\ BuilderOwn' /\ SentOwn'
  <2>1. OwnApplied'
    <3>1. \A op \in Created : op.sid \in Sid /\ op \in applied[op.sid]
      BY DEF OwnApplied, Created, TypeOK, Op
    <3> QED  BY <3>1, <1>12, <1>13 DEF OwnApplied
  <2>2. BuilderOwn'
    BY <1>1, <1>12 DEF BuilderOwn
  <2>3. SentOwn'
    <3>1. \A s \in sent : s.sid \in Sid
      BY DEF TypeOK, Patch
    <3> QED  BY <3>1, <1>1, <1>12 DEF SentOwn
  <2> QED  BY <2>1, <2>2, <2>3
<1>18. ClockAhead'
  <2> SUFFICES ASSUME NEW s \in live, NEW op \in applied'[s] PROVE End(op) <= clock'[s].time
    BY <1>1 DEF ClockAhead
  <2>0. s \in Sid
    BY DEF TypeOK
  <2>1. CASE s # r
    BY <2>0, <2>1, <1>11 DEF ClockAhead
  <2>2. CASE s = r
    <3>1. op \in Op
      BY <2>2, <1>5, <1>11 DEF TypeOK
    <3>2. End(op) <= clock[r].time \/ End(op) <= N
      BY <2>2, <1>4, <1>11 DEF ClockAhead
    <3>3. clock'[s].time = Larger(clock[r].time, N)
      BY <2>2, <1>4, <1>11
    <3> QED  BY <3>1, <3>2, <3>3, <1>4, <1>9, <1>10 DEF Larger
  <2> QED  BY <2>1, <2>2
<1>19. PeersBehind'
  <2> SUFFICES ASSUME NEW a \in Sid, NEW b \in Sid, a # b
               PROVE  clock'[a].peers[b] < clock'[b].time
    BY DEF PeersBehind
  <2>1. /\ clock[a].peers[b] < clock[b].time
        /\ clock[a].peers[b] \in Nat /\ clock[b].time \in Nat
    BY DEF PeersBehind, TypeOK, Clock
  <2>2. clock'[b].time \in Nat /\ clock'[b].time >= clock[b].time
    BY <2>1, <1>4, <1>11 DEF Larger
  <2>3. CASE a = r /\ b = q
    <3>1. clock'[a].peers[b] = Larger(clock[a].peers[b], N - 1)
      BY <2>3, <1>4, <1>11
    <3> QED  BY <2>1, <2>2, <2>3, <3>1, <1>4, <1>7 DEF Larger
  <2>4. CASE ~(a = r /\ b = q)
    BY <2>1, <2>2, <2>4, <1>4, <1>11
  <2> QED  BY <2>3, <2>4
<1>20. DeadBlank'
  <2> SUFFICES ASSUME NEW s \in Sid \ live
               PROVE  /\ applied'[s] = {}
                      /\ patch'[s] = <<>>
                      /\ clock'[s] = NewClock(s, 1)
                      /\ \A op \in Created : op.sid # s
                      /\ \A a \in Sid : clock'[a].peers[s] = 0
    BY <1>1, <1>13 DEF DeadBlank
  <2>1. /\ applied[s] = {} /\ patch[s] = <<>> /\ clock[s] = NewClock(s, 1)
        /\ \A op \in Created : op.sid # s
        /\ \A a \in Sid : clock[a].peers[s] = 0
    BY DEF DeadBlank
  <2> QED  BY <2>1, <1>1, <1>4, <1>7, <1>11
<1>21. HasExact'
  <2> SUFFICES ASSUME NEW s \in live, NEW op \in Created, ~op.nop
               PROVE  Has(clock'[s], [sid |-> op.sid, time |-> End(op) - 1])
                        <=> op \in applied'[s]
    BY <1>1, <1>13 DEF HasExact
  <2> DEFINE e == [sid |-> op.sid, time |-> End(op) - 1]
  <2>0. /\ s \in Sid /\ op \in Op /\ op.sid \in Sid /\ e.time \in Int /\ e.sid = op.sid
        /\ End(op) \in Int /\ e.time = End(op) - 1
    BY <1>10 DEF TypeOK, Created
  <2>1. Has(clock[s], e) <=> op \in applied[s]
    BY DEF HasExact
  <2>2. CASE s # r
    BY <2>0, <2>1, <2>2, <1>11
  <2> HIDE DEF e
  <2>3. CASE s = r /\ op.sid = q
    <3>1. Has(d, e) <=> e.time <= Larger(clock[r].peers[q], N - 1)
      BY <2>0, <2>3, <1>1, <1>4 DEF Has, q
    <3>2. Has(clock[r], e) <=> e.time <= clock[r].peers[q]
      BY <2>0, <2>3, <1>1, <1>3 DEF Has, q
    <3>3. Has(d, e) <=> Has(clock[r], e) \/ End(op) <= N
      <4>1. clock[r].peers[q] \in Nat
        BY <2>0, <2>3, <1>9
      <4> QED  BY <4>1, <3>1, <3>2, <2>0, <1>4 DEF Larger
    <3>4. op \in applied'[r] <=> op \in applied[r] \/ End(op) <= N
      BY <2>3, <1>4, <1>8, <1>11
    <3> QED  BY <2>1, <2>3, <3>3, <3>4, <1>11 DEF e
  <2>4. CASE s = r /\ op.sid # q
    <3>1. op \in applied'[r] <=> op \in applied[r]
      BY <2>4, <1>5, <1>11
    <3>2. CASE op.sid = r
      <4>1. op \in applied[r] /\ End(op) <= clock'[r].time
        BY <3>2, <1>1, <1>12, <1>18 DEF OwnApplied, ClockAhead
      <4>2. e.time < d.time
        BY <4>1, <2>0, <1>4, <1>9, <1>11 DEF Larger
      <4>3. Has(d, e)
        BY <4>2, <3>2, <2>0, <1>4 DEF Has
      <4> QED  BY <2>4, <3>1, <4>1, <4>3, <1>11 DEF e
    <3>3. CASE op.sid # r
      <4>1. Has(d, e) <=> Has(clock[r], e)
        BY <2>0, <2>4, <3>3, <1>3, <1>4 DEF Has
      <4> QED  BY <2>1, <2>4, <3>1, <4>1, <1>11 DEF e
    <3> QED  BY <3>2, <3>3
  <2> QED  BY <2>2, <2>3, <2>4
<1> QED  BY <1>14, <1>15, <1>16, <1>17, <1>18, <1>19, <1>20, <1>21

\* The invariant speaks of the variables only.
LEMMA StutterInv == IndInv /\ UNCHANGED vars => IndInv'
<1> SUFFICES ASSUME IndInv, UNCHANGED vars PROVE IndInv'
  OBVIOUS
<1>1. UNCHANGED <<live, clock, patch, applied, sent>> /\ Created' = Created
  BY DEF vars, Created
<1> QED
  BY <1>1 DEF IndInv, TypeOK, IdsUnique, PatchContiguous, ClockAhead, HasExact, ClocksWell,
              DeadBlank, OwnApplied, BuilderOwn, BuilderLast, SentOwn, SentClosed, PeersBehind

(* In every reachable state, whatever was created, forked, built, flushed  *)
(* and applied so far, the whole strengthened invariant holds.             *)
THEOREM Invariance == Spec => []IndInv
<1>1. IndInv /\ [Next]_vars => IndInv'
  <2> SUFFICES ASSUME IndInv, [Next]_vars PROVE IndInv'
    OBVIOUS
  <2>1. ASSUME NEW s \in Sid, Create(s) PROVE IndInv'
    BY <2>1, CreateInv
  <2>2. ASSUME NEW s \in Sid, NEW n \in Sid, ForkModel(s, n) PROVE IndInv'
    BY <2>2, ForkInv
  <2>3. ASSUME NEW s \in Sid, NEW span \in Spans, Build(s, span) PROVE IndInv'
    BY <2>3, BuildInv
  <2>4. ASSUME NEW s \in Sid, Flush(s) PROVE IndInv'
    BY <2>4, FlushInv
  <2>5. ASSUME NEW r \in Sid, NEW p \in sent, Apply(r, p) PROVE IndInv'
    BY <2>5, ApplyInv
  <2>6. CASE UNCHANGED vars
    BY <2>6, StutterInv
  <2> QED  BY <2>1, <2>2, <2>3, <2>4, <2>5, <2>6 DEF Next
<1> QED  BY <1>1, InitInv, PTL DEF Spec

(* Clocks, builders, documents and patches keep their types: no clock runs *)
(* backwards below 0 and no padding operation has an empty span.           *)
THEOREM TypeCorrect == Spec => []TypeOK
<1>1. IndInv => TypeOK
  BY DEF IndInv
<1> QED  BY <1>1, Invariance, PTL

(* PatchBuilder and ClockVector never hand out a logical timestamp twice,  *)
(* in any interleaving of local edits, remote patches and forks.           *)
THEOREM UniqueIdentifiers == Spec => []IdsUnique
<1>1. IndInv => IdsUnique
  BY DEF IndInv
<1> QED  BY <1>1, Invariance, PTL

(* PatchBuilder.pad() keeps every patch contiguous, so that the codecs may *)
(* write spans only.                                                       *)
THEOREM ContiguousPatches == Spec => []PatchContiguous
<1>1. IndInv => PatchContiguous
  BY DEF IndInv
<1> QED  BY <1>1, Invariance, PTL

(* observe() and tick() keep the clock of a model ahead of its document.   *)
THEOREM ClockStaysAhead == Spec => []ClockAhead
<1>1. IndInv => ClockAhead
  BY DEF IndInv
<1> QED  BY <1>1, Invariance, PTL

(* ClockVector.has(), on which Model.delta() relies, is exact: it answers  *)
(* whether an operation is in the document, neither more nor less.         *)
THEOREM ExactVersionVector == Spec => []HasExact
<1>1. IndInv => HasExact
  BY DEF IndInv
<1> QED  BY <1>1, Invariance, PTL
===========================================================================
