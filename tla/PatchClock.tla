---------------------------- MODULE PatchClock ----------------------------
(***************************************************************************)
(* How the identifiers of JSON CRDT operations come to be: sessions tick   *)
(* their logical clock through PatchBuilder, which collects operations     *)
(* until flush(), while patches of other sessions are applied in between   *)
(* and sessions are forked from one another.                               *)
(*                                                                         *)
(* A flushed patch is on its way to everybody for ever: it may be applied  *)
(* late, by some and not by others, and more than once.  It is applied     *)
(* only where everything its author had seen is already applied (causal    *)
(* delivery, which the transports of the system provide by replaying one   *)
(* server log in order).                                                   *)
(***************************************************************************)
EXTENDS LogicalClock, Sequences, FiniteSets

CONSTANTS Spans,        \* the spans an operation may have (1: new_obj, ..; n: ins_str)
          MaxOps        \* bound: no builder method is called once so many operations exist

ASSUME SpansAssumption == Spans \subseteq Nat \ {0}
ASSUME MaxOpsAssumption == MaxOps \in Nat

VARIABLES live,         \* the sessions that exist
          clock,        \* clock[s]: Model.clock of session s
          patch,        \* patch[s]: operations in PatchBuilder.patch, not yet flushed
          applied,      \* applied[s]: operations the model of s incorporates
          sent          \* flushed patches

vars == <<live, clock, patch, applied, sent>>

Op == [sid : Sid, time : Nat \ {0}, span : Nat \ {0}, nop : BOOLEAN]
Patch == [sid : Sid, ops : Seq(Op), deps : SUBSET Op]

OpsOf(ops) == {ops[i] : i \in DOMAIN ops}

End(op) == op.time + op.span          \* the first time after the operation

Created == UNION {applied[s] : s \in Sid}

Init ==
  /\ live = {}
  /\ clock = [s \in Sid |-> NewClock(s, 1)]
  /\ patch = [s \in Sid |-> <<>>]
  /\ applied = [s \in Sid |-> {}]
  /\ sent = {}

-----------------------------------------------------------------------------
\* Model.create(schema, sid): a fresh document.
Create(s) ==
  /\ s \notin live
  /\ live' = live \cup {s}
  /\ UNCHANGED <<clock, patch, applied, sent>>

\* Model.fork(sid): the copy has all the state of s, the operations still in the
\* builder of s included; its own builder starts empty.
ForkModel(s, n) ==
  /\ s \in live
  /\ n \notin live
  /\ live' = live \cup {n}
  /\ clock' = [clock EXCEPT ![n] = Fork(clock[s], n)]
  /\ applied' = [applied EXCEPT ![n] = applied[s]]
  /\ UNCHANGED <<patch, sent>>

\* PatchBuilder.pad(): fill the time the clock jumped over with a "nop".
NextTime(ops) == IF ops = <<>> THEN 0 ELSE End(ops[Len(ops)])

\* Mutants: padding although there is no gap; no padding of a gap of one tick.
PadAlways(ops, c) ==
  IF ops # <<>>
  THEN Append(ops, [sid |-> c.sid, time |-> NextTime(ops),
                    span |-> c.time - NextTime(ops), nop |-> TRUE])
  ELSE ops

PadLarge(ops, c) ==
  LET drift == c.time - NextTime(ops)
  IN  IF ops # <<>> /\ drift > 1
      THEN Append(ops, [sid |-> c.sid, time |-> NextTime(ops), span |-> drift, nop |-> TRUE])
      ELSE ops

Pad(ops, c) ==
  LET drift == c.time - NextTime(ops)
  IN  IF ops # <<>> /\ drift > 0
      THEN Append(ops, [sid |-> c.sid, time |-> NextTime(ops), span |-> drift, nop |-> TRUE])
      ELSE ops

\* A builder method (obj, con, insStr, del, ...): pad, take an identifier from the
\* clock, push the operation.  ModelApi.apply() or advance() applies it at once.
Build(s, span) ==
  LET c  == clock[s]
      op == [sid |-> s, time |-> TickStamp(c).time, span |-> span, nop |-> FALSE]
      ops == Append(Pad(patch[s], c), op)
  IN  /\ s \in live
      /\ Cardinality(Created) < MaxOps
      /\ patch' = [patch EXCEPT ![s] = ops]
      /\ clock' = [clock EXCEPT ![s] = Tick(c, span)]
      /\ applied' = [applied EXCEPT ![s] = @ \cup OpsOf(ops)]
      /\ UNCHANGED <<live, sent>>

\* ModelApi.flush(): the patch leaves the builder and is published.
Flush(s) ==
  /\ patch[s] # <<>>
  /\ sent' = sent \cup {[sid  |-> s,
                         ops  |-> patch[s],
                         deps |-> applied[s] \ OpsOf(patch[s])]}
  /\ patch' = [patch EXCEPT ![s] = <<>>]
  /\ UNCHANGED <<live, clock, applied>>

\* The clock after applyPatch() has called observe() for each operation: the
\* latest end of an operation is what remains of it.
ObservePatch(c, sid, ops) ==
  LET last == CHOOSE op \in OpsOf(ops) : \A o \in OpsOf(ops) : End(o) <= End(op)
  IN  Observe(c, [sid |-> sid, time |-> last.time], last.span)

\* Model.applyPatch(p), for the first time or again.
Apply(r, p) ==
  /\ r \in live
  /\ p.sid # r
  /\ p.deps \subseteq applied[r]
  /\ clock' = [clock EXCEPT ![r] = ObservePatch(@, p.sid, p.ops)]
  /\ applied' = [applied EXCEPT ![r] = @ \cup OpsOf(p.ops)]
  /\ UNCHANGED <<live, patch, sent>>

Next ==
  \/ \E s \in Sid : Create(s)
  \/ \E s, n \in Sid : ForkModel(s, n)
  \/ \E s \in Sid, span \in Spans : Build(s, span)
  \/ \E s \in Sid : Flush(s)
  \/ \E r \in Sid, p \in sent : Apply(r, p)

Spec == Init /\ [][Next]_vars

-----------------------------------------------------------------------------
TypeOK ==
  /\ live \subseteq Sid
  /\ clock \in [Sid -> Clock]
  /\ patch \in [Sid -> Seq(Op)]
  /\ applied \in [Sid -> SUBSET Op]
  /\ sent \subseteq Patch

(* No two operations share a logical timestamp: the intervals of two       *)
(* operations of one session never overlap, whatever was applied, forked   *)
(* or padded between them.  Every node index, every RGA and every          *)
(* last-writer-wins comparison of the document takes this for granted.     *)
IdsUnique ==
  \A o1, o2 \in Created :
    o1.sid = o2.sid => o1 = o2 \/ End(o1) <= o2.time \/ End(o2) <= o1.time

(* The operations of a patch follow one another without a gap, even when   *)
(* the clock jumped while the patch was being built.  The patch codecs     *)
(* write the first identifier and the spans only, and getId()/span() of a  *)
(* patch are read as its interval.                                         *)
Contiguous(ops) == \A i \in 2..Len(ops) : ops[i].time = End(ops[i - 1])

PatchContiguous ==
  /\ \A s \in Sid : Contiguous(patch[s])
  /\ \A p \in sent : Contiguous(p.ops)

(* A session's clock is ahead of everything its document incorporates, so  *)
(* that an operation created next is later than all it can refer to: the   *)
(* RGA and the last-writer-wins nodes order concurrent operations by that. *)
ClockAhead == \A s \in live : \A op \in applied[s] : End(op) <= clock[s].time

(* The version vector of a session says exactly what its document has: an  *)
(* operation is covered by the clock if and only if it was applied.  The   *)
(* delta of two models (Model.delta) sends what has() denies and nothing   *)
(* else.  The padding of a patch is excepted: a fork taken before the      *)
(* padding was created already covers it, and it changes nothing.          *)
HasExact ==
  \A s \in live : \A op \in Created :
    ~op.nop => (Has(clock[s], [sid |-> op.sid, time |-> End(op) - 1]) <=> op \in applied[s])
===========================================================================
