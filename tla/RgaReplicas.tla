---------------------------- MODULE RgaReplicas ----------------------------
(***************************************************************************)
(* One string or array edited by several sessions at once.  Each session   *)
(* inserts and deletes by position in its own copy (StrApi.ins, del); the  *)
(* operations reach the others in any order that respects causality, and   *)
(* possibly more than once (Model.applyOperation).  A session may at any   *)
(* time be encoded and decoded again.                                      *)
(***************************************************************************)
EXTENDS RgaOrder, FiniteSets

CONSTANTS Groups,       \* the sets of sessions that may edit a document together
          Spans,        \* lengths of inserted text
          MaxWork       \* bound: operations created in a behaviour, sessions included

ASSUME GroupsAssumption == Groups \subseteq SUBSET Sid
ASSUME SpansAssumption == Spans \subseteq Nat \ {0}
ASSUME MaxWorkAssumption == MaxWork \in Nat

VARIABLES group,        \* the sessions that edit the document
          rga,          \* rga[r]: the chunks of the node at r
          time,         \* time[r]: the clock of r
          seen,         \* seen[r]: the operations r has applied
          ops           \* the operations created so far

vars == <<group, rga, time, seen, ops>>

\* An operation, with the operations its author had applied.
InsStrOp(r, after, span, deps) ==
  [kind |-> "ins_str", id |-> [sid |-> r, time |-> time[r]], span |-> span,
   ref |-> after, what |-> <<>>, deps |-> deps]
DelOp(r, what, deps) ==
  [kind |-> "del", id |-> [sid |-> r, time |-> time[r]], span |-> 1,
   ref |-> Root, what |-> what, deps |-> deps]

Init ==
  /\ group \in Groups
  /\ rga = [r \in Sid |-> <<>>]
  /\ time = [r \in Sid |-> 1]
  /\ seen = [r \in Sid |-> {}]
  /\ ops = {}

Publish(r, op) ==
  /\ ops' = ops \cup {op}
  /\ seen' = [seen EXCEPT ![r] = @ \cup {op.id}]
  /\ time' = [time EXCEPT ![r] = @ + op.span]
  /\ UNCHANGED group

\* The bound, and the positions of a copy
More == Cardinality(ops) + Cardinality(group) < MaxWork
Positions(r) == 0..Len(View(rga[r]))

\* StrApi.ins(pos, text)
LocalIns(r, pos, span) ==
  /\ More
  /\ pos \in Positions(r)
  /\ Publish(r, InsStrOp(r, InsAtAfter(rga[r], Root, pos), span, seen[r]))
  /\ rga' = [rga EXCEPT ![r] = InsAt(@, Root, pos, [sid |-> r, time |-> time[r]], span)]

\* StrApi.del(pos, len)
LocalDel(r, pos, len) ==
  LET what == FindInterval(rga[r], pos, len)
  IN  /\ More
      /\ pos + len \in Positions(r)
      /\ Publish(r, DelOp(r, what, seen[r]))
      /\ rga' = [rga EXCEPT ![r] = Delete(@, what)]

\* Mutant: the clock does not observe what is applied.
DeliverUnobserved(r, op) ==
  /\ op.deps \subseteq seen[r]
  /\ rga' = [rga EXCEPT ![r] = IF op.kind = "ins_str" THEN Ins(@, Root, op.ref, op.id, op.span)
                                                      ELSE Delete(@, op.what)]
  /\ seen' = [seen EXCEPT ![r] = @ \cup {op.id}]
  /\ UNCHANGED <<group, time, ops>>

\* Model.applyOperation(op), for the first time or again.
Deliver(r, op) ==
  /\ op.deps \subseteq seen[r]
  /\ rga' = [rga EXCEPT ![r] = IF op.kind = "ins_str" THEN Ins(@, Root, op.ref, op.id, op.span)
                                                      ELSE Delete(@, op.what)]
  /\ seen' = [seen EXCEPT ![r] = @ \cup {op.id}]
  /\ time' = [time EXCEPT ![r] = Max({@, op.id.time + op.span})]
  /\ UNCHANGED <<group, ops>>

\* Model.fromBinary(model.toBinary()), clone(), reset(): the chunks are ingested.
Reload(r) ==
  /\ rga' = [rga EXCEPT ![r] = Ingest(@)]
  /\ UNCHANGED <<group, time, seen, ops>>

Next ==
  \/ \E r \in group : \E pos \in Positions(r), span \in Spans : LocalIns(r, pos, span)
  \/ \E r \in group : \E pos \in Positions(r), len \in Positions(r) \ {0} : LocalDel(r, pos, len)
  \/ \E r \in group, op \in ops : Deliver(r, op)

Spec == Init /\ [][Next]_vars

\* The same with sessions that are decoded from their encoding now and then.
ReloadNext == Next \/ \E r \in group : Reload(r)

ReloadSpec == Init /\ [][ReloadNext]_vars

SeenIns(r) == {op \in ops : op.kind = "ins_str" /\ op.id \in seen[r]}
SeenDel(r) == {op \in ops : op.kind = "del" /\ op.id \in seen[r]}

-----------------------------------------------------------------------------
(* A copy holds the elements of the operations it has seen in the order of *)
(* the reference, however the chunks were split, appended to, merged or    *)
(* decoded and in whatever order operations arrived: equal operations give *)
(* equal documents.                                                        *)
Materialized ==
  \A r \in group : Elements(rga[r]) = Ordered(SeenIns(r))

(* The visible elements are those no operation deleted: a deletion neither *)
(* misses a piece of a chunk that was split before it arrived nor takes a  *)
(* neighbour along.                                                        *)
DeletedExactly ==
  \A r \in group :
    View(rga[r]) = Without(Elements(rga[r]), Deleted(SeenDel(r)))

(* A split link leads from a chunk to the later one that was split from it *)
(* or typed right behind it, and exists wherever there is such a chunk.    *)
(* deleteSpan() and spanView() find the pieces of an interval by it, and   *)
(* insertAfterRef() takes a chunk without one to be the end of its run.    *)
LinksGenuine ==
  \A r \in group : \A k \in DOMAIN rga[r] :
    LET q == rga[r]
        ins == SeenIns(r)
        end == [sid |-> q[k].sid, time |-> EndTime(q[k])]
        continued == \E m \in (k + 1)..Len(q) :
                       /\ q[m].sid = q[k].sid
                       /\ q[m].time = EndTime(q[k]) + 1
                       /\ Parent(ins, Id(q[m])) = end
    IN  q[k].s = IF continued THEN EndTime(q[k]) + 1 ELSE 0

(* What a user typed is where the user put it, whatever concurrent text    *)
(* and tombstones surround the position, and a local deletion takes        *)
(* exactly the selected positions.                                         *)
LocalIntent ==
  [][\A r \in {x \in group : seen'[x] # seen[x] /\ ops' # ops} :
       LET v == View(rga[r])
           w == View(rga'[r])
       IN  /\ \A pos \in 0..Len(v), span \in Spans :
                LocalIns(r, pos, span) =>
                  w = SubSeq(v, 1, pos)
                        \o [i \in 1..span |-> [sid |-> r, time |-> time[r] + i - 1]]
                        \o SubSeq(v, pos + 1, Len(v))
           /\ \A pos \in 0..Len(v), len \in 1..Len(v) :
                LocalDel(r, pos, len) =>
                  w = SubSeq(v, 1, pos) \o SubSeq(v, pos + len + 1, Len(v))]_vars

(* No element is in two chunks: "Unique sortable ID of this chunk and its   *)
(* span", as the declaration of Chunk has it.                              *)
UniqueChunkIds == \A r \in Sid : IsInjective(Elements(rga[r]))
===========================================================================
