----------------------------- MODULE DeltaSync -----------------------------
(***************************************************************************)
(* Synchronization of documents by state deltas: Model.delta(), merge()    *)
(* and applyDelta(), and the three messages of json-crdt/delta/sync.ts.    *)
(*                                                                         *)
(* The document has a string, an array and an object, there from the       *)
(* start; a peer edits its copy of them with StrApi, ArrApi and ObjApi.    *)
(* What a peer incorporates is only ever exchanged as the difference       *)
(* between its state and the version vector of the receiver.  The history  *)
(* variable made has every edit, so that what a state holds can be         *)
(* compared with what the clock of its peer covers.                        *)
(*                                                                         *)
(* The values of array slots and object keys are constants; a value is     *)
(* represented by the identifier of its "new_con" operation.  That a value *)
(* is in the index of the receiver is left out: each delta carries the     *)
(* "new_con" of every value in it that the receiver does not have.         *)
(***************************************************************************)
EXTENDS RgaOrder, FiniteSets

CONSTANTS Keys,         \* keys of the object
          Docs,         \* the documents: the kinds of edit peers make to one
          Exclusive,    \* those with which a peer takes part in one exchange at a time
          MaxOps,       \* bound: edits in a behaviour
          MaxSyncs      \* bound: merges and exchanges begun in a behaviour

EditKinds == {"ins_str", "del_str", "ins_arr", "upd_arr", "del_arr", "ins_obj"}

ASSUME DocsAssumption == Docs \subseteq SUBSET EditKinds
ASSUME ExclusiveAssumption == Exclusive \subseteq Docs
ASSUME BoundsAssumption == MaxOps \in Nat /\ MaxSyncs \in Nat

VARIABLES kinds,        \* the document of this behaviour
          str,          \* str[p]: chunks of the string
          arr,          \* arr[p]: chunks of the array
          slot,         \* slot[p]: the value in each slot of the array ever filled
          obj,          \* obj[p]: the value of each key, Root (ORIGIN) if none
          clock,        \* clock[p]: Model.clock
          made,         \* the edits made so far (history)
          net,          \* messages under way
          edits, syncs  \* counters of the bounds

vars == <<kinds, str, arr, slot, obj, clock, made, net, edits, syncs>>

doc == <<str, arr, slot, obj>>

Now(p) == TickStamp(clock[p])
At(id, n) == [sid |-> id.sid, time |-> id.time + n]

Init ==
  /\ kinds \in Docs
  /\ str = [p \in Sid |-> <<>>]
  /\ arr = [p \in Sid |-> <<>>]
  /\ slot = [p \in Sid |-> <<>>]
  /\ obj = [p \in Sid |-> [k \in Keys |-> Root]]
  /\ clock = [p \in Sid |-> NewClock(p, 1)]
  /\ made = {}
  /\ net = {}
  /\ edits = 0
  /\ syncs = 0

-----------------------------------------------------------------------------
(* Local edits.                                                            *)

Edit(p, op, ticks) ==
  /\ edits' = edits + 1
  /\ clock' = [clock EXCEPT ![p] = Tick(@, ticks)]
  /\ made' = made \cup {op}
  /\ UNCHANGED <<kinds, net, syncs>>

\* Whether users make edits of this kind, within the bound
May(kind) == kind \in kinds /\ edits < MaxOps

\* The slots first..first+n-1 get the values vals; a slot keeps a later value (upd()).
Store(s, first, vals) ==
  LET new == [e \in {At(first, i - 1) : i \in DOMAIN vals} |-> vals[e.time - first.time + 1]]
  IN  [e \in DOMAIN s \cup DOMAIN new |->
        IF e \notin DOMAIN new THEN s[e]
        ELSE IF e \in DOMAIN s /\ ~Before(s[e], new[e]) THEN s[e] ELSE new[e]]

\* StrApi.ins(pos, text) with a text of two characters, StrApi.del(pos, 1)
StrIns(p, pos) ==
  /\ May("ins_str")
  /\ pos <= Len(View(str[p]))
  /\ Edit(p, [kind |-> "ins_str", id |-> Now(p), span |-> 2,
              ref |-> InsAtAfter(str[p], Root, pos)], 2)
  /\ str' = [str EXCEPT ![p] = InsAt(@, Root, pos, Now(p), 2)]
  /\ UNCHANGED <<arr, slot, obj>>

StrDel(p, pos) ==
  LET what == FindInterval(str[p], pos, 1)
  IN  /\ May("del_str")
      /\ pos < Len(View(str[p]))
      /\ Edit(p, [kind |-> "del_str", id |-> Now(p), what |-> what], 1)
      /\ str' = [str EXCEPT ![p] = Delete(@, what)]
      /\ UNCHANGED <<arr, slot, obj>>

\* ArrApi.ins(pos, [v1, v2]), upd(pos, v), del(pos, 1)
ArrIns(p, pos) ==
  LET vals == <<Now(p), At(Now(p), 1)>>
      id   == At(Now(p), 2)
      ref  == InsAtAfter(arr[p], Root, pos)
  IN  /\ May("ins_arr")
      /\ pos <= Len(View(arr[p]))
      /\ Edit(p, [kind |-> "ins_arr", id |-> id, span |-> 2, ref |-> ref, vals |-> vals], 4)
      /\ arr' = [arr EXCEPT ![p] = Ins(@, Root, ref, id, 2)]
      /\ slot' = [slot EXCEPT ![p] = Store(@, id, vals)]
      /\ UNCHANGED <<str, obj>>

ArrUpd(p, pos) ==
  LET ref == View(arr[p])[pos + 1]
  IN  /\ May("upd_arr")
      /\ pos < Len(View(arr[p]))
      /\ Edit(p, [kind |-> "upd_arr", id |-> At(Now(p), 1), ref |-> ref, vals |-> <<Now(p)>>], 2)
      /\ slot' = [slot EXCEPT ![p] = Store(@, ref, <<Now(p)>>)]
      /\ UNCHANGED <<str, arr, obj>>

ArrDel(p, pos) ==
  LET what == FindInterval(arr[p], pos, 1)
  IN  /\ May("del_arr")
      /\ pos < Len(View(arr[p]))
      /\ Edit(p, [kind |-> "del_arr", id |-> Now(p), what |-> what], 1)
      /\ arr' = [arr EXCEPT ![p] = Delete(@, what)]
      /\ UNCHANGED <<str, slot, obj>>

\* Mutant: the value that arrives last stays.
PutsLast(o, new) == [k \in DOMAIN o |-> IF k \in DOMAIN new THEN new[k] ELSE o[k]]

\* ObjNode.put() for each key of new: the later value stays.
Puts(o, new) ==
  [k \in DOMAIN o |-> IF k \in DOMAIN new /\ Before(o[k], new[k]) THEN new[k] ELSE o[k]]

\* ObjApi.set({k: v})
ObjSet(p, k) ==
  /\ May("ins_obj")
  /\ Edit(p, [kind |-> "ins_obj", id |-> At(Now(p), 1), key |-> k, val |-> Now(p)], 2)
  /\ obj' = [obj EXCEPT ![p] = Puts(@, [x \in {k} |-> Now(p)])]
  /\ UNCHANGED <<str, arr, slot>>

-----------------------------------------------------------------------------
(* What a document has that the version vector cc does not cover.          *)

\* Mutant: of a chunk partly known, only the missing part is deleted.
MissingPartDel(q, k, cc) ==
  LET c == q[k]
      gap == Gap(cc, [sid |-> c.sid, time |-> EndTime(c)])
      offset == Larger(0, c.span - gap)
      left == IF k = 1 THEN Root ELSE [sid |-> q[k - 1].sid, time |-> EndTime(q[k - 1])]
      ins == [kind |-> "ins", id |-> At(c, offset), span |-> c.span - offset,
              ref |-> IF offset = 0 THEN left ELSE At(c, offset - 1)]
      del == [kind |-> "del", what |-> <<[sid |-> c.sid, time |-> c.time + offset, span |-> c.span - offset]>>]
  IN  (IF gap > 0 THEN <<ins>> ELSE <<>>) \o (IF c.del /\ gap > 0 THEN <<del>> ELSE <<>>)

\* The part of the chunk at k that is missing: how it is inserted, and deleted.
\* A chunk partly known is sent from the first unknown element on.
MissingPart(q, k, cc) ==
  LET c == q[k]
      gap == Gap(cc, [sid |-> c.sid, time |-> EndTime(c)])
      offset == Larger(0, c.span - gap)
      left == IF k = 1 THEN Root ELSE [sid |-> q[k - 1].sid, time |-> EndTime(q[k - 1])]
      ins == [kind |-> "ins", id |-> At(c, offset), span |-> c.span - offset,
              ref |-> IF offset = 0 THEN left ELSE At(c, offset - 1)]
      del == [kind |-> "del", what |-> <<[sid |-> c.sid, time |-> c.time, span |-> c.span]>>]
  IN  (IF gap > 0 THEN <<ins>> ELSE <<>>) \o (IF c.del THEN <<del>> ELSE <<>>)

\* StrNode.delta()
StrDelta(p, cc) == FlattenSeq([k \in DOMAIN str[p] |-> MissingPart(str[p], k, cc)])

\* ArrNode.delta(): the same, with the values of the inserted slots.  The
\* placeholders of a deleted chunk are cut off at the offset a second time: what
\* remains of a tombstone of which the receiver knows a part is shorter than the part
\* it lacks.
ArrDelta(p, cc) ==
  LET q == arr[p]
      kept(k, op) == IF q[k].del /\ op.kind = "ins"
                     THEN [op EXCEPT !.span = Larger(0, @ - (q[k].span - @))] ELSE op
      valued(op) == IF op.kind = "ins"
                    THEN [x \in DOMAIN op \cup {"vals"} |->
                           IF x = "vals" THEN [i \in 1..op.span |-> slot[p][At(op.id, i - 1)]] ELSE op[x]]
                    ELSE op
      part(k) == LET m == MissingPart(q, k, cc) IN [i \in DOMAIN m |-> valued(kept(k, m[i]))]
  IN  FlattenSeq([k \in DOMAIN q |-> part(k)])

\* Mutant: only what the peer set itself.
ObjDeltaOwn(p, cc) ==
  [k \in {x \in Keys : obj[p][x] # Root /\ obj[p][x].sid = p /\ ~Has(cc, obj[p][x])} |-> obj[p][k]]

\* ObjNode.delta(): keys whose value is not covered.
ObjDelta(p, cc) ==
  [k \in {x \in Keys : obj[p][x] # Root /\ ~Has(cc, obj[p][x])} |-> obj[p][k]]

\* Model.delta(vv), with the clock it leads up to.
DeltaOf(p, cc) ==
  [str |-> StrDelta(p, cc), arr |-> ArrDelta(p, cc), obj |-> ObjDelta(p, cc),
   vv1 |-> clock[p]]

\* applyOperation() of one operation of a delta on a sequence of chunks.
ApplyOp(q, op) ==
  IF op.kind = "del" THEN Delete(q, op.what)
  ELSE IF op.span = 0 THEN q ELSE Ins(q, Root, op.ref, op.id, op.span)

StoreOp(s, op) == IF op.kind = "ins" THEN Store(s, op.id, op.vals) ELSE s

\* Model.applyDelta(d): the operations in order, then advanceCC(vv1).
ApplyDelta(p, d) ==
  /\ str' = [str EXCEPT ![p] = FoldLeft(ApplyOp, @, d.str)]
  /\ arr' = [arr EXCEPT ![p] = FoldLeft(ApplyOp, @, d.arr)]
  /\ slot' = [slot EXCEPT ![p] = FoldLeft(StoreOp, @, d.arr)]
  /\ obj' = [obj EXCEPT ![p] = Puts(@, d.obj)]
  /\ clock' = [clock EXCEPT ![p] = AdvanceCC(@, d.vv1)]

-----------------------------------------------------------------------------
(* Exchanges.                                                              *)

\* Whether p may begin an exchange with q.  Nothing in the code keeps a peer from
\* taking part in several; its callers may (Exclusive).
Free(p, q) == kinds \in Exclusive => \A m \in net : {m.from, m.to} \cap {p, q} = {}

\* p.merge(q): the delta is computed and applied in one step.
Merge(p, q) ==
  /\ p # q
  /\ Free(p, q)
  /\ syncs < MaxSyncs
  /\ syncs' = syncs + 1
  /\ ApplyDelta(p, DeltaOf(q, clock[p]))
  /\ UNCHANGED <<kinds, made, net, edits>>

\* Three messages.  Both peers go on editing between them.
Initiate(p, q) ==
  /\ p # q
  /\ Free(p, q)
  /\ syncs < MaxSyncs
  /\ syncs' = syncs + 1
  /\ net' = net \cup {[type |-> 1, from |-> p, to |-> q, vv |-> clock[p]]}
  /\ UNCHANGED <<kinds, doc, clock, made, edits>>

Reply(m) ==
  /\ m.type = 1
  /\ net' = (net \ {m}) \cup
              {[type |-> 2, from |-> m.to, to |-> m.from, delta |-> DeltaOf(m.to, m.vv)]}
  /\ UNCHANGED <<kinds, doc, clock, made, edits, syncs>>

\* peer1Finalize(): the answer is computed before the incoming delta is applied.
Finalize1(m) ==
  /\ m.type = 2
  /\ ApplyDelta(m.to, m.delta)
  /\ net' = (net \ {m}) \cup
              {[type |-> 3, from |-> m.to, to |-> m.from, delta |-> DeltaOf(m.to, m.delta.vv1)]}
  /\ UNCHANGED <<kinds, made, edits, syncs>>

Finalize2(m) ==
  /\ m.type = 3
  /\ ApplyDelta(m.to, m.delta)
  /\ net' = net \ {m}
  /\ UNCHANGED <<kinds, made, edits, syncs>>

Positions(q) == 0..Len(View(q))

Next ==
  \/ \E p \in Sid : \E pos \in Positions(str[p]) : StrIns(p, pos)
  \/ \E p \in Sid : \E pos \in Positions(str[p]) : StrDel(p, pos)
  \/ \E p \in Sid : \E pos \in Positions(arr[p]) : ArrIns(p, pos)
  \/ \E p \in Sid : \E pos \in Positions(arr[p]) : ArrUpd(p, pos)
  \/ \E p \in Sid : \E pos \in Positions(arr[p]) : ArrDel(p, pos)
  \/ \E p \in Sid, k \in Keys : ObjSet(p, k)
  \/ \E p, q \in Sid : Merge(p, q)
  \/ \E p, q \in Sid : Initiate(p, q)
  \/ \E m \in net : Reply(m)
  \/ \E m \in net : Finalize1(m)
  \/ \E m \in net : Finalize2(m)

Spec == Init /\ [][Next]_vars

-----------------------------------------------------------------------------
\* What p has, by its clock, and no delta will ever bring it again
KnownOf(p, kind) == {op \in made : op.kind = kind /\ Has(clock[p], op.id)}

\* The elements of a sequence of chunks are those inserted, each once; those not deleted show.
Faithful(q, ins, del) ==
  /\ IsInjective(Elements(q))
  /\ ToSet(Elements(q)) = Inserted(ins)
  /\ ToSet(View(q)) = Inserted(ins) \ Deleted(del)

(* A version vector "is what the other peer has already incorporated into  *)
(* their state" (Delta.ts): the string and the array of a peer have the    *)
(* elements of the edits its clock covers, each once, and show those no    *)
(* such edit deleted.                                                      *)
Covered ==
  \A p \in Sid :
    /\ Faithful(str[p], KnownOf(p, "ins_str"), KnownOf(p, "del_str"))
    /\ Faithful(arr[p], KnownOf(p, "ins_arr"), KnownOf(p, "del_arr"))

(* State deltas lose no element, make none up and forget no deletion, as   *)
(* long as a peer takes part in one exchange at a time: after any number   *)
(* of exchanges, with edits of both peers between the messages, the string *)
(* and the array of a peer have the elements of the edits its clock        *)
(* covers, each once, and show those no such edit deleted, although a      *)
(* delta cuts chunks in pieces and fills in tombstones the receiver never  *)
(* had.  Where exchanges cross this fails, because applyDelta() advances   *)
(* the clock past what insertAfterRef() skipped: see the README.  That     *)
(* elements are in the right order, or slots hold the right values, it     *)
(* does not say: see SameState and SlotsFaithful.                          *)
Complete == kinds \in Exclusive => Covered

(* The latest value of a key reaches every peer whose clock covers it, and *)
(* none that was overwritten comes back with an old delta, however many    *)
(* exchanges cross and whatever third peer intervenes: ObjNode.put() keeps *)
(* the later value, and ObjNode.delta() names all the clock does not have. *)
ObjFaithful ==
  \A p \in Sid, k \in Keys :
    LET vals == {op.val : op \in {x \in KnownOf(p, "ins_obj") : x.key = k}}
    IN  IF vals = {} THEN obj[p][k] = Root
        ELSE obj[p][k] \in vals /\ \A v \in vals : ~Before(obj[p][k], v)

(* By the same sentence, a slot of an array holds the latest of the values *)
(* that edits covered by the clock gave it.  It does not, because          *)
(* ArrNode.delta() has no updates: see the README.                         *)
SlotsFaithful ==
  \A p \in Sid : \A e \in Inserted(KnownOf(p, "ins_arr")) :
    LET first(op) == {i \in 1..2 : op.kind = "ins_arr" /\ At(op.id, i - 1) = e}
        vals == UNION {{op.vals[i] : i \in first(op)} : op \in KnownOf(p, "ins_arr")}
                  \cup {op.vals[1] : op \in {x \in KnownOf(p, "upd_arr") : x.ref = e}}
    IN  e \in DOMAIN slot[p] /\ \A v \in vals : ~Before(slot[p][e], v)

(* "After this process, both peers should have the same state, and their   *)
(* clocks should cover each other": peers whose clocks cover each other    *)
(* show the same text, and the same values in the array.                   *)
SameState ==
  LET show(p) == [i \in DOMAIN View(arr[p]) |-> slot[p][View(arr[p])[i]]]
  IN  \A p, q \in Sid :
        VersionVector(clock[p]) = VersionVector(clock[q]) =>
          View(str[p]) = View(str[q]) /\ show(p) = show(q)
===========================================================================
