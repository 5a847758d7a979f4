----------------------------- MODULE JsonModel -----------------------------
(***************************************************************************)
(* The nodes of a JSON CRDT document and Model.applyOperation().           *)
(*                                                                         *)
(* Replicas put new values at the places of their document (the root, the  *)
(* keys of objects, the indices of vectors, values of "val" nodes, slots   *)
(* of arrays); each such edit is one patch: the operation that makes the   *)
(* value and the one that puts it in place.  Patches arrive in causal      *)
(* order, possibly again.  A replica may be encoded and decoded: what is   *)
(* not reachable goes.                                                     *)
(*                                                                         *)
(* Strings and binaries are the subject of RgaReplicas.                    *)
(***************************************************************************)
EXTENDS RgaOrder, FiniteSets

CONSTANTS Keys,         \* keys of objects
          MaxIndex,     \* bound: the last index of a vector that is set
          Docs,         \* the documents: the kinds of value that are put in place in one
          MaxPatches    \* bound: patches made in a behaviour

AllKinds == {"con", "obj", "vec", "val", "arr"}

ASSUME DocsAssumption == Docs \subseteq SUBSET AllKinds
ASSUME SidsAssumption == Sid # {}                   \* one of them made the document
ASSUME MaxIndexAssumption == MaxIndex \in 0..255     \* MAX_TUPLE_LENGTH
ASSUME MaxPatchesAssumption == MaxPatches \in Nat

VARIABLES kinds,        \* the document of this behaviour
          index,        \* index[r]: Model.index, the root included, by identifier
          time,         \* time[r]: the clock
          seen,         \* seen[r]: the patches r has applied
          patches       \* the patches made so far

vars == <<kinds, index, time, seen, patches>>

\* A node: a value is the identifier of a node, Root where there is none (ORIGIN).
NewNode(kind) ==
  [kind |-> kind, keys |-> [k \in Keys |-> Root], elements |-> <<>>, val |-> Root,
   rga |-> <<>>, slot |-> <<>>]

-----------------------------------------------------------------------------
(* The index.                                                              *)

Is(ix, id, kind) == id \in DOMAIN ix /\ ix[id].kind = kind

\* The slots of an array that are not deleted
Shown(q) == UNION {Elems(Id(c), c.span) : c \in {x \in ToSet(q) : ~x.del}}

\* node.children(), of which an object or "val" node passes on missing ones too
Values(node) ==
  CASE node.kind = "con" -> {}
    [] node.kind = "obj" -> {node.keys[k] : k \in Keys} \ {Root}
    [] node.kind = "vec" -> ToSet(node.elements) \ {Root}
    [] node.kind = "val" -> {node.val} \ {Root}
    [] node.kind = "arr" -> {node.slot[e] : e \in Shown(node.rga)}

\* What _gcTree() and the encoder go through, from a node down
Tree(ix, id) ==
  LET tree[x \in DOMAIN ix] ==
        {x} \cup UNION {tree[v] : v \in Values(ix[x]) \cap DOMAIN ix}
  IN  IF id \in DOMAIN ix THEN tree[id] ELSE {}

\* _gcTree(): with a node goes all that hangs below it.
GcTree(ix, ids) ==
  LET gone == UNION {Tree(ix, id) : id \in ids \ {Root}}
  IN  [id \in DOMAIN ix \ gone |-> ix[id]]

-----------------------------------------------------------------------------
(* Model.applyOperation(), a definition per kind of operation.  What does  *)
(* not find the node it is about, or the value, does nothing.              *)

AddNode(ix, id, kind) ==
  IF id \in DOMAIN ix THEN ix
  ELSE [x \in DOMAIN ix \cup {id} |-> IF x = id THEN NewNode(kind) ELSE ix[x]]

\* Mutants: the value that arrives last stays; the value in place is collected in any case.
InsObjLast(ix, obj, k, v) ==
  LET old == ix[obj].keys[k]
  IN  IF ~Is(ix, obj, "obj") \/ v \notin DOMAIN ix \/ obj.time >= v.time \/ old = v THEN ix
      ELSE GcTree([ix EXCEPT ![obj].keys[k] = v], {old})

InsObjCollect(ix, obj, k, v) ==
  LET old == ix[obj].keys[k]
  IN  IF ~Is(ix, obj, "obj") \/ v \notin DOMAIN ix \/ obj.time >= v.time THEN ix
      ELSE IF old # Root /\ ~Before(old, v) THEN GcTree(ix, {old})
      ELSE GcTree([ix EXCEPT ![obj].keys[k] = v], {old})

\* ObjNode.put(): the later value stays, the other one is collected if it was there first.
InsObj(ix, obj, k, v) ==
  LET old == ix[obj].keys[k]
  IN  IF \/ ~Is(ix, obj, "obj") \/ v \notin DOMAIN ix \/ obj.time >= v.time
         \/ old # Root /\ ~Before(old, v)
      THEN ix
      ELSE GcTree([ix EXCEPT ![obj].keys[k] = v], {old})

\* VecNode.put(): as of a key; up to a new index there are holes.  Index i is place i + 1.
InsVec(ix, vec, i, v) ==
  LET was == ix[vec].elements
      old == IF i < Len(was) THEN was[i + 1] ELSE Root
      holes == [j \in 1..(i + 1 - Len(was)) |-> Root]
  IN  IF \/ ~Is(ix, vec, "vec") \/ v \notin DOMAIN ix \/ vec.time >= v.time
         \/ old # Root /\ ~Before(old, v)
      THEN ix
      ELSE GcTree([ix EXCEPT ![vec].elements = [was \o holes EXCEPT ![i + 1] = v]], {old})

\* ValNode.set()
InsVal(ix, node, v) ==
  LET old == ix[node].val
  IN  IF \/ ~Is(ix, node, "val") \/ v \notin DOMAIN ix
         \/ old # Root /\ ~Before(old, v)
         \/ ~Before(node, v)
      THEN ix
      ELSE GcTree([ix EXCEPT ![node].val = v], {old})

\* ArrNode.ins(): nothing where the slot is there already.
InsArr(ix, arr, ref, id, v) ==
  LET q == Ins(ix[arr].rga, Root, ref, id, 1)
      filled == [x \in DOMAIN ix[arr].slot \cup {id} |-> IF x = id THEN v ELSE ix[arr].slot[x]]
  IN  IF ~Is(ix, arr, "arr") \/ v \notin DOMAIN ix \/ arr.time >= v.time THEN ix
      ELSE IF q = ix[arr].rga THEN ix
      ELSE [ix EXCEPT ![arr].rga = q, ![arr].slot = filled]

Slots(ix, arr) == Shown(ix[arr].rga)

\* ArrNode.upd(): a deleted slot has no value to replace.
UpdArr(ix, arr, ref, v) ==
  LET old == ix[arr].slot[ref]
  IN  IF ~Is(ix, arr, "arr") \/ v \notin DOMAIN ix THEN ix
      ELSE IF ref \notin Slots(ix, arr) \/ ~Before(old, v) THEN ix
      ELSE GcTree([ix EXCEPT ![arr].slot[ref] = v], {old})

DelArr(ix, arr, ref) ==
  LET live == {ref} \cap Slots(ix, arr)
      span == [sid |-> ref.sid, time |-> ref.time, span |-> 1]
  IN  IF ~Is(ix, arr, "arr") THEN ix
      ELSE GcTree([ix EXCEPT ![arr].rga = Delete(@, <<span>>)],
                  {ix[arr].slot[x] : x \in live})

ApplyOp(ix, op) ==
  CASE op.name = "new"     -> AddNode(ix, op.id, op.kind)
    [] op.name = "ins_obj" -> InsObj(ix, op.obj, op.key, op.val)
    [] op.name = "ins_vec" -> InsVec(ix, op.obj, op.index, op.val)
    [] op.name = "ins_val" -> InsVal(ix, op.obj, op.val)
    [] op.name = "ins_arr" -> InsArr(ix, op.obj, op.ref, op.id, op.val)
    [] op.name = "upd_arr" -> UpdArr(ix, op.obj, op.ref, op.val)
    [] op.name = "del"     -> DelArr(ix, op.obj, op.ref)

ApplyPatch(ix, p) ==
  LET after[i \in 0..Len(p.ops)] == IF i = 0 THEN ix ELSE ApplyOp(after[i - 1], p.ops[i])
  IN  after[Len(p.ops)]

-----------------------------------------------------------------------------
(* Edits: the operations that make a value, then the one that places it.   *)

At(id, n) == [id EXCEPT !.time = @ + n]

\* PatchBuilder: the value has the identifier id; a "val" is made with a constant in it.
Make(id, kind) ==
  IF kind = "val"
  THEN <<[name |-> "new", id |-> id, kind |-> "val"],
         [name |-> "new", id |-> At(id, 1), kind |-> "con"],
         [name |-> "ins_val", id |-> At(id, 2), obj |-> id, val |-> At(id, 1)]>>
  ELSE <<[name |-> "new", id |-> id, kind |-> kind]>>

\* The value at the root that all start with
First(doc) == IF doc \cap {"arr", "vec"} = {} THEN "val" ELSE CHOOSE kind \in doc : kind \in {"arr", "vec"}

\* The document one of them made, and all others have a copy of.
FirstPatch(doc) ==
  LET id == [sid |-> Min(Sid), time |-> 1]
      made == Make(id, First(doc))
      place == [name |-> "ins_val", id |-> At(id, Len(made)), obj |-> Root, val |-> id]
  IN  [id |-> id, ops |-> Append(made, place), deps |-> {}]

Init ==
  /\ kinds \in Docs
  /\ index = [r \in Sid |-> ApplyPatch([id \in {Root} |-> NewNode("val")], FirstPatch(kinds))]
  /\ time = [r \in Sid |-> 1 + Len(FirstPatch(kinds).ops)]
  /\ seen = [r \in Sid |-> {FirstPatch(kinds).id}]
  /\ patches = {FirstPatch(kinds)}

NextId(r) == [sid |-> r, time |-> time[r]]

Publish(r, ops) ==
  LET p == [id |-> NextId(r), ops |-> ops, deps |-> seen[r]]
  IN  /\ patches' = patches \cup {p}
      /\ index' = [index EXCEPT ![r] = ApplyPatch(@, p)]
      /\ time' = [time EXCEPT ![r] = @ + Len(ops)]
      /\ seen' = [seen EXCEPT ![r] = @ \cup {p.id}]
      /\ UNCHANGED kinds

\* The operation that puts the value made by ops in place; place has all but the rest.
PutInPlace(r, kind, place) ==
  LET made == Make(NextId(r), kind)
      fields == [id |-> At(NextId(r), Len(made)), val |-> NextId(r)]
      op == [x \in DOMAIN place \cup DOMAIN fields |-> IF x \in DOMAIN place THEN place[x] ELSE fields[x]]
  IN  Publish(r, Append(made, op))

Live(r) == Tree(index[r], Root)
LiveOf(r, kind) == {id \in Live(r) : index[r][id].kind = kind}

\* ModelApi.set(), ValApi.set()
SetVal(r, node, kind) ==
  /\ node \in LiveOf(r, "val")
  /\ PutInPlace(r, kind, [name |-> "ins_val", obj |-> node])

\* ObjApi.set({k: value}); ObjApi.del() is the same with a constant
SetKey(r, obj, k, kind) ==
  /\ obj \in LiveOf(r, "obj")
  /\ PutInPlace(r, kind, [name |-> "ins_obj", obj |-> obj, key |-> k])

\* VecApi.set([[i, value]]); VecApi.push() sets the index that is the length
SetIndex(r, vec, i, kind) ==
  /\ vec \in LiveOf(r, "vec")
  /\ PutInPlace(r, kind, [name |-> "ins_vec", obj |-> vec, index |-> i])

\* ArrApi.ins(pos, [value]), upd(pos, value), del(pos): a position stands for the slot
\* shown there, of an insertion for the one before, or the array itself at the start.
InsSlot(r, arr, ref, kind) ==
  /\ arr \in LiveOf(r, "arr")
  /\ ref \in Slots(index[r], arr) \cup {Root}
  /\ PutInPlace(r, kind, [name |-> "ins_arr", obj |-> arr, ref |-> ref])

UpdSlot(r, arr, ref, kind) ==
  /\ arr \in LiveOf(r, "arr")
  /\ ref \in Slots(index[r], arr)
  /\ PutInPlace(r, kind, [name |-> "upd_arr", obj |-> arr, ref |-> ref])

DelSlot(r, arr, ref) ==
  /\ arr \in LiveOf(r, "arr")
  /\ ref \in Slots(index[r], arr)
  /\ Publish(r, <<[name |-> "del", id |-> NextId(r), obj |-> arr, ref |-> ref]>>)

\* Mutant: the clock does not observe what is applied.
DeliverUnobserved(r, p) ==
  /\ p.deps \subseteq seen[r]
  /\ index' = [index EXCEPT ![r] = ApplyPatch(@, p)]
  /\ seen' = [seen EXCEPT ![r] = @ \cup {p.id}]
  /\ UNCHANGED <<kinds, time, patches>>

\* Model.applyPatch(), for the first time or again
Deliver(r, p) ==
  /\ p.deps \subseteq seen[r]
  /\ index' = [index EXCEPT ![r] = ApplyPatch(@, p)]
  /\ seen' = [seen EXCEPT ![r] = @ \cup {p.id}]
  /\ time' = [time EXCEPT ![r] = Larger(@, p.id.time + Len(p.ops))]
  /\ UNCHANGED <<kinds, patches>>

\* Model.fromBinary(model.toBinary()): the tree of the root is what is encoded, and the
\* chunks of an array are ingested.
Reload(r) ==
  /\ index' = [index EXCEPT ![r] = [id \in Live(r) |-> [index[r][id] EXCEPT !.rga = Ingest(@)]]]
  /\ UNCHANGED <<kinds, time, seen, patches>>

Edit(r) ==
  /\ Cardinality(patches) < MaxPatches
  /\ \/ \E node \in LiveOf(r, "val"), kind \in kinds : SetVal(r, node, kind)
     \/ \E obj \in LiveOf(r, "obj"), k \in Keys, kind \in kinds : SetKey(r, obj, k, kind)
     \/ \E vec \in LiveOf(r, "vec"), i \in 0..MaxIndex, kind \in kinds : SetIndex(r, vec, i, kind)
     \/ \E arr \in LiveOf(r, "arr") : \E ref \in Slots(index[r], arr) \cup {Root}, kind \in kinds : InsSlot(r, arr, ref, kind)
     \/ \E arr \in LiveOf(r, "arr") : \E ref \in Slots(index[r], arr), kind \in kinds : UpdSlot(r, arr, ref, kind)
     \/ \E arr \in LiveOf(r, "arr") : \E ref \in Slots(index[r], arr) : DelSlot(r, arr, ref)

Next ==
  \/ \E r \in Sid : Edit(r)
  \/ \E r \in Sid, p \in patches : Deliver(r, p)
  \/ \E r \in Sid : Reload(r)

Spec == Init /\ [][Next]_vars

-----------------------------------------------------------------------------
(* Properties.                                                             *)

\* A document: what each node that can be reached shows.
Content(ix, id) ==
  LET n == ix[id]
      v == View(n.rga)
  IN  [kind |-> n.kind, keys |-> n.keys, elements |-> n.elements, val |-> n.val,
       items |-> [i \in DOMAIN v |-> n.slot[v[i]]]]

Document(ix) == [id \in Tree(ix, Root) |-> Content(ix, id)]

\* The reference: the latest value put in a place is there, whatever was collected.
Latest(vals) == IF vals = {} THEN Root ELSE CHOOSE v \in vals : \A u \in vals : ~Before(v, u)

RefNode(ops, id) ==
  LET mine == {op \in ops : op.name # "new" /\ op.obj = id}
      named(name) == {op \in mine : op.name = name}
      ins == {[id |-> op.id, span |-> 1, ref |-> op.ref] : op \in named("ins_arr")}
      del == {[what |-> <<[sid |-> op.ref.sid, time |-> op.ref.time, span |-> 1]>>] : op \in named("del")}
      order == Visible(ins, del)
      at(i) == {op.val : op \in {o \in named("ins_vec") : o.index = i}}
      length == 1 + Max({-1} \cup {op.index : op \in named("ins_vec")})
      put(e) == {op.val : op \in {o \in named("ins_arr") : o.id = e} \cup {o \in named("upd_arr") : o.ref = e}}
  IN  [kind |-> IF id = Root THEN "val" ELSE (CHOOSE op \in ops : op.id = id).kind,
       keys |-> [k \in Keys |-> Latest({op.val : op \in {o \in named("ins_obj") : o.key = k}})],
       elements |-> [j \in 1..length |-> Latest(at(j - 1))],
       val |-> Latest({op.val : op \in named("ins_val")}),
       items |-> [i \in DOMAIN order |-> Latest(put(order[i]))]]

RefValues(n) == {n.keys[k] : k \in Keys} \cup ToSet(n.elements) \cup {n.val} \cup ToSet(n.items)

RefTree(ops) ==
  LET tree[id \in {Root} \cup {op.id : op \in ops}] ==
        {id} \cup UNION {tree[v] : v \in RefValues(RefNode(ops, id)) \ {Root}}
  IN  tree[Root]

SeenOps(r) == UNION {ToSet(p.ops) : p \in {x \in patches : x.id \in seen[r]}}

(* A replica shows the document of the patches it has applied, whatever    *)
(* their order, however often they came: in each place the value put last, *)
(* although values that lost are collected at some replicas and kept in    *)
(* the index at others, and edits inside of what is gone find nothing.     *)
Materialized ==
  \A r \in Sid :
    LET ops == SeenOps(r)
    IN  Document(index[r]) = [id \in RefTree(ops) |-> RefNode(ops, id)]

(* The values of the nodes in the index are in the index, of unreachable   *)
(* ones too: children() of an object or "val" node passes what it finds to *)
(* _gcTree(), which reads its id without a look.                           *)
NoneMissing ==
  \A r \in Sid : \A id \in DOMAIN index[r] : Values(index[r][id]) \subseteq DOMAIN index[r]

\* Place at of the node has the value: a key, an index or a slot.
Holds(ix, node, places, at, v) ==
  node \in DOMAIN ix /\ at \in DOMAIN ix[node][places] /\ ix[node][places][at] = v

(* What is set is there at once, whatever was put in the place before: a   *)
(* local edit never loses against one its author has seen.                 *)
LocalWins ==
  [][\A r \in {x \in Sid : seen'[x] # seen[x] /\ patches' # patches}, kind \in kinds :
       /\ \A obj \in LiveOf(r, "obj"), k \in Keys :
            SetKey(r, obj, k, kind) => Holds(index'[r], obj, "keys", k, NextId(r))
       /\ \A vec \in LiveOf(r, "vec"), i \in 0..MaxIndex :
            SetIndex(r, vec, i, kind) => Holds(index'[r], vec, "elements", i + 1, NextId(r))
       /\ \A node \in LiveOf(r, "val") :
            SetVal(r, node, kind) => node \in DOMAIN index'[r] /\ index'[r][node].val = NextId(r)
       /\ \A arr \in LiveOf(r, "arr") : \A ref \in Slots(index[r], arr) :
            UpdSlot(r, arr, ref, kind) => Holds(index'[r], arr, "slot", ref, NextId(r))]_vars
=============================================================================
