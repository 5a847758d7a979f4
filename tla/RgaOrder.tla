------------------------------ MODULE RgaOrder ------------------------------
(***************************************************************************)
(* The reference for Rga: what insertions and deletions mean, chunks or    *)
(* not.  Each element hangs below the element it was inserted after, the   *)
(* elements of one insertion below one another; the document is that tree  *)
(* in preorder, the children of an element latest first.                   *)
(*                                                                         *)
(* An insertion is a record with at least id, span and ref, a deletion one *)
(* with at least what, a sequence of spans.                                *)
(***************************************************************************)
EXTENDS Rga

Root == [sid |-> 0, time |-> 0]         \* the identifier of the node itself

Elems(id, span) == {[sid |-> id.sid, time |-> id.time + i] : i \in 0..(span - 1)}

Inserted(ins) == UNION {Elems(op.id, op.span) : op \in ins}

Parent(ins, e) ==
  LET op == CHOOSE o \in ins : e \in Elems(o.id, o.span)
  IN  IF e = op.id THEN op.ref ELSE [e EXCEPT !.time = @ - 1]

\* Identifiers, the latest first
LatestFirst(S) ==
  [i \in 1..Cardinality(S) |-> CHOOSE c \in S : Cardinality({d \in S : ~Before(d, c)}) = i]

\* What hangs below Root, where parent[c] is the element that c hangs below.
Below(parent) ==
  LET children(e) == LatestFirst({c \in DOMAIN parent : parent[c] = e})
      below[e \in DOMAIN parent \cup {Root}] ==
        LET cs == children(e)
        IN  FlattenSeq([i \in DOMAIN cs |-> <<cs[i]>> \o below[cs[i]]])
  IN  below[Root]

Deleted(del) == UNION {UNION {Elems(sp, sp.span) : sp \in ToSet(op.what)} : op \in del}

Ordered(ins) == Below([e \in Inserted(ins) |-> Parent(ins, e)])

\* The elements of s that are not in gone.
Without(s, gone) == FlattenSeq([i \in DOMAIN s |-> IF s[i] \in gone THEN <<>> ELSE <<s[i]>>])

Visible(ins, del) == Without(Ordered(ins), Deleted(del))
=============================================================================
