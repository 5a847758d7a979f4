------------------------------ MODULE StringOt ------------------------------
(* The operational transform of plain text, json-ot/types/ot-string: an      *)
(* operation is a list of components that keep, insert or remove characters  *)
(* from left to right. Two sites edit copies of one text, each composes its  *)
(* edits into one operation, and when they meet each transforms the other's  *)
(* operation over its own and applies it, as the library's test programs do. *)
(*                                                                           *)
(* A character is a number of its own, so that a character that is lost,     *)
(* doubled or out of place can be told from another. The position within a   *)
(* component (i1, off1 in the code) is the sequence of what is left of the   *)
(* operation, its first component cut.                                       *)
EXTENDS Integers, SequencesExt

CONSTANTS
  Length,     \* of the text both sites start with
  MaxEdits,   \* edits of the sites together
  MaxMeets    \* meetings

ASSUME BoundsAssumption == /\ Length \in Nat
                           /\ MaxEdits \in Nat
                           /\ MaxMeets \in Nat

VARIABLES
  base,       \* the text at the last meeting
  doc,        \* the text of each site
  pending,    \* each site's edits since then, composed
  used,       \* characters given out
  edits,
  meets

vars == <<base, doc, pending, used, edits, meets>>

Site == {1, 2}

--------------------------------------------------------------------------------
(* Components: StringOpComponent, and the helpers of util.ts. A removal is   *)
(* reversible ("delete") when it carries the text it removes.                *)

Keep(n)    == [op |-> "keep", len |-> n, text |-> <<>>]
Insert(t)  == [op |-> "insert", len |-> Len(t), text |-> t]
Erase(n)   == [op |-> "erase", len |-> n, text |-> <<>>]
Delete(t)  == [op |-> "delete", len |-> Len(t), text |-> t]

Removes(c) == c.op \in {"erase", "delete"}

Least(a, b) == IF a < b THEN a ELSE b

\* The part of a component that starts after its first off positions.
Chunk(c, off, n) ==
  LET end == Least(off + n, c.len)
  IN  [c EXCEPT !.len = end - off,
                !.text = IF @ = <<>> THEN @ ELSE SubSeq(@, off + 1, end)]

\* Mutant: two lengths to remove are left side by side
AppendSplit(op, c) ==
  IF c.len = 0 THEN op
  ELSE IF op # <<>> /\ Last(op).op = c.op /\ c.op # "erase"
       THEN Append(Front(op), [c EXCEPT !.len = @ + Last(op).len,
                                        !.text = Last(op).text \o @])
       ELSE Append(op, c)

Append1(op, c) ==
  IF c.len = 0 THEN op
  ELSE IF op # <<>> /\ Last(op).op = c.op
       THEN Append(Front(op), [c EXCEPT !.len = @ + Last(op).len,
                                        !.text = Last(op).text \o @])
       ELSE Append(op, c)

Trim(op) == IF op # <<>> /\ Last(op).op = "keep" THEN Front(op) ELSE op

Normalize(op) == Trim(FoldLeft(Append1, <<>>, op))

Valid(op) ==
  /\ \A i \in DOMAIN op : op[i].len > 0
  /\ \A i \in 2..Len(op) : op[i - 1].op # op[i].op
  /\ op # <<>> => Last(op).op # "keep"

Apply(str, op) ==
  LET Step(s, c) ==
        [text |-> s.text \o (CASE c.op = "keep"   -> SubSeq(s.rest, 1, c.len)
                               [] c.op = "insert" -> c.text
                               [] OTHER           -> <<>>),
         rest |-> IF c.op = "insert" THEN s.rest
                  ELSE SubSeq(s.rest, c.len + 1, Len(s.rest))]
      end == FoldLeft(Step, [text |-> <<>>, rest |-> str], op)
  IN  end.text \o end.rest

\* The text of every reversible removal is the text found at its place.
Reversible(str, op) ==
  LET Step(s, c) ==
        [off |-> IF c.op = "insert" THEN s.off ELSE s.off + c.len,
         ok  |-> /\ s.ok
                 /\ c.op = "delete" => c.text = SubSeq(str, s.off + 1, s.off + c.len)]
  IN  FoldLeft(Step, [off |-> 0, ok |-> TRUE], op).ok

--------------------------------------------------------------------------------
(* The loop compose and transform share: walk over n positions of the text   *)
(* behind one component of the other operation, and cut from the first       *)
(* operation the chunks met there. Components in free take up no position.   *)

RECURSIVE Walk(_, _, _)
Walk(rest, n, free) ==
  IF n = 0 THEN [met |-> <<>>, rest |-> rest]
  ELSE LET c    == IF rest = <<>> THEN Keep(n) ELSE Chunk(Head(rest), 0, n)
           left == IF rest = <<>> THEN rest
                   ELSE IF c.len = Head(rest).len THEN Tail(rest)
                        ELSE <<Chunk(Head(rest), c.len, Head(rest).len)>> \o Tail(rest)
           more == Walk(left, IF c.op \in free THEN n ELSE n - c.len, free)
       IN  [met |-> <<c>> \o more.met, rest |-> more.rest]

\* What is left of the first operation goes behind, and a last keep goes.
Finish(s) == Trim(FoldLeft(Append1, s.out, s.rest))

\* Mutant: a removal that is cut in pieces names its first characters in each
RemovedFromStart(met, c) ==
  LET Step(out, d) ==
        CASE Removes(d)    -> Append(out, d)
          [] d.op = "keep" -> Append(out, Chunk(c, 0, d.len))
          [] OTHER         -> out
  IN  FoldLeft(Step, <<>>, met)

\* The chunks a removal of the second operation met: what was removed already
\* stays, what was inserted goes, and what was kept is removed.
Removed(met, c) ==
  LET Step(s, d) ==
        [off |-> IF Removes(d) THEN s.off ELSE s.off + d.len,
         out |-> CASE Removes(d)    -> Append(s.out, d)
                   [] d.op = "keep" -> Append(s.out, Chunk(c, s.off, d.len))
                   [] OTHER         -> s.out]
  IN  FoldLeft(Step, [off |-> 0, out |-> <<>>], met).out

Compose(op1, op2) ==
  LET Step(s, c) ==
        LET w == Walk(s.rest, c.len, {"erase", "delete"})
        IN  CASE c.op = "keep"   -> [rest |-> w.rest, out |-> FoldLeft(Append1, s.out, w.met)]
              [] c.op = "insert" -> [s EXCEPT !.out = Append1(@, c)]
              [] OTHER           -> [rest |-> w.rest,
                                     out |-> FoldLeft(Append1, s.out, Removed(w.met, c))]
  IN  Finish(FoldLeft(Step, [rest |-> op1, out |-> <<>>], op2))

\* Mutant: leftInsertFirst is ignored
TransformRight(op1, op2, leftInsertFirst) ==
  LET Inserts(c) == c.op = "insert"
      Step(s, c) ==
        LET w == Walk(s.rest, c.len, {"insert"})
        IN  CASE c.op = "keep"   -> [rest |-> w.rest, out |-> FoldLeft(Append1, s.out, w.met)]
              [] c.op = "insert" -> [s EXCEPT !.out = Append1(@, Keep(c.len))]
              [] OTHER           ->
                   [rest |-> w.rest, out |-> FoldLeft(Append1, s.out, SelectSeq(w.met, Inserts))]
  IN  Finish(FoldLeft(Step, [rest |-> op1, out |-> <<>>], op2))

\* Where both insert at one place, the insert of op1 comes first if
\* leftInsertFirst, else that of op2.
Transform(op1, op2, leftInsertFirst) ==
  LET Inserts(c) == c.op = "insert"
      Step(s, c) ==
        LET w     == Walk(s.rest, c.len, {"insert"})
            first == leftInsertFirst /\ s.rest # <<>> /\ Inserts(Head(s.rest))
        IN  CASE c.op = "keep"   -> [rest |-> w.rest, out |-> FoldLeft(Append1, s.out, w.met)]
              [] c.op = "insert" ->
                   [rest |-> IF first THEN Tail(s.rest) ELSE s.rest,
                    out  |-> Append1(IF first THEN Append1(s.out, Head(s.rest)) ELSE s.out,
                                     Keep(c.len))]
              [] OTHER           ->
                   [rest |-> w.rest, out |-> FoldLeft(Append1, s.out, SelectSeq(w.met, Inserts))]
  IN  Finish(FoldLeft(Step, [rest |-> op1, out |-> <<>>], op2))

--------------------------------------------------------------------------------

Init ==
  /\ base = [i \in 1..Length |-> i]
  /\ doc = [s \in Site |-> base]
  /\ pending = [s \in Site |-> <<>>]
  /\ used = Length
  /\ edits = 0
  /\ meets = 0

\* Operations that insert or remove at one place; composed, they change many.
EditOps(text) ==
  UNION {{Normalize(<<Keep(p), c>>) :
            c \in {Insert(<<used + 1>>), Insert(<<used + 1, used + 2>>)}
                   \cup {Erase(n) : n \in 1..(Len(text) - p)}
                   \cup {Delete(SubSeq(text, p + 1, q)) : q \in (p + 1)..Len(text)}}
         : p \in 0..Len(text)}

\* A site edits its text and adds the edit to what it will send.
Edit(s) ==
  /\ edits < MaxEdits
  /\ \E op \in EditOps(doc[s]) :
       /\ doc' = [doc EXCEPT ![s] = Apply(@, op)]
       /\ pending' = [pending EXCEPT ![s] = Compose(@, op)]
  /\ used' = used + 2
  /\ edits' = edits + 1
  /\ UNCHANGED <<base, meets>>

\* The other site's operation transformed over that of site s; site 1 is on
\* the left.
Incoming(s) == Transform(pending[3 - s], pending[s], s = 2)

\* The sites exchange what they have done.
Meet ==
  /\ meets < MaxMeets
  /\ \E s \in Site : pending[s] # <<>>
  /\ doc' = [s \in Site |-> Apply(doc[s], Incoming(s))]
  /\ base' = doc'[1]
  /\ pending' = [s \in Site |-> <<>>]
  /\ meets' = meets + 1
  /\ UNCHANGED <<used, edits>>

Next == (\E s \in Site : Edit(s)) \/ Meet

Spec == Init /\ [][Next]_vars

--------------------------------------------------------------------------------

\* Whatever is composed or transformed is an operation validate() accepts (or
\* none): no empty component, no two of one kind in a row, no keep at the end;
\* and nothing reaches beyond the text it is for.
Normal ==
  \A s \in Site :
    \A op \in {<<base, pending[s]>>, <<doc[s], Incoming(s)>>} :
      /\ Valid(op[2])
      /\ FoldLeft(LAMBDA n, c : IF c.op = "insert" THEN n ELSE n + c.len, 0, op[2])
           <= Len(op[1])

\* A composed operation does what the edits did one after the other: applied
\* to the text of the last meeting it gives the text of the site. It stays
\* reversible: the text a removal carries is the text it removes, also after
\* other removals and inserts were composed around it and after a transform.
Exact ==
  /\ \A s \in Site : Apply(base, pending[s]) = doc[s]
  /\ \A s \in Site : /\ Reversible(base, pending[s])
                     /\ Reversible(doc[s], Incoming(s))

\* Both orders give one text, and that text is the merge of what the sites
\* did: it has the characters both kept and those either added, each once, in
\* the order in which either site had them.
Merged ==
  LET Result(s) == Apply(doc[s], Incoming(s))
      kept      == ToSet(base) \cap ToSet(doc[1]) \cap ToSet(doc[2])
      added     == (ToSet(doc[1]) \cup ToSet(doc[2])) \ ToSet(base)
      merge     == Result(1)
  IN  /\ Result(2) = merge
      /\ ToSet(merge) = kept \cup added
      /\ IsInjective(merge)
      /\ \A s \in Site :
           SelectSeq(merge, LAMBDA x : x \in ToSet(doc[s]))
             = SelectSeq(doc[s], LAMBDA x : x \in ToSet(merge))

================================================================================
