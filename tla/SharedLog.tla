------------------------------ MODULE SharedLog ------------------------------
(***************************************************************************)
(* What the repositories of several devices promise together: there is one *)
(* log of batches, to which devices add edits of theirs.  A device follows *)
(* the log up to a position that never moves back, and shows exactly the   *)
(* batches up to there and its own pending edits.  An edit stops being     *)
(* pending when the position has passed it in the log, not before.         *)
(***************************************************************************)
EXTENDS Naturals, Sequences

CONSTANTS Device, Edit

VARIABLES log,      \* the batches
          pos,      \* how many of them a device follows
          pending,  \* the edits of a device that it does not know to be in the log
          seen      \* the edits a device shows

vars == <<log, pos, pending, seen>>

Upto(n) == UNION {log[i] : i \in 1..n}

\* Nothing is there, or one edit that every device has.
Init ==
  /\ log = <<>> \/ \E e \in Edit : log = <<{e}>>
  /\ pos = [d \in Device |-> Len(log)]
  /\ pending = [d \in Device |-> {}]
  /\ seen = [d \in Device |-> Upto(Len(log))]

Make(d, e) ==
  /\ pending' = [pending EXCEPT ![d] = @ \cup {e}]
  /\ seen' = [seen EXCEPT ![d] = @ \cup {e}]
  /\ UNCHANGED <<log, pos>>

\* A batch may hold edits that are in the log already: it is sent again when in doubt.
Push(batch) ==
  /\ log' = Append(log, batch)
  /\ UNCHANGED <<pos, pending, seen>>

Follow(d, n, done) ==
  /\ pos[d] <= n
  /\ done \subseteq Upto(n)
  /\ pos' = [pos EXCEPT ![d] = n]
  /\ pending' = [pending EXCEPT ![d] = @ \ done]
  /\ seen' = [seen EXCEPT ![d] = Upto(n) \cup (pending[d] \ done)]
  /\ UNCHANGED log

Next ==
  \E d \in Device :
    \/ \E e \in Edit : Make(d, e)
    \/ \E batch \in SUBSET (pending[d] \cup Upto(Len(log))) : Push(batch)
    \/ \E n \in 0..Len(log), done \in SUBSET pending[d] : Follow(d, n, done)

Spec == Init /\ [][Next]_vars
===========================================================================
