------------------------- MODULE EditSessionsProofs -------------------------
(***************************************************************************)
(* Proofs about EditSessions, for any tabs, edits and time-outs: the       *)
(* types, FrontierDisjoint and NothingLost.                                *)
(***************************************************************************)
EXTENDS EditSessions, FiniteSetTheorems, WellFoundedInduction, TLAPS

-----------------------------------------------------------------------------
(* Numbers in order.                                                       *)

\* A set of natural numbers has a smallest one: of the finite sets 0..n, n a member,
\* one has none of the others in it.
LEMMA Least ==
  ASSUME NEW S \in SUBSET Nat, S # {}
  PROVE  \E m \in S : \A n \in S : m <= n
<1> DEFINE T == {0..n : n \in S}
<1>1. T \subseteq FiniteSubsetsOf(Nat) /\ T # {}
  <2>1. ASSUME NEW n \in S PROVE (0..n) \in SUBSET Nat /\ IsFiniteSet(0..n)
    BY FS_Interval
  <2> QED
    BY <2>1 DEF FiniteSubsetsOf
<1>2. PICK x \in T : \A y \in T : ~(<<y, x>> \in StrictSubsetOrdering(Nat))
  <2> HIDE DEF T
  <2> QED
    BY <1>1, FS_StrictSubsetOrderingWellFounded, WFMin
<1>3. PICK m \in S : x = 0..m
  OBVIOUS
<1>4. ASSUME NEW n \in S, n < m PROVE FALSE
  <2>1. (0..n) \subseteq (0..m) /\ m \in 0..m /\ m \notin 0..n
    BY <1>4
  <2>2. (0..n) # (0..m)
    BY <2>1
  <2>3. <<0..n, 0..m>> \in StrictSubsetOrdering(Nat)
    BY <2>1, <2>2 DEF StrictSubsetOrdering
  <2> QED
    BY <1>2, <1>3, <2>3
<1> QED
  BY <1>4

\* What holds at 0, and at each number up to n when it holds at the one before, holds up
\* to n: of the numbers where it does not, none is the smallest.
LEMMA Upward ==
  ASSUME NEW n \in Nat, NEW S, 0 \in S, \A i \in 1..n : i - 1 \in S => i \in S
  PROVE  0..n \subseteq S
<1> DEFINE T == {i \in 0..n : i \notin S}
<1> SUFFICES ASSUME T # {} PROVE FALSE
  OBVIOUS
<1>1. PICK i \in T : \A j \in T : i <= j
  <2>1. T \in SUBSET Nat
    OBVIOUS
  <2> HIDE DEF T
  <2> QED
    BY <2>1, Least
<1>2. i \in 1..n /\ i - 1 \in 0..n /\ i - 1 \notin T
  BY <1>1
<1> QED
  BY <1>1, <1>2

\* The number of members up to one of a set of numbers says which one it is.
LEMMA SortedOK ==
  ASSUME NEW S \in SUBSET Nat, IsFiniteSet(S)
  PROVE  /\ Cardinality(S) \in Nat
         /\ DOMAIN Sorted(S) = 1..Cardinality(S)
         /\ \A i \in DOMAIN Sorted(S) : Sorted(S)[i] \in S
         /\ \A i, j \in DOMAIN Sorted(S) : Sorted(S)[i] = Sorted(S)[j] => i = j
         /\ \A i, j \in DOMAIN Sorted(S) : i < j => Sorted(S)[i] < Sorted(S)[j]
         /\ \A n \in S : \E i \in DOMAIN Sorted(S) : Sorted(S)[i] = n
<1> DEFINE N == Cardinality(S)
           upto(n) == {m \in S : m <= n}
           rank == [n \in S |-> Cardinality(upto(n))]
<1>1. N \in Nat
  BY FS_CardinalityType
<1>2. ASSUME NEW n \in S
      PROVE  IsFiniteSet(upto(n)) /\ rank[n] \in 1..N /\ upto(n) \subseteq S
  <2>1. upto(n) \in SUBSET S /\ n \in upto(n)
    OBVIOUS
  <2>2. IsFiniteSet(upto(n)) /\ Cardinality(upto(n)) <= N
    BY <2>1, FS_Subset
  <2>3. Cardinality(upto(n)) \in Nat /\ Cardinality(upto(n)) # 0
    BY <2>1, <2>2, FS_CardinalityType, FS_EmptySet
  <2> QED
    BY <1>1, <2>1, <2>2, <2>3
<1>3. ASSUME NEW m \in S, NEW n \in S, rank[m] = rank[n], m < n PROVE FALSE
  <2>1. upto(m) \in SUBSET upto(n) /\ n \in upto(n) /\ n \notin upto(m)
    <3>1. \A k \in S : k \in Nat
      OBVIOUS
    <3>2. \A k \in upto(m) : k \in upto(n)
      BY <1>3, <3>1
    <3>3. n \in upto(n) /\ n \notin upto(m)
      BY <1>3, <3>1
    <3> QED
      BY <3>2, <3>3
  <2>2. Cardinality(upto(m)) = Cardinality(upto(n))
    BY <1>3
  <2>3. upto(n) = upto(m)
    BY <1>2, <2>1, <2>2, FS_Subset
  <2> QED
    BY <2>1, <2>3
<1>4. rank \in Injection(S, 1..N)
  <2>1. rank \in [S -> 1..N]
    BY <1>2
  <2>2. \A m, n \in S : rank[m] = rank[n] => m = n
    <3> HIDE DEF rank
    <3> QED
      BY <1>3
  <2> HIDE DEF rank
  <2> QED
    BY <2>1, <2>2 DEF Injection, IsInjective
<1>5. rank \in Surjection(S, 1..N)
  <2>1. IsFiniteSet(1..N) /\ Cardinality(1..N) = N
    BY <1>1, FS_Interval
  <2> HIDE DEF rank
  <2> QED
    BY <1>4, <2>1, FS_Injection
<1>6. ASSUME NEW i \in 1..N PROVE Sorted(S)[i] \in S /\ rank[Sorted(S)[i]] = i
  <2>1. \E n \in S : rank[n] = i
    <3> HIDE DEF rank
    <3> QED
      BY <1>5 DEF Surjection
  <2>2. \E n \in S : Cardinality(upto(n)) = i
    BY <2>1
  <2>3. Sorted(S)[i] = CHOOSE n \in S : Cardinality(upto(n)) = i
    BY DEF Sorted
  <2> HIDE DEF upto
  <2>4. Sorted(S)[i] \in S /\ Cardinality(upto(Sorted(S)[i])) = i
    BY <2>2, <2>3
  <2> QED
    BY <2>4
<1>7. DOMAIN Sorted(S) = 1..N
  BY DEF Sorted
<1>8. \A n \in S : rank[n] \in 1..N /\ Sorted(S)[rank[n]] = n
  <2> SUFFICES ASSUME NEW n \in S PROVE rank[n] \in 1..N /\ Sorted(S)[rank[n]] = n
    OBVIOUS
  <2>1. rank[n] \in 1..N
    BY <1>2
  <2> HIDE DEF rank
  <2>2. rank[Sorted(S)[rank[n]]] = rank[n] /\ Sorted(S)[rank[n]] \in S
    BY <1>6, <2>1
  <2> QED
    BY <1>4, <2>1, <2>2 DEF Injection, IsInjective
<1>9. ASSUME NEW i \in 1..N, NEW j \in 1..N, i < j, ~(Sorted(S)[i] < Sorted(S)[j]) PROVE FALSE
  <2>1. PICK m, n : m = Sorted(S)[i] /\ n = Sorted(S)[j]
    OBVIOUS
  <2>2. m \in S /\ n \in S /\ rank[m] = i /\ rank[n] = j
    <3> HIDE DEF rank
    <3> QED
      BY <1>6, <2>1
  <2>6. m \in Nat /\ n \in Nat /\ n <= m /\ \A k \in S : k \in Nat
    BY <1>9, <2>1, <2>2
  <2>3. upto(n) \in SUBSET upto(m)
    <3>1. \A k \in upto(n) : k \in upto(m)
      BY <2>6
    <3> QED
      BY <3>1
  <2>4. Cardinality(upto(n)) <= Cardinality(upto(m))
    BY <1>2, <2>2, <2>3, FS_Subset
  <2>5. Cardinality(upto(m)) = i /\ Cardinality(upto(n)) = j
    BY <2>2
  <2> QED
    BY <1>9, <2>4, <2>5
<1> HIDE DEF rank, upto
<1> QED
  BY <1>1, <1>6, <1>7, <1>8, <1>9


-----------------------------------------------------------------------------
(* The strengthening.                                                      *)

IsSeq(s) == Len(s) \in Nat /\ s = [i \in 1..Len(s) |-> s[i]]

IsPatch(p) ==
  /\ p = [id |-> p.id, ops |-> p.ops, edit |-> p.edit]
  /\ p.id \in Nat \ {0} /\ IsSeq(p.ops) /\ Len(p.ops) # 0

IsModel(m) ==
  /\ m = [rga |-> m.rga, time |-> m.time, ch |-> m.ch]
  /\ m.time \in Nat \ {0} /\ DOMAIN m.ch \subseteq 1..(m.time - 1)

\* Patches of which each one begins where the ones before have ended
IsBatch(patches) ==
  /\ IsSeq(patches)
  /\ \A i \in DOMAIN patches : IsPatch(patches[i])
  /\ \A i, j \in DOMAIN patches : i < j => NextTime(patches[i]) <= patches[j].id

\* The same of patches kept by identifier
IsById(f) ==
  /\ f = [n \in DOMAIN f |-> f[n]] /\ IsFiniteSet(DOMAIN f)
  /\ \A n \in DOMAIN f : IsPatch(f[n]) /\ f[n].id = n
  /\ \A n, k \in DOMAIN f : n < k => NextTime(f[n]) <= k

EditsOf(patches) == {p.edit : p \in patches}

\* The clock of a session is past the patches it keeps.
IsSession(s) ==
  /\ s = [start |-> s.start, end |-> s.end, log |-> s.log]
  /\ IsModel(s.start) /\ IsModel(s.end) /\ IsById(s.log)
  /\ \A n \in DOMAIN s.log : NextTime(s.log[n]) <= s.end.time

IsEvent(patches) == IsBatch(patches) /\ patches # <<>>

IsEvents(batches) == IsSeq(batches) /\ \A i \in DOMAIN batches : IsEvent(batches[i])

Types ==
  /\ DOMAIN start = Tab /\ DOMAIN end = Tab /\ DOMAIN log = Tab
  /\ DOMAIN saving = Tab /\ DOMAIN queued = Tab /\ DOMAIN events = Tab /\ DOMAIN inbox = Tab
  /\ queued = [t \in Tab |-> queued[t]]
  /\ edits \in 0..MaxEdits
  /\ \A t \in Tab : /\ IsSession(Session(t))
                    /\ IsEvents(events[t]) /\ IsEvents(inbox[t])
                    /\ queued[t] \in 0..edits
  /\ IsById(frontier)

\* What a sync() under way carries, m and l the text and the log of the session.  The
\* patches it sends are those the log had; those that came since are later.
IsSaving(s, m, l) ==
  \/ s = Idle
  \/ /\ s = [stage |-> s.stage, model |-> s.model, sent |-> s.sent, placed |-> s.placed,
             time |-> s.time]
     /\ s.stage \in {"getIf", "merge", "write", "read", "done"}
     /\ s.model = NoModel \/ (s.model = <<s.model[1]>> /\ IsModel(s.model[1]))
     /\ IsBatch(s.sent)
     /\ s.stage = "getIf" => s.sent = <<>>
     /\ s.stage \in {"merge", "write"} => s.sent # <<>> /\ ToSet(s.sent) \subseteq Values(l)
     /\ s.sent # <<>> =>
          /\ Last(s.sent).id < m.time
          /\ \A n \in DOMAIN l : n <= Last(s.sent).id => l[n] \in ToSet(s.sent)

\* What is placed goes behind the frontier f, and stores what was sent.
IsPlaced(s, f) ==
  /\ IsEvent(s.placed)
  /\ \A n \in DOMAIN f : \A i \in DOMAIN s.placed : NextTime(f[n]) <= s.placed[i].id
  /\ EditsOf(ToSet(s.placed)) = EditsOf(ToSet(s.sent))

\* It is placed under the lock, and stored when the sync() is through.
Savings ==
  \A t \in Tab :
    /\ IsSaving(saving[t], end[t], log[t])
    /\ saving[t].stage = "write" => lock = t /\ IsPlaced(saving[t], frontier)
    /\ saving[t].stage \in {"read", "done"} =>
         EditsOf(ToSet(saving[t].sent)) \subseteq EditsOf(Stored)

Locking == lock = NoTab \/ (lock \in Tab /\ Stage(lock) = "write")

IndInv == Types /\ Savings /\ Locking /\ NothingLost

-----------------------------------------------------------------------------
(* Sequences.                                                              *)

LEMMA SeqFacts ==
  ASSUME NEW s, IsSeq(s)
  PROVE  /\ DOMAIN s = 1..Len(s) /\ Len(s) \in Nat
         /\ s = <<>> <=> Len(s) = 0
         /\ s \in Seq({s[i] : i \in 1..Len(s)})
<1> DEFINE n == Len(s)  T == {s[i] : i \in 1..n}
<1>1. n \in Nat /\ s = [i \in 1..n |-> s[i]]
  BY DEF IsSeq
<1>2. s \in [1..n -> T]
  BY <1>1
<1>3. s \in Seq(T)
  <2> HIDE DEF n, T
  <2> QED
    BY <1>1, <1>2
<1>4. s = <<>> <=> n = 0
  <2> HIDE DEF T
  <2> QED
    BY <1>3
<1> QED
  BY <1>1, <1>3, <1>4

LEMMA MakeSeq ==
  ASSUME NEW n \in Nat, NEW s, s = [i \in 1..n |-> s[i]]
  PROVE  IsSeq(s) /\ Len(s) = n /\ DOMAIN s = 1..n
<1> DEFINE T == {s[i] : i \in 1..n}
<1>1. s \in [1..n -> T]
  OBVIOUS
<1>2. s \in Seq(T) /\ Len(s) = n
  <2> HIDE DEF T
  <2> QED
    BY <1>1
<1> QED
  BY <1>2 DEF IsSeq

LEMMA ShortSeqs ==
  ASSUME NEW x, NEW y
  PROVE  /\ IsSeq(<<>>) /\ Len(<<>>) = 0 /\ DOMAIN <<>> = {}
         /\ IsSeq(<<x>>) /\ Len(<<x>>) = 1
         /\ IsSeq(<<x, y>>) /\ Len(<<x, y>>) = 2
BY DEF IsSeq

LEMMA InSeq ==
  ASSUME NEW T, NEW r \in Seq(T)
  PROVE  IsSeq(r) /\ DOMAIN r = 1..Len(r)
<1>1. PICK n \in Nat : n = Len(r)
  OBVIOUS
<1>2. r \in [1..n -> T]
  BY <1>1
<1>3. r = [i \in 1..n |-> r[i]]
  BY <1>2
<1> QED
  BY <1>1, <1>2, <1>3 DEF IsSeq

LEMMA AppendSeq ==
  ASSUME NEW s, IsSeq(s), NEW e, NEW r, r = Append(s, e)
  PROVE  /\ IsSeq(r) /\ Len(r) = Len(s) + 1
         /\ \A i \in DOMAIN s : r[i] = s[i]
         /\ r[Len(s) + 1] = e
<1> DEFINE T == {s[i] : i \in 1..Len(s)} \cup {e}
<1>1. s \in Seq(T) /\ e \in T
  <2>1. s \in Seq({s[i] : i \in 1..Len(s)})
    BY SeqFacts
  <2> QED
    BY <2>1
<1> HIDE DEF T
<1>2. /\ Len(r) = Len(s) + 1 /\ r \in Seq(T)
      /\ \A i \in 1..Len(s) : r[i] = s[i]
      /\ r[Len(s) + 1] = e
  BY <1>1
<1>3. IsSeq(r) /\ DOMAIN r = 1..Len(r)
  BY <1>2, InSeq
<1> QED
  BY <1>1, <1>2, <1>3

LEMMA TailSeq ==
  ASSUME NEW s, IsSeq(s), s # <<>>, NEW r, r = Tail(s)
  PROVE  /\ IsSeq(r) /\ Len(r) = Len(s) - 1
         /\ \A i \in DOMAIN r : i + 1 \in DOMAIN s /\ r[i] = s[i + 1]
         /\ Head(s) = s[1] /\ 1 \in DOMAIN s
<1> DEFINE T == {s[i] : i \in 1..Len(s)}
<1>1. s \in Seq(T) /\ Len(s) \in Nat /\ Len(s) # 0
  BY SeqFacts
<1> HIDE DEF T
<1>2. /\ r \in Seq(T) /\ Len(r) = Len(s) - 1
      /\ \A i \in 1..Len(r) : r[i] = s[i + 1]
      /\ Head(s) = s[1]
  BY <1>1
<1>3. IsSeq(r) /\ DOMAIN r = 1..Len(r)
  BY <1>2, InSeq
<1> QED
  BY <1>1, <1>2, <1>3

\* One more event
LEMMA EventsAppend ==
  ASSUME NEW e, IsEvents(e), NEW b, IsEvent(b), NEW f, f = Append(e, b)
  PROVE  IsEvents(f)
<1>1. IsSeq(e) /\ \A i \in DOMAIN e : IsEvent(e[i])
  BY DEF IsEvents
<1>2. /\ IsSeq(f) /\ Len(f) = Len(e) + 1 /\ f[Len(e) + 1] = b
      /\ \A i \in DOMAIN e : f[i] = e[i]
  <2>1. IsSeq(e) /\ f = Append(e, b)
    BY <1>1
  <2>2. IsSeq(f) /\ Len(f) = Len(e) + 1
    BY <2>1, AppendSeq, Zenon
  <2>3. f[Len(e) + 1] = b
    BY <2>1, AppendSeq, Zenon
  <2>4. \A i \in DOMAIN e : f[i] = e[i]
    BY <2>1, AppendSeq
  <2> QED
    BY <2>2, <2>3, <2>4
<1>3. DOMAIN e = 1..Len(e) /\ Len(e) \in Nat /\ DOMAIN f = 1..(Len(e) + 1)
  BY <1>1, <1>2, SeqFacts
<1> QED
  BY <1>1, <1>2, <1>3 DEF IsEvents

-----------------------------------------------------------------------------
(* Models: applying keeps them, and puts their clocks past what is applied. *)

LEMMA ApplyOpOK ==
  ASSUME NEW m, IsModel(m), NEW id \in Nat \ {0}, NEW op, NEW r, r = ApplyOp(m, id, op)
  PROVE  IsModel(r) /\ r.time >= m.time /\ r.time >= id + 1
<1> DEFINE q == IF op.kind = "ins" THEN Ins(m.rga, Root, StampOf(op.ref), StampOf(id), 1)
                ELSE Delete(m.rga, <<[sid |-> StampOf(op.what).sid, time |-> op.what, span |-> 1]>>)
           c == WithChar(m.ch, id, op)
           n == Larger(m.time, id + 1)
<1>1. r = [rga |-> q, time |-> n, ch |-> c]
  BY DEF ApplyOp
<1>2. m.time \in Nat \ {0} /\ DOMAIN m.ch \subseteq 1..(m.time - 1)
  BY DEF IsModel
<1>3. n \in Nat \ {0} /\ n >= m.time /\ n >= id + 1
  BY <1>2 DEF Larger
<1>4. DOMAIN c \subseteq DOMAIN m.ch \cup {id}
  BY DEF WithChar
<1>5. DOMAIN c \subseteq 1..(n - 1)
  <2> HIDE DEF c, n
  <2> QED
    BY <1>2, <1>3, <1>4
<1> HIDE DEF q, c, n
<1>6. r.time = n /\ r.ch = c /\ r = [rga |-> r.rga, time |-> r.time, ch |-> r.ch]
  BY <1>1
<1> QED
  BY <1>3, <1>5, <1>6 DEF IsModel

LEMMA CloneOK ==
  ASSUME NEW m, IsModel(m)
  PROVE  IsModel(Clone(m)) /\ Clone(m).time = m.time
<1> DEFINE q == Ingest(m.rga)
<1>1. Clone(m) = [m EXCEPT !.rga = q]
  BY DEF Clone
<1> HIDE DEF q
<1>2. Clone(m) = [rga |-> q, time |-> m.time, ch |-> m.ch]
  BY <1>1 DEF IsModel
<1> QED
  BY <1>2 DEF IsModel

LEMMA PatchFacts ==
  ASSUME NEW p, IsPatch(p)
  PROVE  /\ p.id \in Nat \ {0} /\ Span(p) \in Nat \ {0} /\ NextTime(p) = p.id + Span(p)
         /\ NextTime(p) \in Nat \ {0}
<1>1. Len(p.ops) \in Nat /\ Len(p.ops) # 0 /\ p.id \in Nat \ {0}
  BY DEF IsPatch, IsSeq
<1> QED
  BY <1>1 DEF Span, NextTime

\* The recursive functions of the model exist: each prefix of one does.
LEMMA ApplyPatchOK ==
  ASSUME NEW m, IsModel(m), NEW p, IsPatch(p), NEW r, r = ApplyPatch(m, p)
  PROVE  IsModel(r) /\ r.time >= m.time /\ r.time >= NextTime(p)
<1> DEFINE n == Span(p)
           step(x, i) == ApplyOp(x, p.id + i - 1, p.ops[i])
           Is(g, k) == g = [i \in 0..k |-> IF i = 0 THEN m ELSE step(g[i - 1], i)]
           Built == {k \in 0..n : \E g : Is(g, k)}
           after[i \in 0..Span(p)] ==
             IF i = 0 THEN m ELSE ApplyOp(after[i - 1], p.id + i - 1, p.ops[i])
           Good(k) == /\ IsModel(after[k]) /\ after[k].time >= m.time
                      /\ k # 0 => after[k].time >= p.id + k
           Through == {k \in 0..n : Good(k)}
<1>1. n \in Nat \ {0} /\ p.id \in Nat \ {0} /\ NextTime(p) = p.id + n
  BY PatchFacts
<1>2. r = after[n]
  BY DEF ApplyPatch
<1>3. after = CHOOSE g : Is(g, n)
  OBVIOUS
<1> HIDE DEF after
<1>4. ASSUME NEW x, IsModel(x), NEW i \in 1..n
      PROVE  IsModel(step(x, i)) /\ step(x, i).time >= x.time /\ step(x, i).time >= p.id + i
  <2>1. p.id + i - 1 \in Nat \ {0} /\ p.id + i - 1 + 1 = p.id + i
    BY <1>1
  <2> QED
    BY <1>4, <2>1, ApplyOpOK
<1> HIDE DEF n, step
<1>5. 0..n \subseteq Built
  <2>1. 0 \in Built
    <3> DEFINE g == [i \in 0..0 |-> m]
    <3>1. Is(g, 0)
      OBVIOUS
    <3> HIDE DEF Is
    <3> QED
      BY <1>1, <3>1
  <2>2. ASSUME NEW k \in 1..n, k - 1 \in Built PROVE k \in Built
    <3>1. PICK g : Is(g, k - 1)
      BY <2>2
    <3> DEFINE h == [i \in 0..k |-> IF i = k THEN step(g[k - 1], k) ELSE g[i]]
    <3>2. \A i \in 0..k : h[i] = IF i = 0 THEN m ELSE step(h[i - 1], i)
      BY <1>1, <3>1
    <3>3. Is(h, k)
      BY <3>2
    <3> HIDE DEF Is
    <3> QED
      BY <1>1, <3>3
  <2> HIDE DEF Built
  <2> QED
    BY <1>1, <2>1, <2>2, Upward
<1>6. Is(after, n)
  <2> HIDE DEF Is
  <2> QED
    BY <1>1, <1>3, <1>5
<1>7. /\ after[0] = m
      /\ \A i \in 1..n : after[i] = step(after[i - 1], i)
  BY <1>1, <1>6
<1>8. 0..n \subseteq Through
  <2>1. 0 \in Through
    BY <1>1, <1>7 DEF IsModel
  <2>2. ASSUME NEW k \in 1..n, k - 1 \in Through PROVE k \in Through
    <3>1. IsModel(after[k - 1]) /\ after[k - 1].time >= m.time
      BY <2>2
    <3>2. IsModel(after[k]) /\ after[k].time >= after[k - 1].time /\ after[k].time >= p.id + k
      BY <1>4, <1>7, <3>1
    <3>3. m.time \in Nat /\ after[k].time \in Nat /\ after[k - 1].time \in Nat
      BY <3>1, <3>2 DEF IsModel
    <3> QED
      BY <3>1, <3>2, <3>3
  <2> HIDE DEF Through
  <2> QED
    BY <1>1, <2>1, <2>2, Upward
<1> QED
  BY <1>1, <1>2, <1>8

LEMMA ApplyBatchOK ==
  ASSUME NEW m, IsModel(m),
         NEW patches, IsSeq(patches), \A i \in DOMAIN patches : IsPatch(patches[i]),
         NEW r, r = ApplyBatch(m, patches)
  PROVE  /\ IsModel(r) /\ r.time >= m.time
         /\ \A i \in DOMAIN patches : r.time >= NextTime(patches[i])
<1> DEFINE n == Len(patches)
           step(x, i) == ApplyPatch(x, patches[i])
           Is(g, k) == g = [i \in 0..k |-> IF i = 0 THEN m ELSE step(g[i - 1], i)]
           Built == {k \in 0..n : \E g : Is(g, k)}
           after[i \in 0..Len(patches)] == IF i = 0 THEN m ELSE ApplyPatch(after[i - 1], patches[i])
           Good(k) == /\ IsModel(after[k]) /\ after[k].time >= m.time
                      /\ \A i \in 1..k : after[k].time >= NextTime(patches[i])
           Through == {k \in 0..n : Good(k)}
<1>1. n \in Nat /\ DOMAIN patches = 1..n
  BY SeqFacts
<1>2. r = after[n]
  BY DEF ApplyBatch
<1>3. after = CHOOSE g : Is(g, n)
  OBVIOUS
<1> HIDE DEF after
<1>4. ASSUME NEW x, IsModel(x), NEW i \in 1..n
      PROVE  /\ IsModel(step(x, i)) /\ step(x, i).time >= x.time
             /\ step(x, i).time >= NextTime(patches[i]) /\ NextTime(patches[i]) \in Nat
  BY <1>1, <1>4, ApplyPatchOK, PatchFacts
<1> HIDE DEF n, step
<1>5. 0..n \subseteq Built
  <2>1. 0 \in Built
    <3> DEFINE g == [i \in 0..0 |-> m]
    <3>1. Is(g, 0)
      OBVIOUS
    <3> HIDE DEF Is
    <3> QED
      BY <1>1, <3>1
  <2>2. ASSUME NEW k \in 1..n, k - 1 \in Built PROVE k \in Built
    <3>1. PICK g : Is(g, k - 1)
      BY <2>2
    <3> DEFINE h == [i \in 0..k |-> IF i = k THEN step(g[k - 1], k) ELSE g[i]]
    <3>2. \A i \in 0..k : h[i] = IF i = 0 THEN m ELSE step(h[i - 1], i)
      BY <1>1, <3>1
    <3>3. Is(h, k)
      BY <3>2
    <3> HIDE DEF Is
    <3> QED
      BY <1>1, <3>3
  <2> HIDE DEF Built
  <2> QED
    BY <1>1, <2>1, <2>2, Upward
<1>6. Is(after, n)
  <2> HIDE DEF Is
  <2> QED
    BY <1>1, <1>3, <1>5
<1>7. /\ after[0] = m
      /\ \A i \in 1..n : after[i] = step(after[i - 1], i)
  BY <1>1, <1>6
<1>8. 0..n \subseteq Through
  <2>1. 0 \in Through
    BY <1>1, <1>7 DEF IsModel
  <2>2. ASSUME NEW k \in 1..n, k - 1 \in Through PROVE k \in Through
    <3>1. /\ IsModel(after[k - 1]) /\ after[k - 1].time >= m.time
          /\ \A i \in 1..(k - 1) : after[k - 1].time >= NextTime(patches[i])
      BY <2>2
    <3>2. IsModel(after[k]) /\ after[k].time >= after[k - 1].time /\ after[k].time >= NextTime(patches[k])
      BY <1>4, <1>7, <3>1
    <3>3. m.time \in Nat /\ after[k].time \in Nat /\ after[k - 1].time \in Nat
      BY <3>1, <3>2 DEF IsModel
    <3>4. \A i \in 1..k : after[k].time >= NextTime(patches[i])
      <4> SUFFICES ASSUME NEW i \in 1..k PROVE after[k].time >= NextTime(patches[i])
        OBVIOUS
      <4>1. i = k \/ i \in 1..(k - 1)
        BY <2>2
      <4>2. NextTime(patches[i]) \in Nat
        BY <1>1, <1>4, <3>1
      <4> QED
        BY <3>1, <3>2, <3>3, <4>1, <4>2
    <3> QED
      BY <3>1, <3>2, <3>3, <3>4
  <2> HIDE DEF Through
  <2> QED
    BY <1>1, <2>1, <2>2, Upward
<1> QED
  BY <1>1, <1>2, <1>8

-----------------------------------------------------------------------------
(* Patches: rebasing and placing keep what they store, one behind the      *)
(* other.                                                                  *)

LEMMA RebaseOK ==
  ASSUME NEW p, IsPatch(p), NEW t \in Nat \ {0}, NEW r, r = Rebase(p, t)
  PROVE  IsPatch(r) /\ r.id = t /\ r.edit = p.edit /\ Span(r) = Span(p) /\ NextTime(r) = t + Span(p)
<1> DEFINE moved(n) == IF n >= p.id THEN n + t - p.id ELSE n
           moveOp(op) == IF op.kind = "ins" THEN [op EXCEPT !.ref = moved(@)] ELSE op
           o == [i \in DOMAIN p.ops |-> moveOp(p.ops[i])]
<1>1. r = [p EXCEPT !.id = t, !.ops = o]
  BY DEF Rebase
<1>2. IsSeq(p.ops) /\ Len(p.ops) # 0 /\ p = [id |-> p.id, ops |-> p.ops, edit |-> p.edit]
  BY DEF IsPatch
<1>3. DOMAIN p.ops = 1..Len(p.ops) /\ Len(p.ops) \in Nat
  BY <1>2, SeqFacts
<1>4. IsSeq(o) /\ Len(o) = Len(p.ops)
  <2> HIDE DEF moveOp
  <2>1. o = [i \in 1..Len(p.ops) |-> o[i]]
    BY <1>3
  <2> HIDE DEF o
  <2> QED
    BY <1>3, <2>1, MakeSeq
<1> HIDE DEF o
<1>5. r = [id |-> t, ops |-> o, edit |-> p.edit]
  BY <1>1, <1>2
<1> QED
  BY <1>2, <1>4, <1>5 DEF IsPatch, Span, NextTime

LEMMA RebaseAllOK ==
  ASSUME NEW patches, IsSeq(patches), \A i \in DOMAIN patches : IsPatch(patches[i]),
         NEW t \in Nat \ {0}, NEW r, r = RebaseAll(patches, t)
  PROVE  /\ IsBatch(r) /\ Len(r) = Len(patches) /\ DOMAIN r = DOMAIN patches
         /\ \A i \in DOMAIN patches : r[i].edit = patches[i].edit
<1> DEFINE n == Len(patches)
           step(x, i) == x + Span(patches[i])
           Is(g, k) == g = [i \in 0..k |-> IF i = 0 THEN t ELSE step(g[i - 1], i)]
           Built == {k \in 0..n : \E g : Is(g, k)}
           next[i \in 0..Len(patches)] == IF i = 0 THEN t ELSE next[i - 1] + Span(patches[i])
           Good(k) == next[k] \in Nat \ {0} /\ \A i \in 0..k : next[i] \in Nat /\ next[i] <= next[k]
           Through == {k \in 0..n : Good(k)}
<1>1. n \in Nat /\ DOMAIN patches = 1..n
  BY SeqFacts
<1>2. r = [i \in DOMAIN patches |-> Rebase(patches[i], next[i - 1])]
  BY DEF RebaseAll
<1>3. next = CHOOSE g : Is(g, n)
  OBVIOUS
<1> HIDE DEF next
<1>4. ASSUME NEW x \in Nat, NEW i \in 1..n
      PROVE  /\ step(x, i) \in Nat /\ step(x, i) >= x
             /\ step(x, i) = x + Span(patches[i]) /\ Span(patches[i]) \in Nat \ {0}
  BY <1>1, PatchFacts
<1> HIDE DEF n, step
<1>5. 0..n \subseteq Built
  <2>1. 0 \in Built
    <3> DEFINE g == [i \in 0..0 |-> t]
    <3>1. Is(g, 0)
      OBVIOUS
    <3> HIDE DEF Is
    <3> QED
      BY <1>1, <3>1
  <2>2. ASSUME NEW k \in 1..n, k - 1 \in Built PROVE k \in Built
    <3>1. PICK g : Is(g, k - 1)
      BY <2>2
    <3> DEFINE h == [i \in 0..k |-> IF i = k THEN step(g[k - 1], k) ELSE g[i]]
    <3>2. \A i \in 0..k : h[i] = IF i = 0 THEN t ELSE step(h[i - 1], i)
      BY <1>1, <3>1
    <3>3. Is(h, k)
      BY <3>2
    <3> HIDE DEF Is
    <3> QED
      BY <1>1, <3>3
  <2> HIDE DEF Built
  <2> QED
    BY <1>1, <2>1, <2>2, Upward
<1>6. Is(next, n)
  <2> HIDE DEF Is
  <2> QED
    BY <1>1, <1>3, <1>5
<1>7. /\ next[0] = t
      /\ \A i \in 1..n : next[i] = step(next[i - 1], i)
  BY <1>1, <1>6
<1>8. 0..n \subseteq Through
  <2>1. 0 \in Through
    BY <1>1, <1>7
  <2>2. ASSUME NEW k \in 1..n, k - 1 \in Through PROVE k \in Through
    <3>1. next[k - 1] \in Nat \ {0} /\ \A i \in 0..(k - 1) : next[i] \in Nat /\ next[i] <= next[k - 1]
      BY <2>2
    <3>2. next[k] \in Nat \ {0} /\ next[k] >= next[k - 1]
      BY <1>4, <1>7, <3>1
    <3>3. \A i \in 0..k : i = k \/ i \in 0..(k - 1)
      OBVIOUS
    <3> QED
      BY <3>1, <3>2, <3>3
  <2> HIDE DEF Through
  <2> QED
    BY <1>1, <2>1, <2>2, Upward
<1>9. r = [i \in 1..n |-> Rebase(patches[i], next[i - 1])]
  BY <1>1, <1>2
<1>10. IsSeq(r) /\ Len(r) = n /\ DOMAIN r = 1..n
  <2>1. r = [i \in 1..n |-> r[i]]
    BY <1>9
  <2> QED
    BY <1>1, <2>1, MakeSeq
<1>11. ASSUME NEW i \in 1..n
       PROVE  /\ IsPatch(r[i]) /\ r[i].id = next[i - 1] /\ r[i].edit = patches[i].edit
              /\ NextTime(r[i]) = next[i] /\ i - 1 \in 0..n /\ next[i - 1] \in Nat
  <2>1. i - 1 \in 0..n /\ next[i - 1] \in Nat \ {0}
    BY <1>1, <1>8
  <2>2. r[i] = Rebase(patches[i], next[i - 1]) /\ IsPatch(patches[i])
    BY <1>1, <1>9
  <2>3. next[i] = next[i - 1] + Span(patches[i])
    BY <1>4, <1>7, <2>1
  <2> QED
    BY <2>1, <2>2, <2>3, RebaseOK
<1>12. ASSUME NEW i \in 1..n, NEW j \in 1..n, i < j PROVE NextTime(r[i]) <= r[j].id
  <2>1. j - 1 \in 0..n /\ i \in 0..(j - 1)
    BY <1>1, <1>12
  <2>2. next[i] <= next[j - 1]
    BY <1>8, <2>1
  <2> QED
    BY <1>11, <2>2
<1> QED
  BY <1>1, <1>10, <1>11, <1>12 DEF IsBatch

LEMMA PlacedOK ==
  ASSUME NEW patches, IsBatch(patches),
         NEW t \in Nat \ {0}, NEW r, r = Placed(patches, t)
  PROVE  /\ IsBatch(r) /\ Len(r) = Len(patches) /\ DOMAIN r = DOMAIN patches
         /\ \A i \in DOMAIN patches : r[i].edit = patches[i].edit /\ t <= r[i].id
<1> DEFINE n == Len(patches)
           step(x, i) == x + (IF x > patches[i].id THEN Span(patches[i]) ELSE 0)
           Is(g, k) == g = [i \in 0..k |-> IF i = 0 THEN t ELSE step(g[i - 1], i)]
           Built == {k \in 0..n : \E g : Is(g, k)}
           next[i \in 0..Len(patches)] ==
             IF i = 0 THEN t
             ELSE next[i - 1] + (IF next[i - 1] > patches[i].id THEN Span(patches[i]) ELSE 0)
           kept(i) == next[i - 1] <= patches[i].id
           Good(k) == /\ next[k] \in Nat \ {0} /\ t <= next[k]
                      /\ \A i \in 0..k : next[i] \in Nat /\ next[i] <= next[k]
                      /\ \A i \in 1..k : kept(i) => next[k] <= patches[i].id
           Through == {k \in 0..n : Good(k)}
<1>1. /\ n \in Nat /\ DOMAIN patches = 1..n
      /\ \A i \in 1..n : IsPatch(patches[i])
      /\ \A i, j \in 1..n : i < j => NextTime(patches[i]) <= patches[j].id
  BY SeqFacts DEF IsBatch
<1>2. r = [i \in DOMAIN patches |->
             IF next[i - 1] > patches[i].id THEN Rebase(patches[i], next[i - 1]) ELSE patches[i]]
  BY DEF Placed
<1>3. next = CHOOSE g : Is(g, n)
  OBVIOUS
<1> HIDE DEF next
<1>4. ASSUME NEW x \in Nat, NEW i \in 1..n
      PROVE  /\ step(x, i) \in Nat /\ step(x, i) >= x
             /\ x > patches[i].id => step(x, i) = x + Span(patches[i])
             /\ x <= patches[i].id => step(x, i) = x
  <2>1. patches[i].id \in Nat /\ Span(patches[i]) \in Nat \ {0}
    BY <1>1, PatchFacts
  <2> QED
    BY <2>1
<1>13. ASSUME NEW i \in 1..n, NEW j \in 1..n, i < j
       PROVE  patches[i].id \in Nat /\ patches[j].id \in Nat /\ patches[i].id < patches[j].id
  <2>1. /\ NextTime(patches[i]) = patches[i].id + Span(patches[i]) /\ Span(patches[i]) \in Nat \ {0}
        /\ patches[i].id \in Nat /\ patches[j].id \in Nat
    BY <1>1, PatchFacts
  <2> QED
    BY <1>1, <1>13, <2>1
<1> HIDE DEF n, step
<1>5. 0..n \subseteq Built
  <2>1. 0 \in Built
    <3> DEFINE g == [i \in 0..0 |-> t]
    <3>1. Is(g, 0)
      OBVIOUS
    <3> HIDE DEF Is
    <3> QED
      BY <1>1, <3>1
  <2>2. ASSUME NEW k \in 1..n, k - 1 \in Built PROVE k \in Built
    <3>1. PICK g : Is(g, k - 1)
      BY <2>2
    <3> DEFINE h == [i \in 0..k |-> IF i = k THEN step(g[k - 1], k) ELSE g[i]]
    <3>2. \A i \in 0..k : h[i] = IF i = 0 THEN t ELSE step(h[i - 1], i)
      BY <1>1, <3>1
    <3>3. Is(h, k)
      BY <3>2
    <3> HIDE DEF Is
    <3> QED
      BY <1>1, <3>3
  <2> HIDE DEF Built
  <2> QED
    BY <1>1, <2>1, <2>2, Upward
<1>6. Is(next, n)
  <2> HIDE DEF Is
  <2> QED
    BY <1>1, <1>3, <1>5
<1>7. /\ next[0] = t
      /\ \A i \in 1..n : next[i] = step(next[i - 1], i)
  BY <1>1, <1>6
<1>8. 0..n \subseteq Through
  <2>1. 0 \in Through
    BY <1>1, <1>7
  <2>2. ASSUME NEW k \in 1..n, k - 1 \in Through PROVE k \in Through
    <3>1. /\ next[k - 1] \in Nat \ {0} /\ t <= next[k - 1]
          /\ \A i \in 0..(k - 1) : next[i] \in Nat /\ next[i] <= next[k - 1]
          /\ \A i \in 1..(k - 1) : kept(i) => next[k - 1] <= patches[i].id
      BY <2>2
    <3>2. /\ next[k] \in Nat \ {0} /\ next[k] >= next[k - 1]
          /\ next[k - 1] <= patches[k].id => next[k] = next[k - 1]
      BY <1>4, <1>7, <3>1
    <3>3. /\ \A i \in 0..k : i = k \/ i \in 0..(k - 1)
          /\ \A i \in 1..k : i = k \/ i \in 1..(k - 1)
      OBVIOUS
    <3>4. \A i \in 0..k : next[i] \in Nat /\ next[i] <= next[k]
      BY <3>1, <3>2, <3>3
    <3>5. ASSUME NEW i \in 1..k, kept(i) PROVE next[k] <= patches[i].id
      <4>1. CASE i = k
        BY <3>2, <3>5, <4>1
      <4>2. CASE i \in 1..(k - 1)
        <5>1. /\ i \in 1..n /\ k \in 1..n /\ i < k /\ next[k - 1] <= patches[i].id
              /\ patches[i].id \in Nat /\ patches[k].id \in Nat /\ patches[i].id < patches[k].id
          BY <1>1, <1>13, <3>1, <3>5, <4>2
        <5>2. next[k - 1] <= patches[k].id
          BY <3>1, <5>1
        <5> QED
          BY <3>2, <5>1, <5>2
      <4> QED
        BY <3>3, <4>1, <4>2
    <3> HIDE DEF kept
    <3> QED
      BY <3>1, <3>2, <3>4, <3>5
  <2> HIDE DEF Through
  <2> QED
    BY <1>1, <2>1, <2>2, Upward
<1>9. r = [i \in 1..n |->
             IF next[i - 1] > patches[i].id THEN Rebase(patches[i], next[i - 1]) ELSE patches[i]]
  BY <1>1, <1>2
<1>10. IsSeq(r) /\ Len(r) = n /\ DOMAIN r = 1..n
  <2>1. r = [i \in 1..n |-> r[i]]
    BY <1>9
  <2> QED
    BY <1>1, <2>1, MakeSeq
<1>11. ASSUME NEW i \in 1..n
       PROVE  /\ IsPatch(r[i]) /\ r[i].edit = patches[i].edit /\ next[i - 1] <= r[i].id
              /\ i - 1 \in 0..n /\ next[i - 1] \in Nat /\ t <= next[i - 1]
              /\ kept(i) => r[i] = patches[i]
              /\ ~kept(i) => NextTime(r[i]) = next[i]
  <2>1. i - 1 \in 0..n /\ next[i - 1] \in Nat \ {0} /\ t <= next[i - 1]
    BY <1>1, <1>8
  <2>2. IsPatch(patches[i]) /\ patches[i].id \in Nat /\ kept(i) = (next[i - 1] <= patches[i].id)
    BY <1>1, PatchFacts
  <2>3. CASE kept(i)
    <3>1. r[i] = patches[i]
      BY <1>9, <2>1, <2>2, <2>3
    <3> QED
      BY <2>1, <2>2, <2>3, <3>1
  <2>4. CASE ~kept(i)
    <3>1. r[i] = Rebase(patches[i], next[i - 1]) /\ next[i - 1] > patches[i].id
      BY <1>9, <2>1, <2>2, <2>4
    <3>2. next[i] = next[i - 1] + Span(patches[i])
      BY <1>4, <1>7, <2>1, <3>1
    <3>3. /\ IsPatch(r[i]) /\ r[i].id = next[i - 1] /\ r[i].edit = patches[i].edit
          /\ NextTime(r[i]) = next[i]
      BY <2>1, <2>2, <3>1, <3>2, RebaseOK
    <3> QED
      BY <2>1, <2>4, <3>3
  <2> QED
    BY <2>3, <2>4
<1>12. ASSUME NEW i \in 1..n, NEW j \in 1..n, i < j PROVE NextTime(r[i]) <= r[j].id
  <2>1. /\ j - 1 \in 0..n /\ i \in 1..(j - 1) /\ i \in 0..(j - 1)
        /\ next[j - 1] \in Nat /\ next[j - 1] <= r[j].id /\ r[j].id \in Nat
    BY <1>1, <1>11, <1>12, PatchFacts
  <2>2. CASE kept(i)
    <3>1. next[j - 1] <= patches[i].id /\ patches[i].id < patches[j].id
      BY <1>8, <1>13, <1>12, <2>1, <2>2
    <3>2. kept(j)
      <4>1. patches[i].id \in Nat /\ patches[j].id \in Nat
        BY <1>12, <1>13
      <4> QED
        BY <2>1, <3>1, <4>1
    <3> HIDE DEF kept
    <3>3. r[i] = patches[i] /\ r[j] = patches[j]
      BY <1>11, <2>2, <3>2
    <3> QED
      BY <1>1, <1>12, <3>3
  <2>3. CASE ~kept(i)
    <3>1. NextTime(r[i]) = next[i]
      BY <1>11, <2>3
    <3>2. next[i] \in Nat /\ next[i] <= next[j - 1]
      BY <1>8, <2>1
    <3> QED
      BY <2>1, <3>1, <3>2
  <2> QED
    BY <2>2, <2>3
<1>14. \A i \in 1..n : t <= r[i].id
  <2> SUFFICES ASSUME NEW i \in 1..n PROVE t <= r[i].id
    OBVIOUS
  <2>1. next[i - 1] \in Nat /\ t <= next[i - 1] /\ next[i - 1] <= r[i].id /\ r[i].id \in Nat
    BY <1>11, PatchFacts
  <2> QED
    BY <2>1
<1> QED
  BY <1>1, <1>10, <1>11, <1>12, <1>14 DEF IsBatch

-----------------------------------------------------------------------------
(* Patches by identifier.                                                  *)

LEMMA SeqSet ==
  ASSUME NEW s, IsSeq(s)
  PROVE  /\ IsFiniteSet(DOMAIN s)
         /\ \A p : p \in ToSet(s) <=> \E i \in DOMAIN s : s[i] = p
<1>1. DOMAIN s = 1..Len(s) /\ Len(s) \in Nat
  BY SeqFacts
<1> QED
  BY <1>1, FS_Interval DEF ToSet

LEMMA InOrderOK ==
  ASSUME NEW f, IsById(f), NEW r, r = InOrder(f)
  PROVE  /\ IsBatch(r) /\ ToSet(r) = Values(f)
         /\ r = <<>> <=> f = <<>>
         /\ r # <<>> => /\ Last(r) \in Values(f)
                        /\ \A n \in DOMAIN f : n <= Last(r).id /\ NextTime(f[n]) <= NextTime(Last(r))
<1> DEFINE S == DOMAIN f
           ids == Sorted(DOMAIN f)
<1>1. /\ f = [n \in S |-> f[n]] /\ IsFiniteSet(S)
      /\ \A n \in S : IsPatch(f[n]) /\ f[n].id = n
      /\ \A n, k \in S : n < k => NextTime(f[n]) <= k
  BY DEF IsById
<1>2. S \in SUBSET Nat
  BY <1>1, PatchFacts
<1>3. PICK c \in Nat : c = Cardinality(S)
  BY <1>1, FS_CardinalityType
<1>4. r = [i \in DOMAIN ids |-> f[ids[i]]]
  BY DEF InOrder
<1>5. PICK g : g = ids
  OBVIOUS
<1>6. /\ DOMAIN g = 1..c
      /\ \A i \in DOMAIN g : g[i] \in S
      /\ \A i, j \in DOMAIN g : i < j => g[i] < g[j]
      /\ \A n \in S : \E i \in DOMAIN g : g[i] = n
  BY <1>1, <1>2, <1>3, <1>5, SortedOK
<1>7. r = [i \in 1..c |-> f[g[i]]]
  BY <1>4, <1>5, <1>6
<1> HIDE DEF S, ids
<1>8. IsSeq(r) /\ Len(r) = c /\ DOMAIN r = 1..c
  <2>1. r = [i \in 1..c |-> r[i]]
    BY <1>7
  <2> QED
    BY <2>1, MakeSeq
<1>9. ASSUME NEW i \in 1..c PROVE r[i] = f[g[i]] /\ g[i] \in S /\ IsPatch(r[i]) /\ r[i].id = g[i]
  BY <1>1, <1>6, <1>7
<1>10. \A i, j \in DOMAIN r : i < j => NextTime(r[i]) <= r[j].id
  BY <1>1, <1>6, <1>8, <1>9
<1>11. IsBatch(r)
  BY <1>8, <1>9, <1>10 DEF IsBatch
<1>12. ToSet(r) = Values(f)
  <2>1. ASSUME NEW p \in ToSet(r) PROVE p \in Values(f)
    BY <1>8, <1>9 DEF ToSet, Values, S
  <2>2. ASSUME NEW p \in Values(f) PROVE p \in ToSet(r)
    <3>1. PICK n \in S : f[n] = p
      BY DEF Values, S
    <3>2. PICK i \in 1..c : g[i] = n
      BY <1>6
    <3> QED
      BY <1>8, <1>9, <3>1, <3>2 DEF ToSet
  <2> QED
    BY <2>1, <2>2
<1>13. r = <<>> <=> f = <<>>
  <2>1. r = <<>> <=> c = 0
    BY <1>8, SeqFacts
  <2>2. c = 0 <=> S = {}
    BY <1>1, <1>3, FS_EmptySet
  <2>3. S = {} => f = <<>>
    BY <1>1
  <2>4. f = <<>> => S = {}
    BY DEF S
  <2> QED
    BY <2>1, <2>2, <2>3, <2>4
<1>14. ASSUME r # <<>>
       PROVE  /\ Last(r) \in Values(f)
              /\ \A n \in DOMAIN f : n <= Last(r).id /\ NextTime(f[n]) <= NextTime(Last(r))
  <2>1. c # 0 /\ c \in 1..c
    BY <1>8, <1>14, SeqFacts
  <2>2. Last(r) = r[c] /\ r[c] \in ToSet(r)
    BY <1>8, <2>1 DEF Last, ToSet
  <2>3. r[c] = f[g[c]] /\ g[c] \in S /\ r[c].id = g[c]
    BY <1>9, <2>1
  <2>4. ASSUME NEW n \in S PROVE n <= g[c] /\ NextTime(f[n]) <= NextTime(f[g[c]])
    <3>1. PICK i \in 1..c : g[i] = n
      BY <1>6
    <3>2. /\ n \in Nat /\ g[c] \in Nat /\ f[n].id = n /\ f[g[c]].id = g[c]
          /\ NextTime(f[n]) \in Nat /\ NextTime(f[g[c]]) \in Nat
          /\ NextTime(f[g[c]]) >= g[c]
      BY <1>1, <1>2, <2>3, PatchFacts
    <3>3. CASE i = c
      BY <3>1, <3>2, <3>3
    <3>4. CASE i < c
      <4>1. n < g[c]
        BY <1>6, <2>1, <3>1, <3>4
      <4>2. NextTime(f[n]) <= g[c]
        BY <1>1, <2>3, <4>1
      <4> QED
        BY <3>2, <4>1, <4>2
    <3> QED
      BY <2>1, <3>1, <3>3, <3>4
  <2> QED
    BY <1>12, <2>2, <2>3, <2>4 DEF S
<1> QED
  BY <1>11, <1>12, <1>13, <1>14

\* Patches put behind those that are there displace none of them.
LEMMA PutOK ==
  ASSUME NEW f, IsById(f), NEW b, IsBatch(b),
         \A n \in DOMAIN f : \A i \in DOMAIN b : NextTime(f[n]) <= b[i].id,
         NEW r, r = Put(f, ToSet(b))
  PROVE  /\ IsById(r) /\ Values(r) = Values(f) \cup ToSet(b)
         /\ \A n \in DOMAIN r : r[n] \in ToSet(b) \/ (n \in DOMAIN f /\ r[n] = f[n])
<1> DEFINE B == ToSet(b)
           ids == {p.id : p \in ToSet(b)}
           pick(n) == CHOOSE p \in B : p.id = n
<1>1. r = [n \in DOMAIN f \cup ids |-> IF n \in ids THEN pick(n) ELSE f[n]]
  BY DEF Put
<1>2. /\ f = [n \in DOMAIN f |-> f[n]] /\ IsFiniteSet(DOMAIN f)
      /\ \A n \in DOMAIN f : IsPatch(f[n]) /\ f[n].id = n
      /\ \A n, k \in DOMAIN f : n < k => NextTime(f[n]) <= k
  BY DEF IsById
<1>3. /\ IsSeq(b) /\ DOMAIN b = 1..Len(b) /\ Len(b) \in Nat
      /\ \A i \in DOMAIN b : IsPatch(b[i])
      /\ \A i, j \in DOMAIN b : i < j => NextTime(b[i]) <= b[j].id
  BY SeqFacts DEF IsBatch
<1>4. \A p : p \in B <=> \E i \in DOMAIN b : b[i] = p
  BY <1>3, SeqSet
<1>5. IsFiniteSet(ids)
  <2>1. ids = {b[i].id : i \in DOMAIN b}
    BY <1>4
  <2>2. IsFiniteSet(DOMAIN b)
    BY <1>3, SeqSet
  <2> DEFINE g == [i \in DOMAIN b |-> b[i].id]
  <2>3. g \in Surjection(DOMAIN b, ids)
    <3>1. g \in [DOMAIN b -> ids] /\ \A n \in ids : \E i \in DOMAIN b : g[i] = n
      BY <2>1
    <3> HIDE DEF g, ids
    <3> QED
      BY <3>1 DEF Surjection
  <2> HIDE DEF g, ids
  <2> QED
    BY <2>2, <2>3, FS_Surjection
<1>6. ASSUME NEW n \in ids PROVE pick(n) \in B /\ pick(n).id = n
  OBVIOUS
<1> HIDE DEF B, pick
<1>7. \A n \in ids : \E i \in DOMAIN b : b[i].id = n
  BY <1>4 DEF B
<1>8. \A p \in B : p.id \in ids
  BY DEF B
<1> HIDE DEF ids
<1>9. \A n \in DOMAIN f : n \notin ids
  <2> SUFFICES ASSUME NEW n \in DOMAIN f, n \in ids PROVE FALSE
    OBVIOUS
  <2>1. PICK i \in DOMAIN b : b[i].id = n
    BY <1>7
  <2>2. NextTime(f[n]) <= n
    BY <2>1
  <2>3. f[n].id = n /\ NextTime(f[n]) = f[n].id + Span(f[n]) /\ Span(f[n]) \in Nat \ {0} /\ n \in Nat
    BY <1>2, PatchFacts
  <2> QED
    BY <2>2, <2>3
<1>10. /\ DOMAIN r = DOMAIN f \cup ids
       /\ \A n \in ids : r[n] \in B /\ r[n].id = n
       /\ \A n \in DOMAIN f : r[n] = f[n]
  BY <1>1, <1>6, <1>9
<1>11. ASSUME NEW i \in DOMAIN b, NEW j \in DOMAIN b, b[i].id < b[j].id PROVE i < j
  <2>1. /\ i \in Nat /\ j \in Nat /\ b[i].id \in Nat /\ b[j].id \in Nat
        /\ NextTime(b[j]) = b[j].id + Span(b[j]) /\ Span(b[j]) \in Nat
    BY <1>3, PatchFacts
  <2>2. j < i => NextTime(b[j]) <= b[i].id
    BY <1>3
  <2> QED
    BY <1>11, <2>1, <2>2
<1>12. ASSUME NEW n \in ids PROVE \E i \in DOMAIN b : b[i] = r[n] /\ b[i].id = n
  BY <1>4, <1>10
<1>13. ASSUME NEW i \in DOMAIN b PROVE b[i].id \in ids /\ r[b[i].id] = b[i]
  <2>1. b[i] \in B /\ b[i].id \in ids
    BY <1>4, <1>8
  <2>2. PICK j \in DOMAIN b : b[j] = r[b[i].id] /\ b[j].id = b[i].id
    BY <1>12, <2>1
  <2>3. i = j
    <3>1. i \in Nat /\ j \in Nat
      BY <1>3
    <3>2. /\ NextTime(b[i]) = b[i].id + Span(b[i]) /\ Span(b[i]) \in Nat \ {0} /\ b[i].id \in Nat
          /\ NextTime(b[j]) = b[j].id + Span(b[j]) /\ Span(b[j]) \in Nat \ {0} /\ b[j].id \in Nat
      BY <1>3, PatchFacts
    <3>3. ~(i < j) /\ ~(j < i)
      BY <1>3, <2>2, <3>2
    <3> QED
      BY <3>1, <3>3
  <2> QED
    BY <2>1, <2>2, <2>3
<1>14. IsById(r)
  <2>1. r = [n \in DOMAIN r |-> r[n]]
    BY <1>1
  <2>2. IsFiniteSet(DOMAIN r)
    <3>1. PICK D : D = DOMAIN f
      OBVIOUS
    <3>2. IsFiniteSet(D \cup ids)
      BY <1>2, <1>5, <3>1, FS_Union
    <3> QED
      BY <1>10, <3>1, <3>2
  <2>3. \A n \in DOMAIN r : IsPatch(r[n]) /\ r[n].id = n
    BY <1>2, <1>3, <1>10, <1>12
  <2>4. ASSUME NEW n \in DOMAIN r, NEW k \in DOMAIN r, n < k PROVE NextTime(r[n]) <= k
    <3>1. CASE n \in DOMAIN f /\ k \in DOMAIN f
      BY <1>2, <1>10, <2>4, <3>1
    <3>2. CASE n \in DOMAIN f /\ k \in ids
      <4>1. PICK i \in DOMAIN b : b[i] = r[k] /\ b[i].id = k
        BY <1>12, <3>2
      <4> QED
        BY <1>10, <3>2, <4>1
    <3>3. CASE n \in ids /\ k \in DOMAIN f
      <4>1. PICK i \in DOMAIN b : b[i] = r[n] /\ b[i].id = n
        BY <1>12, <3>3
      <4>2. NextTime(f[k]) <= n
        BY <3>3, <4>1
      <4>3. f[k].id = k /\ NextTime(f[k]) = f[k].id + Span(f[k]) /\ Span(f[k]) \in Nat /\ k \in Nat
        BY <1>2, <3>3, PatchFacts
      <4>4. n \in Nat
        BY <1>3, <4>1, PatchFacts
      <4> QED
        BY <2>4, <4>2, <4>3, <4>4
    <3>4. CASE n \in ids /\ k \in ids
      <4>1. PICK i \in DOMAIN b : b[i] = r[n] /\ b[i].id = n
        BY <1>12, <3>4
      <4>2. PICK j \in DOMAIN b : b[j] = r[k] /\ b[j].id = k
        BY <1>12, <3>4
      <4>3. i < j
        BY <1>11, <2>4, <4>1, <4>2
      <4> QED
        BY <1>3, <4>1, <4>2, <4>3
    <3> QED
      BY <1>10, <3>1, <3>2, <3>3, <3>4
  <2> QED
    BY <2>1, <2>2, <2>3, <2>4 DEF IsById
<1>15. Values(r) = Values(f) \cup B
  <2>1. ASSUME NEW p \in Values(r) PROVE p \in Values(f) \cup B
    BY <1>10 DEF Values
  <2>2. ASSUME NEW p \in Values(f) PROVE p \in Values(r)
    BY <1>10 DEF Values
  <2>3. ASSUME NEW p \in B PROVE p \in Values(r)
    <3>1. PICK i \in DOMAIN b : b[i] = p
      BY <1>4
    <3>2. b[i].id \in DOMAIN r /\ r[b[i].id] = p
      BY <1>10, <1>13, <3>1
    <3> QED
      BY <3>2 DEF Values
  <2> QED
    BY <2>1, <2>2, <2>3
<1>16. \A n \in DOMAIN r : r[n] \in B \/ (n \in DOMAIN f /\ r[n] = f[n])
  BY <1>10
<1> QED
  BY <1>14, <1>15, <1>16 DEF B

LEMMA EmptyById == IsById(<<>>) /\ Values(<<>>) = {}
<1>1. DOMAIN <<>> = {} /\ <<>> = [n \in DOMAIN <<>> |-> <<>>[n]]
  OBVIOUS
<1> QED
  BY <1>1, FS_EmptySet DEF IsById, Values

LEMMA SameEdits ==
  ASSUME NEW a, NEW b, DOMAIN a = DOMAIN b, \A i \in DOMAIN a : a[i].edit = b[i].edit
  PROVE  EditsOf(ToSet(a)) = EditsOf(ToSet(b))
<1>1. EditsOf(ToSet(a)) = {a[i].edit : i \in DOMAIN a}
  BY DEF EditsOf, ToSet
<1>2. EditsOf(ToSet(b)) = {b[i].edit : i \in DOMAIN b}
  BY DEF EditsOf, ToSet
<1> QED
  BY <1>1, <1>2

LEMMA EditsOfUnion ==
  ASSUME NEW A, NEW B
  PROVE  EditsOf(A \cup B) = EditsOf(A) \cup EditsOf(B)
BY DEF EditsOf

LEMMA LastPatch ==
  ASSUME NEW b, IsEvent(b)
  PROVE  /\ IsPatch(Last(b)) /\ Last(b) \in ToSet(b) /\ NextTime(Last(b)) \in Nat \ {0}
<1>1. /\ IsSeq(b) /\ b # <<>> /\ DOMAIN b = 1..Len(b) /\ Len(b) \in Nat
      /\ \A i \in DOMAIN b : IsPatch(b[i])
  BY SeqFacts DEF IsEvent, IsBatch
<1>2. Len(b) \in DOMAIN b
  BY <1>1, SeqFacts
<1> QED
  BY <1>1, <1>2, PatchFacts DEF Last, ToSet

-----------------------------------------------------------------------------
(* Sessions: what is done with events and models keeps every edit pending. *)

Keeps(r, s) == IsSession(r) /\ EditsOf(Values(r.log)) = EditsOf(Values(s.log))

\* Only the models change, and the clock does not go back.
LEMMA WithModels ==
  ASSUME NEW s, IsSession(s), NEW a, IsModel(a), NEW e, IsModel(e), e.time >= s.end.time,
         NEW r, r = [start |-> a, end |-> e, log |-> s.log]
  PROVE  IsSession(r) /\ r.log = s.log
<1>1. r.start = a /\ r.end = e /\ r.log = s.log /\ r = [start |-> r.start, end |-> r.end, log |-> r.log]
  OBVIOUS
<1>2. ASSUME NEW n \in DOMAIN s.log PROVE NextTime(s.log[n]) <= e.time
  <2>1. NextTime(s.log[n]) <= s.end.time /\ IsPatch(s.log[n]) /\ IsModel(s.end)
    BY DEF IsSession, IsById
  <2>2. NextTime(s.log[n]) \in Nat
    BY <2>1, PatchFacts
  <2>3. s.end.time \in Nat /\ e.time \in Nat
    BY <2>1 DEF IsModel
  <2> QED
    BY <2>1, <2>2, <2>3
<1> QED
  BY <1>1, <1>2 DEF IsSession

LEMMA MergeOneOK ==
  ASSUME NEW s, IsSession(s), NEW p, IsPatch(p), NEW r, r = MergeOne(s, p)
  PROVE  IsSession(r) /\ r.log = s.log
<1>1. CASE p.id < s.end.time
  BY <1>1 DEF MergeOne
<1>2. CASE ~(p.id < s.end.time)
  <2> DEFINE a == ApplyPatch(s.start, p)
             e == ApplyPatch(s.end, p)
  <2>1. r = [s EXCEPT !.start = a, !.end = e]
    BY <1>2 DEF MergeOne
  <2>2. IsModel(s.start) /\ IsModel(s.end) /\ s = [start |-> s.start, end |-> s.end, log |-> s.log]
    BY DEF IsSession
  <2>3. IsModel(a) /\ IsModel(e) /\ e.time >= s.end.time
    BY <2>2, ApplyPatchOK
  <2> HIDE DEF a, e
  <2>4. r = [start |-> a, end |-> e, log |-> s.log]
    BY <2>1, <2>2
  <2> QED
    BY <2>3, <2>4, WithModels
<1> QED
  BY <1>1, <1>2

LEMMA MergeAllOK ==
  ASSUME NEW s, IsSession(s), NEW patches, IsBatch(patches), NEW r, r = MergeAll(s, patches)
  PROVE  IsSession(r) /\ r.log = s.log
<1> DEFINE n == Len(patches)
           step(x, i) == MergeOne(x, patches[i])
           Is(g, k) == g = [i \in 0..k |-> IF i = 0 THEN s ELSE step(g[i - 1], i)]
           Built == {k \in 0..n : \E g : Is(g, k)}
           after[i \in 0..Len(patches)] == IF i = 0 THEN s ELSE MergeOne(after[i - 1], patches[i])
           Good(k) == IsSession(after[k]) /\ after[k].log = s.log
           Through == {k \in 0..n : Good(k)}
<1>1. n \in Nat /\ \A i \in 1..n : IsPatch(patches[i])
  BY SeqFacts DEF IsBatch
<1>2. r = after[n]
  BY DEF MergeAll
<1>3. after = CHOOSE g : Is(g, n)
  OBVIOUS
<1> HIDE DEF after
<1>4. ASSUME NEW x, IsSession(x), NEW i \in 1..n
      PROVE  IsSession(step(x, i)) /\ step(x, i).log = x.log
  BY <1>1, <1>4, MergeOneOK
<1> HIDE DEF n, step
<1>5. 0..n \subseteq Built
  <2>1. 0 \in Built
    <3> DEFINE g == [i \in 0..0 |-> s]
    <3>1. Is(g, 0)
      OBVIOUS
    <3> HIDE DEF Is
    <3> QED
      BY <1>1, <3>1
  <2>2. ASSUME NEW k \in 1..n, k - 1 \in Built PROVE k \in Built
    <3>1. PICK g : Is(g, k - 1)
      BY <2>2
    <3> DEFINE h == [i \in 0..k |-> IF i = k THEN step(g[k - 1], k) ELSE g[i]]
    <3>2. \A i \in 0..k : h[i] = IF i = 0 THEN s ELSE step(h[i - 1], i)
      BY <1>1, <3>1
    <3>3. Is(h, k)
      BY <3>2
    <3> HIDE DEF Is
    <3> QED
      BY <1>1, <3>3
  <2> HIDE DEF Built
  <2> QED
    BY <1>1, <2>1, <2>2, Upward
<1>6. Is(after, n)
  <2> HIDE DEF Is
  <2> QED
    BY <1>1, <1>3, <1>5
<1>7. /\ after[0] = s
      /\ \A i \in 1..n : after[i] = step(after[i - 1], i)
  BY <1>1, <1>6
<1>8. 0..n \subseteq Through
  <2>1. 0 \in Through
    BY <1>1, <1>7
  <2>2. ASSUME NEW k \in 1..n, k - 1 \in Through PROVE k \in Through
    BY <1>1, <1>4, <1>7, <2>2
  <2> HIDE DEF Through
  <2> QED
    BY <1>1, <2>1, <2>2, Upward
<1> QED
  BY <1>1, <1>2, <1>8

LEMMA RebaseOnOK ==
  ASSUME NEW s, IsSession(s), NEW b, IsEvent(b), NEW r, r = RebaseOn(s, b)
  PROVE  Keeps(r, s)
<1> DEFINE begun == ApplyBatch(s.start, b)
           o == InOrder(s.log)
           t == NextTime(Last(b))
           moved == RebaseAll(o, t)
           e == ApplyBatch(Clone(begun), moved)
<1>1. r = IF s.log = <<>> THEN MergeAll(s, b)
          ELSE [start |-> begun, end |-> Clone(e), log |-> Put(<<>>, ToSet(moved))]
  BY DEF RebaseOn, ById
<1>2. /\ IsModel(s.start) /\ IsModel(s.end) /\ IsById(s.log)
      /\ IsSeq(b) /\ \A i \in DOMAIN b : IsPatch(b[i])
      /\ IsBatch(b)
  BY DEF IsSession, IsEvent, IsBatch
<1>3. IsModel(begun) /\ IsModel(Clone(begun))
  BY <1>2, ApplyBatchOK, CloneOK
<1>4. IsBatch(o) /\ ToSet(o) = Values(s.log) /\ IsSeq(o) /\ \A i \in DOMAIN o : IsPatch(o[i])
  <2>1. IsBatch(o) /\ ToSet(o) = Values(s.log)
    BY <1>2, InOrderOK
  <2> QED
    BY <2>1 DEF IsBatch
<1>5. t \in Nat \ {0}
  BY LastPatch
<1> HIDE DEF begun, o, t
<1>6. /\ IsBatch(moved) /\ DOMAIN moved = DOMAIN o
      /\ \A i \in DOMAIN o : moved[i].edit = o[i].edit
  BY <1>4, <1>5, RebaseAllOK
<1> HIDE DEF moved
<1>7. IsSeq(moved) /\ \A i \in DOMAIN moved : IsPatch(moved[i])
  BY <1>6 DEF IsBatch
<1>8. IsModel(e) /\ \A i \in DOMAIN moved : e.time >= NextTime(moved[i])
  BY <1>3, <1>7, ApplyBatchOK
<1> HIDE DEF e
<1>9. IsModel(Clone(e)) /\ Clone(e).time = e.time
  BY <1>8, CloneOK
<1> DEFINE l == Put(<<>>, ToSet(moved))
<1>10. IsById(l) /\ Values(l) = ToSet(moved) /\ \A n \in DOMAIN l : l[n] \in ToSet(moved)
  <2>1. /\ \A n \in DOMAIN <<>> : \A i \in DOMAIN moved : NextTime(<<>>[n]) <= moved[i].id
        /\ IsById(<<>>) /\ Values(<<>>) = {}
    BY EmptyById
  <2>2. /\ IsById(l) /\ Values(l) = Values(<<>>) \cup ToSet(moved)
        /\ \A n \in DOMAIN l : l[n] \in ToSet(moved) \/ n \in DOMAIN <<>>
    BY <1>6, <2>1, PutOK
  <2> QED
    BY <2>1, <2>2
<1> HIDE DEF l
<1>11. CASE s.log = <<>>
  <2>1. r = MergeAll(s, b)
    BY <1>1, <1>11
  <2> QED
    BY <1>2, <2>1, MergeAllOK DEF Keeps
<1>12. CASE s.log # <<>>
  <2>1. r = [start |-> begun, end |-> Clone(e), log |-> l]
    BY <1>1, <1>12 DEF l
  <2>2. \A n \in DOMAIN l : NextTime(l[n]) <= e.time
    <3> SUFFICES ASSUME NEW n \in DOMAIN l PROVE NextTime(l[n]) <= e.time
      OBVIOUS
    <3>1. PICK i \in DOMAIN moved : moved[i] = l[n]
      BY <1>7, <1>10, SeqSet
    <3>2. e.time >= NextTime(moved[i]) /\ NextTime(moved[i]) \in Nat /\ e.time \in Nat
      BY <1>7, <1>8, PatchFacts DEF IsModel
    <3> QED
      BY <3>1, <3>2
  <2>3. IsSession(r) /\ r.log = l
    BY <1>3, <1>9, <1>10, <2>1, <2>2 DEF IsSession
  <2>4. EditsOf(ToSet(moved)) = EditsOf(ToSet(o))
    BY <1>6, SameEdits
  <2> QED
    BY <1>4, <1>10, <2>3, <2>4 DEF Keeps
<1> QED
  BY <1>11, <1>12

LEMMA HandledOK ==
  ASSUME NEW s, IsSession(s), NEW batches, IsEvents(batches), NEW r, r = Handled(s, batches)
  PROVE  Keeps(r, s)
<1> DEFINE n == Len(batches)
           step(x, i) == RebaseOn(x, batches[i])
           Is(g, k) == g = [i \in 0..k |-> IF i = 0 THEN s ELSE step(g[i - 1], i)]
           Built == {k \in 0..n : \E g : Is(g, k)}
           after[i \in 0..Len(batches)] == IF i = 0 THEN s ELSE RebaseOn(after[i - 1], batches[i])
           Through == {k \in 0..n : Keeps(after[k], s)}
<1>1. n \in Nat /\ \A i \in 1..n : IsEvent(batches[i])
  BY SeqFacts DEF IsEvents
<1>2. r = after[n]
  BY DEF Handled
<1>3. after = CHOOSE g : Is(g, n)
  OBVIOUS
<1> HIDE DEF after
<1>4. ASSUME NEW x, Keeps(x, s), NEW i \in 1..n PROVE Keeps(step(x, i), s)
  <2>1. Keeps(step(x, i), x)
    BY <1>1, <1>4, RebaseOnOK DEF Keeps
  <2> QED
    BY <1>4, <2>1 DEF Keeps
<1> HIDE DEF n, step
<1>5. 0..n \subseteq Built
  <2>1. 0 \in Built
    <3> DEFINE g == [i \in 0..0 |-> s]
    <3>1. Is(g, 0)
      OBVIOUS
    <3> HIDE DEF Is
    <3> QED
      BY <1>1, <3>1
  <2>2. ASSUME NEW k \in 1..n, k - 1 \in Built PROVE k \in Built
    <3>1. PICK g : Is(g, k - 1)
      BY <2>2
    <3> DEFINE h == [i \in 0..k |-> IF i = k THEN step(g[k - 1], k) ELSE g[i]]
    <3>2. \A i \in 0..k : h[i] = IF i = 0 THEN s ELSE step(h[i - 1], i)
      BY <1>1, <3>1
    <3>3. Is(h, k)
      BY <3>2
    <3> HIDE DEF Is
    <3> QED
      BY <1>1, <3>3
  <2> HIDE DEF Built
  <2> QED
    BY <1>1, <2>1, <2>2, Upward
<1>6. Is(after, n)
  <2> HIDE DEF Is
  <2> QED
    BY <1>1, <1>3, <1>5
<1>7. /\ after[0] = s
      /\ \A i \in 1..n : after[i] = step(after[i - 1], i)
  BY <1>1, <1>6
<1>8. 0..n \subseteq Through
  <2>1. 0 \in Through
    BY <1>1, <1>7 DEF Keeps
  <2>2. ASSUME NEW k \in 1..n, k - 1 \in Through PROVE k \in Through
    BY <1>1, <1>4, <1>7, <2>2
  <2> HIDE DEF Through
  <2> QED
    BY <1>1, <2>1, <2>2, Upward
<1> QED
  BY <1>1, <1>2, <1>8

LEMMA ResetToOK ==
  ASSUME NEW s, IsSession(s), NEW m, IsModel(m), NEW r, r = ResetTo(s, m)
  PROVE  IsSession(r) /\ r.log = s.log
<1> DEFINE a == Clone(m)
           o == InOrder(s.log)
           e == ApplyBatch(a, o)
<1>1. r = [s EXCEPT !.start = a, !.end = e]
  BY DEF ResetTo
<1>2. IsById(s.log) /\ s = [start |-> s.start, end |-> s.end, log |-> s.log]
  BY DEF IsSession
<1>3. IsModel(a)
  BY CloneOK
<1>4. IsBatch(o) /\ ToSet(o) = Values(s.log)
  BY <1>2, InOrderOK
<1> HIDE DEF a, o
<1>5. IsSeq(o) /\ \A i \in DOMAIN o : IsPatch(o[i])
  BY <1>4 DEF IsBatch
<1>6. IsModel(e) /\ \A i \in DOMAIN o : e.time >= NextTime(o[i])
  BY <1>3, <1>5, ApplyBatchOK
<1> HIDE DEF e
<1>7. r = [start |-> a, end |-> e, log |-> s.log]
  BY <1>1, <1>2
<1>8. ASSUME NEW n \in DOMAIN s.log PROVE NextTime(s.log[n]) <= e.time
  <2>1. s.log[n] \in ToSet(o)
    BY <1>4 DEF Values
  <2>2. PICK i \in DOMAIN o : o[i] = s.log[n]
    BY <1>5, <2>1, SeqSet
  <2>3. e.time >= NextTime(o[i]) /\ NextTime(o[i]) \in Nat /\ e.time \in Nat
    BY <1>5, <1>6, PatchFacts DEF IsModel
  <2> QED
    BY <2>2, <2>3
<1> QED
  BY <1>2, <1>3, <1>6, <1>7, <1>8 DEF IsSession

-----------------------------------------------------------------------------
(* What the steps have in common.                                          *)

\* Nothing is lost: an edit is stored or pending.
LEMMA Accounts ==
  NothingLost <=>
    \A x : x \in 1..edits <=>
             (x \in EditsOf(Stored) \/ \E t \in Tab : x \in EditsOf(Values(log[t])))
<1> DEFINE all == {p.edit : p \in Stored \cup UNION {Values(log[t]) : t \in Tab}}
<1>1. \A x : x \in all <=> (x \in EditsOf(Stored) \/ \E t \in Tab : x \in EditsOf(Values(log[t])))
  BY DEF EditsOf
<1>2. NothingLost <=> all = 1..edits
  BY DEF NothingLost
<1> HIDE DEF all
<1> QED
  BY <1>1, <1>2

LEMMA AccountsAfter ==
  NothingLost' <=>
    \A x : x \in 1..edits' <=>
             (x \in EditsOf(Stored') \/ \E t \in Tab : x \in EditsOf(Values(log'[t])))
<1>1. NothingLost' <=>
        (\A x : x \in 1..edits <=>
           (x \in EditsOf(Stored) \/ \E t \in Tab : x \in EditsOf(Values(log[t]))))'
  BY Accounts, PTL
<1> QED
  BY <1>1

LEMMA SessionParts ==
  ASSUME NEW t
  PROVE  /\ Session(t).start = start[t] /\ Session(t).end = end[t] /\ Session(t).log = log[t]
         /\ Session(t) = [start |-> start[t], end |-> end[t], log |-> log[t]]
BY DEF Session

\* A tab's session is replaced.
LEMMA SetSessionOK ==
  ASSUME Types, NEW t \in Tab, NEW r, IsSession(r), SetSession(t, r)
  PROVE  /\ DOMAIN start' = Tab /\ DOMAIN end' = Tab /\ DOMAIN log' = Tab
         /\ Session(t)' = r /\ end'[t] = r.end /\ log'[t] = r.log
         /\ \A u \in Tab \ {t} : Session(u)' = Session(u) /\ end'[u] = end[u] /\ log'[u] = log[u]
<1>1. DOMAIN start = Tab /\ DOMAIN end = Tab /\ DOMAIN log = Tab
  BY DEF Types
<1>2. /\ start' = [start EXCEPT ![t] = r.start]
      /\ end' = [end EXCEPT ![t] = r.end]
      /\ log' = [log EXCEPT ![t] = r.log]
  BY DEF SetSession
<1>3. r = [start |-> r.start, end |-> r.end, log |-> r.log]
  BY DEF IsSession
<1> QED
  BY <1>1, <1>2, <1>3 DEF Session

\* Where the sessions stay as they are.
LEMMA SameSessions ==
  ASSUME Types, UNCHANGED <<start, end, log>>
  PROVE  /\ DOMAIN start' = Tab /\ DOMAIN end' = Tab /\ DOMAIN log' = Tab
         /\ \A u \in Tab : Session(u)' = Session(u) /\ end'[u] = end[u] /\ log'[u] = log[u]
BY DEF Types, Session

\* A log may take on patches that are later than all that was sent.
LEMMA SavingStays ==
  ASSUME NEW s, NEW m, NEW l, IsSaving(s, m, l),
         NEW n, n.time \in Nat, m.time \in Nat, n.time >= m.time,
         NEW k, \A i \in DOMAIN k : (i \in DOMAIN l /\ k[i] = l[i]) \/ (i \in Nat /\ i >= m.time),
         Values(l) \subseteq Values(k)
  PROVE  IsSaving(s, n, k)
<1>1. CASE s = Idle
  BY <1>1 DEF IsSaving
<1>2. CASE s # Idle
  <2>1. CASE s.sent = <<>>
    BY <1>2, <2>1 DEF IsSaving
  <2>2. CASE s.sent # <<>>
    <3>1. /\ Last(s.sent).id < m.time /\ IsBatch(s.sent)
          /\ \A i \in DOMAIN l : i <= Last(s.sent).id => l[i] \in ToSet(s.sent)
      BY <1>2, <2>2 DEF IsSaving
    <3>2. Last(s.sent).id \in Nat
      BY <2>2, <3>1, LastPatch, PatchFacts DEF IsEvent
    <3>3. /\ Last(s.sent).id < n.time
          /\ \A i \in DOMAIN k : i <= Last(s.sent).id => k[i] \in ToSet(s.sent)
      BY <3>1, <3>2
    <3> QED
      BY <1>2, <3>3 DEF IsSaving
  <2> QED
    BY <2>1, <2>2
<1> QED
  BY <1>1, <1>2

\* A sync() ends: what the session drops of its log is in the frontier.
LEMMA FinishOK ==
  ASSUME IndInv, NEW t \in Tab, NEW s, IsSession(s), Finish(t, s), saving[t].stage # "write",
         \A x \in EditsOf(Values(log[t])) : x \in EditsOf(Values(s.log)) \/ x \in EditsOf(Stored),
         EditsOf(Values(s.log)) \subseteq EditsOf(Values(log[t]))
  PROVE  IndInv'
<1> DEFINE r == Handled(s, events[t])
<1>1. /\ SetSession(t, r)
      /\ events' = [events EXCEPT ![t] = <<>>]
      /\ saving' = [saving EXCEPT ![t] = Idle]
      /\ UNCHANGED <<queued, inbox, frontier, lock, timeouts, edits>>
  BY DEF Finish
<1>2. Types /\ Savings /\ Locking /\ NothingLost
  BY DEF IndInv
<1>3. IsEvents(events[t])
  BY <1>2 DEF Types
<1>4. IsSession(r) /\ EditsOf(Values(r.log)) = EditsOf(Values(s.log))
  BY <1>3, HandledOK DEF Keeps
<1> HIDE DEF r
<1>5. /\ DOMAIN start' = Tab /\ DOMAIN end' = Tab /\ DOMAIN log' = Tab
      /\ Session(t)' = r /\ end'[t] = r.end /\ log'[t] = r.log
      /\ \A u \in Tab \ {t} : Session(u)' = Session(u) /\ end'[u] = end[u] /\ log'[u] = log[u]
  BY <1>1, <1>2, <1>4, SetSessionOK
<1>6. Types'
  <2>1. IsEvents(<<>>)
    BY ShortSeqs DEF IsEvents
  <2>2. ASSUME NEW u \in Tab
        PROVE  IsSession(Session(u)') /\ IsEvents(events'[u]) /\ IsEvents(inbox'[u]) /\ queued'[u] \in 0..edits'
    BY <1>1, <1>2, <1>4, <1>5, <2>1 DEF Types
  <2> QED
    BY <1>1, <1>2, <1>5, <2>2 DEF Types
<1>7. Savings'
  <2>1. ASSUME NEW u \in Tab
        PROVE  /\ IsSaving(saving'[u], end'[u], log'[u])
               /\ saving'[u].stage = "write" => lock' = u /\ IsPlaced(saving'[u], frontier')
               /\ saving'[u].stage \in {"read", "done"} =>
                    EditsOf(ToSet(saving'[u].sent)) \subseteq EditsOf(Stored')
    <3>1. CASE u = t
      <4>1. saving'[u] = Idle
        BY <1>1, <1>2, <3>1 DEF Types
      <4> QED
        BY <4>1 DEF IsSaving, Idle
    <3>2. CASE u # t
      <4>1. saving'[u] = saving[u] /\ end'[u] = end[u] /\ log'[u] = log[u]
        BY <1>1, <1>2, <1>5, <3>2 DEF Types
      <4>2. Stored' = Stored
        BY <1>1 DEF Stored
      <4> QED
        BY <1>1, <1>2, <4>1, <4>2 DEF Savings
    <3> QED
      BY <3>1, <3>2
  <2> QED
    BY <2>1 DEF Savings
<1>8. Locking'
  <2>1. ASSUME lock # NoTab PROVE lock \in Tab /\ saving'[lock].stage = "write"
    <3>1. lock \in Tab /\ saving[lock].stage = "write"
      BY <1>2, <2>1 DEF Locking, Stage
    <3>2. lock # t /\ DOMAIN saving = Tab
      BY <1>2, <3>1 DEF Types
    <3> QED
      BY <1>1, <3>1, <3>2
  <2> QED
    BY <1>1, <2>1 DEF Locking, Stage
<1>9. NothingLost'
  <2>1. Stored' = Stored /\ edits' = edits
    BY <1>1 DEF Stored
  <2>2. ASSUME NEW x
        PROVE  (x \in EditsOf(Stored) \/ \E u \in Tab : x \in EditsOf(Values(log'[u])))
                 <=> (x \in EditsOf(Stored) \/ \E u \in Tab : x \in EditsOf(Values(log[u])))
    <3>1. EditsOf(Values(log'[t])) = EditsOf(Values(s.log))
      BY <1>4, <1>5
    <3> QED
      BY <1>5, <3>1
  <2> QED
    BY <1>2, <2>1, <2>2, Accounts, AccountsAfter
<1> QED
  BY <1>6, <1>7, <1>8, <1>9 DEF IndInv

-----------------------------------------------------------------------------
(* The steps.                                                              *)

LEMMA InitOK == Init => IndInv
<1> SUFFICES ASSUME Init PROVE IndInv
  OBVIOUS
<1>1. IsModel(EmptyModel) /\ EmptyModel.time = 1
  BY DEF IsModel, EmptyModel
<1>2. IsById(<<>>) /\ Values(<<>>) = {} /\ DOMAIN <<>> = {}
  BY EmptyById
<1>3. ASSUME NEW t \in Tab PROVE IsSession(Session(t))
  <2>1. Session(t) = [start |-> EmptyModel, end |-> EmptyModel, log |-> <<>>]
    BY DEF Session, Init
  <2> HIDE DEF EmptyModel
  <2> QED
    BY <1>1, <1>2, <2>1 DEF IsSession
<1>4. IsEvents(<<>>)
  BY ShortSeqs DEF IsEvents
<1>5. Types
  BY <1>2, <1>3, <1>4, MaxEditsAssumption DEF Types, Init
<1>6. Savings
  BY DEF Savings, IsSaving, Init, Idle
<1>7. NothingLost
  <2>1. EditsOf(Stored) = {} /\ \A t \in Tab : EditsOf(Values(log[t])) = {}
    BY <1>2 DEF Init, Stored, EditsOf
  <2>2. 1..edits = {}
    BY DEF Init
  <2> QED
    BY <2>1, <2>2, Accounts
<1> QED
  BY <1>5, <1>6, <1>7 DEF IndInv, Locking, Init

\* Of a tab, what is said in Types
LEMMA TabTypes ==
  ASSUME Types, NEW t \in Tab
  PROVE  /\ IsModel(start[t]) /\ IsModel(end[t]) /\ IsById(log[t]) /\ IsSession(Session(t))
         /\ \A n \in DOMAIN log[t] : NextTime(log[t][n]) <= end[t].time
         /\ end[t].time \in Nat \ {0}
<1>1. IsSession(Session(t))
  BY DEF Types
<1>2. /\ IsModel(start[t]) /\ IsModel(end[t]) /\ IsById(log[t])
      /\ \A n \in DOMAIN log[t] : NextTime(log[t][n]) <= end[t].time
  BY <1>1, SessionParts DEF IsSession
<1> QED
  BY <1>1, <1>2 DEF IsModel

LEMMA OnePatch ==
  ASSUME NEW p, IsPatch(p)
  PROVE  IsBatch(<<p>>) /\ ToSet(<<p>>) = {p} /\ DOMAIN <<p>> = {1} /\ <<p>>[1] = p
<1>1. IsSeq(<<p>>) /\ Len(<<p>>) = 1 /\ <<p>>[1] = p
  BY ShortSeqs
<1>2. DOMAIN <<p>> = {1}
  BY <1>1, SeqFacts
<1> QED
  BY <1>1, <1>2 DEF IsBatch, ToSet

LEMMA EditOK ==
  ASSUME IndInv, NEW t \in Tab, NEW ops, IsSeq(ops), Len(ops) # 0, Edit(t, ops)
  PROVE  IndInv'
<1> DEFINE p == [id |-> end[t].time, ops |-> ops, edit |-> edits + 1]
           m == ApplyPatch(end[t], p)
           l == Put(log[t], {p})
           r == [start |-> start[t], end |-> m, log |-> l]
<1>1. /\ edits < MaxEdits /\ edits' = edits + 1
      /\ end' = [end EXCEPT ![t] = m]
      /\ log' = [log EXCEPT ![t] = l]
      /\ queued' = [queued EXCEPT ![t] = @ + 1]
      /\ UNCHANGED <<start, saving, events, inbox, frontier, lock, timeouts>>
  BY DEF Edit
<1>2. Types /\ Savings /\ Locking /\ NothingLost /\ edits \in Nat
  BY MaxEditsAssumption DEF IndInv, Types
<1>3. /\ IsModel(start[t]) /\ IsModel(end[t]) /\ IsById(log[t]) /\ end[t].time \in Nat \ {0}
      /\ \A n \in DOMAIN log[t] : NextTime(log[t][n]) <= end[t].time
  BY <1>2, TabTypes
<1>4. IsPatch(p) /\ p.id = end[t].time /\ p.edit = edits + 1
  BY <1>3 DEF IsPatch
<1> HIDE DEF p
<1>5. IsModel(m) /\ m.time >= end[t].time /\ m.time >= NextTime(p) /\ m.time \in Nat /\ NextTime(p) \in Nat
  BY <1>3, <1>4, ApplyPatchOK, PatchFacts DEF IsModel
<1>6. /\ IsById(l) /\ Values(l) = Values(log[t]) \cup {p}
      /\ \A n \in DOMAIN l : l[n] = p \/ (n \in DOMAIN log[t] /\ l[n] = log[t][n])
  <2>1. PICK b : b = <<p>>
    OBVIOUS
  <2>2. IsBatch(b) /\ ToSet(b) = {p} /\ DOMAIN b = {1} /\ b[1] = p
    BY <1>4, <2>1, OnePatch
  <2>3. \A n \in DOMAIN log[t] : \A i \in DOMAIN b : NextTime(log[t][n]) <= b[i].id
    BY <1>3, <1>4, <2>2
  <2>5. PICK f : f = log[t]
    OBVIOUS
  <2>4. PICK k : k = Put(f, ToSet(b))
    OBVIOUS
  <2>6. IsById(f) /\ \A n \in DOMAIN f : \A i \in DOMAIN b : NextTime(f[n]) <= b[i].id
    BY <1>3, <2>3, <2>5
  <2>7. /\ IsById(k) /\ Values(k) = Values(f) \cup ToSet(b)
        /\ \A n \in DOMAIN k : k[n] \in ToSet(b) \/ (n \in DOMAIN f /\ k[n] = f[n])
    <3>1. IsBatch(b)
      BY <2>2
    <3> QED
      BY <2>4, <2>6, <3>1, PutOK
  <2>8. l = k
    BY <2>2, <2>4, <2>5
  <2> HIDE DEF l
  <2> QED
    BY <2>2, <2>5, <2>7, <2>8
<1> HIDE DEF m, l
<1>7. IsSession(r)
  <2>1. ASSUME NEW n \in DOMAIN l PROVE NextTime(l[n]) <= m.time
    <3>1. CASE l[n] = p
      BY <1>5, <3>1
    <3>2. CASE n \in DOMAIN log[t] /\ l[n] = log[t][n]
      <4>1. NextTime(l[n]) <= end[t].time /\ NextTime(l[n]) \in Nat
        BY <1>3, <1>6, <3>2, PatchFacts DEF IsById
      <4> QED
        BY <1>3, <1>5, <4>1
    <3> QED
      BY <1>6, <3>1, <3>2
  <2> QED
    BY <1>3, <1>5, <1>6, <2>1 DEF IsSession
<1>8. /\ DOMAIN start' = Tab /\ DOMAIN end' = Tab /\ DOMAIN log' = Tab
      /\ Session(t)' = r /\ end'[t] = m /\ log'[t] = l
      /\ \A u \in Tab \ {t} : Session(u)' = Session(u) /\ end'[u] = end[u] /\ log'[u] = log[u]
  BY <1>1, <1>2 DEF Types, Session
<1>9. Types'
  <2>1. ASSUME NEW u \in Tab
        PROVE  /\ IsSession(Session(u)') /\ IsEvents(events'[u]) /\ IsEvents(inbox'[u])
               /\ queued'[u] \in 0..edits'
    <3>1. IsSession(Session(u)')
      BY <1>2, <1>7, <1>8 DEF Types
    <3>2. queued[u] \in 0..edits /\ (queued'[u] = queued[u] \/ queued'[u] = queued[u] + 1)
      BY <1>1, <1>2 DEF Types
    <3>3. queued'[u] \in 0..edits'
      BY <1>1, <1>2, <3>2
    <3> QED
      BY <1>1, <1>2, <3>1, <3>3 DEF Types
  <2>2. queued' = [u \in Tab |-> queued'[u]] /\ DOMAIN queued' = Tab
    BY <1>1, <1>2 DEF Types
  <2>3. edits' \in 0..MaxEdits
    BY <1>1, <1>2, MaxEditsAssumption
  <2> QED
    BY <1>1, <1>2, <1>8, <2>1, <2>2, <2>3 DEF Types
<1>10. Savings'
  <2>1. ASSUME NEW u \in Tab
        PROVE  IsSaving(saving[u], end'[u], log'[u])
    <3>1. IsSaving(saving[u], end[u], log[u])
      BY <1>2 DEF Savings
    <3>2. CASE u = t
      <4>1. \A i \in DOMAIN l : (i \in DOMAIN log[t] /\ l[i] = log[t][i]) \/ (i \in Nat /\ i >= end[t].time)
        BY <1>3, <1>4, <1>6 DEF IsById
      <4> QED
        BY <1>3, <1>5, <1>6, <1>8, <3>1, <3>2, <4>1, SavingStays
    <3>3. CASE u # t
      BY <1>8, <3>1, <3>3
    <3> QED
      BY <3>2, <3>3
  <2> QED
    BY <1>1, <1>2, <2>1 DEF Savings, Stored
<1>11. Locking'
  BY <1>1, <1>2 DEF Locking, Stage
<1>12. NothingLost'
  <2>1. Stored' = Stored /\ \A x : x \in 1..edits' <=> (x \in 1..edits \/ x = edits + 1)
    BY <1>1, <1>2 DEF Stored
  <2>2. EditsOf(Values(log'[t])) = EditsOf(Values(log[t])) \cup {edits + 1}
    BY <1>4, <1>6, <1>8 DEF EditsOf
  <2>3. ASSUME NEW x
        PROVE  (\E u \in Tab : x \in EditsOf(Values(log'[u])))
                 <=> ((\E u \in Tab : x \in EditsOf(Values(log[u]))) \/ x = edits + 1)
    BY <1>8, <2>2
  <2> QED
    BY <1>2, <2>1, <2>3, Accounts, AccountsAfter
<1> QED
  BY <1>9, <1>10, <1>11, <1>12 DEF IndInv

\* The event is handled at once, or held back.
LEMMA ReceiveOK ==
  ASSUME IndInv, NEW t \in Tab, Receive(t)
  PROVE  IndInv'
<1>1. Types /\ Savings /\ Locking /\ NothingLost
  BY DEF IndInv
<1>2. PICK q, b : q = Tail(inbox[t]) /\ b = Head(inbox[t])
  OBVIOUS
<1>3. IsEvents(q) /\ IsEvent(b)
  <2>1. PICK s : s = inbox[t]
    OBVIOUS
  <2>2. IsSeq(s) /\ s # <<>> /\ \A i \in DOMAIN s : IsEvent(s[i])
    BY <1>1, <2>1 DEF Types, IsEvents, Receive
  <2>3. IsSeq(s) /\ s # <<>>
    BY <2>2
  <2>4. q = Tail(s) /\ b = Head(s)
    BY <1>2, <2>1
  <2>5. /\ IsSeq(q) /\ \A i \in DOMAIN q : i + 1 \in DOMAIN s /\ q[i] = s[i + 1]
        /\ b = s[1] /\ 1 \in DOMAIN s
    BY <2>3, <2>4, TailSeq
  <2> QED
    BY <2>2, <2>5 DEF IsEvents
<1>4. UNCHANGED <<saving, queued, frontier, lock, timeouts, edits>> /\ inbox' = [inbox EXCEPT ![t] = q]
  BY <1>2 DEF Receive
<1>5. Locking'
  BY <1>1, <1>4 DEF Locking, Stage
<1>6. Stored' = Stored
  BY <1>4 DEF Stored
<1>7. CASE saving[t] = Idle
  <2> DEFINE r == RebaseOn(Session(t), b)
  <2>1. SetSession(t, r) /\ UNCHANGED events
    BY <1>2, <1>7 DEF Receive
  <2>2. IsSession(r) /\ EditsOf(Values(r.log)) = EditsOf(Values(log[t]))
    BY <1>1, <1>3, RebaseOnOK, TabTypes, SessionParts DEF Keeps
  <2> HIDE DEF r
  <2>3. /\ DOMAIN start' = Tab /\ DOMAIN end' = Tab /\ DOMAIN log' = Tab
        /\ Session(t)' = r /\ end'[t] = r.end /\ log'[t] = r.log
        /\ \A u \in Tab \ {t} : Session(u)' = Session(u) /\ end'[u] = end[u] /\ log'[u] = log[u]
    BY <1>1, <2>1, <2>2, SetSessionOK
  <2>4. Types'
    <3>1. ASSUME NEW u \in Tab
          PROVE  /\ IsSession(Session(u)') /\ IsEvents(events'[u]) /\ IsEvents(inbox'[u])
                 /\ queued'[u] \in 0..edits'
      BY <1>1, <1>3, <1>4, <2>1, <2>2, <2>3 DEF Types
    <3> QED
      BY <1>1, <1>4, <2>1, <2>3, <3>1 DEF Types
  <2>5. Savings'
    <3>1. ASSUME NEW u \in Tab PROVE IsSaving(saving[u], end'[u], log'[u])
      <4>1. CASE u = t
        BY <1>7, <4>1 DEF IsSaving
      <4>2. CASE u # t
        BY <1>1, <2>3, <4>2 DEF Savings
      <4> QED
        BY <4>1, <4>2
    <3> QED
      BY <1>1, <1>4, <1>6, <3>1 DEF Savings
  <2>6. NothingLost'
    <3>1. ASSUME NEW x
          PROVE  (\E u \in Tab : x \in EditsOf(Values(log'[u])))
                   <=> \E u \in Tab : x \in EditsOf(Values(log[u]))
      BY <2>2, <2>3
    <3> QED
      BY <1>1, <1>4, <1>6, <3>1, Accounts, AccountsAfter
  <2> QED
    BY <1>5, <2>4, <2>5, <2>6 DEF IndInv
<1>8. CASE saving[t] # Idle
  <2>1. events' = [events EXCEPT ![t] = Append(@, b)] /\ UNCHANGED <<start, end, log>>
    BY <1>2, <1>8 DEF Receive
  <2>2. PICK e, f : e = events[t] /\ f = Append(e, b)
    OBVIOUS
  <2>3. IsEvents(f)
    <3>1. IsEvents(e)
      BY <1>1, <2>2 DEF Types
    <3> QED
      BY <1>3, <2>2, <3>1, EventsAppend
  <2>4. /\ DOMAIN start' = Tab /\ DOMAIN end' = Tab /\ DOMAIN log' = Tab
        /\ \A u \in Tab : Session(u)' = Session(u) /\ end'[u] = end[u] /\ log'[u] = log[u]
    BY <1>1, <2>1, SameSessions
  <2>5. Types'
    <3>1. ASSUME NEW u \in Tab
          PROVE  /\ IsSession(Session(u)') /\ IsEvents(events'[u]) /\ IsEvents(inbox'[u])
                 /\ queued'[u] \in 0..edits'
      BY <1>1, <1>3, <1>4, <2>1, <2>2, <2>3, <2>4 DEF Types
    <3> QED
      BY <1>1, <1>4, <2>1, <2>4, <3>1 DEF Types
  <2>6. Savings'
    BY <1>1, <1>4, <1>6, <2>4 DEF Savings
  <2>7. NothingLost'
    BY <1>1, <1>4, <1>6, <2>4, Accounts, AccountsAfter
  <2> QED
    BY <1>5, <2>5, <2>6, <2>7 DEF IndInv
<1> QED
  BY <1>7, <1>8

\* A step of a sync() in which neither session nor frontier change
LEMMA SavingStep ==
  ASSUME IndInv, NEW t \in Tab, NEW s,
         UNCHANGED <<start, end, log, events, frontier, edits>>,
         saving' = [saving EXCEPT ![t] = s],
         IsSaving(s, end[t], log[t]),
         s.stage \in {"read", "done"} => EditsOf(ToSet(s.sent)) \subseteq EditsOf(Stored),
         s.stage = "write" => lock' = t /\ IsPlaced(s, frontier),
         \/ lock' = lock /\ saving[t].stage # "write"
         \/ lock = NoTab /\ lock' = t /\ s.stage = "write",
         DOMAIN inbox' = Tab, \A u \in Tab : IsEvents(inbox'[u]),
         queued' = [u \in Tab |-> queued'[u]], \A u \in Tab : queued'[u] \in 0..edits
  PROVE  IndInv'
<1>1. Types /\ Savings /\ Locking /\ NothingLost
  BY DEF IndInv
<1>2. /\ DOMAIN start' = Tab /\ DOMAIN end' = Tab /\ DOMAIN log' = Tab
      /\ \A u \in Tab : Session(u)' = Session(u) /\ end'[u] = end[u] /\ log'[u] = log[u]
  BY <1>1, SameSessions
<1>3. Stored' = Stored
  BY DEF Stored
<1>4. Types'
  <2>1. ASSUME NEW u \in Tab
        PROVE  /\ IsSession(Session(u)') /\ IsEvents(events'[u]) /\ IsEvents(inbox'[u])
               /\ queued'[u] \in 0..edits'
    BY <1>1, <1>2 DEF Types
  <2>2. DOMAIN saving' = Tab /\ DOMAIN queued' = Tab
    BY <1>1 DEF Types
  <2> QED
    BY <1>1, <1>2, <2>1, <2>2 DEF Types
<1>5. saving'[t] = s /\ \A u \in Tab \ {t} : saving'[u] = saving[u]
  BY <1>1 DEF Types
<1>6. Savings'
  <2>1. ASSUME NEW u \in Tab
        PROVE  /\ IsSaving(saving'[u], end'[u], log'[u])
               /\ saving'[u].stage = "write" => lock' = u /\ IsPlaced(saving'[u], frontier')
               /\ saving'[u].stage \in {"read", "done"} =>
                    EditsOf(ToSet(saving'[u].sent)) \subseteq EditsOf(Stored')
    <3>1. CASE u = t
      BY <1>2, <1>3, <1>5, <3>1
    <3>2. CASE u # t
      <4>1. saving'[u] = saving[u] /\ end'[u] = end[u] /\ log'[u] = log[u]
        BY <1>2, <1>5, <3>2
      <4>2. saving[u].stage = "write" => lock' = u /\ lock = u
        BY <1>1, TabAssumption DEF Savings
      <4> QED
        BY <1>1, <1>3, <4>1, <4>2 DEF Savings
    <3> QED
      BY <3>1, <3>2
  <2> QED
    BY <2>1 DEF Savings
<1>7. Locking'
  <2>1. CASE lock' = lock /\ saving[t].stage # "write"
    BY <1>1, <1>5, <2>1 DEF Locking, Stage
  <2>2. CASE lock = NoTab /\ lock' = t /\ s.stage = "write"
    BY <1>5, <2>2 DEF Locking, Stage
  <2> QED
    BY <2>1, <2>2
<1>8. NothingLost'
  BY <1>1, <1>2, <1>3, Accounts, AccountsAfter
<1> QED
  BY <1>4, <1>6, <1>7, <1>8 DEF IndInv

LEMMA SyncBeginOK ==
  ASSUME IndInv, NEW t \in Tab, SyncBegin(t)
  PROVE  IndInv'
<1> DEFINE o == InOrder(log[t])
           s == [stage |-> IF log[t] = <<>> THEN "getIf" ELSE "merge", model |-> NoModel,
                 sent |-> o, placed |-> <<>>, time |-> end[t].time - 1]
<1>1. Types /\ Savings /\ Locking /\ NothingLost /\ edits \in Nat
  BY MaxEditsAssumption DEF IndInv, Types
<1>2. /\ saving[t] = Idle /\ queued[t] > 0
      /\ queued' = [queued EXCEPT ![t] = @ - 1]
      /\ saving' = [saving EXCEPT ![t] = s]
      /\ UNCHANGED <<start, end, log, events, inbox, frontier, lock, timeouts, edits>>
  BY DEF SyncBegin
<1>3. /\ IsById(log[t]) /\ end[t].time \in Nat \ {0}
      /\ \A n \in DOMAIN log[t] : NextTime(log[t][n]) <= end[t].time
  BY <1>1, TabTypes
<1>4. /\ IsBatch(o) /\ ToSet(o) = Values(log[t])
      /\ o = <<>> <=> log[t] = <<>>
      /\ o # <<>> => Last(o) \in Values(log[t])
  BY <1>3, InOrderOK
<1> HIDE DEF o
<1>5. ASSUME o # <<>> PROVE Last(o).id < end[t].time
  <2>1. PICK n \in DOMAIN log[t] : log[t][n] = Last(o)
    BY <1>4, <1>5 DEF Values
  <2>2. IsPatch(Last(o)) /\ NextTime(Last(o)) <= end[t].time
    BY <1>3, <2>1 DEF IsById
  <2>3. /\ NextTime(Last(o)) = Last(o).id + Span(Last(o)) /\ Span(Last(o)) \in Nat \ {0}
        /\ Last(o).id \in Nat
    BY <2>2, PatchFacts
  <2> QED
    BY <1>3, <2>2, <2>3
<1>6. \A n \in DOMAIN log[t] : log[t][n] \in ToSet(o)
  BY <1>4 DEF Values
<1>7. /\ s.stage = IF log[t] = <<>> THEN "getIf" ELSE "merge"
      /\ s.model = NoModel /\ s.sent = o
      /\ s = [stage |-> s.stage, model |-> s.model, sent |-> s.sent, placed |-> s.placed, time |-> s.time]
  OBVIOUS
<1> HIDE DEF s
<1>8. IsSaving(s, end[t], log[t])
  BY <1>4, <1>5, <1>6, <1>7 DEF IsSaving
<1>9. queued' = [u \in Tab |-> queued'[u]] /\ \A u \in Tab : queued'[u] \in 0..edits
  <2>1. queued' = [u \in Tab |-> IF u = t THEN queued[t] - 1 ELSE queued[u]]
    BY <1>1, <1>2 DEF Types
  <2>2. queued' = [u \in Tab |-> queued'[u]]
    BY <2>1
  <2>3. ASSUME NEW u \in Tab PROVE queued'[u] \in 0..edits
    <3>1. queued[u] \in 0..edits /\ queued[t] \in 0..edits
      BY <1>1 DEF Types
    <3>2. queued'[u] = IF u = t THEN queued[t] - 1 ELSE queued[u]
      BY <2>1
    <3> QED
      BY <1>1, <1>2, <3>1, <3>2
  <2> QED
    BY <2>2, <2>3
<1>10. saving[t].stage # "write" /\ s.stage \notin {"write", "read", "done"}
  BY <1>2, <1>7 DEF Idle
<1>11. DOMAIN inbox' = Tab /\ \A u \in Tab : IsEvents(inbox'[u])
  BY <1>1, <1>2 DEF Types
<1> QED
  BY <1>2, <1>8, <1>9, <1>10, <1>11, SavingStep

LEMMA ReplayOK ==
  ASSUME Types
  PROVE  IsModel(Replay)
<1>1. IsById(frontier)
  BY DEF Types
<1>2. PICK o : o = InOrder(frontier)
  OBVIOUS
<1>3. IsSeq(o) /\ \A i \in DOMAIN o : IsPatch(o[i])
  BY <1>1, <1>2, InOrderOK DEF IsBatch
<1>4. IsModel(EmptyModel)
  BY DEF IsModel, EmptyModel
<1>5. IsModel(ApplyBatch(EmptyModel, o))
  BY <1>3, <1>4, ApplyBatchOK
<1> QED
  BY <1>2, <1>5 DEF Replay

\* The answer a sync() gets
Answer(s, g, a) == [s EXCEPT !.stage = g, !.model = a]

LEMMA Answered ==
  ASSUME NEW s, NEW m, NEW l, IsSaving(s, m, l), s # Idle,
         NEW g, g = "done" \/ (g = "read" /\ s.stage # "getIf"),
         NEW a, a = NoModel \/ (a = <<a[1]>> /\ IsModel(a[1])),
         NEW r, r = Answer(s, g, a)
  PROVE  IsSaving(r, m, l) /\ r.stage = g /\ r.sent = s.sent
<1>5. r = [s EXCEPT !.stage = g, !.model = a]
  BY DEF Answer
<1>1. s = [stage |-> s.stage, model |-> s.model, sent |-> s.sent, placed |-> s.placed, time |-> s.time]
  BY DEF IsSaving
<1>2. r = [stage |-> g, model |-> a, sent |-> s.sent, placed |-> s.placed, time |-> s.time]
  BY <1>1, <1>5
<1>3. /\ r.stage = g /\ r.model = a /\ r.sent = s.sent
      /\ r = [stage |-> r.stage, model |-> r.model, sent |-> r.sent, placed |-> r.placed, time |-> r.time]
  BY <1>2
<1> HIDE DEF NoModel
<1>4. r.model = NoModel \/ (r.model = <<r.model[1]>> /\ IsModel(r.model[1]))
  BY <1>3
<1> QED
  BY <1>3, <1>4 DEF IsSaving

\* What SavingStep asks of queued and inbox, where they stay
LEMMA SameQueues ==
  ASSUME Types, UNCHANGED <<queued, inbox, edits>>
  PROVE  /\ DOMAIN inbox' = Tab /\ \A u \in Tab : IsEvents(inbox'[u])
         /\ queued' = [u \in Tab |-> queued'[u]] /\ \A u \in Tab : queued'[u] \in 0..edits
BY DEF Types

LEMMA GetIfOK ==
  ASSUME IndInv, NEW t \in Tab, GetIf(t)
  PROVE  IndInv'
<1>1. Types /\ Savings /\ Locking /\ NothingLost
  BY DEF IndInv
<1>2. PICK a :
        /\ a = IF frontier # <<>> /\ saving[t].time < NextTime(Tip) - 1 THEN <<Replay>> ELSE NoModel
        /\ saving' = [saving EXCEPT ![t].stage = "done", ![t].model = a]
        /\ saving[t].stage = "getIf"
        /\ UNCHANGED <<start, end, log, queued, events, inbox, frontier, lock, timeouts, edits>>
  BY DEF GetIf, Stage
<1>3. a = NoModel \/ (a = <<a[1]>> /\ IsModel(a[1]))
  BY <1>1, <1>2, ReplayOK
<1>4. PICK s, old : old = saving[t] /\ s = Answer(old, "done", a)
  OBVIOUS
<1>5. saving' = [saving EXCEPT ![t] = s]
  BY <1>1, <1>2, <1>4 DEF Types, Answer
<1>6. IsSaving(old, end[t], log[t]) /\ old # Idle /\ old.sent = <<>>
  BY <1>1, <1>2, <1>4 DEF Savings, Idle, IsSaving
<1>7. IsSaving(s, end[t], log[t]) /\ s.stage = "done" /\ s.sent = old.sent
  BY <1>3, <1>4, <1>6, Answered
<1>8. EditsOf(ToSet(s.sent)) \subseteq EditsOf(Stored)
  <2>1. ToSet(<<>>) = {}
    BY ShortSeqs DEF ToSet
  <2> QED
    BY <1>6, <1>7, <2>1 DEF EditsOf
<1>9. lock' = lock /\ saving[t].stage # "write" /\ s.stage # "write"
  BY <1>2, <1>7
<1> QED
  BY <1>1, <1>2, <1>5, <1>7, <1>8, <1>9, SameQueues, SavingStep

\* The stage read comes of a merge whose edits are stored.
LEMMA MergeReadOK ==
  ASSUME IndInv, NEW t \in Tab, MergeRead(t)
  PROVE  IndInv'
<1>1. Types /\ Savings /\ Locking /\ NothingLost
  BY DEF IndInv
<1>2. PICK a :
        /\ a = <<Replay>>
        /\ saving' = [saving EXCEPT ![t].stage = "done", ![t].model = a]
        /\ saving[t].stage = "read"
        /\ UNCHANGED <<start, end, log, queued, events, inbox, frontier, lock, timeouts, edits>>
  BY DEF MergeRead, Stage
<1>3. a = <<a[1]>> /\ IsModel(a[1])
  BY <1>1, <1>2, ReplayOK
<1>4. PICK s, old : old = saving[t] /\ s = Answer(old, "done", a)
  OBVIOUS
<1>5. saving' = [saving EXCEPT ![t] = s]
  BY <1>1, <1>2, <1>4 DEF Types, Answer
<1>6. /\ IsSaving(old, end[t], log[t]) /\ old # Idle
      /\ EditsOf(ToSet(old.sent)) \subseteq EditsOf(Stored)
  BY <1>1, <1>2, <1>4 DEF Savings, Idle
<1>7. IsSaving(s, end[t], log[t]) /\ s.stage = "done" /\ s.sent = old.sent
  BY <1>3, <1>4, <1>6, Answered
<1>8. EditsOf(ToSet(s.sent)) \subseteq EditsOf(Stored)
  BY <1>6, <1>7
<1>9. lock' = lock /\ saving[t].stage # "write" /\ s.stage # "write"
  BY <1>2, <1>7
<1> QED
  BY <1>1, <1>2, <1>5, <1>7, <1>8, <1>9, SameQueues, SavingStep

\* The tip of the frontier is its last patch.
LEMMA TipOK ==
  ASSUME Types, frontier # <<>>
  PROVE  /\ NextTime(Tip) \in Nat \ {0}
         /\ \A n \in DOMAIN frontier : NextTime(frontier[n]) <= NextTime(Tip)
<1>1. PICK f, o : f = frontier /\ o = InOrder(f)
  OBVIOUS
<1>2. IsById(f) /\ f # <<>>
  BY <1>1 DEF Types
<1>3. /\ Last(o) \in Values(f)
      /\ \A n \in DOMAIN f : n <= Last(o).id /\ NextTime(f[n]) <= NextTime(Last(o))
  BY <1>1, <1>2, InOrderOK
<1>4. PICK k \in DOMAIN f : f[k] = Last(o)
  BY <1>3 DEF Values
<1>5. /\ \A n \in DOMAIN f : IsPatch(f[n]) /\ f[n].id = n /\ n \in Nat
      /\ NextTime(f[k]) \in Nat \ {0}
  <2>1. \A n \in DOMAIN f : IsPatch(f[n]) /\ f[n].id = n
    BY <1>2 DEF IsById
  <2> QED
    BY <1>4, <2>1, PatchFacts
<1>6. \A n \in DOMAIN f : k >= n
  BY <1>3, <1>4, <1>5
<1>7. Max(DOMAIN f) = k
  <2>1. PICK m : m = CHOOSE x \in DOMAIN f : \A y \in DOMAIN f : x >= y
    OBVIOUS
  <2>2. m \in DOMAIN f /\ \A y \in DOMAIN f : m >= y
    BY <1>4, <1>6, <2>1
  <2>3. m = k
    BY <1>4, <1>5, <1>6, <2>2
  <2> QED
    BY <2>1, <2>3 DEF Max
<1>8. Tip = f[k]
  BY <1>1, <1>7 DEF Tip
<1> QED
  BY <1>1, <1>3, <1>4, <1>5, <1>8

LEMMA MergeEmitOK ==
  ASSUME IndInv, NEW t \in Tab, MergeEmit(t)
  PROVE  IndInv'
<1>1. Types /\ Savings /\ Locking /\ NothingLost
  BY DEF IndInv
<1>2. PICK old, n, b :
        /\ old = saving[t]
        /\ n = IF frontier = <<>> THEN 1 ELSE NextTime(Tip)
        /\ b = Placed(old.sent, n)
  OBVIOUS
<1>3. /\ old.stage = "merge" /\ lock = NoTab /\ lock' = t
      /\ inbox' = [u \in Tab |-> IF u = t THEN inbox[u] ELSE Append(inbox[u], b)]
      /\ saving' = [saving EXCEPT ![t].stage = "write", ![t].placed = b]
      /\ UNCHANGED <<start, end, log, queued, events, frontier, timeouts, edits>>
  BY <1>2 DEF MergeEmit, Stage
<1>4. PICK s : s = [old EXCEPT !.stage = "write", !.placed = b]
  OBVIOUS
<1>5. saving' = [saving EXCEPT ![t] = s]
  BY <1>1, <1>2, <1>3, <1>4 DEF Types
<1>6. /\ old = [stage |-> old.stage, model |-> old.model, sent |-> old.sent, placed |-> old.placed,
                time |-> old.time]
      /\ old # Idle /\ old.sent # <<>> /\ IsBatch(old.sent)
      /\ IsSaving(old, end[t], log[t])
  <2>1. IsSaving(old, end[t], log[t]) /\ old # Idle
    BY <1>1, <1>2, <1>3 DEF Savings, Idle
  <2> QED
    BY <1>3, <2>1 DEF IsSaving
<1>7. /\ s.stage = "write" /\ s.placed = b /\ s.sent = old.sent /\ s.model = old.model
      /\ s = [stage |-> s.stage, model |-> s.model, sent |-> s.sent, placed |-> s.placed, time |-> s.time]
  BY <1>4, <1>6
<1>8. IsSaving(s, end[t], log[t])
  <2> HIDE DEF NoModel
  <2>1. s.model = NoModel \/ (s.model = <<s.model[1]>> /\ IsModel(s.model[1]))
    BY <1>6, <1>7 DEF IsSaving
  <2>2. /\ ToSet(s.sent) \subseteq Values(log[t])
        /\ Last(s.sent).id < end[t].time
        /\ \A k \in DOMAIN log[t] : k <= Last(s.sent).id => log[t][k] \in ToSet(s.sent)
    BY <1>3, <1>6, <1>7 DEF IsSaving
  <2> QED
    BY <1>6, <1>7, <2>1, <2>2 DEF IsSaving
<1>9. n \in Nat \ {0} /\ \A k \in DOMAIN frontier : NextTime(frontier[k]) <= n
  BY <1>1, <1>2, TipOK
<1>10. /\ IsBatch(b) /\ Len(b) = Len(old.sent) /\ DOMAIN b = DOMAIN old.sent
       /\ \A i \in DOMAIN old.sent : b[i].edit = old.sent[i].edit /\ n <= b[i].id
  BY <1>2, <1>6, <1>9, PlacedOK
<1>11. IsEvent(b)
  <2>1. Len(old.sent) # 0
    BY <1>6, SeqFacts DEF IsBatch
  <2>2. b # <<>>
    BY <1>10, <2>1, SeqFacts DEF IsBatch
  <2> QED
    BY <1>10, <2>2 DEF IsEvent
<1>12. IsPlaced(s, frontier)
  <2>1. ASSUME NEW k \in DOMAIN frontier, NEW i \in DOMAIN b PROVE NextTime(frontier[k]) <= b[i].id
    <3>1. NextTime(frontier[k]) <= n /\ n <= b[i].id /\ n \in Nat
      BY <1>9, <1>10
    <3>2. IsPatch(frontier[k]) /\ IsPatch(b[i])
      BY <1>1, <1>10 DEF Types, IsById, IsBatch
    <3>3. NextTime(frontier[k]) \in Nat /\ b[i].id \in Nat
      BY <3>2, PatchFacts
    <3> QED
      BY <3>1, <3>3
  <2>2. EditsOf(ToSet(b)) = EditsOf(ToSet(old.sent))
    BY <1>10, SameEdits
  <2> QED
    BY <1>7, <1>11, <2>1, <2>2 DEF IsPlaced
<1>13. DOMAIN inbox' = Tab /\ \A u \in Tab : IsEvents(inbox'[u])
  <2>1. ASSUME NEW u \in Tab PROVE IsEvents(inbox'[u])
    <3>1. PICK e, f : e = inbox[u] /\ f = Append(e, b)
      OBVIOUS
    <3>2. IsEvents(e)
      BY <1>1, <3>1 DEF Types
    <3>3. IsEvents(f)
      BY <1>11, <3>1, <3>2, EventsAppend
    <3>4. inbox'[u] = e \/ inbox'[u] = f
      BY <1>3, <3>1
    <3> QED
      BY <3>2, <3>3, <3>4
  <2> QED
    BY <1>3, <2>1
<1>14. queued' = [u \in Tab |-> queued'[u]] /\ \A u \in Tab : queued'[u] \in 0..edits
  BY <1>1, <1>3 DEF Types
<1> QED
  BY <1>3, <1>5, <1>7, <1>8, <1>12, <1>13, <1>14, SavingStep

\* What is stored displaces nothing, and no other tab is at it.
LEMMA MergeWriteOK ==
  ASSUME IndInv, NEW t \in Tab, MergeWrite(t)
  PROVE  IndInv'
<1>1. Types /\ Savings /\ Locking /\ NothingLost
  BY DEF IndInv
<1>2. PICK old, g : old = saving[t] /\ g = IF old.placed = old.sent THEN "done" ELSE "read"
  OBVIOUS
<1>3. /\ old.stage = "write" /\ lock' = NoTab
      /\ frontier' = Put(frontier, ToSet(old.placed))
      /\ saving' = [saving EXCEPT ![t].stage = g]
      /\ UNCHANGED <<start, end, log, queued, events, inbox, timeouts, edits>>
  BY <1>2 DEF MergeWrite, Stage
<1>4. PICK s, f, h : s = [old EXCEPT !.stage = g] /\ f = frontier /\ h = Put(f, ToSet(old.placed))
  OBVIOUS
<1>5. saving'[t] = s /\ (\A u \in Tab \ {t} : saving'[u] = saving[u]) /\ DOMAIN saving' = Tab
  BY <1>1, <1>2, <1>3, <1>4 DEF Types
<1>6. /\ IsSaving(old, end[t], log[t]) /\ old # Idle /\ lock = t /\ IsPlaced(old, f)
      /\ old = [stage |-> old.stage, model |-> old.model, sent |-> old.sent, placed |-> old.placed,
                time |-> old.time]
  <2>1. IsSaving(old, end[t], log[t]) /\ old # Idle /\ lock = t /\ IsPlaced(old, f)
    BY <1>1, <1>2, <1>3, <1>4 DEF Savings, Idle
  <2> QED
    BY <2>1 DEF IsSaving
<1>7. /\ s.stage = g /\ s.sent = old.sent /\ s.model = old.model /\ g \in {"done", "read"}
      /\ s = [stage |-> s.stage, model |-> s.model, sent |-> s.sent, placed |-> s.placed, time |-> s.time]
  BY <1>2, <1>4, <1>6
<1>8. IsSaving(s, end[t], log[t])
  <2> HIDE DEF NoModel
  <2>1. s.model = NoModel \/ (s.model = <<s.model[1]>> /\ IsModel(s.model[1]))
    BY <1>6, <1>7 DEF IsSaving
  <2> QED
    BY <1>6, <1>7, <2>1 DEF IsSaving
<1>9. /\ IsById(h) /\ Values(h) = Values(f) \cup ToSet(old.placed)
  <2>1. IsById(f)
    BY <1>1, <1>4 DEF Types
  <2>2. IsBatch(old.placed)
    BY <1>6 DEF IsPlaced, IsEvent
  <2>3. \A n \in DOMAIN f : \A i \in DOMAIN old.placed : NextTime(f[n]) <= old.placed[i].id
    BY <1>6 DEF IsPlaced
  <2> QED
    BY <1>4, <2>1, <2>2, <2>3, PutOK
<1>10. frontier' = h /\ Stored = Values(f) /\ Stored' = Values(h)
  BY <1>3, <1>4 DEF Stored
<1>11. EditsOf(Stored') = EditsOf(Stored) \cup EditsOf(ToSet(s.sent))
  <2>1. EditsOf(ToSet(old.placed)) = EditsOf(ToSet(s.sent))
    BY <1>6, <1>7 DEF IsPlaced
  <2> QED
    BY <1>9, <1>10, <2>1, EditsOfUnion
<1>12. /\ DOMAIN start' = Tab /\ DOMAIN end' = Tab /\ DOMAIN log' = Tab
       /\ \A u \in Tab : Session(u)' = Session(u) /\ end'[u] = end[u] /\ log'[u] = log[u]
  BY <1>1, <1>3, SameSessions
<1>13. Types'
  <2>1. ASSUME NEW u \in Tab
        PROVE  /\ IsSession(Session(u)') /\ IsEvents(events'[u]) /\ IsEvents(inbox'[u])
               /\ queued'[u] \in 0..edits'
    BY <1>1, <1>3, <1>12 DEF Types
  <2> QED
    BY <1>1, <1>3, <1>5, <1>9, <1>10, <1>12, <2>1 DEF Types
<1>14. Savings'
  <2>1. ASSUME NEW u \in Tab
        PROVE  /\ IsSaving(saving'[u], end'[u], log'[u])
               /\ saving'[u].stage # "write"
               /\ saving'[u].stage \in {"read", "done"} =>
                    EditsOf(ToSet(saving'[u].sent)) \subseteq EditsOf(Stored')
    <3>1. CASE u = t
      BY <1>5, <1>7, <1>8, <1>11, <1>12, <3>1
    <3>2. CASE u # t
      BY <1>1, <1>5, <1>6, <1>11, <1>12, <3>2 DEF Savings
    <3> QED
      BY <3>1, <3>2
  <2> QED
    BY <2>1 DEF Savings
<1>15. Locking'
  BY <1>3 DEF Locking
<1>16. NothingLost'
  <2>1. ASSUME NEW x, x \in EditsOf(ToSet(s.sent)) PROVE x \in EditsOf(Stored) \/ \E u \in Tab : x \in EditsOf(Values(log[u]))
    <3>1. ToSet(s.sent) \subseteq Values(log[t])
      BY <1>3, <1>6, <1>7 DEF IsSaving
    <3> QED
      BY <2>1, <3>1 DEF EditsOf
  <2> QED
    BY <1>1, <1>3, <1>11, <1>12, <2>1, Accounts, AccountsAfter
<1> QED
  BY <1>13, <1>14, <1>15, <1>16 DEF IndInv

LEMMA LaterOK ==
  ASSUME NEW f, IsById(f), NEW m, NEW r, r = [n \in {k \in DOMAIN f : k > m} |-> f[n]]
  PROVE  IsById(r) /\ \A n \in DOMAIN r : n \in DOMAIN f /\ n > m /\ r[n] = f[n]
<1>1. /\ IsFiniteSet(DOMAIN f)
      /\ \A n \in DOMAIN f : IsPatch(f[n]) /\ f[n].id = n
      /\ \A n, k \in DOMAIN f : n < k => NextTime(f[n]) <= k
  BY DEF IsById
<1>2. /\ DOMAIN r \in SUBSET DOMAIN f /\ r = [n \in DOMAIN r |-> r[n]]
      /\ \A n \in DOMAIN r : n \in DOMAIN f /\ n > m /\ r[n] = f[n]
  OBVIOUS
<1>3. IsFiniteSet(DOMAIN r)
  BY <1>1, <1>2, FS_Subset
<1> QED
  BY <1>1, <1>2, <1>3 DEF IsById

\* The log loses what was sent, and is stored, only.
LEMMA SyncEndOK ==
  ASSUME IndInv, NEW t \in Tab, SyncEnd(t)
  PROVE  IndInv'
<1>1. Types /\ Savings /\ Locking /\ NothingLost
  BY DEF IndInv
<1>2. PICK s, old, sent, m : s = Session(t) /\ old = saving[t] /\ sent = old.sent /\ m = Last(sent).id
  OBVIOUS
<1>3. PICK l, a : l = [n \in {k \in DOMAIN s.log : k > m} |-> s.log[n]] /\ a = ApplyBatch(s.start, sent)
  OBVIOUS
<1>4. PICK stored : stored = IF sent = <<>> THEN s ELSE [s EXCEPT !.log = l, !.start = a]
  OBVIOUS
<1>5. PICK r : r = IF old.model = NoModel THEN stored ELSE ResetTo(stored, old.model[1])
  OBVIOUS
<1>6. old.stage = "done" /\ Finish(t, r)
  BY <1>2, <1>3, <1>4, <1>5 DEF SyncEnd, Stage
<1>7. IsSession(s) /\ s.log = log[t] /\ s.end = end[t]
  BY <1>1, <1>2, TabTypes, SessionParts
<1>8. /\ IsSaving(old, end[t], log[t]) /\ old # Idle
      /\ EditsOf(ToSet(sent)) \subseteq EditsOf(Stored)
  BY <1>1, <1>2, <1>6 DEF Savings, Idle
<1>9. /\ IsBatch(sent)
      /\ old.model = NoModel \/ (old.model = <<old.model[1]>> /\ IsModel(old.model[1]))
      /\ sent # <<>> => \A n \in DOMAIN log[t] : n <= m => log[t][n] \in ToSet(sent)
  BY <1>2, <1>8 DEF IsSaving
<1>10. /\ IsById(s.log) /\ IsModel(s.start) /\ IsModel(s.end)
       /\ s = [start |-> s.start, end |-> s.end, log |-> s.log]
       /\ \A n \in DOMAIN s.log : NextTime(s.log[n]) <= s.end.time
  BY <1>7 DEF IsSession
<1>11. /\ IsById(l) /\ IsModel(a)
       /\ \A n \in DOMAIN l : n \in DOMAIN s.log /\ n > m /\ l[n] = s.log[n]
  BY <1>3, <1>9, <1>10, LaterOK, ApplyBatchOK DEF IsBatch
<1>12. /\ IsSession(stored)
       /\ \A x \in EditsOf(Values(log[t])) : x \in EditsOf(Values(stored.log)) \/ x \in EditsOf(Stored)
       /\ EditsOf(Values(stored.log)) \subseteq EditsOf(Values(log[t]))
  <2>1. CASE sent = <<>>
    BY <1>4, <1>7, <2>1
  <2>2. CASE sent # <<>>
    <3>1. stored = [start |-> a, end |-> s.end, log |-> l]
      BY <1>4, <1>10, <2>2
    <3>2. IsSession(stored) /\ stored.log = l
      BY <1>10, <1>11, <3>1 DEF IsSession
    <3>3. ASSUME NEW x \in EditsOf(Values(log[t]))
          PROVE  x \in EditsOf(Values(l)) \/ x \in EditsOf(Stored)
      <4>1. PICK n \in DOMAIN log[t] : x = log[t][n].edit
        BY DEF EditsOf, Values
      <4>2. n \in Nat /\ m \in Nat
        <5>1. IsPatch(log[t][n]) /\ log[t][n].id = n
          BY <1>7, <1>10, <4>1 DEF IsById
        <5>2. IsPatch(Last(sent))
          BY <1>9, <2>2, LastPatch DEF IsEvent
        <5> QED
          BY <1>2, <5>1, <5>2, PatchFacts
      <4>3. CASE n <= m
        <5>1. log[t][n] \in ToSet(sent)
          BY <1>9, <2>2, <4>1, <4>3
        <5>2. x \in EditsOf(ToSet(sent))
          BY <4>1, <5>1 DEF EditsOf
        <5> QED
          BY <1>8, <5>2
      <4>4. CASE n > m
        <5>1. n \in DOMAIN l /\ l[n] = log[t][n]
          BY <1>3, <1>7, <4>1, <4>4
        <5> QED
          BY <4>1, <5>1 DEF EditsOf, Values
      <4> QED
        BY <4>2, <4>3, <4>4
    <3>4. EditsOf(Values(l)) \subseteq EditsOf(Values(log[t]))
      BY <1>7, <1>11 DEF EditsOf, Values
    <3> QED
      BY <3>2, <3>3, <3>4
  <2> QED
    BY <2>1, <2>2
<1>13. IsSession(r) /\ r.log = stored.log
  <2> HIDE DEF NoModel
  <2> QED
    BY <1>5, <1>9, <1>12, ResetToOK
<1>14. saving[t].stage # "write"
  BY <1>2, <1>6
<1> QED
  BY <1>6, <1>12, <1>13, <1>14, FinishOK

LEMMA LockTimeoutOK ==
  ASSUME IndInv, NEW t \in Tab, LockTimeout(t)
  PROVE  IndInv'
<1>1. PICK s : s = Session(t)
  OBVIOUS
<1>2. Finish(t, s) /\ saving[t].stage # "write"
  BY <1>1 DEF LockTimeout, Stage
<1>3. IsSession(s) /\ s.log = log[t]
  BY <1>1, TabTypes, SessionParts DEF IndInv
<1> QED
  BY <1>2, <1>3, FinishOK

\* What users type is one operation, or two.
LEMMA TypingOK ==
  ASSUME IndInv, NEW t \in Tab, NEW pos, Type(t, pos) \/ Erase(t, pos) \/ Retype(t, pos)
  PROVE  IndInv'
<1>1. PICK x, y, ops : Edit(t, ops) /\ (ops = <<x>> \/ ops = <<x, y>>)
  BY DEF Type, Erase, Retype
<1>2. IsSeq(ops) /\ Len(ops) # 0
  <2>1. CASE ops = <<x>>
    <3>1. IsSeq(<<x>>) /\ Len(<<x>>) = 1
      BY ShortSeqs
    <3> QED
      BY <2>1, <3>1
  <2>2. CASE ops = <<x, y>>
    <3>1. IsSeq(<<x, y>>) /\ Len(<<x, y>>) = 2
      BY ShortSeqs
    <3> QED
      BY <2>2, <3>1
  <2> QED
    BY <1>1, <2>1, <2>2
<1> QED
  BY <1>1, <1>2, EditOK

LEMMA NextOK == IndInv /\ [Next]_vars => IndInv'
<1> SUFFICES ASSUME IndInv, [Next]_vars PROVE IndInv'
  OBVIOUS
<1>1. CASE Next
  <2>1. ASSUME NEW t \in Tab, NEW pos \in Positions(t), Type(t, pos) \/ Erase(t, pos) \/ Retype(t, pos)
        PROVE  IndInv'
    BY <2>1, TypingOK
  <2>2. ASSUME NEW t \in Tab, Handler(t) PROVE IndInv'
    <3>1. CASE Receive(t)
      BY <3>1, ReceiveOK
    <3>2. CASE SyncBegin(t)
      BY <3>2, SyncBeginOK
    <3>3. CASE GetIf(t)
      BY <3>3, GetIfOK
    <3>4. CASE MergeEmit(t)
      BY <3>4, MergeEmitOK
    <3>5. CASE MergeWrite(t)
      BY <3>5, MergeWriteOK
    <3>6. CASE MergeRead(t)
      BY <3>6, MergeReadOK
    <3>7. CASE SyncEnd(t)
      BY <3>7, SyncEndOK
    <3>8. CASE LockTimeout(t)
      BY <3>8, LockTimeoutOK
    <3> QED
      BY <2>2, <3>1, <3>2, <3>3, <3>4, <3>5, <3>6, <3>7, <3>8 DEF Handler
  <2> QED
    BY <1>1, <2>1, <2>2 DEF Next
<1>2. CASE UNCHANGED vars
  <2>1. /\ start' = start /\ end' = end /\ log' = log /\ saving' = saving /\ queued' = queued
        /\ events' = events /\ inbox' = inbox /\ frontier' = frontier /\ lock' = lock /\ edits' = edits
    BY <1>2 DEF vars
  <2>2. \A t \in Tab : Session(t)' = Session(t)
    BY <2>1 DEF Session
  <2>3. Types'
    BY <2>1, <2>2 DEF IndInv, Types
  <2>4. Savings' /\ Locking' /\ NothingLost'
    BY <2>1 DEF IndInv, Savings, Locking, NothingLost, Stored, Stage
  <2> QED
    BY <2>3, <2>4 DEF IndInv
<1> QED
  BY <1>1, <1>2

-----------------------------------------------------------------------------
(* The theorems.                                                           *)

(* What tabs carry across the steps of others stays true of the log and of *)
(* the frontier: patches of a session never overlap, what is sent is       *)
(* pending until it is stored, what is placed goes behind the frontier and *)
(* stays so until the lock is released.                                    *)
THEOREM Invariance == Spec => []IndInv
<1> QED
  BY InitOK, NextOK, PTL DEF Spec

(* Texts, logs, the frontier and the lock keep their shapes.               *)
THEOREM TypeCorrect == Spec => []TypeOK
<1>1. IndInv => TypeOK
  <2> SUFFICES ASSUME IndInv PROVE TypeOK
    OBVIOUS
  <2>1. Types /\ Savings /\ Locking
    BY DEF IndInv
  <2>2. ASSUME NEW f, IsById(f), NEW n \in DOMAIN f
        PROVE  f[n].id = n /\ f[n].id \in Nat \ {0} /\ f[n].ops # <<>>
    <3>1. IsPatch(f[n]) /\ f[n].id = n
      BY <2>2 DEF IsById
    <3> QED
      BY <3>1, SeqFacts DEF IsPatch
  <2>3. ASSUME NEW t \in Tab
        PROVE  /\ IsModel(start[t]) /\ IsModel(end[t]) /\ IsById(log[t])
               /\ Stage(t) \in {"idle", "getIf", "merge", "write", "read", "done"}
               /\ queued[t] \in 0..MaxEdits
    <3>1. queued[t] \in 0..edits /\ edits \in 0..MaxEdits
      BY <2>1 DEF Types
    <3>2. queued[t] \in 0..MaxEdits
      BY <3>1, MaxEditsAssumption
    <3>3. Stage(t) \in {"idle", "getIf", "merge", "write", "read", "done"}
      <4>1. PICK s : s = saving[t]
        OBVIOUS
      <4>2. IsSaving(s, end[t], log[t])
        BY <2>1, <4>1 DEF Savings
      <4>3. s.stage = "idle" \/ s.stage \in {"getIf", "merge", "write", "read", "done"}
        <5>1. CASE s = Idle
          BY <5>1 DEF Idle
        <5>2. CASE s # Idle
          BY <4>2, <5>2 DEF IsSaving
        <5> QED
          BY <5>1, <5>2
      <4> QED
        BY <4>1, <4>3 DEF Stage
    <3> QED
      BY <2>1, <3>2, <3>3, TabTypes
  <2>4. queued \in [Tab -> 0..MaxEdits]
    BY <2>1, <2>3 DEF Types
  <2>5. IsById(frontier) /\ lock \in Tab \cup {NoTab}
    BY <2>1 DEF Types, Locking
  <2> QED
    BY <2>2, <2>3, <2>4, <2>5 DEF TypeOK, IsModel
<1> QED
  BY <1>1, Invariance, PTL

(* Tabs that share a session identifier and do not know of each other      *)
(* never store two patches with overlapping identifiers.                   *)
THEOREM FrontiersDisjoint == Spec => []FrontierDisjoint
<1>1. IndInv => FrontierDisjoint
  <2> SUFFICES ASSUME IndInv, NEW p \in Stored, NEW q \in Stored, p # q
               PROVE  p.id + Span(p) <= q.id \/ q.id + Span(q) <= p.id
    BY DEF FrontierDisjoint
  <2>1. /\ \A n \in DOMAIN frontier : IsPatch(frontier[n]) /\ frontier[n].id = n
        /\ \A n, k \in DOMAIN frontier : n < k => NextTime(frontier[n]) <= k
    BY DEF IndInv, Types, IsById
  <2>2. PICK n, k \in DOMAIN frontier : p = frontier[n] /\ q = frontier[k]
    BY DEF Stored, Values
  <2>3. p.id = n /\ q.id = k /\ n \in Nat /\ k \in Nat /\ n # k
    BY <2>1, <2>2, PatchFacts
  <2> QED
    BY <2>1, <2>2, <2>3 DEF NextTime
<1> QED
  BY <1>1, Invariance, PTL

(* No edit is lost, at any moment of a sync(), of several tabs at once, and *)
(* where waiting for the lock times out.                                    *)
THEOREM EditsSafe == Spec => []NothingLost
<1>1. IndInv => NothingLost
  BY DEF IndInv
<1> QED
  BY <1>1, Invariance, PTL
=============================================================================
