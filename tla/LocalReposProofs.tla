-------------------------- MODULE LocalReposProofs --------------------------
(***************************************************************************)
(* Proofs about LocalRepos, for every set of devices and workers, every    *)
(* number of edits and of faults, late failures of a push included: the    *)
(* types, NothingLost, and, as long as no push has failed late, SeqPulled, *)
(* that nothing seen disappears, and that the repositories implement       *)
(* SharedLog.                                                              *)
(***************************************************************************)
EXTENDS LocalRepos, FiniteSetTheorems, TLAPS

-----------------------------------------------------------------------------
(* The strengthening.  A worker acts on what it read some steps ago: what  *)
(* it holds is right either because it has the lock, or because it is only *)
(* of the log, which does not change where it was read.  What rests on the *)
(* lock holds of a device until a push has outlived its lease there.       *)

\* A device that is not spoilt shows the log up to its number, and its frontier.
Exact ==
  \A d \in Device \ spoilt :
    /\ Upto(seq[d]) \subseteq model[d]
    /\ model[d] \subseteq Upto(seq[d]) \cup frontier[d]

\* No number is beyond the log, spoilt or not.
Numbered == \A d \in Device : seq[d] <= Len(log)

\* A device without the block has nothing of it.
Unborn == \A d \in Device : ~has[d] => seq[d] = 0 /\ model[d] = {} /\ frontier[d] = {}

\* What worker w of device d has of the frontier and of the log.
Holds(d, w, t) ==
  /\ t.stage \in {"lock", "call", "answer"} => t.sent \subseteq frontier[d] \cup Upto(Len(log))
  /\ t.stage \in {"lock", "call", "answer", "pulling", "pulled", "upd", "store"} => has[d]
  /\ t.stage \in {"call", "pulling", "store"} => t.seq <= Len(log)
  /\ t.stage = "answer" => t.to \in 1..Len(log) /\ log[t.to] = t.sent /\ t.seq < t.to
  /\ t.stage = "pulled" => t.seq <= t.to /\ t.to <= Len(log)
  /\ t.stage = "fetched" => t.to <= Len(log)
  /\ t.stage = "upd" => t.n \in 1..Len(log)

\* What it has read under the lock is still so, what it is going to write is right.
Fits(d, t) ==
  /\ t.stage \in {"call", "answer"} => t.model = model[d] /\ t.seq = seq[d]
  /\ t.stage = "store" =>
       /\ seq[d] <= t.seq
       /\ Upto(t.seq) \subseteq t.model /\ t.model \subseteq Upto(t.seq) \cup frontier[d]

Owns(d, w, t) == t.stage \in {"call", "answer", "store"} => lock[d] = w /\ Fits(d, t)

TasksHold == \A d \in Device, w \in Worker : Holds(d, w, task[d][w])

TasksOwn == \A d \in Device \ spoilt, w \in Worker : Owns(d, w, task[d][w])

IndInv ==
  /\ TypeOK
  /\ IsFiniteSet(made)
  /\ NothingLost
  /\ Numbered /\ Exact
  /\ Unborn
  /\ TasksHold /\ TasksOwn

-----------------------------------------------------------------------------
(* The log.                                                                *)

LEMMA InUpto ==
  ASSUME NEW n
  PROVE  \A x : x \in Upto(n) <=> \E i \in 1..n : x \in log[i]
BY DEF Upto

LEMMA UptoGrows ==
  ASSUME NEW m \in Nat, NEW n \in Nat, m <= n
  PROVE  Upto(m) \subseteq Upto(n)
BY InUpto

LEMMA UptoBetween ==
  ASSUME NEW m \in Nat, NEW n \in Nat, m <= n
  PROVE  Upto(n) = Upto(m) \cup Between(m, n)
<1>1. \A x : x \in Between(m, n) <=> \E i \in (m + 1)..n : x \in log[i]
  BY DEF Between
<1> QED
  BY <1>1, InUpto

LEMMA UptoNext ==
  ASSUME NEW n \in Nat \ {0}
  PROVE  Upto(n) = Upto(n - 1) \cup log[n]
<1>1. n - 1 \in Nat
  OBVIOUS
<1> QED
  BY <1>1, InUpto

LEMMA UptoSame ==
  ASSUME log' = log
  PROVE  \A n : Upto(n)' = Upto(n)
BY DEF Upto

\* A batch at the end leaves what was there before.
LEMMA UptoAppend ==
  ASSUME log \in Seq(SUBSET made), NEW batch, log' = Append(log, batch)
  PROVE  /\ \A n \in 0..Len(log) : Upto(n)' = Upto(n)
         /\ \A n : n = Len(log) + 1 => Upto(n)' = Upto(Len(log)) \cup batch
         /\ Len(log') = Len(log) + 1
         /\ \A i \in 1..Len(log) : log'[i] = log[i]
         /\ log'[Len(log) + 1] = batch
<1>1. /\ Len(log') = Len(log) + 1
      /\ \A i \in 1..Len(log) : log'[i] = log[i]
      /\ log'[Len(log) + 1] = batch
      /\ Len(log) \in Nat
  OBVIOUS
<1>2. ASSUME NEW n \in 0..Len(log) PROVE Upto(n)' = Upto(n)
  <2>1. {log'[i] : i \in 1..n} = {log[i] : i \in 1..n}
    BY <1>1
  <2> QED
    BY <2>1 DEF Upto
<1>3. ASSUME NEW n, n = Len(log) + 1 PROVE Upto(n)' = Upto(Len(log)) \cup batch
  <2>1. \A x : x \in Upto(n)' <=> \E i \in 1..n : x \in log'[i]
    BY DEF Upto
  <2> QED
    BY <1>1, <1>3, <2>1, InUpto
<1> QED
  BY <1>1, <1>2, <1>3

LEMMA UptoMade == TypeOK => \A n \in 0..Len(log) : Upto(n) \subseteq made
<1> SUFFICES ASSUME TypeOK, NEW n \in 0..Len(log) PROVE Upto(n) \subseteq made
  OBVIOUS
<1>1. \A i \in 1..n : log[i] \subseteq made
  BY DEF TypeOK
<1> QED
  BY <1>1, InUpto

-----------------------------------------------------------------------------
(* The initial state.                                                      *)

LEMMA OneBatch ==
  ASSUME NEW S
  PROVE  <<S>> \in Seq(SUBSET S)
<1>1. S \in SUBSET S
  OBVIOUS
<1> DEFINE T == SUBSET S
<1>2. S \in T => <<S>> \in Seq(T)
  <2> HIDE DEF T
  <2> QED
    OBVIOUS
<1> QED
  BY <1>1, <1>2

LEMMA InitFirst ==
  ASSUME Init
  PROVE  /\ case \in Cases
         /\ case.first \subseteq Edit /\ IsFiniteSet(case.first)
         /\ log \in Seq(SUBSET case.first) /\ there = (case.first # {})
         /\ Upto(Len(log)) = case.first
         /\ log = <<>> \/ \E e \in Edit : log = <<{e}>>
         /\ Len(log) \in Nat
<1>1. case \in [first : {{}} \cup {{<<d, 1>>} : d \in Device}, blank : SUBSET Device,
                overlap : BOOLEAN, edits : 0..MaxEdits, faults : Nat,
                late : SUBSET {"lease", "store"}]
  BY CasesAssumption DEF Init
<1>2. case.first = {} \/ \E d \in Device : case.first = {<<d, 1>>}
  BY <1>1
<1>3. 1 \in 1..MaxEdits
  BY MaxEditsAssumption
<1>4. case.first = {} \/ \E e \in Edit : case.first = {e}
  BY <1>2, <1>3 DEF Edit
<1>5. IsFiniteSet(case.first)
  BY <1>4, FS_EmptySet, FS_Singleton
<1>6. CASE case.first = {}
  <2>1. log = <<>> /\ there = FALSE
    BY <1>6 DEF Init
  <2>2. Upto(Len(log)) = {} /\ Len(log) = 0
    BY <2>1, InUpto
  <2>3. log \in Seq(SUBSET case.first)
    <3>1. <<>> \in Seq(SUBSET case.first)
      OBVIOUS
    <3> QED
      BY <2>1, <3>1, Zenon
  <2> QED
    BY <1>1, <1>4, <1>5, <1>6, <2>1, <2>2, <2>3 DEF Init
<1>7. CASE case.first # {}
  <2>1. log = <<case.first>> /\ there = TRUE
    BY <1>7 DEF Init
  <2>2. Upto(Len(log)) = case.first /\ Len(log) = 1
    BY <2>1, InUpto
  <2>3. log \in Seq(SUBSET case.first)
    BY <2>1, OneBatch
  <2> QED
    BY <1>4, <1>5, <1>7, <2>1, <2>2, <2>3 DEF Init
<1> QED
  BY <1>6, <1>7

LEMMA InitInv == Init => IndInv
<1> SUFFICES ASSUME Init PROVE IndInv
  OBVIOUS
<1> USE InitFirst DEF Init
<1>1. TypeOK
  <2>1. task \in [Device -> [Worker -> Requests]]
    BY DEF Idle, Requests
  <2>2. there \in BOOLEAN /\ has \in [Device -> BOOLEAN] /\ dirty \in [Device -> BOOLEAN]
        /\ connected \in [Device -> BOOLEAN] /\ creating \in [Device -> BOOLEAN]
    OBVIOUS
  <2>3. inbox \in [Device -> Seq(0..Len(log))]
    OBVIOUS
  <2> QED
    BY <2>1, <2>2, <2>3 DEF TypeOK
<1>2. NothingLost
  BY DEF NothingLost
<1>3. Numbered /\ Exact
  <2> SUFFICES ASSUME NEW d \in Device
               PROVE  /\ seq[d] <= Len(log)
                      /\ Upto(seq[d]) \subseteq model[d]
                      /\ model[d] \subseteq Upto(seq[d]) \cup frontier[d]
    BY DEF Numbered, Exact
  <2>1. seq[d] = Len(log) /\ model[d] = case.first
    OBVIOUS
  <2>2. Upto(seq[d]) = case.first /\ Len(log) \in Nat
    BY <2>1
  <2> QED
    BY <2>1, <2>2
<1>4. Unborn
  <2>1. case.first = {} => Len(log) = 0
    OBVIOUS
  <2> QED
    BY <2>1 DEF Unborn
<1>5. TasksHold /\ TasksOwn
  BY DEF TasksHold, Holds, TasksOwn, Owns, Idle
<1> QED
  BY <1>1, <1>2, <1>3, <1>4, <1>5 DEF IndInv

-----------------------------------------------------------------------------
(* Steps that write no block.                                              *)

LEMMA GotoIs ==
  ASSUME TypeOK, NEW d \in Device, NEW w \in Worker, NEW t, Goto(d, w, t)
  PROVE  /\ task'[d][w] = t
         /\ \A e \in Device, v \in Worker : e # d \/ v # w => task'[e][v] = task[e][v]
         /\ Requests \subseteq Requests' /\ t \in Requests' => task' \in [Device -> [Worker -> Requests']]
BY DEF TypeOK, Goto

\* What the stages of a worker carry.
LEMMA Carries ==
  ASSUME NEW t \in Requests
  PROVE  /\ t.stage = "lock" => t.sent \subseteq made
         /\ t.stage = "call" =>
              t.sent \subseteq made /\ t.model \subseteq made /\ t.seq \in Nat
         /\ t.stage = "answer" =>
              /\ t.sent \subseteq made /\ t.model \subseteq made
              /\ t.seq \in Nat /\ t.to \in Nat /\ t.reset \in BOOLEAN
         /\ t.stage = "pulling" => t.seq \in Nat
         /\ t.stage = "pulled" => t.seq \in Nat /\ t.to \in Nat /\ t.reset \in BOOLEAN
         /\ t.stage = "read" => t.again \in BOOLEAN
         /\ t.stage = "fetched" => t.to \in Nat /\ t.again \in BOOLEAN
         /\ t.stage = "upd" => t.n \in Nat
         /\ t.stage = "store" => t.model \subseteq made /\ t.seq \in Nat
BY DEF Requests

LEMMA TaskOf ==
  ASSUME IndInv, NEW d \in Device, NEW w \in Worker
  PROVE  /\ task[d][w] \in Requests /\ Holds(d, w, task[d][w])
         /\ d \notin spoilt => Owns(d, w, task[d][w])
BY DEF IndInv, TypeOK, TasksHold, TasksOwn

\* Where nobody has the lock, no worker is between its reads and its writes.
LEMMA NobodyOwns ==
  ASSUME IndInv, NEW d \in Device \ spoilt, lock[d] = NoWorker, NEW w \in Worker
  PROVE  task[d][w].stage \notin {"call", "answer", "store"}
BY TaskOf, WorkerAssumption DEF Owns, NoWorker

\* Workers go on, locks are taken where they are free, flags and events change; the blocks
\* and the log do not.
LEMMA WorkStep ==
  ASSUME IndInv,
         UNCHANGED <<log, has, model, seq, frontier, made, case>>,
         there' \in BOOLEAN, dirty' \in [Device -> BOOLEAN], creating' \in [Device -> BOOLEAN],
         inbox' \in [Device -> Seq(0..Len(log))], connected' \in [Device -> BOOLEAN],
         faults' \in Nat, restarted' \in BOOLEAN, spoilt \subseteq spoilt', spoilt' \subseteq Device,
         lock' \in [Device -> Worker \cup {NoWorker}],
         task' \in [Device -> [Worker -> Requests]],
         \A e \in Device, v \in Worker :
           \/ /\ task'[e][v] = task[e][v]
              /\ e \notin spoilt' => lock'[e] = lock[e] \/ lock[e] = NoWorker
           \/ /\ Holds(e, v, task'[e][v])
              /\ e \notin spoilt' => Owns(e, v, task[e][v])'
  PROVE  IndInv'
<1>1. Requests' = Requests
  BY DEF Requests
<1>2. TypeOK'
  BY <1>1 DEF IndInv, TypeOK
<1>3. \A n : Upto(n)' = Upto(n)
  BY UptoSame
<1>4. IsFiniteSet(made)' /\ NothingLost' /\ Numbered' /\ Exact' /\ Unborn'
  BY <1>3 DEF IndInv, NothingLost, Numbered, Exact, Unborn
<1>5. TasksHold'
  <2> SUFFICES ASSUME NEW e \in Device, NEW v \in Worker PROVE Holds(e, v, task[e][v])'
    BY DEF TasksHold
  <2>1. Holds(e, v, task'[e][v])
    BY TaskOf
  <2> QED
    BY <1>3, <2>1 DEF Holds
<1>6. TasksOwn'
  <2> SUFFICES ASSUME NEW e \in Device \ spoilt', NEW v \in Worker PROVE Owns(e, v, task[e][v])'
    BY DEF TasksOwn
  <2>1. CASE task'[e][v] = task[e][v] /\ lock'[e] = lock[e]
    BY <1>3, <2>1, TaskOf DEF Owns, Fits
  <2>2. CASE task'[e][v] = task[e][v] /\ lock[e] = NoWorker
    BY <2>2, NobodyOwns DEF Owns
  <2> QED
    BY <2>1, <2>2
<1> QED
  BY <1>2, <1>4, <1>5, <1>6 DEF IndInv

LEMMA SeqFacts ==
  ASSUME NEW S
  PROVE  /\ <<>> \in Seq(S)
         /\ \A x \in S : <<x>> \in Seq(S)
         /\ \A s, t \in Seq(S) : s \o t \in Seq(S)
         /\ \A s \in Seq(S) : s # <<>> => Head(s) \in S /\ Tail(s) \in Seq(S)
<1>1. <<>> \in Seq(S)
  OBVIOUS
<1>2. \A x \in S : <<x>> \in Seq(S)
  OBVIOUS
<1>3. \A s, t \in Seq(S) : s \o t \in Seq(S)
  OBVIOUS
<1>4. \A s \in Seq(S) : s # <<>> => Head(s) \in S /\ Tail(s) \in Seq(S)
  OBVIOUS
<1> QED
  BY <1>1, <1>2, <1>3, <1>4

LEMMA Wider ==
  ASSUME NEW S, NEW T, S \subseteq T
  PROVE  Seq(S) \subseteq Seq(T)
OBVIOUS

\* The events announced are numbers of the log.
LEMMA AnnounceIs ==
  ASSUME NEW m \in Nat, NEW n \in Nat, m <= n, inbox \in [Device -> Seq(0..m)],
         NEW news \in BOOLEAN, NEW batch \in 0..n, Announce(news, batch)
  PROVE  inbox' \in [Device -> Seq(0..n)]
<1> DEFINE N == 0..n
<1>1. ASSUME NEW d \in Device
      PROVE  (IF ~connected[d] THEN inbox[d]
              ELSE inbox[d] \o (IF news THEN <<0>> ELSE <<>>)
                           \o (IF batch = 0 \/ Own(d, log'[batch]) THEN <<>> ELSE <<batch>>))
             \in Seq(N)
  <2>1. inbox[d] \in Seq(N)
    <3>1. 0..m \subseteq 0..n /\ inbox[d] \in Seq(0..m)
      OBVIOUS
    <3> QED
      BY <3>1
  <2>2. 0 \in N /\ batch \in N
    OBVIOUS
  <2> HIDE DEF N
  <2> DEFINE a == IF news THEN <<0>> ELSE <<>>
             b == IF batch = 0 \/ Own(d, log'[batch]) THEN <<>> ELSE <<batch>>
  <2>3. <<0>> \in Seq(N) /\ <<batch>> \in Seq(N) /\ <<>> \in Seq(N)
    BY <2>2, SeqFacts
  <2>4. a \in Seq(N) /\ b \in Seq(N)
    BY <2>3
  <2> HIDE DEF a, b
  <2>5. (inbox[d] \o a) \o b \in Seq(N)
    BY <2>1, <2>4, SeqFacts
  <2> QED
    BY <2>1, <2>5 DEF a, b
<1> QED
  BY <1>1 DEF Announce

\* A worker that has read nothing yet, or gives up.
LEMMA PlainHolds ==
  ASSUME NEW d, NEW w, NEW t, t \in [stage : {"idle", "mark", "collect"}]
                               \/ t \in [stage : {"read"}, again : BOOLEAN]
  PROVE  t \in Requests /\ Holds(d, w, t)
BY DEF Requests, Holds

LEMMA PullHolds ==
  ASSUME IndInv, NEW d \in Device, NEW w
  PROVE  /\ Pull(d) \in Requests /\ Holds(d, w, Pull(d))
         /\ Pull(d).stage \notin {"call", "answer", "store"}
<1>1. CASE has[d]
  BY <1>1 DEF Pull, Requests, Holds, IndInv, TypeOK, Numbered
<1>2. CASE ~has[d]
  BY <1>2, PlainHolds DEF Pull
<1> QED
  BY <1>1, <1>2

LEMMA IdleHolds == \A d, w : Idle \in Requests /\ Holds(d, w, Idle) /\ Idle.stage = "idle"
BY PlainHolds DEF Idle

LEMMA InboxOK == IndInv => inbox \in [Device -> Seq(0..Len(log))]
BY DEF IndInv, TypeOK

LEMMA LogOK ==
  ASSUME IndInv
  PROVE  log \in Seq(SUBSET made) /\ Len(log) \in Nat
BY DEF IndInv, TypeOK

LEMMA FlagsOK ==
  ASSUME IndInv
  PROVE  /\ there \in BOOLEAN /\ dirty \in [Device -> BOOLEAN] /\ creating \in [Device -> BOOLEAN]
         /\ connected \in [Device -> BOOLEAN] /\ faults \in Nat /\ faults + 1 \in Nat
         /\ restarted \in BOOLEAN /\ spoilt \subseteq Device
         /\ lock \in [Device -> Worker \cup {NoWorker}]
         /\ task \in [Device -> [Worker -> Requests]]
BY DEF IndInv, TypeOK

\* A worker goes on outside the lock, and little else happens.
LEMMA OnlyTask ==
  ASSUME IndInv, NEW d \in Device, NEW w \in Worker, NEW t \in Requests, Goto(d, w, t),
         Holds(d, w, t), t.stage \notin {"call", "answer", "store"},
         UNCHANGED <<there, log, has, model, seq, frontier, lock, connected, made, case,
                     restarted, spoilt>>,
         dirty' = dirty \/ dirty' = [dirty EXCEPT ![d] = TRUE],
         creating' \in [Device -> BOOLEAN], faults' = faults \/ faults' = faults + 1,
         inbox' \in [Device -> Seq(0..Len(log))]
  PROVE  IndInv'
<1>1. dirty' \in [Device -> BOOLEAN] /\ faults' \in Nat
  BY FlagsOK
<1>2. Requests' = Requests
  BY DEF Requests
<1>3. task' \in [Device -> [Worker -> Requests]]
  BY <1>2, GotoIs DEF IndInv
<1>4. ASSUME NEW e \in Device, NEW v \in Worker
      PROVE  \/ task'[e][v] = task[e][v]
             \/ Holds(e, v, task'[e][v]) /\ Owns(e, v, task[e][v])'
  BY GotoIs DEF IndInv, Owns
<1> QED
  BY <1>1, <1>3, <1>4, FlagsOK, WorkStep

LEMMA MarkInv ==
  ASSUME IndInv, NEW d \in Device, NEW w \in Worker, Mark(d, w)
  PROVE  IndInv'
<1>1. [stage |-> "collect"] \in Requests /\ Holds(d, w, [stage |-> "collect"])
  BY PlainHolds
<1> QED
  BY <1>1, OnlyTask, InboxOK, FlagsOK DEF Mark, server, rest

LEMMA StartInv ==
  ASSUME IndInv, NEW d \in Device, NEW w \in Worker, SyncItem(d, w) \/ Receive(d, w)
  PROVE  IndInv'
<1>1. CASE SyncItem(d, w)
  <2>1. [stage |-> "collect"] \in Requests /\ Holds(d, w, [stage |-> "collect"])
    BY PlainHolds
  <2> QED
    BY <1>1, <2>1, OnlyTask, InboxOK, FlagsOK DEF SyncItem, server, kv, rest
<1>2. CASE Receive(d, w)
  <2> DEFINE n == Head(inbox[d])
             t == IF n = 0 THEN Pull(d)
                  ELSE IF has[d] /\ seq[d] >= n THEN Idle
                  ELSE IF ~has[d] THEN [stage |-> "read", again |-> FALSE]
                  ELSE IF seq[d] + 1 < n THEN Pull(d)
                  ELSE [stage |-> "upd", n |-> n]
  <2>1. inbox[d] \in Seq(0..Len(log)) /\ inbox[d] # <<>>
    BY <1>2, InboxOK DEF Receive
  <2>2. n \in 0..Len(log) /\ Tail(inbox[d]) \in Seq(0..Len(log))
    BY <2>1, SeqFacts
  <2>3. inbox' = [inbox EXCEPT ![d] = Tail(@)]
    BY <1>2 DEF Receive
  <2>4. inbox' \in [Device -> Seq(0..Len(log))]
    BY <2>2, <2>3, InboxOK
  <2>5. Goto(d, w, t)
    BY <1>2 DEF Receive
  <2>6. t \in Requests /\ Holds(d, w, t) /\ t.stage \notin {"call", "answer", "store"}
    <3>1. n # 0 /\ has[d] => [stage |-> "upd", n |-> n] \in Requests
                             /\ Holds(d, w, [stage |-> "upd", n |-> n])
      BY <2>2, LogOK DEF Requests, Holds
    <3>2. [stage |-> "read", again |-> FALSE] \in Requests
          /\ Holds(d, w, [stage |-> "read", again |-> FALSE])
      BY PlainHolds
    <3>3. /\ [stage |-> "upd", n |-> n].stage = "upd"
          /\ [stage |-> "read", again |-> FALSE].stage = "read"
      OBVIOUS
    <3> QED
      BY <3>1, <3>2, <3>3, PullHolds, IdleHolds
  <2>7. UNCHANGED <<server, kv, lock, creating, connected, rest>>
    BY <1>2 DEF Receive
  <2> HIDE DEF t, n
  <2> QED
    BY <2>4, <2>5, <2>6, <2>7, OnlyTask, FlagsOK DEF server, kv, rest
<1> QED
  BY <1>1, <1>2

LEMMA CollectInv ==
  ASSUME IndInv, NEW d \in Device, NEW w \in Worker, Collect(d, w)
  PROVE  IndInv'
<1>1. UNCHANGED <<server, kv, lock, inbox, connected, rest>>
  BY DEF Collect
<1>2. creating' \in [Device -> BOOLEAN]
  <2>1. creating' = creating \/ creating' = [creating EXCEPT ![d] = @ \/ seq[d] = 0]
    BY DEF Collect
  <2>2. creating \in [Device -> BOOLEAN]
    BY FlagsOK
  <2>3. (creating[d] \/ seq[d] = 0) \in BOOLEAN
    OBVIOUS
  <2> QED
    BY <2>1, <2>2, <2>3
<1>3. ASSUME NEW t \in Requests, Goto(d, w, t), Holds(d, w, t),
             t.stage \notin {"call", "answer", "store"}
      PROVE  IndInv'
  BY <1>1, <1>2, <1>3, OnlyTask, InboxOK, FlagsOK DEF server, kv, rest
<1>4. CASE ~connected[d]
  BY <1>3, <1>4, IdleHolds DEF Collect, Done
<1>5. CASE connected[d] /\ frontier[d] # {}
  <2> DEFINE t == [stage |-> "lock", sent |-> frontier[d]]
  <2>1. t \in Requests
    BY DEF Requests, IndInv, TypeOK
  <2>2. has[d]
    BY <1>5 DEF IndInv, Unborn
  <2>3. Holds(d, w, t)
    BY <2>2 DEF Holds
  <2>4. Goto(d, w, t) /\ t.stage = "lock"
    BY <1>5 DEF Collect
  <2> HIDE DEF t
  <2> QED
    BY <1>3, <2>1, <2>3, <2>4
<1>6. CASE connected[d] /\ frontier[d] = {}
  <2>1. Goto(d, w, Pull(d))
    BY <1>6 DEF Collect
  <2> QED
    BY <1>3, <2>1, PullHolds
<1> QED
  BY <1>4, <1>5, <1>6

LEMMA ServeReadsInv ==
  ASSUME IndInv, NEW d \in Device, NEW w \in Worker,
         ServePull(d, w) \/ Load(d, w) \/ ServeRead(d, w)
  PROVE  IndInv'
<1>0. ASSUME NEW t \in Requests, Goto(d, w, t), Holds(d, w, t),
             t.stage \notin {"call", "answer", "store"}
      PROVE  IndInv'
  <2>1. UNCHANGED <<server, kv, lock, creating, inbox, connected, rest>>
    BY DEF ServePull, Load, ServeRead
  <2> QED
    BY <1>0, <2>1, OnlyTask, InboxOK, FlagsOK DEF server, kv, rest
<1>1. CASE ServePull(d, w)
  <2> DEFINE last == task[d][w].seq
             reset == last < Len(log) /\ (last = 0 \/ Len(log) - last > PullMax)
             t == [stage |-> "pulled", seq |-> last, to |-> Len(log), reset |-> reset]
  <2>1. CASE log = <<>>
    BY <1>0, <1>1, <2>1, IdleHolds DEF ServePull, Done
  <2>2. CASE log # <<>>
    <3>1. Stage(d, w) = "pulling"
      BY <1>1 DEF ServePull
    <3>2. last \in Nat /\ last <= Len(log) /\ has[d]
      BY <3>1, TaskOf, Carries DEF Stage, Holds
    <3>3. t \in Requests
      BY <3>2, LogOK DEF Requests
    <3>4. Holds(d, w, t)
      BY <3>2, LogOK DEF Holds
    <3>5. Goto(d, w, t) /\ t.stage = "pulled"
      BY <1>1, <2>2 DEF ServePull
    <3> HIDE DEF t
    <3> QED
      BY <1>0, <3>3, <3>4, <3>5
  <2> QED
    BY <2>1, <2>2
<1>2. CASE Load(d, w)
  <2> DEFINE t == [stage |-> "read", again |-> FALSE]
  <2>1. t \in Requests /\ Holds(d, w, t)
    BY PlainHolds
  <2>2. Goto(d, w, t) /\ t.stage = "read"
    BY <1>2 DEF Load
  <2> HIDE DEF t
  <2> QED
    BY <1>0, <2>1, <2>2
<1>3. CASE ServeRead(d, w)
  <2>1. CASE ~there
    BY <1>0, <1>3, <2>1, IdleHolds DEF ServeRead, Done
  <2>2. CASE there
    <3> DEFINE t == [stage |-> "fetched", to |-> Len(log), again |-> task[d][w].again]
    <3>1. Stage(d, w) = "read"
      BY <1>3 DEF ServeRead
    <3>2. t \in Requests /\ Holds(d, w, t)
      BY <3>1, TaskOf, Carries, LogOK DEF Stage, Requests, Holds
    <3>3. Goto(d, w, t) /\ t.stage = "fetched"
      BY <1>3, <2>2 DEF ServeRead
    <3> HIDE DEF t
    <3> QED
      BY <1>0, <3>2, <3>3
  <2> QED
    BY <2>1, <2>2
<1> QED
  BY <1>1, <1>2, <1>3

LEMMA GiveUpInv ==
  ASSUME IndInv, NEW d \in Device, NEW w \in Worker, PullFail(d, w) \/ LockTimeout(d, w)
  PROVE  IndInv'
<1>1. /\ UNCHANGED <<server, kv, lock, creating, inbox, connected, made, case, restarted, spoilt>>
      /\ Goto(d, w, Idle) /\ faults' = faults + 1
  BY DEF PullFail, LockTimeout, Fails, Done
<1> QED
  BY <1>1, OnlyTask, InboxOK, IdleHolds, FlagsOK DEF server, kv

-----------------------------------------------------------------------------
(* The lock, and the surroundings.                                         *)

\* A worker takes the lock, with what it has read and is going to write.
LEMMA LockStep ==
  ASSUME IndInv, NEW d \in Device, NEW w \in Worker, NEW t \in Requests, Goto(d, w, t),
         Unlocked(d), lock' = [lock EXCEPT ![d] = w],
         UNCHANGED <<server, kv, creating, inbox, connected, rest>>,
         Holds(d, w, t), d \notin spoilt => Fits(d, t)
  PROVE  IndInv'
<1>1. /\ lock' \in [Device -> Worker \cup {NoWorker}]
      /\ \A e \in Device : lock'[e] = lock[e] \/ lock[e] = NoWorker
  BY FlagsOK DEF Unlocked
<1>2. Requests' = Requests
  BY DEF Requests, rest
<1>3. task' \in [Device -> [Worker -> Requests]]
  BY <1>2, GotoIs DEF IndInv
<1>4. ASSUME NEW e \in Device, NEW v \in Worker
      PROVE  \/ task'[e][v] = task[e][v]
             \/ /\ Holds(e, v, task'[e][v])
                /\ e \notin spoilt' => Owns(e, v, task[e][v])'
  <2>1. CASE e = d /\ v = w
    <3>1. task'[e][v] = t /\ lock'[e] = v
      BY <2>1, GotoIs, FlagsOK DEF IndInv
    <3>2. \A n : Upto(n)' = Upto(n)
      BY UptoSame DEF server
    <3>3. e \notin spoilt' => Owns(e, v, task[e][v])'
      BY <2>1, <3>1, <3>2 DEF Owns, Fits, kv, rest
    <3> QED
      BY <2>1, <3>1, <3>3
  <2>2. CASE e # d \/ v # w
    BY <2>2, GotoIs DEF IndInv
  <2> QED
    BY <2>1, <2>2
<1>5. /\ UNCHANGED <<log, has, model, seq, frontier, made, case>>
      /\ there' = there /\ dirty' = dirty /\ creating' = creating /\ inbox' = inbox
      /\ connected' = connected /\ faults' = faults /\ restarted' = restarted /\ spoilt' = spoilt
  BY DEF server, kv, rest
<1> QED
  BY <1>1, <1>3, <1>4, <1>5, FlagsOK, InboxOK, WorkStep

LEMMA PushLockInv ==
  ASSUME IndInv, NEW d \in Device, NEW w \in Worker, PushLock(d, w)
  PROVE  IndInv'
<1> DEFINE t == [stage |-> "call", sent |-> task[d][w].sent, model |-> model[d], seq |-> seq[d]]
<1>1. /\ task[d][w].stage = "lock" /\ Unlocked(d) /\ lock' = [lock EXCEPT ![d] = w]
      /\ Goto(d, w, t) /\ UNCHANGED <<server, kv, creating, inbox, connected, rest>>
  BY DEF PushLock, Stage
<1>2. task[d][w] \in Requests /\ Holds(d, w, task[d][w])
  BY TaskOf
<1>3. model[d] \subseteq made /\ seq[d] \in Nat /\ seq[d] <= Len(log)
  BY DEF IndInv, TypeOK, Numbered
<1>4. t \in Requests /\ Holds(d, w, t)
  <2>1. task[d][w].sent \subseteq made
    BY <1>1, <1>2, Carries
  <2>2. task[d][w].sent \subseteq frontier[d] \cup Upto(Len(log)) /\ has[d]
    BY <1>1, <1>2 DEF Holds
  <2> QED
    BY <1>3, <2>1, <2>2 DEF Requests, Holds
<1>5. Fits(d, t)
  BY DEF Fits
<1> HIDE DEF t
<1> QED
  BY <1>1, <1>4, <1>5, LockStep

\* The lease of a push ends; requests that nobody waits for are served or lost; connections
\* and devices go down and come back.
LEMMA SurroundingsInv ==
  ASSUME IndInv, NEW d \in Device,
         \/ \E w \in Worker : LeaseEnd(d, w)
         \/ ServeCreate(d) \/ CreateLost(d) \/ Disconnect(d) \/ Connect(d) \/ Restart(d)
  PROVE  IndInv'
<1> USE DEF LeaseEnd, ServeCreate, CreateLost, Disconnect, Connect, Restart
<1>1. UNCHANGED <<log, has, model, seq, frontier, dirty, made, case>>
  BY DEF server, kv, rest, Server!Create
<1>2. there' \in BOOLEAN
  BY FlagsOK DEF server, Server!Create
<1>3. creating' \in [Device -> BOOLEAN] /\ connected' \in [Device -> BOOLEAN]
  <2>1. creating' = creating \/ creating' = [creating EXCEPT ![d] = FALSE]
    OBVIOUS
  <2>2. \/ connected' = connected \/ connected' = [connected EXCEPT ![d] = FALSE]
        \/ connected' = [connected EXCEPT ![d] = TRUE]
    OBVIOUS
  <2> QED
    BY <2>1, <2>2, FlagsOK
<1>4. inbox' \in [Device -> Seq(0..Len(log))]
  <2>1. <<>> \in Seq(0..Len(log)) /\ inbox \in [Device -> Seq(0..Len(log))]
    BY SeqFacts, InboxOK
  <2>2. inbox' = inbox \/ inbox' = [inbox EXCEPT ![d] = <<>>] \/ Announce(TRUE, 0)
    OBVIOUS
  <2>3. Len(log) \in Nat /\ Len(log) <= Len(log) /\ 0 \in 0..Len(log)
    BY LogOK
  <2> QED
    BY <2>1, <2>2, <2>3, AnnounceIs
<1>5. faults' \in Nat /\ restarted' \in BOOLEAN
  <2>1. faults' = faults \/ faults' = faults + 1
    BY DEF Fails, rest
  <2>2. restarted' = restarted \/ restarted' = TRUE
    BY DEF rest
  <2>3. faults' \in Nat
    BY <2>1, FlagsOK
  <2>4. restarted' \in BOOLEAN
    BY <2>2, FlagsOK
  <2> QED
    BY <2>3, <2>4
<1>6. spoilt' = spoilt \/ spoilt' = spoilt \cup {d}
  BY DEF rest
<1>7. lock' \in [Device -> Worker \cup {NoWorker}]
  <2>1. lock' = lock \/ lock' = [lock EXCEPT ![d] = NoWorker]
    OBVIOUS
  <2> QED
    BY <2>1, FlagsOK
<1>8. task' = task \/ task' = [task EXCEPT ![d] = [w \in Worker |-> Idle]]
  OBVIOUS
<1>9. task' \in [Device -> [Worker -> Requests]]
  <2>1. [w \in Worker |-> Idle] \in [Worker -> Requests]
    BY IdleHolds
  <2> QED
    BY <1>8, <2>1, FlagsOK
<1>10. ASSUME NEW e \in Device, NEW v \in Worker
       PROVE  \/ /\ task'[e][v] = task[e][v]
                 /\ e \notin spoilt' => lock'[e] = lock[e] \/ lock[e] = NoWorker
              \/ /\ Holds(e, v, task'[e][v])
                 /\ e \notin spoilt' => Owns(e, v, task[e][v])'
  <2>1. CASE e # d
    <3>1. task'[e][v] = task[e][v] /\ lock'[e] = lock[e]
      BY <2>1, FlagsOK
    <3> QED
      BY <3>1
  <2>2. CASE e = d /\ Restart(d)
    <3>1. task'[e][v] = Idle
      BY <2>2, FlagsOK
    <3>2. Owns(e, v, task[e][v])'
      BY <3>1, IdleHolds DEF Owns
    <3> QED
      BY <3>1, <3>2, IdleHolds
  <2>3. CASE e = d /\ ~Restart(d)
    <3>1. task' = task /\ (d \notin spoilt' => lock' = lock)
      BY <2>3
    <3> QED
      BY <2>3, <3>1
  <2> QED
    BY <2>1, <2>2, <2>3
<1>11. spoilt \subseteq spoilt' /\ spoilt' \subseteq Device
  BY <1>6, FlagsOK
<1>12. dirty' \in [Device -> BOOLEAN]
  BY <1>1, FlagsOK
<1> QED
  BY <1>1, <1>2, <1>3, <1>4, <1>5, <1>7, <1>9, <1>10, <1>11, <1>12, WorkStep

-----------------------------------------------------------------------------
(* Steps that write the block of a device.                                 *)

\* A worker stores model m, number s and frontier f, which may hold new edits and lacks
\* nothing but what is in the log.  Unless the device is spoilt by then, nobody else has the
\* lock and the model is what the number says.
LEMMA StoreStep ==
  ASSUME IndInv, NEW d \in Device, NEW w \in Worker,
         NEW t \in [stage : {"idle", "mark"}], Goto(d, w, t),
         NEW m, NEW s \in Nat, NEW f, NEW new,
         model' = [model EXCEPT ![d] = m],
         seq' = [seq EXCEPT ![d] = s],
         frontier' = [frontier EXCEPT ![d] = f],
         has' = [has EXCEPT ![d] = TRUE],
         Unlock(d, w),
         UNCHANGED <<log, there, creating, inbox, connected, case, restarted>>,
         dirty' \in [Device -> BOOLEAN], faults' \in Nat,
         spoilt' = spoilt \/ spoilt' = spoilt \cup {d},
         s <= Len(log), m \subseteq made \cup new,
         frontier[d] \subseteq f \cup Upto(Len(log)), f \subseteq made \cup new, new \subseteq f,
         made' = made \cup new, new \subseteq Edit, IsFiniteSet(new),
         d \notin spoilt' =>
           lock[d] \in {NoWorker, w} /\ Upto(s) \subseteq m /\ m \subseteq Upto(s) \cup f
  PROVE  IndInv'
<1>1. \A n : Upto(n)' = Upto(n)
  BY UptoSame
<1>2. /\ model'[d] = m /\ seq'[d] = s /\ frontier'[d] = f /\ has'[d] = TRUE
      /\ \A e \in Device : e # d =>
           /\ model'[e] = model[e] /\ seq'[e] = seq[e] /\ frontier'[e] = frontier[e]
           /\ has'[e] = has[e] /\ lock'[e] = lock[e]
      /\ lock' \in [Device -> Worker \cup {NoWorker}]
  BY DEF IndInv, TypeOK, Unlock
<1>3. IsFiniteSet(made)'
  BY FS_Union DEF IndInv
<1>4. Upto(Len(log)) \subseteq made
  BY UptoMade, LogOK DEF IndInv
<1>5. TypeOK'
  <2>1. model' \in [Device -> SUBSET made']
    <3>1. model \in [Device -> SUBSET made]
      BY DEF IndInv, TypeOK
    <3>2. \A e \in Device : model'[e] \subseteq made'
      BY <1>2, <3>1
    <3> QED
      BY <3>1, <3>2
  <2>2. frontier' \in [Device -> SUBSET made']
    <3>1. frontier \in [Device -> SUBSET made]
      BY DEF IndInv, TypeOK
    <3>2. \A e \in Device : frontier'[e] \subseteq made'
      BY <1>2, <3>1
    <3> QED
      BY <3>1, <3>2
  <2>3. seq' \in [Device -> Nat] /\ has' \in [Device -> BOOLEAN]
    BY DEF IndInv, TypeOK
  <2>4. t \in Requests'
    BY DEF Requests
  <2>5. Requests \subseteq Requests'
    BY DEF Requests
  <2>6. task' \in [Device -> [Worker -> Requests']]
    BY <2>4, <2>5, GotoIs DEF IndInv
  <2>7. log' \in Seq(SUBSET made')
    <3>1. SUBSET made \subseteq SUBSET made' /\ log \in Seq(SUBSET made)
      BY LogOK
    <3> HIDE DEF IndInv
    <3>2. log \in Seq(SUBSET made')
      BY <3>1, Wider
    <3> QED
      BY <3>2
  <2>8. made' \subseteq Edit /\ spoilt' \subseteq Device
    BY DEF IndInv, TypeOK
  <2> QED
    BY <1>2, <2>1, <2>2, <2>3, <2>6, <2>7, <2>8 DEF IndInv, TypeOK
<1>6. NothingLost'
  <2>1. made = Upto(Len(log)) \cup UNION {frontier[e] : e \in Device}
    BY DEF IndInv, NothingLost
  <2>2. \A x : x \in UNION {frontier'[e] : e \in Device} <=> \E e \in Device : x \in frontier'[e]
    OBVIOUS
  <2>3. \A x : x \in UNION {frontier[e] : e \in Device} <=> \E e \in Device : x \in frontier[e]
    OBVIOUS
  <2>4. made' \subseteq Upto(Len(log)) \cup UNION {frontier'[e] : e \in Device}
    BY <1>2, <2>1, <2>2, <2>3
  <2>5. UNION {frontier'[e] : e \in Device} \subseteq made'
    BY <1>2, <2>1, <2>2, <2>3
  <2> QED
    BY <1>1, <1>4, <2>4, <2>5 DEF NothingLost
<1>7. Numbered' /\ Exact'
  BY <1>1, <1>2 DEF IndInv, Numbered, Exact
<1>8. Unborn'
  BY <1>2 DEF IndInv, Unborn
<1>9. TasksHold'
  <2> SUFFICES ASSUME NEW e \in Device, NEW v \in Worker PROVE Holds(e, v, task[e][v])'
    BY DEF TasksHold
  <2>1. CASE e = d /\ v = w
    <3>1. task'[e][v] = t
      BY <2>1, GotoIs DEF IndInv
    <3> QED
      BY <3>1 DEF Holds
  <2>2. CASE e # d
    BY <1>1, <1>2, <2>2, GotoIs, TaskOf DEF Holds, IndInv
  <2>3. CASE e = d /\ v # w
    <3>1. task'[e][v] = task[e][v] /\ Holds(e, v, task[e][v])
      BY <2>3, GotoIs, TaskOf DEF IndInv
    <3>2. task[e][v].stage \in {"lock", "call", "answer"} =>
            task[e][v].sent \subseteq f \cup Upto(Len(log))
      BY <2>3, <3>1 DEF Holds
    <3> QED
      BY <1>1, <1>2, <2>3, <3>1, <3>2 DEF Holds
  <2> QED
    BY <2>1, <2>2, <2>3
<1>10. TasksOwn'
  <2> SUFFICES ASSUME NEW e \in Device \ spoilt', NEW v \in Worker PROVE Owns(e, v, task[e][v])'
    BY DEF TasksOwn
  <2>0. e \notin spoilt
    OBVIOUS
  <2>1. CASE e = d /\ v = w
    <3>1. task'[e][v] = t
      BY <2>1, GotoIs DEF IndInv
    <3> QED
      BY <3>1 DEF Owns
  <2>2. CASE e # d
    BY <1>1, <1>2, <2>0, <2>2, GotoIs, TaskOf DEF Owns, Fits, IndInv
  <2>3. CASE e = d /\ v # w
    <3>1. task'[e][v] = task[e][v] /\ Owns(e, v, task[e][v])
      BY <2>0, <2>3, GotoIs, TaskOf DEF IndInv
    <3>2. task[e][v].stage \notin {"call", "answer", "store"}
      BY <2>3, <3>1, WorkerAssumption DEF Owns, NoWorker
    <3> QED
      BY <3>1, <3>2 DEF Owns
  <2> QED
    BY <2>1, <2>2, <2>3
<1> QED
  BY <1>3, <1>5, <1>6, <1>7, <1>8, <1>9, <1>10 DEF IndInv

\* Where nobody has the lock, giving it back changes nothing.
LEMMA StaysUnlocked ==
  ASSUME IndInv, NEW d \in Device, NEW w \in Worker, Unlocked(d), lock' = lock
  PROVE  Unlock(d, w)
BY FlagsOK DEF Unlocked, Unlock

LEMMA StaysThere ==
  ASSUME IndInv, NEW d \in Device, has[d]
  PROVE  has = [has EXCEPT ![d] = TRUE]
BY DEF IndInv, TypeOK

\* What the block of a device is.
LEMMA KvTypes ==
  ASSUME IndInv, NEW d \in Device
  PROVE  /\ seq[d] \in Nat /\ seq[d] <= Len(log)
         /\ d \notin spoilt => /\ Upto(seq[d]) \subseteq model[d]
                               /\ model[d] \subseteq Upto(seq[d]) \cup frontier[d]
         /\ model[d] \subseteq made /\ frontier[d] \subseteq made
         /\ seq \in [Device -> Nat] /\ model \in [Device -> SUBSET made]
         /\ frontier \in [Device -> SUBSET made]
BY DEF IndInv, TypeOK, Numbered, Exact

\* The next edit is a new name within the bound.
LEMMA NewEditIs ==
  ASSUME IndInv, NEW d \in Device, MayEdit(d)
  PROVE  NewEdit(d) \in Edit
<1>1. Cardinality(made) \in Nat
  BY FS_CardinalityType DEF IndInv
<1>2. case.edits \in 0..MaxEdits
  BY CasesAssumption DEF IndInv, TypeOK
<1>3. Cardinality(made) + 1 \in 1..MaxEdits
  BY <1>1, <1>2, MaxEditsAssumption DEF MayEdit
<1> QED
  BY <1>3 DEF NewEdit, Edit

LEMMA CreateInv ==
  ASSUME IndInv, NEW d \in Device, NEW w \in Worker, NEW edits \in {{}, {NewEdit(d)}},
         Create(d, w, edits)
  PROVE  IndInv'
<1> DEFINE t == [stage |-> "mark"]
<1>1. frontier[d] = {} /\ model[d] = {} /\ seq[d] = 0
  BY DEF Create, IndInv, Unborn
<1>2. edits \subseteq Edit
  BY NewEditIs DEF Create
<1>3. IsFiniteSet(edits)
  <2>1. edits = {} \/ edits = {NewEdit(d)}
    OBVIOUS
  <2> QED
    <3>1. IsFiniteSet({NewEdit(d)})
      BY FS_Singleton, Zenon
    <3>2. IsFiniteSet({})
      BY FS_EmptySet, Zenon
    <3> QED
      BY <2>1, <3>1, <3>2
<1>4. frontier' = [frontier EXCEPT ![d] = edits]
  BY <1>1 DEF Create
<1>5. Upto(0) = {}
  BY InUpto
<1>6. t \in [stage : {"idle", "mark"}] /\ Goto(d, w, t)
  BY DEF Create
<1>7. Unlock(d, w) /\ lock[d] \in {NoWorker, w}
  BY StaysUnlocked DEF Create, Unlocked
<1>8. /\ has' = [has EXCEPT ![d] = TRUE] /\ model' = [model EXCEPT ![d] = edits]
      /\ seq' = [seq EXCEPT ![d] = 0] /\ made' = made \cup edits
      /\ UNCHANGED <<log, there, creating, inbox, connected, case, restarted, dirty, faults, spoilt>>
  BY DEF Create, server
<1>9. dirty' \in [Device -> BOOLEAN] /\ faults' \in Nat
  BY <1>8, FlagsOK
<1>10. /\ 0 \in Nat /\ 0 <= Len(log) /\ Upto(0) \subseteq edits /\ edits \subseteq Upto(0) \cup edits
       /\ frontier[d] \subseteq edits \cup Upto(Len(log)) /\ edits \subseteq made \cup edits
  BY <1>1, <1>5, LogOK
<1> HIDE DEF t
<1> QED
  BY <1>2, <1>3, <1>4, <1>6, <1>7, <1>8, <1>9, <1>10, StoreStep

LEMMA MergeInv ==
  ASSUME IndInv, NEW d \in Device, NEW w \in Worker, Merge(d, w)
  PROVE  IndInv'
<1> DEFINE t == [stage |-> "mark"]
           new == {NewEdit(d)}
           f == frontier[d] \cup new
<1>1. new \subseteq Edit /\ IsFiniteSet(new)
  BY NewEditIs, FS_Singleton DEF Merge
<1>2. t \in [stage : {"idle", "mark"}] /\ Goto(d, w, t)
  BY DEF Merge
<1>3. Unlock(d, w) /\ lock[d] \in {NoWorker, w}
  BY StaysUnlocked DEF Merge, Unlocked
<1>4. /\ has' = [has EXCEPT ![d] = TRUE]
  BY StaysThere DEF Merge
<1>5. /\ model' = [model EXCEPT ![d] = model[d]] /\ seq' = [seq EXCEPT ![d] = seq[d]]
      /\ frontier' = [frontier EXCEPT ![d] = f] /\ made' = made \cup new
      /\ UNCHANGED <<log, there, creating, inbox, connected, case, restarted, dirty, faults, spoilt>>
  BY KvTypes DEF Merge, server
<1>6. dirty' \in [Device -> BOOLEAN] /\ faults' \in Nat
  BY <1>5, FlagsOK
<1>7. /\ seq[d] \in Nat /\ seq[d] <= Len(log)
      /\ model[d] \subseteq made \cup new /\ frontier[d] \subseteq f \cup Upto(Len(log))
      /\ f \subseteq made \cup new /\ new \subseteq f
      /\ d \notin spoilt => Upto(seq[d]) \subseteq model[d] /\ model[d] \subseteq Upto(seq[d]) \cup f
  BY KvTypes
<1> HIDE DEF new, f, t
<1> QED
  BY <1>1, <1>2, <1>3, <1>4, <1>5, <1>6, <1>7, StoreStep

\* A call stores model m and number s, and leaves the frontier alone.
LEMMA PulledStep ==
  ASSUME IndInv, NEW d \in Device, NEW w \in Worker, Goto(d, w, Idle), NEW m, NEW s \in Nat,
         model' = [model EXCEPT ![d] = m], seq' = [seq EXCEPT ![d] = s],
         has' = [has EXCEPT ![d] = TRUE], Unlock(d, w),
         UNCHANGED <<server, frontier, dirty, creating, inbox, connected, rest>>,
         s <= Len(log), m \subseteq made,
         d \notin spoilt =>
           lock[d] \in {NoWorker, w} /\ Upto(s) \subseteq m /\ m \subseteq Upto(s) \cup frontier[d]
  PROVE  IndInv'
<1>1. Idle \in [stage : {"idle", "mark"}]
  BY DEF Idle
<1>2. frontier' = [frontier EXCEPT ![d] = frontier[d]] /\ made' = made \cup {}
  BY KvTypes DEF rest
<1>3. dirty' \in [Device -> BOOLEAN] /\ faults' \in Nat /\ spoilt' = spoilt
  BY FlagsOK DEF rest
<1>4. IsFiniteSet({}) /\ {} \subseteq Edit /\ {} \subseteq frontier[d]
  BY FS_EmptySet
<1>5. frontier[d] \subseteq made \cup {} /\ m \subseteq made \cup {}
      /\ frontier[d] \subseteq frontier[d] \cup Upto(Len(log))
  BY KvTypes
<1>6. UNCHANGED <<log, there, creating, inbox, connected, case, restarted>>
  BY DEF server, rest
<1> QED
  BY <1>1, <1>2, <1>3, <1>4, <1>5, <1>6, StoreStep

\* What a pull is going to store.
LEMMA PullResult ==
  ASSUME IndInv, NEW d \in Device, NEW w \in Worker, PullLock(d, w), seq[d] = task[d][w].seq
  PROVE  LET t == task[d][w]
             m == Answered(t, model[d], t.to)
         IN  /\ Storing(d, w, m, t.to) /\ Unlocked(d) /\ m \subseteq made
             /\ has[d] /\ t.to \in Nat /\ seq[d] <= t.to /\ t.to <= Len(log)
             /\ d \notin spoilt => Upto(t.to) \subseteq m /\ m \subseteq Upto(t.to) \cup frontier[d]
<1> DEFINE t == task[d][w]
<1>1. t.stage = "pulled" /\ t \in Requests /\ Holds(d, w, t)
  BY TaskOf DEF PullLock, PullLockOf
<1>2. has[d] /\ t.to \in Nat /\ seq[d] <= t.to /\ t.to <= Len(log)
  BY <1>1, Carries DEF Holds
<1>3. Storing(d, w, Answered(t, model[d], t.to), t.to) /\ Unlocked(d)
  BY DEF PullLock, PullLockOf
<1>4. Upto(t.to) = Upto(seq[d]) \cup Between(seq[d], t.to)
  BY <1>2, KvTypes, UptoBetween
<1>5. Upto(t.to) \subseteq made
  BY <1>2, UptoMade, LogOK DEF IndInv
<1> QED
  BY <1>2, <1>3, <1>4, <1>5, KvTypes DEF Answered

\* What a call that has the lock is going to store.
LEMMA StoringInv ==
  ASSUME IndInv, NEW d \in Device, NEW w \in Worker, Unlocked(d), NEW m, NEW n \in Nat,
         Storing(d, w, m, n), UNCHANGED <<server, kv, creating, inbox, connected, rest>>,
         has[d], m \subseteq made, seq[d] <= n, n <= Len(log),
         d \notin spoilt => Upto(n) \subseteq m /\ m \subseteq Upto(n) \cup frontier[d]
  PROVE  IndInv'
<1> DEFINE t == [stage |-> "store", model |-> m, seq |-> n]
<1>1. t \in Requests /\ Holds(d, w, t)
  BY DEF Requests, Holds
<1>2. Goto(d, w, t) /\ lock' = [lock EXCEPT ![d] = w]
  BY DEF Storing
<1>3. d \notin spoilt => Fits(d, t)
  BY DEF Fits
<1> HIDE DEF t
<1> QED
  BY <1>1, <1>2, <1>3, LockStep

LEMMA PullLockInv ==
  ASSUME IndInv, NEW d \in Device, NEW w \in Worker, PullLock(d, w)
  PROVE  IndInv'
<1> DEFINE t == task[d][w]
<1>0. UNCHANGED <<server, kv, creating, inbox, connected, rest>>
  BY DEF PullLock, PullLockOf
<1>1. CASE seq[d] = t.seq
  <2> DEFINE m == Answered(t, model[d], t.to)
  <2>1. /\ Storing(d, w, m, t.to) /\ Unlocked(d) /\ m \subseteq made
        /\ has[d] /\ t.to \in Nat /\ seq[d] <= t.to /\ t.to <= Len(log)
        /\ d \notin spoilt => Upto(t.to) \subseteq m /\ m \subseteq Upto(t.to) \cup frontier[d]
    BY <1>1, PullResult
  <2> HIDE DEF m, t
  <2> QED
    BY <1>0, <2>1, StoringInv
<1>2. CASE seq[d] # t.seq
  <2>1. Goto(d, w, Idle) /\ lock' = lock
    BY <1>2 DEF PullLock, PullLockOf, Done
  <2> QED
    BY <1>0, <2>1, OnlyTask, InboxOK, IdleHolds, FlagsOK DEF server, kv, rest
<1> QED
  BY <1>1, <1>2

\* An event that is applied is the next batch.
LEMMA UpdLockInv ==
  ASSUME IndInv, NEW d \in Device, NEW w \in Worker, UpdLock(d, w)
  PROVE  IndInv'
<1> DEFINE n == task[d][w].n
<1>0. UNCHANGED <<server, kv, creating, inbox, connected, rest>> /\ Unlocked(d)
  BY DEF UpdLock
<1>1. task[d][w].stage = "upd" /\ task[d][w] \in Requests /\ Holds(d, w, task[d][w])
  BY TaskOf DEF UpdLock, Stage
<1>2. has[d] /\ n \in 1..Len(log) /\ n \in Nat /\ seq[d] \in Nat /\ Len(log) \in Nat
  BY <1>1, Carries, KvTypes, LogOK DEF Holds
<1>3. CASE seq[d] < n /\ n <= seq[d] + 1
  <2> DEFINE m == model[d] \cup log[n]
  <2>1. Storing(d, w, m, n)
    BY <1>2, <1>3 DEF UpdLock
  <2>2. Upto(n) = Upto(seq[d]) \cup log[n]
    <3>1. n \in Nat \ {0} /\ n - 1 = seq[d]
      BY <1>2, <1>3
    <3> QED
      BY <3>1, UptoNext
  <2>3. m \subseteq made /\ (d \notin spoilt => Upto(n) \subseteq m /\ m \subseteq Upto(n) \cup frontier[d])
    <3>1. log[n] \subseteq made
      BY <1>2, LogOK
    <3> QED
      BY <2>2, <3>1, KvTypes
  <2>4. seq[d] <= n /\ n <= Len(log)
    BY <1>2, <1>3
  <2> HIDE DEF m, n
  <2> QED
    BY <1>0, <1>2, <2>1, <2>3, <2>4, StoringInv
<1>4. CASE ~(seq[d] < n /\ n <= seq[d] + 1)
  <2>1. /\ Goto(d, w, Idle) \/ Goto(d, w, Pull(d))
        /\ lock' = lock
    BY <1>2, <1>4 DEF UpdLock, Done
  <2> QED
    BY <1>0, <2>1, OnlyTask, InboxOK, IdleHolds, PullHolds, FlagsOK DEF server, kv, rest
<1> QED
  BY <1>3, <1>4

\* What a pull or an event has stored is what it was going to store.
LEMMA StoreResult ==
  ASSUME IndInv, NEW d \in Device, NEW w \in Worker, Store(d, w)
  PROVE  LET m == task[d][w].model
             s == task[d][w].seq
         IN  /\ model' = [model EXCEPT ![d] = m] /\ seq' = [seq EXCEPT ![d] = s]
             /\ has[d] /\ s \in Nat /\ s <= Len(log) /\ m \subseteq made
             /\ d \notin spoilt => /\ lock[d] = w /\ seq[d] <= s
                                   /\ Upto(s) \subseteq m /\ m \subseteq Upto(s) \cup frontier[d]
<1>1. task[d][w].stage = "store"
  BY DEF Store, Stage
<1> QED
  BY <1>1, TaskOf, Carries DEF Store, Holds, Owns, Fits

LEMMA StoreInv ==
  ASSUME IndInv, NEW d \in Device, NEW w \in Worker, Store(d, w)
  PROVE  IndInv'
<1> DEFINE m == task[d][w].model
           s == task[d][w].seq
<1>1. /\ model' = [model EXCEPT ![d] = m] /\ seq' = [seq EXCEPT ![d] = s]
      /\ has[d] /\ s \in Nat /\ s <= Len(log) /\ m \subseteq made
      /\ d \notin spoilt => /\ lock[d] = w /\ seq[d] <= s
                            /\ Upto(s) \subseteq m /\ m \subseteq Upto(s) \cup frontier[d]
  BY StoreResult
<1>2. Goto(d, w, Idle) /\ Unlock(d, w) /\ has' = has
      /\ UNCHANGED <<server, frontier, dirty, creating, inbox, connected, rest>>
  BY DEF Store, Done
<1>3. has' = [has EXCEPT ![d] = TRUE]
  BY <1>1, <1>2, StaysThere
<1> HIDE DEF m, s
<1> QED
  BY <1>1, <1>2, <1>3, PulledStep

LEMMA LoadResult ==
  ASSUME IndInv, NEW d \in Device, NEW w \in Worker, LoadStore(d, w)
  PROVE  LET to == task[d][w].to
         IN  /\ to \in Nat /\ to <= Len(log)
             /\ ~has[d] => /\ model' = [model EXCEPT ![d] = Upto(to)]
                           /\ seq' = [seq EXCEPT ![d] = to]
                           /\ seq[d] = 0 /\ frontier[d] = {} /\ model[d] = {}
<1>1. task[d][w].stage = "fetched" /\ task[d][w] \in Requests /\ Holds(d, w, task[d][w])
  BY TaskOf DEF LoadStore
<1> QED
  BY <1>1, Carries DEF Holds, LoadStore, IndInv, Unborn

LEMMA LoadStoreInv ==
  ASSUME IndInv, NEW d \in Device, NEW w \in Worker, LoadStore(d, w)
  PROVE  IndInv'
<1> DEFINE t == task[d][w]
<1>0. Unlocked(d) /\ UNCHANGED <<server, frontier, dirty, lock, creating, inbox, connected, rest>>
  BY DEF LoadStore
<1>1. CASE ~has[d]
  <2>1. Goto(d, w, Idle) /\ has' = [has EXCEPT ![d] = TRUE]
    BY <1>1 DEF LoadStore, Done
  <2> DEFINE m == Upto(t.to)
  <2>2. /\ model' = [model EXCEPT ![d] = m] /\ seq' = [seq EXCEPT ![d] = t.to]
        /\ t.to \in Nat /\ t.to <= Len(log) /\ m \subseteq Upto(t.to) \cup frontier[d]
    BY <1>1, LoadResult
  <2>3. Upto(t.to) \subseteq m /\ m \subseteq made
    BY <2>2, UptoMade, LogOK DEF IndInv
  <2>4. Unlock(d, w) /\ lock[d] \in {NoWorker, w}
    BY <1>0, StaysUnlocked DEF Unlocked
  <2> HIDE DEF m, t
  <2> QED
    BY <1>0, <2>1, <2>2, <2>3, <2>4, PulledStep
<1>2. CASE has[d]
  <2>1. /\ Goto(d, w, Pull(d)) \/ Goto(d, w, Idle)
        /\ UNCHANGED <<has, model, seq>>
    BY <1>2 DEF LoadStore, Done
  <2> QED
    BY <1>0, <2>1, OnlyTask, InboxOK, IdleHolds, PullHolds, FlagsOK DEF server, rest
<1> QED
  BY <1>1, <1>2

-----------------------------------------------------------------------------
(* push().                                                                 *)

\* The request the server serves.
LEMMA ServedIs ==
  ASSUME IndInv, NEW d \in Device, NEW w \in Worker, ServeUpdate(d, w)
  PROVE  LET t == task[d][w]
         IN  /\ t.stage = "call" /\ has[d]
             /\ t.sent \subseteq frontier[d] \cup Upto(Len(log)) /\ t.sent \subseteq made
             /\ t.model \subseteq made /\ t.seq \in Nat /\ t.seq <= Len(log)
             /\ d \notin spoilt => Owns(d, w, t)
             /\ log' = Append(log, t.sent) /\ there' = TRUE
             /\ UNCHANGED <<kv, lock, creating, connected, rest>>
<1>1. task[d][w].stage = "call" /\ task[d][w] \in Requests /\ Holds(d, w, task[d][w])
      /\ (d \notin spoilt => Owns(d, w, task[d][w]))
  BY TaskOf DEF ServeUpdate
<1>2. log' = Append(log, task[d][w].sent) /\ there' = TRUE
  BY DEF ServeUpdate, Server!Accept
<1> QED
  BY <1>1, <1>2, Carries DEF Holds, ServeUpdate

LEMMA ServeUpdateInv ==
  ASSUME IndInv, NEW d \in Device, NEW w \in Worker, ServeUpdate(d, w)
  PROVE  IndInv'
<1> DEFINE t == task[d][w]
           n == Len(log) + 1
           u == [stage |-> "answer", sent |-> t.sent, model |-> t.model, seq |-> t.seq,
                 to |-> n, reset |-> n - t.seq > PullMax]
<1>1. /\ t.stage = "call" /\ has[d]
      /\ t.sent \subseteq frontier[d] \cup Upto(Len(log)) /\ t.sent \subseteq made
      /\ t.model \subseteq made /\ t.seq \in Nat /\ t.seq <= Len(log)
      /\ d \notin spoilt => Owns(d, w, t)
      /\ log' = Append(log, t.sent) /\ there' = TRUE
      /\ UNCHANGED <<kv, lock, creating, connected, rest>>
  BY ServedIs
<1>2. Goto(d, w, u) /\ Announce(~there, n)
  BY DEF ServeUpdate
<1>3. /\ \A i \in 0..Len(log) : Upto(i)' = Upto(i)
      /\ \A i : i = Len(log) + 1 => Upto(i)' = Upto(Len(log)) \cup t.sent
      /\ Len(log') = Len(log) + 1
      /\ \A i \in 1..Len(log) : log'[i] = log[i]
      /\ log'[Len(log) + 1] = t.sent
  BY <1>1, UptoAppend, LogOK
<1>4. n \in Nat /\ Len(log) \in Nat /\ Len(log') = n /\ Len(log) < n
  BY <1>3, LogOK
<1>5. Upto(Len(log))' = Upto(Len(log)) \cup t.sent
  BY <1>3, <1>4
<1>6. u \in Requests
  <2>1. (n - t.seq > PullMax) \in BOOLEAN
    BY <1>1, <1>4, PullMaxAssumption
  <2> QED
    BY <1>1, <1>4, <2>1 DEF Requests
<1>7. TypeOK'
  <2>1. inbox' \in [Device -> Seq(0..Len(log'))]
    <3> DEFINE news == ~there
    <3>1. /\ news \in BOOLEAN /\ n \in 0..n /\ Announce(news, n)
          /\ Len(log) \in Nat /\ n \in Nat /\ Len(log) <= n
          /\ inbox \in [Device -> Seq(0..Len(log))]
      BY <1>2, <1>4, InboxOK DEF IndInv, TypeOK
    <3> HIDE DEF news, n
    <3>2. inbox' \in [Device -> Seq(0..n)]
      BY <3>1, AnnounceIs
    <3> QED
      BY <1>4, <3>2
  <2>2. Requests' = Requests
    BY <1>1 DEF Requests, rest
  <2>3. task' \in [Device -> [Worker -> Requests']]
    BY <1>2, <1>6, <2>2, GotoIs DEF IndInv
  <2>4. log' \in Seq(SUBSET made')
    <3>1. made' = made /\ t.sent \in SUBSET made
      BY <1>1 DEF rest
    <3> DEFINE S == SUBSET made
    <3>2. log \in Seq(S) /\ t.sent \in S
      BY <3>1, LogOK
    <3> HIDE DEF S, t
    <3>3. Append(log, t.sent) \in Seq(S)
      BY <3>2
    <3> QED
      BY <1>1, <3>1, <3>3 DEF S
  <2> HIDE DEF t, u, n
  <2> QED
    BY <1>1, <2>1, <2>3, <2>4 DEF IndInv, TypeOK, kv, rest
<1>8. IsFiniteSet(made)' /\ Unborn'
  BY <1>1 DEF IndInv, Unborn, kv, rest
<1>9. NothingLost'
  <2>1. made = Upto(Len(log)) \cup UNION {frontier[e] : e \in Device}
    BY DEF IndInv, NothingLost
  <2>2. made' = made /\ frontier' = frontier
    BY <1>1 DEF kv, rest
  <2> HIDE DEF t, u, n
  <2>3. made = Upto(Len(log)) \cup t.sent \cup UNION {frontier[e] : e \in Device}
    BY <1>1, <2>1
  <2> QED
    BY <1>5, <2>2, <2>3 DEF NothingLost
<1>10. Numbered' /\ Exact'
  <2>1. \A e \in Device : seq[e] \in 0..Len(log) /\ seq' = seq
    BY <1>1, <1>4, KvTypes DEF kv
  <2>2. \A e \in Device : Upto(seq[e])' = Upto(seq[e])
    BY <1>3, <2>1
  <2>3. model' = model /\ frontier' = frontier /\ spoilt' = spoilt
    BY <1>1 DEF kv, rest
  <2> QED
    BY <1>4, <2>1, <2>2, <2>3, KvTypes DEF Numbered, Exact
<1>11. TasksHold'
  <2> SUFFICES ASSUME NEW e \in Device, NEW v \in Worker PROVE Holds(e, v, task[e][v])'
    BY DEF TasksHold
  <2>1. CASE e = d /\ v = w
    <3>1. task'[e][v] = u
      BY <1>2, <2>1, GotoIs DEF IndInv
    <3> QED
      BY <1>1, <1>3, <1>4, <1>5, <2>1, <3>1 DEF Holds, kv
  <2>2. CASE e # d \/ v # w
    <3>1. task'[e][v] = task[e][v] /\ Holds(e, v, task[e][v]) /\ task[e][v] \in Requests
      BY <1>2, <2>2, GotoIs, TaskOf DEF IndInv
    <3> DEFINE x == task[e][v]
    <3>2. x.stage \in {"lock", "call", "answer"} => x.sent \subseteq frontier[e] \cup Upto(Len(log))'
      BY <1>5, <3>1 DEF Holds
    <3>3. x.stage = "answer" => x.to \in 1..n /\ log'[x.to] = x.sent /\ x.seq < x.to
      BY <1>3, <1>4, <3>1 DEF Holds
    <3>4. /\ x.stage = "pulling" => x.seq <= n
          /\ x.stage = "pulled" => x.seq <= x.to /\ x.to <= n
          /\ x.stage = "fetched" => x.to <= n
          /\ x.stage = "upd" => x.n \in 1..n
          /\ x.stage \in {"call", "store"} => x.seq <= n
      BY <1>4, <3>1, Carries DEF Holds
    <3>5. x.stage \in {"lock", "call", "answer", "pulling", "pulled", "upd", "store"} => has[e]
      BY <3>1 DEF Holds
    <3>6. task'[e][v] = x
      BY <3>1
    <3> HIDE DEF x, t, u, n
    <3> QED
      BY <1>1, <1>4, <3>2, <3>3, <3>4, <3>5, <3>6 DEF Holds, kv
  <2> QED
    BY <2>1, <2>2
<1>12. TasksOwn'
  <2> SUFFICES ASSUME NEW e \in Device \ spoilt', NEW v \in Worker PROVE Owns(e, v, task[e][v])'
    BY DEF TasksOwn
  <2>0. e \notin spoilt
    BY <1>1 DEF rest
  <2>1. CASE e = d /\ v = w
    <3>1. task'[e][v] = u
      BY <1>2, <2>1, GotoIs DEF IndInv
    <3>2. t.stage = "call" => u.stage = "answer" /\ u.model = t.model /\ u.seq = t.seq
      OBVIOUS
    <3> HIDE DEF u, t
    <3> QED
      BY <1>1, <2>0, <2>1, <3>1, <3>2 DEF Owns, Fits, kv
  <2>2. CASE e # d \/ v # w
    <3> DEFINE x == task[e][v]
    <3>1. task'[e][v] = x /\ Owns(e, v, x) /\ Holds(e, v, x) /\ x \in Requests
      BY <1>2, <2>0, <2>2, GotoIs, TaskOf DEF IndInv
    <3>2. x.stage = "store" => Upto(x.seq)' = Upto(x.seq)
      BY <1>3, <3>1, LogOK, Carries DEF Holds
    <3>3. UNCHANGED <<lock, model, seq, frontier>>
      BY <1>1 DEF kv
    <3>4. Owns(e, v, x) => Owns(e, v, task[e][v])'
      BY <3>1, <3>2, <3>3 DEF Owns, Fits
    <3> QED
      BY <3>1, <3>4
  <2> QED
    BY <2>1, <2>2
<1> QED
  BY <1>7, <1>8, <1>9, <1>10, <1>11, <1>12 DEF IndInv

\* What the answer to a push leads to: the log up to the new batch, if the device is not
\* spoilt; and what was sent is in the log.
LEMMA PushResult ==
  ASSUME IndInv, NEW d \in Device, NEW w \in Worker, PushStore(d, w)
  PROVE  LET t == task[d][w]
             m == Answered(t, t.model, t.to - 1) \cup t.sent
         IN  /\ model' = [model EXCEPT ![d] = m] /\ seq' = [seq EXCEPT ![d] = t.to]
             /\ frontier' = [frontier EXCEPT ![d] = @ \ t.sent]
             /\ has[d] /\ t.to \in Nat /\ t.to <= Len(log)
             /\ t.sent \subseteq Upto(t.to) /\ m \subseteq made
             /\ d \notin spoilt =>
                  /\ lock[d] = w /\ seq[d] <= t.to
                  /\ Upto(t.to) \subseteq m /\ m \subseteq Upto(t.to) \cup (frontier[d] \ t.sent)
<1> DEFINE t == task[d][w]
           a == Answered(t, t.model, t.to - 1)
           m == a \cup t.sent
<1>1. t.stage = "answer" /\ t \in Requests /\ Holds(d, w, t) /\ (d \notin spoilt => Owns(d, w, t))
  BY TaskOf DEF PushStore, PushStoreOf
<1>2. /\ has[d] /\ t.to \in 1..Len(log) /\ log[t.to] = t.sent /\ t.seq < t.to
      /\ d \notin spoilt => lock[d] = w /\ t.model = model[d] /\ t.seq = seq[d]
  BY <1>1 DEF Holds, Owns, Fits
<1>3. /\ model' = [model EXCEPT ![d] = m] /\ seq' = [seq EXCEPT ![d] = t.to]
      /\ frontier' = [frontier EXCEPT ![d] = @ \ t.sent]
  BY DEF PushStore, PushStoreOf
<1>4. /\ t.to \in Nat \ {0} /\ t.to - 1 \in Nat /\ t.to <= Len(log) /\ t.to - 1 \in 0..Len(log)
      /\ t.seq \in Nat /\ t.seq <= t.to - 1 /\ t.model \subseteq made /\ t.sent \subseteq made
  <2>1. t.seq \in Nat /\ t.model \subseteq made /\ t.sent \subseteq made
    BY <1>1, Carries
  <2> HIDE DEF t
  <2> QED
    BY <1>2, <2>1, LogOK
<1>5. Upto(t.to) = Upto(t.to - 1) \cup t.sent
  BY <1>2, <1>4, UptoNext
<1>6. Upto(t.to - 1) = Upto(t.seq) \cup Between(t.seq, t.to - 1)
  BY <1>4, UptoBetween
<1>7. a = Upto(t.to - 1) \/ a = t.model \cup Between(t.seq, t.to - 1)
  BY DEF Answered
<1>8. m \subseteq made
  <2>1. Upto(t.to - 1) \subseteq made
    BY <1>4, UptoMade DEF IndInv
  <2> QED
    BY <1>4, <1>6, <1>7, <2>1
<1>9. d \notin spoilt =>
        /\ lock[d] = w /\ seq[d] <= t.to
        /\ Upto(t.to) \subseteq m /\ m \subseteq Upto(t.to) \cup (frontier[d] \ t.sent)
  <2> SUFFICES ASSUME d \notin spoilt
               PROVE  /\ lock[d] = w /\ seq[d] <= t.to
                      /\ Upto(t.to) \subseteq m /\ m \subseteq Upto(t.to) \cup (frontier[d] \ t.sent)
    OBVIOUS
  <2>1. lock[d] = w /\ t.model = model[d] /\ t.seq = seq[d] /\ seq[d] <= t.to
    BY <1>2, <1>4
  <2>2. Upto(seq[d]) \subseteq model[d] /\ model[d] \subseteq Upto(seq[d]) \cup frontier[d]
    BY KvTypes
  <2>3. Upto(t.to) \subseteq m /\ m \subseteq Upto(t.to) \cup (frontier[d] \ t.sent)
    <3> HIDE DEF a, t
    <3> QED
      BY <1>5, <1>6, <1>7, <2>1, <2>2
  <2> QED
    BY <2>1, <2>3
<1>10. t.sent \subseteq Upto(t.to)
  BY <1>5
<1> QED
  BY <1>2, <1>3, <1>4, <1>8, <1>9, <1>10

LEMMA PushStoreInv ==
  ASSUME IndInv, NEW d \in Device, NEW w \in Worker, PushStore(d, w)
  PROVE  IndInv'
<1> DEFINE t == task[d][w]
           m == Answered(t, t.model, t.to - 1) \cup t.sent
           f == frontier[d] \ t.sent
           s == t.to
<1>1. /\ model' = [model EXCEPT ![d] = m] /\ seq' = [seq EXCEPT ![d] = s]
      /\ frontier' = [frontier EXCEPT ![d] = f]
      /\ has[d] /\ s \in Nat /\ s <= Len(log) /\ t.sent \subseteq Upto(s) /\ m \subseteq made
      /\ d \notin spoilt => lock[d] = w /\ Upto(s) \subseteq m /\ m \subseteq Upto(s) \cup f
  BY PushResult
<1>2. /\ dirty' = [dirty EXCEPT ![d] = FALSE] /\ Unlock(d, w)
      /\ Goto(d, w, Idle) /\ UNCHANGED <<server, has, creating, inbox, connected, rest>>
  BY DEF PushStore, PushStoreOf, Done
<1>3. Idle \in [stage : {"idle", "mark"}]
  BY DEF Idle
<1>4. has' = [has EXCEPT ![d] = TRUE]
  BY <1>1, <1>2, StaysThere
<1>5. dirty' \in [Device -> BOOLEAN] /\ faults' \in Nat /\ spoilt' = spoilt
  BY <1>2, FlagsOK DEF rest
<1>6. UNCHANGED <<log, there, creating, inbox, connected, case, restarted>> /\ made' = made \cup {}
  BY <1>2 DEF server, rest
<1>7. frontier[d] \subseteq f \cup Upto(Len(log)) /\ f \subseteq made \cup {} /\ m \subseteq made \cup {}
  <2>1. Upto(s) \subseteq Upto(Len(log))
    BY <1>1, LogOK, UptoGrows
  <2> QED
    BY <1>1, <2>1, KvTypes
<1>8. IsFiniteSet({}) /\ {} \subseteq Edit /\ {} \subseteq f
  BY FS_EmptySet
<1> HIDE DEF m, f, s, t
<1>9. d \notin spoilt' => lock[d] \in {NoWorker, w} /\ Upto(s) \subseteq m /\ m \subseteq Upto(s) \cup f
  BY <1>1, <1>5
<1>10. Unlock(d, w) /\ Goto(d, w, Idle) /\ s \in Nat /\ s <= Len(log)
  BY <1>1, <1>2
<1>11. /\ model' = [model EXCEPT ![d] = m] /\ seq' = [seq EXCEPT ![d] = s]
       /\ frontier' = [frontier EXCEPT ![d] = f]
  BY <1>1
<1> QED
  BY <1>3, <1>4, <1>5, <1>6, <1>7, <1>8, <1>9, <1>10, <1>11, StoreStep

\* The catch block notes a number of the log; on a device that is not spoilt, the number
\* that was there.
LEMMA FailStep ==
  ASSUME IndInv, NEW d \in Device, NEW w \in Worker, NEW n \in Nat, n <= Len(log), has[d],
         PushFailOf(d, w, n, dirty[d]), spoilt' = spoilt \/ spoilt' = spoilt \cup {d},
         d \notin spoilt' => n = seq[d] /\ lock[d] = w
  PROVE  IndInv'
<1>1. /\ Unlock(d, w) /\ Goto(d, w, Idle) /\ faults' = faults + 1
      /\ dirty' = [dirty EXCEPT ![d] = dirty[d]] /\ seq' = [seq EXCEPT ![d] = n]
      /\ UNCHANGED <<server, has, model, frontier, creating, inbox, connected, made, case, restarted>>
  BY DEF PushFailOf, Done, Fails
<1>2. /\ model' = [model EXCEPT ![d] = model[d]] /\ frontier' = [frontier EXCEPT ![d] = frontier[d]]
      /\ has' = [has EXCEPT ![d] = TRUE]
      /\ dirty' \in [Device -> BOOLEAN] /\ faults' \in Nat
  BY <1>1, KvTypes, StaysThere, FlagsOK
<1>3. Idle \in [stage : {"idle", "mark"}]
  BY DEF Idle
<1>4. UNCHANGED <<log, there, creating, inbox, connected, case, restarted>> /\ made' = made \cup {}
  BY <1>1 DEF server
<1>5. IsFiniteSet({}) /\ {} \subseteq Edit /\ {} \subseteq frontier[d]
  BY FS_EmptySet
<1>6. /\ model[d] \subseteq made \cup {} /\ frontier[d] \subseteq made \cup {}
      /\ frontier[d] \subseteq frontier[d] \cup Upto(Len(log))
      /\ d \notin spoilt' => /\ lock[d] \in {NoWorker, w} /\ Upto(n) \subseteq model[d]
                             /\ model[d] \subseteq Upto(n) \cup frontier[d]
  BY KvTypes
<1>7. Unlock(d, w) /\ Goto(d, w, Idle) /\ seq' = [seq EXCEPT ![d] = n]
  BY <1>1
<1> QED
  BY <1>2, <1>3, <1>4, <1>5, <1>6, <1>7, StoreStep

LEMMA PushFailIs ==
  ASSUME IndInv, NEW d \in Device, NEW w \in Worker, PushFail(d, w)
  PROVE  /\ has[d] /\ task[d][w].seq \in Nat /\ task[d][w].seq <= Len(log)
         /\ d \notin spoilt => lock[d] = w /\ task[d][w].seq = seq[d]
<1> DEFINE t == task[d][w]
<1>1. t.stage \in {"call", "answer"}
  BY DEF PushFail, Stage
<1>2. t \in Requests /\ Holds(d, w, t) /\ (d \notin spoilt => Owns(d, w, t))
  BY TaskOf
<1>3. has[d] /\ (d \notin spoilt => lock[d] = w /\ t.seq = seq[d])
  BY <1>1, <1>2 DEF Holds, Owns, Fits
<1>4. t.seq \in Nat /\ t.seq <= Len(log)
  <2>1. CASE t.stage = "call"
    BY <1>2, <2>1, Carries DEF Holds
  <2>2. CASE t.stage = "answer"
    <3>1. t.seq \in Nat /\ t.to \in 1..Len(log) /\ t.seq < t.to
      BY <1>2, <2>2, Carries DEF Holds
    <3> HIDE DEF t
    <3> QED
      BY <3>1, LogOK
  <2> QED
    BY <1>1, <2>1, <2>2
<1> QED
  BY <1>3, <1>4

LEMMA PushFailInv ==
  ASSUME IndInv, NEW d \in Device, NEW w \in Worker, PushFail(d, w) \/ PushStoreFail(d, w)
  PROVE  IndInv'
<1>1. CASE PushFail(d, w)
  <2>1. PushFailOf(d, w, task[d][w].seq, dirty[d]) /\ spoilt' = spoilt
    BY <1>1 DEF PushFail
  <2> QED
    BY <1>1, <2>1, PushFailIs, FailStep
<1>2. CASE PushStoreFail(d, w)
  <2>1. PushFailOf(d, w, task[d][w].to, dirty[d]) /\ spoilt' = spoilt \cup {d}
        /\ task[d][w].stage = "answer"
    BY <1>2 DEF PushStoreFail, Stage
  <2>2. has[d] /\ task[d][w].to \in Nat /\ task[d][w].to <= Len(log)
    BY <2>1, TaskOf, Carries DEF Holds
  <2> QED
    BY <2>1, <2>2, FailStep
<1> QED
  BY <1>1, <1>2

LEMMA StepInv == IndInv /\ [Next]_vars => IndInv'
<1> SUFFICES ASSUME IndInv, [Next]_vars PROVE IndInv'
  OBVIOUS
<1>1. ASSUME NEW d \in Device, NEW w \in Worker, User(d, w) PROVE IndInv'
  BY <1>1, CreateInv, MergeInv, ServeReadsInv DEF User
<1>2. ASSUME NEW d \in Device, NEW w \in Worker, Work(d, w) PROVE IndInv'
  BY <1>2, MarkInv, CollectInv, PushLockInv, ServeUpdateInv, PushStoreInv, ServeReadsInv,
     PullLockInv, StoreInv, LoadStoreInv, UpdLockInv
  DEF Work
<1>3. ASSUME NEW d \in Device, Start(d) PROVE IndInv'
  BY <1>3, StartInv DEF Start
<1>4. ASSUME NEW d \in Device, Fault(d) PROVE IndInv'
  BY <1>4, PushFailInv, GiveUpInv, SurroundingsInv DEF Fault
<1>5. ASSUME NEW d \in Device, ServeCreate(d) \/ Connect(d) PROVE IndInv'
  BY <1>5, SurroundingsInv
<1>6. CASE UNCHANGED vars
  BY <1>6, FlagsOK, InboxOK, WorkStep DEF vars, server, kv, rest
<1> QED
  BY <1>1, <1>2, <1>3, <1>4, <1>5, <1>6 DEF Next

-----------------------------------------------------------------------------
(* The theorems.                                                           *)

\* The strengthening holds whatever calls overlap and fail, pushes that outlive their lease
\* included.
THEOREM Invariance == Spec => []IndInv
BY InitInv, StepInv, PTL DEF Spec

\* Whatever the devices, the workers and the failures: what the key-value stores, the
\* locks, the calls under way and the events hold keeps its shape.
THEOREM TypeCorrect == Spec => []TypeOK
BY Invariance, PTL DEF IndInv

\* The model of a device lacks no batch up to its number, until a push has failed late there.
THEOREM NumbersPulled == Spec => []SeqPulled
<1>1. IndInv => SeqPulled
  BY DEF IndInv, Numbered, Exact, SeqPulled, LacksNothing
<1> QED
  BY <1>1, Invariance, PTL

\* Every edit is in the log or in the frontier of its device, late failures included.
THEOREM EditsSafe == Spec => []NothingLost
BY Invariance, PTL DEF IndInv
-----------------------------------------------------------------------------
(* The repositories implement the shared log.                              *)

LEMMA SharedUpto == \A n : Shared!Upto(n) = Upto(n)
BY DEF Shared!Upto, Upto

LEMMA SharedInit == Init => Shared!Init
<1> SUFFICES ASSUME Init PROVE Shared!Init
  OBVIOUS
<1>1. Shared!Upto(Len(log)) = case.first
  BY InitFirst, SharedUpto
<1>2. log = <<>> \/ \E e \in Edit : log = <<{e}>>
  BY InitFirst
<1>3. /\ seq = [d \in Device |-> Len(log)] /\ frontier = [d \in Device |-> {}]
      /\ model = [d \in Device |-> case.first]
  BY DEF Init
<1>4. [d \in Device |-> model[d] \cup frontier[d]] = [d \in Device |-> case.first]
  BY <1>3
<1> QED
  BY <1>1, <1>2, <1>3, <1>4 DEF Shared!Init

LEMMA SharedStutter ==
  ASSUME UNCHANGED <<log, seq, frontier, model>>
  PROVE  UNCHANGED Shared!vars
BY DEF Shared!vars

\* What a device does to the shared log, in one step or none.
DeviceNext(d) ==
  \/ \E e \in Edit : Shared!Make(d, e)
  \/ \E batch \in SUBSET (frontier[d] \cup Shared!Upto(Len(log))) : Shared!Push(batch)
  \/ \E n \in 0..Len(log), done \in SUBSET frontier[d] : Shared!Follow(d, n, done)
  \/ UNCHANGED Shared!vars

\* A new edit is pending on its device and seen there.
LEMMA SharedMake ==
  ASSUME IndInv, NEW d \in Device, NEW e \in Edit,
         frontier' = [frontier EXCEPT ![d] = @ \cup {e}],
         NEW m, model' = [model EXCEPT ![d] = m], m \cup frontier[d] \cup {e} = model[d] \cup frontier[d] \cup {e},
         log' = log, seq' = seq
  PROVE  DeviceNext(d)
<1> DEFINE seen == [x \in Device |-> model[x] \cup frontier[x]]
           seen2 == [x \in Device |-> model'[x] \cup frontier'[x]]
<1>1. /\ frontier'[d] = frontier[d] \cup {e} /\ model'[d] = m
      /\ \A x \in Device : x # d => frontier'[x] = frontier[x] /\ model'[x] = model[x]
  BY KvTypes
<1>2. seen2[d] = seen[d] \cup {e} /\ \A x \in Device : x # d => seen2[x] = seen[x]
  BY <1>1
<1>3. seen2 = [seen EXCEPT ![d] = @ \cup {e}]
  BY <1>2
<1>4. Shared!Make(d, e)
  BY <1>3 DEF Shared!Make
<1> QED
  BY <1>4 DEF DeviceNext

\* A device follows the log to s; those edits of its frontier are done that are there.
LEMMA SharedFollow ==
  ASSUME IndInv, NEW d \in Device, NEW m, NEW s \in Nat, NEW f, f \subseteq frontier[d],
         model' = [model EXCEPT ![d] = m], seq' = [seq EXCEPT ![d] = s],
         frontier' = [frontier EXCEPT ![d] = f], log' = log,
         seq[d] <= s, s <= Len(log), frontier[d] \ f \subseteq Upto(s),
         Upto(s) \subseteq m, m \subseteq Upto(s) \cup f
  PROVE  DeviceNext(d)
<1> DEFINE done == frontier[d] \ f
           seen == [x \in Device |-> model[x] \cup frontier[x]]
           seen2 == [x \in Device |-> model'[x] \cup frontier'[x]]
<1>1. /\ frontier'[d] = f /\ model'[d] = m
      /\ \A x \in Device : x # d => frontier'[x] = frontier[x] /\ model'[x] = model[x]
  BY KvTypes
<1>2. f = frontier[d] \ done /\ m \cup f = Upto(s) \cup f
  OBVIOUS
<1>3. frontier' = [frontier EXCEPT ![d] = @ \ done]
  BY <1>2
<1>4. seen2[d] = Upto(s) \cup (frontier[d] \ done) /\ \A x \in Device : x # d => seen2[x] = seen[x]
  BY <1>1, <1>2
<1>5. seen2 = [seen EXCEPT ![d] = Shared!Upto(s) \cup (frontier[d] \ done)]
  BY <1>4, SharedUpto
<1>6. done \subseteq Shared!Upto(s) /\ done \in SUBSET frontier[d] /\ s \in 0..Len(log)
  BY SharedUpto, LogOK
<1>7. \E n \in 0..Len(log), x \in SUBSET frontier[d] : Shared!Follow(d, n, x)
  <2>1. ASSUME NEW x \in SUBSET frontier[d], x = done PROVE Shared!Follow(d, s, x)
    BY <1>3, <1>5, <1>6, <2>1 DEF Shared!Follow
  <2>2. \E x \in SUBSET frontier[d] : x = done
    BY <1>6
  <2>3. PICK x \in SUBSET frontier[d] : x = done
    BY <2>2
  <2>4. Shared!Follow(d, s, x)
    BY <2>1, <2>3
  <2> QED
    BY <1>6, <2>4
<1> QED
  BY <1>7 DEF DeviceNext

LEMMA SharedPush ==
  ASSUME IndInv, NEW d \in Device, NEW w \in Worker, ServeUpdate(d, w)
  PROVE  DeviceNext(d)
<1> DEFINE batch == task[d][w].sent
<1>1. /\ log' = Append(log, batch) /\ batch \subseteq frontier[d] \cup Upto(Len(log))
      /\ UNCHANGED <<seq, frontier, model>>
  BY ServedIs DEF kv
<1>2. batch \in SUBSET (frontier[d] \cup Shared!Upto(Len(log)))
  BY <1>1, SharedUpto
<1>3. Shared!Push(batch)
  BY <1>1 DEF Shared!Push
<1> HIDE DEF batch
<1>4. \E b \in SUBSET (frontier[d] \cup Shared!Upto(Len(log))) : Shared!Push(b)
  BY <1>2, <1>3
<1> QED
  BY <1>4 DEF DeviceNext

LEMMA SharedUser ==
  ASSUME IndInv, NEW d \in Device, NEW w \in Worker, User(d, w)
  PROVE  DeviceNext(d)
<1>1. ASSUME Create(d, w, {}) PROVE UNCHANGED <<log, seq, frontier, model>>
  <2>1. frontier[d] = {} /\ model[d] = {} /\ seq[d] = 0
    BY <1>1 DEF Create, IndInv, Unborn
  <2> QED
    BY <1>1, <2>1, KvTypes DEF Create, server
<1>2. ASSUME Create(d, w, {NewEdit(d)}) PROVE DeviceNext(d)
  <2>1. frontier[d] = {} /\ model[d] = {} /\ seq[d] = 0
    BY <1>2 DEF Create, IndInv, Unborn
  <2>2. NewEdit(d) \in Edit
    BY <1>2, NewEditIs DEF Create
  <2> DEFINE e == NewEdit(d)
             m == {e}
  <2>3. /\ frontier' = [frontier EXCEPT ![d] = @ \cup {e}] /\ model' = [model EXCEPT ![d] = m]
        /\ log' = log
    BY <1>2 DEF Create, server
  <2>4. seq' = seq
    BY <1>2, <2>1, KvTypes DEF Create
  <2>5. m \cup frontier[d] \cup {e} = model[d] \cup frontier[d] \cup {e}
    BY <2>1
  <2> HIDE DEF e, m
  <2> QED
    BY <2>2, <2>3, <2>4, <2>5, SharedMake DEF e
<1>3. ASSUME Merge(d, w) PROVE DeviceNext(d)
  <2> DEFINE e == NewEdit(d)
  <2>1. e \in Edit
    BY <1>3, NewEditIs DEF Merge
  <2>2. /\ frontier' = [frontier EXCEPT ![d] = @ \cup {e}] /\ log' = log /\ seq' = seq
        /\ model' = [model EXCEPT ![d] = model[d]]
    BY <1>3, KvTypes DEF Merge, server
  <2> HIDE DEF e
  <2> QED
    BY <2>1, <2>2, SharedMake
<1>4. ASSUME Load(d, w) PROVE UNCHANGED <<log, seq, frontier, model>>
  BY <1>4 DEF Load, server, kv
<1> QED
  BY <1>1, <1>2, <1>3, <1>4, SharedStutter DEF User, DeviceNext

LEMMA SharedPushStore ==
  ASSUME IndInv, NEW d \in Device, NEW w \in Worker, PushStore(d, w), d \notin spoilt
  PROVE  DeviceNext(d)
<1> DEFINE t == task[d][w]
           m == Answered(t, t.model, t.to - 1) \cup t.sent
           f == frontier[d] \ t.sent
           s == t.to
<1>1. /\ model' = [model EXCEPT ![d] = m] /\ seq' = [seq EXCEPT ![d] = s]
      /\ frontier' = [frontier EXCEPT ![d] = f]
      /\ s \in Nat /\ seq[d] <= s /\ s <= Len(log) /\ t.sent \subseteq Upto(s)
      /\ Upto(s) \subseteq m /\ m \subseteq Upto(s) \cup f
  BY PushResult
<1>2. f \subseteq frontier[d] /\ frontier[d] \ f \subseteq Upto(s)
  BY <1>1
<1>3. log' = log
  BY DEF PushStore, PushStoreOf, server
<1> HIDE DEF m, f, s, t
<1> QED
  BY <1>1, <1>2, <1>3, SharedFollow

LEMMA SharedStore ==
  ASSUME IndInv, NEW d \in Device, NEW w \in Worker, Store(d, w), d \notin spoilt
  PROVE  DeviceNext(d)
<1> DEFINE m == task[d][w].model
           s == task[d][w].seq
           f == frontier[d]
<1>1. /\ model' = [model EXCEPT ![d] = m] /\ seq' = [seq EXCEPT ![d] = s]
      /\ s \in Nat /\ seq[d] <= s /\ s <= Len(log)
      /\ Upto(s) \subseteq m /\ m \subseteq Upto(s) \cup f
  BY StoreResult
<1>2. frontier' = [frontier EXCEPT ![d] = f] /\ log' = log
  BY KvTypes DEF Store, server
<1>3. f \subseteq frontier[d] /\ frontier[d] \ f \subseteq Upto(s)
  OBVIOUS
<1> HIDE DEF m, f, s
<1> QED
  BY <1>1, <1>2, <1>3, SharedFollow

LEMMA SharedLoadStore ==
  ASSUME IndInv, NEW d \in Device, NEW w \in Worker, LoadStore(d, w)
  PROVE  DeviceNext(d)
<1>1. CASE ~has[d]
  <2> DEFINE s == task[d][w].to
             m == Upto(s)
             f == frontier[d]
  <2>1. /\ model' = [model EXCEPT ![d] = m] /\ seq' = [seq EXCEPT ![d] = s]
        /\ s \in Nat /\ s <= Len(log) /\ seq[d] = 0
    BY <1>1, LoadResult
  <2>2. frontier' = [frontier EXCEPT ![d] = f] /\ log' = log
    BY KvTypes DEF LoadStore, server
  <2>3. /\ f \subseteq frontier[d] /\ frontier[d] \ f \subseteq Upto(s)
        /\ Upto(s) \subseteq m /\ m \subseteq Upto(s) \cup f
    OBVIOUS
  <2>4. seq[d] <= s
    BY <2>1
  <2> HIDE DEF m, f, s
  <2> QED
    BY <2>1, <2>2, <2>3, <2>4, SharedFollow
<1>2. CASE has[d]
  BY <1>2, SharedStutter DEF LoadStore, server, DeviceNext
<1> QED
  BY <1>1, <1>2

\* The step of one device.
StepOf(d) ==
  \/ \E w \in Worker : User(d, w) \/ Work(d, w)
  \/ Start(d)
  \/ ServeCreate(d)
  \/ Fault(d)
  \/ Connect(d)

LEMMA SpoiltGrows ==
  ASSUME NEW d \in Device, StepOf(d)
  PROVE  spoilt \subseteq spoilt'
<1> USE DEF rest
<1>1. ASSUME NEW w \in Worker, User(d, w) \/ Work(d, w) PROVE spoilt' = spoilt
  BY <1>1 DEF User, Create, Merge, Load, Work, Mark, Collect, PushLock, ServeUpdate, PushStore,
    PushStoreOf, ServePull, PullLock, PullLockOf, Store, ServeRead, LoadStore, UpdLock
<1>2. Start(d) \/ ServeCreate(d) \/ Connect(d) => spoilt' = spoilt
  BY DEF Start, SyncItem, Receive, ServeCreate, Connect
<1>3. Fault(d) => spoilt' = spoilt \/ spoilt' = spoilt \cup {d}
  BY DEF Fault, LeaseEnd, PushFail, PushStoreFail, PullFail, LockTimeout, CreateLost, Disconnect,
    Restart
<1> QED
  BY <1>1, <1>2, <1>3 DEF StepOf

\* A device that is not spoilt by its step takes a step of the shared log, or none.
LEMMA SharedDevice ==
  ASSUME IndInv, NEW d \in Device, StepOf(d), d \notin spoilt'
  PROVE  DeviceNext(d)
<1>0. d \notin spoilt
  BY SpoiltGrows
<1> USE DEF server, kv
<1>1. ASSUME NEW w \in Worker, User(d, w) PROVE DeviceNext(d)
  BY <1>1, SharedUser
<1>2. ASSUME NEW w \in Worker, Work(d, w) PROVE DeviceNext(d)
  <2>1. CASE \/ Mark(d, w) \/ Collect(d, w) \/ PushLock(d, w) \/ ServePull(d, w) \/ PullLock(d, w)
             \/ ServeRead(d, w) \/ UpdLock(d, w)
    <3>1. UNCHANGED <<log, seq, frontier, model>>
      BY <2>1 DEF Mark, Collect, PushLock, ServePull, PullLock, PullLockOf, ServeRead, UpdLock
    <3> QED
      BY <3>1, SharedStutter DEF DeviceNext
  <2>2. CASE ServeUpdate(d, w) \/ PushStore(d, w) \/ Store(d, w) \/ LoadStore(d, w)
    BY <1>0, <2>2, SharedPush, SharedPushStore, SharedStore, SharedLoadStore
  <2> QED
    BY <1>2, <2>1, <2>2 DEF Work
<1>3. ASSUME Start(d) \/ ServeCreate(d) \/ Connect(d) PROVE UNCHANGED <<log, seq, frontier, model>>
  BY <1>3 DEF Start, SyncItem, Receive, ServeCreate, Server!Create, Connect
<1>4. ASSUME Fault(d) PROVE UNCHANGED <<log, seq, frontier, model>>
  <2>1. ASSUME NEW w \in Worker, PushFail(d, w) PROVE UNCHANGED <<log, seq, frontier, model>>
    <3>1. seq' = [seq EXCEPT ![d] = seq[d]] /\ UNCHANGED <<log, frontier, model>>
      BY <1>0, <2>1, PushFailIs DEF PushFail, PushFailOf
    <3> QED
      BY <3>1, KvTypes
  <2>2. ASSUME NEW w \in Worker, PushStoreFail(d, w) PROVE FALSE
    BY <2>2 DEF PushStoreFail
  <2> QED
    BY <1>4, <2>1, <2>2
    DEF Fault, LeaseEnd, PullFail, LockTimeout, CreateLost, Disconnect, Restart
<1> QED
  BY <1>1, <1>2, <1>3, <1>4, SharedStutter DEF StepOf, DeviceNext

LEMMA SharedStep == IndInv /\ [Next]_vars => spoilt' # {} \/ [Shared!Next]_(Shared!vars)
<1> SUFFICES ASSUME IndInv, [Next]_vars, spoilt' = {} PROVE [Shared!Next]_(Shared!vars)
  OBVIOUS
<1>1. ASSUME NEW d \in Device, StepOf(d) PROVE [Shared!Next]_(Shared!vars)
  <2>1. DeviceNext(d)
    BY <1>1, SharedDevice
  <2> QED
    BY <2>1 DEF DeviceNext, Shared!Next
<1>2. Next => \E d \in Device : StepOf(d)
  BY DEF Next, StepOf
<1>3. CASE UNCHANGED vars
  BY <1>3, SharedStutter DEF vars, server, kv
<1> QED
  BY <1>1, <1>2, <1>3

\* Every behaviour of the repositories and the server is one of the shared log, for as long
\* as no push has outlived its lease or failed with the new number taken.
THEOREM RepositoriesShareLog == Spec => Implements
<1>1. IndInv /\ [Next]_vars => [spoilt' # {} \/ Shared!Next]_(Shared!vars)
  BY SharedStep
<1> QED
  BY <1>1, SharedInit, Invariance, PTL DEF Spec, Implements

\* What a device does leaves what the others show.
LEMMA OthersSee ==
  ASSUME IndInv, NEW d \in Device, StepOf(d), NEW e \in Device, e # d
  PROVE  model'[e] = model[e] /\ frontier'[e] = frontier[e]
<1> DEFINE Same == model'[e] = model[e] /\ frontier'[e] = frontier[e]
<1>0. /\ model' = model \/ (\E m : model' = [model EXCEPT ![d] = m]) => model'[e] = model[e]
      /\ frontier' = frontier \/ (\E f : frontier' = [frontier EXCEPT ![d] = f])
           => frontier'[e] = frontier[e]
  BY KvTypes
<1> HIDE DEF Same
<1>1. ASSUME NEW w \in Worker, User(d, w) \/ Work(d, w) PROVE Same
  <2> USE DEF kv, rest
  <2>1. model' = model \/ \E m : model' = [model EXCEPT ![d] = m]
    BY <1>1 DEF User, Create, Merge, Load, Work, Mark, Collect, PushLock, ServeUpdate, PushStore,
      PushStoreOf, ServePull, PullLock, PullLockOf, Store, ServeRead, LoadStore, UpdLock
  <2>2. frontier' = frontier \/ \E f : frontier' = [frontier EXCEPT ![d] = f]
    BY <1>1 DEF User, Create, Merge, Load, Work, Mark, Collect, PushLock, ServeUpdate, PushStore,
      PushStoreOf, ServePull, PullLock, PullLockOf, Store, ServeRead, LoadStore, UpdLock
  <2> QED
    BY <1>0, <2>1, <2>2 DEF Same
<1>2. ASSUME Start(d) \/ ServeCreate(d) \/ Connect(d) \/ Fault(d) PROVE Same
  <2>1. model' = model /\ frontier' = frontier
    BY <1>2 DEF Start, SyncItem, Receive, ServeCreate, Connect, Fault, LeaseEnd, PushFail,
      PushStoreFail, PushFailOf, PullFail, LockTimeout, CreateLost, Disconnect, Restart, kv
  <2> QED
    BY <2>1 DEF Same
<1>3. Same
  BY <1>1, <1>2 DEF StepOf
<1> QED
  BY <1>3 DEF Same

\* In the shared log, a device never loses sight of what it has seen.
LEMMA SeenStays ==
  ASSUME IndInv, NEW d \in Device, DeviceNext(d), d \notin spoilt
  PROVE  model[d] \cup frontier[d] \subseteq model'[d] \cup frontier'[d]
<1> DEFINE seen == [x \in Device |-> model[x] \cup frontier[x]]
           seen2 == [x \in Device |-> model'[x] \cup frontier'[x]]
<1>1. seen[d] = Upto(seq[d]) \cup frontier[d]
  BY KvTypes
<1>2. ASSUME NEW e \in Edit, Shared!Make(d, e) PROVE seen[d] \subseteq seen2[d]
  <2>1. seen2 = [seen EXCEPT ![d] = @ \cup {e}]
    BY <1>2 DEF Shared!Make
  <2> QED
    BY <2>1
<1>3. ASSUME NEW batch, Shared!Push(batch) PROVE seen[d] \subseteq seen2[d]
  <2>1. seen2 = seen
    BY <1>3 DEF Shared!Push
  <2> QED
    BY <2>1
<1>4. ASSUME NEW n \in 0..Len(log), NEW done \in SUBSET frontier[d], Shared!Follow(d, n, done)
      PROVE  seen[d] \subseteq seen2[d]
  <2>1. /\ seen2 = [seen EXCEPT ![d] = Upto(n) \cup (frontier[d] \ done)]
        /\ seq[d] <= n /\ done \subseteq Upto(n)
    BY <1>4, SharedUpto DEF Shared!Follow
  <2>2. Upto(seq[d]) \subseteq Upto(n)
    BY <2>1, KvTypes, UptoGrows, LogOK
  <2> QED
    BY <1>1, <2>1, <2>2
<1>5. CASE UNCHANGED Shared!vars
  BY <1>5 DEF Shared!vars
<1>6. seen[d] \subseteq seen2[d]
  BY <1>2, <1>3, <1>4, <1>5 DEF DeviceNext
<1> QED
  BY <1>6

\* What a user has seen of the block stays, on every device where no push has failed late,
\* whatever fails on the others.
THEOREM SeenNeverLost == Spec => NothingUnseen
<1>1. IndInv /\ [Next]_vars =>
        [\A d \in Device \ spoilt' :
           model[d] \cup frontier[d] \subseteq model'[d] \cup frontier'[d]]_vars
  <2> SUFFICES ASSUME IndInv, Next, NEW e \in Device \ spoilt'
               PROVE  model[e] \cup frontier[e] \subseteq model'[e] \cup frontier'[e]
    OBVIOUS
  <2>1. PICK d \in Device : StepOf(d)
    BY DEF Next, StepOf
  <2>2. CASE e = d
    BY <2>1, <2>2, SharedDevice, SpoiltGrows, SeenStays
  <2>3. CASE e # d
    BY <2>1, <2>3, OthersSee
  <2> QED
    BY <2>2, <2>3
<1> QED
  BY <1>1, Invariance, PTL DEF Spec, NothingUnseen

=============================================================================
