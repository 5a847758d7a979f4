----------------------------- MODULE LocalRepos -----------------------------
(***************************************************************************)
(* One block in the LevelLocalRepo of several devices, and on the server.  *)
(* Every device keeps the latest model it had from the server and a        *)
(* frontier of patches the server has not confirmed; it pushes, pulls and  *)
(* listens.  All calls are asynchronous: a worker is one call under way    *)
(* and its record says which await it is at and what it has read.          *)
(*                                                                         *)
(* The server is BlockLog.  An edit is a patch, named by its device and a  *)
(* number; a model is the set of edits applied to it.  Sequence numbers    *)
(* are one more than in the code, so that they are positions of the log    *)
(* and 0 is the code's -1.  kv.batch() is atomic, and so are reads that    *)
(* one Promise.all asks for.                                               *)
(*                                                                         *)
(* lockBlock() is a lease of 500 ms.  A push waits for the server inside   *)
(* of it, up to 5000 ms; when the lease ends others get the lock, and the  *)
(* push goes on without it.  Sections that use the key-value store only    *)
(* are taken to end within their lease.  Those that could not tell a push  *)
(* that writes between their reads and their writes are one step.          *)
(***************************************************************************)
EXTENDS Integers, Sequences, FiniteSets

CONSTANTS Device,     \* devices, each with one key-value store and one session identifier
          Worker,     \* calls under way on a device
          PullMax,    \* the server answers with a snapshot beyond that many batches (100)
          MaxEdits,   \* bound: edits in a behaviour
          Cases       \* how behaviours begin, and more bounds: see Init

ASSUME WorkerAssumption == Worker \subseteq Nat \ {0}
ASSUME PullMaxAssumption == PullMax \in Nat \ {0}
ASSUME MaxEditsAssumption == MaxEdits \in Nat \ {0}
ASSUME CasesAssumption ==
  Cases \subseteq [first : {{}} \cup {{<<d, 1>>} : d \in Device}, blank : SUBSET Device,
                  overlap : BOOLEAN, edits : 0..MaxEdits, faults : Nat,
                  late : SUBSET {"lease", "store"}]

VARIABLES there, log,     \* the server, see BlockLog
          has,            \* whether a device has the block
          model, seq,     \* the keys "k!m" and "k!x": the model, and the number it is of
          frontier,       \* the keys "f!..."
          dirty,          \* the key "s!b!...": the block needs sync
          lock,           \* the worker that holds lockBlock()
          task,           \* what the workers of a device do
          creating,       \* whether a remote.create() of the device is under way
          inbox,          \* events of the server on their way: 0 for "new", or a number
          connected,      \* connected$
          made,           \* the edits that were made
          case,           \* the case: on which devices users create the block without an
                          \* edit, whether they edit during a push, how many edits and
                          \* faults, and in which ways a push may fail late
          faults,         \* counter of the bound
          restarted,      \* history: a device was restarted
          spoilt          \* history: the devices where a push outlived its lease, or failed
                          \* after it had taken the new number

server == <<there, log>>
kv == <<has, model, seq, frontier, dirty>>
rest == <<made, case, faults, restarted, spoilt>>
vars == <<server, kv, lock, task, creating, inbox, connected, rest>>

Edit == Device \X (1..MaxEdits)
NoWorker == 0
Idle == [stage |-> "idle"]

Upto(n) == UNION {log[i] : i \in 1..n}

\* Mutant: off by one, the batch next to the number that is known is left out.
BetweenShort(m, n) == UNION {log[i] : i \in (m + 2)..n}

Between(m, n) == UNION {log[i] : i \in (m + 1)..n}

Server == INSTANCE BlockLog WITH content <- Upto(Len(log))

Shared == INSTANCE SharedLog WITH pos <- seq, pending <- frontier,
                                  seen <- [d \in Device |-> model[d] \cup frontier[d]]

\* The block is not there yet; or a device has founded it with one edit, and all have
\* loaded it.
Init ==
  /\ case \in Cases
  /\ there = (case.first # {})
  /\ log = IF there THEN <<case.first>> ELSE <<>>
  /\ made = case.first
  /\ has = [d \in Device |-> there]
  /\ model = [d \in Device |-> case.first]
  /\ seq = [d \in Device |-> Len(log)]
  /\ frontier = [d \in Device |-> {}]
  /\ dirty = [d \in Device |-> FALSE]
  /\ lock = [d \in Device |-> NoWorker]
  /\ task = [d \in Device |-> [w \in Worker |-> Idle]]
  /\ creating = [d \in Device |-> FALSE]
  /\ inbox = [d \in Device |-> <<>>]
  /\ connected = [d \in Device |-> TRUE]
  /\ faults = 0
  /\ restarted = FALSE
  /\ spoilt = {}

Stage(d, w) == task[d][w].stage
Goto(d, w, t) == task' = [task EXCEPT ![d][w] = t]
Done(d, w) == Goto(d, w, Idle)
Unlocked(d) == lock[d] = NoWorker

\* A worker gives back the lease it has, if it still has it.
Unlock(d, w) == lock' = [lock EXCEPT ![d] = IF @ = w THEN NoWorker ELSE @]

\* A call begins: workers are interchangeable, the first idle one takes it.
Free(d, w) == Stage(d, w) = "idle" /\ \A v \in Worker : v < w => Stage(d, v) # "idle"

\* The stages of push().
Pushing(d) == \E w \in Worker : Stage(d, w) \in {"mark", "collect", "lock", "call", "answer"}

Fails == faults < case.faults /\ faults' = faults + 1

-----------------------------------------------------------------------------
(* Edits: create(), _syncMerge(), then markDirtyAndSync().                 *)

NewEdit(d) == <<d, Cardinality(made) + 1>>

MayEdit(d) == Cardinality(made) < case.edits /\ (case.overlap \/ ~Pushing(d))

\* create(): the patches go into the model and into the frontier.
Create(d, w, edits) ==
  /\ Free(d, w)
  /\ Unlocked(d) /\ ~has[d]
  /\ IF edits = {} THEN d \in case.blank ELSE MayEdit(d)
  /\ has' = [has EXCEPT ![d] = TRUE]
  /\ model' = [model EXCEPT ![d] = edits]
  /\ seq' = [seq EXCEPT ![d] = 0]
  /\ frontier' = [frontier EXCEPT ![d] = @ \cup edits]
  /\ made' = made \cup edits
  /\ Goto(d, w, [stage |-> "mark"])
  /\ UNCHANGED <<server, dirty, lock, creating, inbox, connected, case, faults, restarted, spoilt>>

\* _syncMerge(); see EditSessions for what becomes of the timestamps.
Merge(d, w) ==
  /\ Free(d, w)
  /\ Unlocked(d) /\ has[d]
  /\ MayEdit(d)
  /\ frontier' = [frontier EXCEPT ![d] = @ \cup {NewEdit(d)}]
  /\ made' = made \cup {NewEdit(d)}
  /\ Goto(d, w, [stage |-> "mark"])
  /\ UNCHANGED <<server, has, model, seq, dirty, lock, creating, inbox, connected, case, faults, restarted, spoilt>>

\* markDirty()
Mark(d, w) ==
  /\ Stage(d, w) = "mark"
  /\ dirty' = [dirty EXCEPT ![d] = TRUE]
  /\ Goto(d, w, [stage |-> "collect"])
  /\ UNCHANGED <<server, has, model, seq, frontier, lock, creating, inbox, connected, rest>>

-----------------------------------------------------------------------------
(* push().                                                                 *)

\* The sync loop takes a block that is marked.
SyncItem(d, w) ==
  /\ Free(d, w)
  /\ connected[d] /\ dirty[d]
  /\ Goto(d, w, [stage |-> "collect"])
  /\ UNCHANGED <<server, kv, lock, creating, inbox, connected, rest>>

\* pull() begins: the metadata is read outside the lock.
Pull(d) == IF has[d] THEN [stage |-> "pulling", seq |-> seq[d]]
           ELSE [stage |-> "read", again |-> TRUE]

Own(d, batch) == \E e \in batch : e[1] = d

\* Events of the server; a device ignores the batches of its own session.
Announce(news, batch) ==
  inbox' = [d \in Device |->
             IF ~connected[d] THEN inbox[d]
             ELSE inbox[d] \o (IF news THEN <<0>> ELSE <<>>)
                           \o (IF batch = 0 \/ Own(d, log'[batch]) THEN <<>> ELSE <<batch>>)]

\* The frontier is read outside the lock.  Without a patch to push, the server is asked to
\* create a block it has not numbered, which nobody waits for, and pull() is called.
Collect(d, w) ==
  /\ Stage(d, w) = "collect"
  /\ \/ /\ ~connected[d]
        /\ Done(d, w)
        /\ UNCHANGED creating
     \/ /\ connected[d] /\ frontier[d] # {}
        /\ Goto(d, w, [stage |-> "lock", sent |-> frontier[d]])
        /\ UNCHANGED creating
     \/ /\ connected[d] /\ frontier[d] = {}
        /\ Goto(d, w, Pull(d))
        /\ creating' = [creating EXCEPT ![d] = @ \/ seq[d] = 0]
  /\ UNCHANGED <<server, kv, lock, inbox, connected, rest>>

\* block.new on the server; "CONFLICT" if the block is there, which is ignored.
ServeCreate(d) ==
  /\ creating[d] /\ connected[d]
  /\ creating' = [creating EXCEPT ![d] = FALSE]
  /\ IF there THEN UNCHANGED <<server, inbox>> ELSE Server!Create /\ Announce(TRUE, 0)
  /\ UNCHANGED <<kv, lock, task, connected, rest>>

\* The request is lost: an error is reported, and nobody tries again.
CreateLost(d) ==
  /\ creating[d]
  /\ Fails
  /\ creating' = [creating EXCEPT ![d] = FALSE]
  /\ UNCHANGED <<server, kv, lock, task, inbox, connected, made, case, restarted, spoilt>>

\* Mutant: the model is not read under the lock.
PushLockUnread(d, w) ==
  /\ Stage(d, w) = "lock"
  /\ Unlocked(d)
  /\ lock' = [lock EXCEPT ![d] = w]
  /\ Goto(d, w, [stage |-> "call", sent |-> task[d][w].sent, seq |-> seq[d]])
  /\ UNCHANGED <<server, kv, creating, inbox, connected, rest>>

\* Under the lock: the model and the metadata are read, remote.update() is called.
PushLock(d, w) ==
  /\ Stage(d, w) = "lock"
  /\ Unlocked(d)
  /\ lock' = [lock EXCEPT ![d] = w]
  /\ Goto(d, w, [stage |-> "call", sent |-> task[d][w].sent, model |-> model[d], seq |-> seq[d]])
  /\ UNCHANGED <<server, kv, creating, inbox, connected, rest>>

\* The lease of a push ends before the server has answered: others get the lock, and the
\* push goes on.
LeaseEnd(d, w) ==
  /\ "lease" \in case.late
  /\ Stage(d, w) \in {"call", "answer"} /\ lock[d] = w
  /\ Fails
  /\ lock' = [lock EXCEPT ![d] = NoWorker]
  /\ spoilt' = spoilt \cup {d}
  /\ UNCHANGED <<server, kv, task, creating, inbox, connected, made, case, restarted>>

\* block.upd on the server: the batch gets the next number; the answer tells of the
\* batches since the number the device has, or of a snapshot.
ServeUpdate(d, w) ==
  LET t == task[d][w]
      n == Len(log) + 1
  IN  /\ t.stage = "call"
      /\ connected[d]
      /\ Server!Accept(t.sent)
      /\ Announce(~there, n)
      /\ Goto(d, w, [stage |-> "answer", sent |-> t.sent, model |-> t.model, seq |-> t.seq,
                     to |-> n, reset |-> n - t.seq > PullMax])
      /\ UNCHANGED <<kv, lock, creating, connected, rest>>

\* The model the answer of the server leads to.
Answered(t, base, n) == IF t.reset THEN Upto(n) ELSE base \cup Between(t.seq, n)

PushStoreOf(d, w, done) ==
  LET t == task[d][w]
  IN  /\ t.stage = "answer"
      /\ model' = [model EXCEPT ![d] = Answered(t, t.model, t.to - 1) \cup t.sent]
      /\ seq' = [seq EXCEPT ![d] = t.to]
      /\ frontier' = [frontier EXCEPT ![d] = @ \ done]
      /\ dirty' = [dirty EXCEPT ![d] = FALSE]
      /\ Unlock(d, w)
      /\ Done(d, w)
      /\ UNCHANGED <<server, has, creating, inbox, connected, rest>>

\* Mutant: the whole frontier is deleted, not what was sent.
PushStoreAll(d, w) == PushStoreOf(d, w, frontier[d])

PushStore(d, w) == PushStoreOf(d, w, task[d][w].sent)

\* The catch block, with or without the lock: the failure is noted in the metadata, with
\* the number n.
PushFailOf(d, w, n, mark) ==
  /\ Fails
  /\ seq' = [seq EXCEPT ![d] = n]
  /\ dirty' = [dirty EXCEPT ![d] = mark]
  /\ Unlock(d, w)
  /\ Done(d, w)
  /\ UNCHANGED <<server, has, model, frontier, creating, inbox, connected, made, case, restarted>>

\* Mutant: the mark of the block is deleted although the push failed.
PushFailUnmarked(d, w) ==
  /\ Stage(d, w) \in {"call", "answer"}
  /\ PushFailOf(d, w, task[d][w].seq, FALSE)
  /\ UNCHANGED spoilt

\* The request or its answer is lost, or comes too late: the number that is noted is the one
\* that was read.
PushFail(d, w) ==
  /\ Stage(d, w) \in {"call", "answer"}
  /\ PushFailOf(d, w, task[d][w].seq, dirty[d])
  /\ UNCHANGED spoilt

\* What follows the request fails, or takes too long, when the metadata has the new number.
PushStoreFail(d, w) ==
  /\ "store" \in case.late
  /\ Stage(d, w) = "answer"
  /\ PushFailOf(d, w, task[d][w].to, dirty[d])
  /\ spoilt' = spoilt \cup {d}

-----------------------------------------------------------------------------
(* pull().                                                                 *)

\* block.pull on the server; a block without a batch is not found.
ServePull(d, w) ==
  LET last == task[d][w].seq
  IN  /\ Stage(d, w) = "pulling"
      /\ connected[d]
      /\ IF log = <<>> THEN Done(d, w)
         ELSE Goto(d, w, [stage |-> "pulled", seq |-> last, to |-> Len(log),
                          reset |-> last < Len(log) /\ (last = 0 \/ Len(log) - last > PullMax)])
      /\ UNCHANGED <<server, kv, lock, creating, inbox, connected, rest>>

\* What is stored next, under the lock.
Storing(d, w, m, n) ==
  /\ lock' = [lock EXCEPT ![d] = w]
  /\ Goto(d, w, [stage |-> "store", model |-> m, seq |-> n])

PullLockOf(d, w, current) ==
  LET t == task[d][w]
  IN  /\ t.stage = "pulled"
      /\ Unlocked(d)
      /\ IF current THEN Storing(d, w, Answered(t, model[d], t.to), t.to)
         ELSE Done(d, w) /\ UNCHANGED lock
      /\ UNCHANGED <<server, kv, creating, inbox, connected, rest>>

\* Mutant: the number is not compared again under the lock.
PullLockUnchecked(d, w) == PullLockOf(d, w, TRUE)

\* Under the lock the model and the metadata are read; unless the number has changed in the
\* meantime ("CONCURRENCY") the answer goes into that model.
PullLock(d, w) == PullLockOf(d, w, seq[d] = task[d][w].seq)

\* _wrModel() of a pull or an event.
Store(d, w) ==
  /\ Stage(d, w) = "store"
  /\ model' = [model EXCEPT ![d] = task[d][w].model]
  /\ seq' = [seq EXCEPT ![d] = task[d][w].seq]
  /\ Unlock(d, w)
  /\ Done(d, w)
  /\ UNCHANGED <<server, has, frontier, dirty, creating, inbox, connected, rest>>

\* pullNew() and load(): block.get on the server.
Load(d, w) ==
  /\ Free(d, w)
  /\ connected[d] /\ ~has[d]
  /\ Goto(d, w, [stage |-> "read", again |-> FALSE])
  /\ UNCHANGED <<server, kv, lock, creating, inbox, connected, rest>>

ServeRead(d, w) ==
  /\ Stage(d, w) = "read"
  /\ connected[d]
  /\ IF ~there THEN Done(d, w)
     ELSE Goto(d, w, [stage |-> "fetched", to |-> Len(log), again |-> task[d][w].again])
  /\ UNCHANGED <<server, kv, lock, creating, inbox, connected, rest>>

\* Under the lock: "EXISTS", after which only pull() goes on.
LoadStore(d, w) ==
  LET t == task[d][w]
  IN  /\ t.stage = "fetched"
      /\ Unlocked(d)
      /\ IF has[d]
         THEN /\ IF t.again THEN Goto(d, w, Pull(d)) ELSE Done(d, w)
              /\ UNCHANGED <<has, model, seq>>
         ELSE /\ has' = [has EXCEPT ![d] = TRUE]
              /\ model' = [model EXCEPT ![d] = Upto(t.to)]
              /\ seq' = [seq EXCEPT ![d] = t.to]
              /\ Done(d, w)
      /\ UNCHANGED <<server, frontier, dirty, lock, creating, inbox, connected, rest>>

\* A read of the server fails.
PullFail(d, w) ==
  /\ Stage(d, w) \in {"pulling", "read"}
  /\ Fails
  /\ Done(d, w)
  /\ UNCHANGED <<server, kv, lock, creating, inbox, connected, made, case, restarted, spoilt>>

-----------------------------------------------------------------------------
(* The remote subscription.                                                *)

\* _onUpd(), and pull() for a new block.
Receive(d, w) ==
  LET n == Head(inbox[d])
  IN  /\ Free(d, w)
      /\ inbox[d] # <<>>
      /\ inbox' = [inbox EXCEPT ![d] = Tail(@)]
      /\ Goto(d, w,
           IF n = 0 THEN Pull(d)
           ELSE IF has[d] /\ seq[d] >= n THEN Idle
           ELSE IF ~has[d] THEN [stage |-> "read", again |-> FALSE]
           ELSE IF seq[d] + 1 < n THEN Pull(d)
           ELSE [stage |-> "upd", n |-> n])
      /\ UNCHANGED <<server, kv, lock, creating, connected, rest>>

\* Under the lock, where the number is looked at again.
UpdLock(d, w) ==
  LET n == task[d][w].n
  IN  /\ Stage(d, w) = "upd"
      /\ Unlocked(d)
      /\ IF seq[d] >= n THEN Done(d, w) /\ UNCHANGED lock
         ELSE IF seq[d] + 1 < n THEN Goto(d, w, Pull(d)) /\ UNCHANGED lock
         ELSE Storing(d, w, model[d] \cup log[n], n)
      /\ UNCHANGED <<server, kv, creating, inbox, connected, rest>>

-----------------------------------------------------------------------------
(* Failures of the surroundings.                                           *)

\* A worker has waited for the lock too long.
LockTimeout(d, w) ==
  /\ Stage(d, w) \in {"lock", "pulled", "fetched", "upd"}
  /\ ~Unlocked(d)
  /\ Fails
  /\ Done(d, w)
  /\ UNCHANGED <<server, kv, lock, creating, inbox, connected, made, case, restarted, spoilt>>

Disconnect(d) ==
  /\ connected[d]
  /\ Fails
  /\ connected' = [connected EXCEPT ![d] = FALSE]
  /\ inbox' = [inbox EXCEPT ![d] = <<>>]
  /\ UNCHANGED <<server, kv, lock, task, creating, made, case, restarted, spoilt>>

Connect(d) ==
  /\ ~connected[d]
  /\ connected' = [connected EXCEPT ![d] = TRUE]
  /\ UNCHANGED <<server, kv, lock, task, creating, inbox, rest>>

\* All tabs are closed and opened again; the key-value store is kept.
Restart(d) ==
  /\ Fails
  /\ task' = [task EXCEPT ![d] = [w \in Worker |-> Idle]]
  /\ lock' = [lock EXCEPT ![d] = NoWorker]
  /\ creating' = [creating EXCEPT ![d] = FALSE]
  /\ inbox' = [inbox EXCEPT ![d] = <<>>]
  /\ restarted' = TRUE
  /\ UNCHANGED <<server, kv, connected, made, case, spoilt>>

User(d, w) ==
  \/ Create(d, w, {}) \/ Create(d, w, {NewEdit(d)})
  \/ Merge(d, w)
  \/ Load(d, w)

\* What goes on by itself.
Work(d, w) ==
  \/ Mark(d, w) \/ Collect(d, w) \/ PushLock(d, w) \/ ServeUpdate(d, w) \/ PushStore(d, w)
  \/ ServePull(d, w) \/ PullLock(d, w) \/ Store(d, w)
  \/ ServeRead(d, w) \/ LoadStore(d, w) \/ UpdLock(d, w)

Start(d) == \E w \in Worker : SyncItem(d, w) \/ Receive(d, w)

Fault(d) ==
  \/ \E w \in Worker : LeaseEnd(d, w) \/ PushFail(d, w) \/ PushStoreFail(d, w)
                      \/ PullFail(d, w) \/ LockTimeout(d, w)
  \/ CreateLost(d) \/ Disconnect(d) \/ Restart(d)

Next ==
  \E d \in Device :
    \/ \E w \in Worker : User(d, w) \/ Work(d, w)
    \/ Start(d)
    \/ ServeCreate(d)
    \/ Fault(d)
    \/ Connect(d)

Spec == Init /\ [][Next]_vars

(* Event loops go on, the sync loop and the subscription run, connections  *)
(* come back.  Nobody has to edit, and nothing has to fail.                *)
FairSpec ==
  /\ Spec
  /\ \A d \in Device : WF_vars(Start(d)) /\ WF_vars(ServeCreate(d)) /\ WF_vars(Connect(d))
  /\ \A d \in Device, w \in Worker : WF_vars(Work(d, w))

-----------------------------------------------------------------------------
(* Properties.                                                             *)

Requests ==
  [stage : {"idle", "mark", "collect"}]
    \cup [stage : {"lock"}, sent : SUBSET made]
    \cup [stage : {"call"}, sent : SUBSET made, model : SUBSET made, seq : Nat]
    \cup [stage : {"answer"}, sent : SUBSET made, model : SUBSET made, seq : Nat, to : Nat, reset : BOOLEAN]
    \cup [stage : {"pulling"}, seq : Nat]
    \cup [stage : {"pulled"}, seq : Nat, to : Nat, reset : BOOLEAN]
    \cup [stage : {"read"}, again : BOOLEAN]
    \cup [stage : {"fetched"}, to : Nat, again : BOOLEAN]
    \cup [stage : {"upd"}, n : Nat]
    \cup [stage : {"store"}, model : SUBSET made, seq : Nat]

TypeOK ==
  /\ there \in BOOLEAN
  /\ log \in Seq(SUBSET made)
  /\ has \in [Device -> BOOLEAN] /\ dirty \in [Device -> BOOLEAN]
  /\ model \in [Device -> SUBSET made] /\ frontier \in [Device -> SUBSET made]
  /\ seq \in [Device -> Nat]
  /\ lock \in [Device -> Worker \cup {NoWorker}]
  /\ task \in [Device -> [Worker -> Requests]]
  /\ inbox \in [Device -> Seq(0..Len(log))]
  /\ creating \in [Device -> BOOLEAN] /\ connected \in [Device -> BOOLEAN]
  /\ made \subseteq Edit
  /\ case \in Cases /\ faults \in Nat /\ restarted \in BOOLEAN /\ spoilt \subseteq Device

LacksNothing(d) == seq[d] <= Len(log) /\ Upto(seq[d]) \subseteq model[d]

(* The model of a device lacks no batch up to its number, whatever calls   *)
(* overlap and fail, until a push outlives its lease there or fails after  *)
(* it has taken the new number: see NumberPulled.                          *)
SeqPulled == \A d \in Device \ spoilt : LacksNothing(d)

(* "The sequence number of the last remote batch that was successfully     *)
(* pulled": the same of every device at any time.  It does not hold of one *)
(* that is spoilt: see the README.                                         *)
NumberPulled == \A d \in Device : LacksNothing(d)

(* Whatever fails, every edit made is in the log of the server or still in *)
(* the frontier of its device, to be pushed again, with pushes that go on  *)
(* after their lease and late failures included.                           *)
NothingLost == made = Upto(Len(log)) \cup UNION {frontier[d] : d \in Device}

Stuck(d) == frontier[d] # {} /\ ~dirty[d] /\ ~Pushing(d)

(* Every edit reaches the server in the end and is confirmed, however many *)
(* pushes fail first: the block stays marked for the sync loop.  The two   *)
(* ways to lose the mark of patches that are still to be pushed are a      *)
(* restart right after an edit, and a push that fails after an earlier one *)
(* has removed the mark of both.                                           *)
Converge ==
  \/ <>[](\A d \in Device : frontier[d] = {})
  \/ <>(faults > 0 /\ (case.overlap \/ restarted) /\ \E d \in Device : Stuck(d))

(* The repositories and the server implement the shared log, for as long   *)
(* as no push has outlived its lease or failed with the new number taken.  *)
Implements == Shared!Init /\ [][spoilt' # {} \/ Shared!Next]_(Shared!vars)

(* What a user of a device has seen of the block does not disappear again, *)
(* whatever calls of the device overlap: no late answer takes the model    *)
(* back to an earlier one, no patch is dropped before its batch is there.  *)
(* Once a push of the device has outlived its lease, it may: its model and *)
(* its number are those it read before a pull or an event moved them on.   *)
NothingUnseen ==
  [][\A d \in Device \ spoilt' :
       model[d] \cup frontier[d] \subseteq model'[d] \cup frontier'[d]]_vars
===========================================================================
