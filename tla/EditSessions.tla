--------------------------- MODULE EditSessions ---------------------------
(***************************************************************************)
(* Several tabs of one user edit one text through EditSession; they share  *)
(* the local repository (LevelLocalRepo) and, as all tabs of a device do,  *)
(* one session identifier.  The device is offline: nothing is pulled and   *)
(* push() fails with "DISCONNECTED", patches stay in the frontier.         *)
(*                                                                         *)
(* All the operations are of one session, so an operation is identified by *)
(* its time.  Each insertion is one character (ch).  For the properties    *)
(* only, a patch records the edit it stores.                               *)
(***************************************************************************)
EXTENDS RgaOrder, Sorting

CONSTANTS Tab,          \* the tabs
          Edits,        \* the kinds of edit users make
          Timeouts,     \* whether waiting for the lock can time out: the cases
          MaxEdits      \* bound: edits in a behaviour

ASSUME EditsAssumption == Edits \subseteq {"type", "erase", "retype"}
ASSUME TimeoutsAssumption == Timeouts \subseteq BOOLEAN
ASSUME MaxEditsAssumption == MaxEdits \in Nat
ASSUME OneSession == Cardinality(Sid) = 1

VARIABLES start, end,   \* EditSession.start, log.end: the text, its clock, its characters
          log,          \* log.patches: pending patches by identifier
          saving,       \* the sync() under way
          queued,       \* calls of sync() that wait for it (concurrency(1))
          events,       \* events held back while saving
          inbox,        \* events on their way to a tab
          frontier,     \* the frontier in the key-value store, by identifier
          lock,         \* lockBlock(): the tab that holds it
          timeouts,     \* whether waiting for the lock can time out in this behaviour
          edits         \* counter of the bound, the last character typed

vars == <<start, end, log, saving, queued, events, inbox, frontier, lock, timeouts, edits>>

NoTab == "none"
ASSUME TabAssumption == NoTab \notin Tab

Idle == [stage |-> "idle"]
NoModel == <<>>                 \* an answer without a model; with one, <<model>>

StampOf(n) == IF n = 0 THEN Root ELSE [sid |-> CHOOSE s \in Sid : TRUE, time |-> n]

EmptyModel == [rga |-> <<>>, time |-> 1, ch |-> <<>>]

\* Patch.span(), nextTime()
Span(p) == Len(p.ops)
\* Mutant: of the span of a patch, one tick counts.
NextTimeOne(p) == p.id + 1

NextTime(p) == p.id + Span(p)

\* The patches kept by identifier, the first one first
InOrder(f) == LET ids == Sorted(DOMAIN f) IN [i \in DOMAIN ids |-> f[ids[i]]]
Values(f) == {f[x] : x \in DOMAIN f}
Put(f, patches) ==
  LET ids == {p.id : p \in patches}
  IN  [n \in DOMAIN f \cup ids |-> IF n \in ids THEN CHOOSE p \in patches : p.id = n ELSE f[n]]
ById(patches) == Put(<<>>, patches)

\* A character is inserted once.
WithChar(ch, id, op) ==
  IF op.kind # "ins" THEN ch
  ELSE [n \in DOMAIN ch \cup {id} |-> IF n \in DOMAIN ch THEN ch[n] ELSE op.ch]

\* Mutant: the clock does not observe what is applied.
ApplyOpUnobserved(m, id, op) ==
  [rga  |-> IF op.kind = "ins" THEN Ins(m.rga, Root, StampOf(op.ref), StampOf(id), 1) ELSE m.rga,
   time |-> m.time,
   ch   |-> WithChar(m.ch, id, op)]

\* Model.applyPatch()
ApplyOp(m, id, op) ==
  [rga  |-> IF op.kind = "ins" THEN Ins(m.rga, Root, StampOf(op.ref), StampOf(id), 1)
            ELSE Delete(m.rga, <<[sid |-> StampOf(op.what).sid, time |-> op.what, span |-> 1]>>),
   time |-> Larger(m.time, id + 1),
   ch   |-> WithChar(m.ch, id, op)]

ApplyPatch(m, p) ==
  LET after[i \in 0..Span(p)] ==
        IF i = 0 THEN m ELSE ApplyOp(after[i - 1], p.id + i - 1, p.ops[i])
  IN  after[Span(p)]

ApplyBatch(m, patches) ==
  LET after[i \in 0..Len(patches)] ==
        IF i = 0 THEN m ELSE ApplyPatch(after[i - 1], patches[i])
  IN  after[Len(patches)]

\* Model.clone(), load(), reset(): the nodes are ingested.
Clone(m) == [m EXCEPT !.rga = Ingest(@)]

\* Patch.rebase(newTime): the identifiers from the first one of the patch on move; what
\* a deletion deletes does not.
Rebase(p, newTime) ==
  LET moved(n) == IF n >= p.id THEN n + newTime - p.id ELSE n
      moveOp(op) == IF op.kind = "ins" THEN [op EXCEPT !.ref = moved(@)] ELSE op
  IN  [p EXCEPT !.id = newTime, !.ops = [i \in DOMAIN @ |-> moveOp(@[i])]]

\* One patch after the other, each from its own first identifier on.
RebaseAll(patches, newTime) ==
  LET next[i \in 0..Len(patches)] ==
        IF i = 0 THEN newTime ELSE next[i - 1] + Span(patches[i])
  IN  [i \in DOMAIN patches |-> Rebase(patches[i], next[i - 1])]

-----------------------------------------------------------------------------
Init ==
  /\ start = [t \in Tab |-> EmptyModel]
  /\ end = [t \in Tab |-> EmptyModel]
  /\ log = [t \in Tab |-> <<>>]
  /\ saving = [t \in Tab |-> Idle]
  /\ queued = [t \in Tab |-> 0]
  /\ events = [t \in Tab |-> <<>>]
  /\ inbox = [t \in Tab |-> <<>>]
  /\ frontier = <<>>
  /\ lock = NoTab
  /\ timeouts \in Timeouts
  /\ edits = 0

\* An edit through the API, flushed into a patch of its own by autoFlush(): the log
\* takes it, and sync() is called.
Edit(t, ops) ==
  LET p == [id |-> end[t].time, ops |-> ops, edit |-> edits + 1]
  IN  /\ edits < MaxEdits
      /\ edits' = edits + 1
      /\ end' = [end EXCEPT ![t] = ApplyPatch(@, p)]
      /\ log' = [log EXCEPT ![t] = Put(@, {p})]
      /\ queued' = [queued EXCEPT ![t] = @ + 1]
      /\ UNCHANGED <<start, saving, events, inbox, frontier, lock, timeouts>>

\* str.ins(pos, ch)
InsertOp(t, pos) ==
  [kind |-> "ins", ref |-> IF pos = 0 THEN 0 ELSE View(end[t].rga)[pos].time, ch |-> edits + 1]

Type(t, pos) ==
  /\ "type" \in Edits
  /\ pos <= Len(View(end[t].rga))
  /\ Edit(t, <<InsertOp(t, pos)>>)

\* str.del(pos, 1)
Erase(t, pos) ==
  /\ "erase" \in Edits
  /\ pos < Len(View(end[t].rga))
  /\ Edit(t, <<[kind |-> "del", what |-> View(end[t].rga)[pos + 1].time]>>)

\* str.ins(pos, ch) taken back at once, in one patch
Retype(t, pos) ==
  /\ "retype" \in Edits
  /\ pos <= Len(View(end[t].rga))
  /\ Edit(t, <<InsertOp(t, pos), [kind |-> "del", what |-> end[t].time]>>)

-----------------------------------------------------------------------------
(* EditSession: what it does with events and models.                       *)

Session(t) == [start |-> start[t], end |-> end[t], log |-> log[t]]

SetSession(t, s) ==
  /\ start' = [start EXCEPT ![t] = s.start]
  /\ end' = [end EXCEPT ![t] = s.end]
  /\ log' = [log EXCEPT ![t] = s.log]

\* reset(model)
ResetTo(s, m) ==
  [s EXCEPT !.start = Clone(m), !.end = ApplyBatch(Clone(m), InOrder(s.log))]

\* merge(patches): those of this session that the clock is past are not new.
MergeOne(s, p) ==
  IF p.id < s.end.time THEN s
  ELSE [s EXCEPT !.start = ApplyPatch(@, p), !.end = ApplyPatch(@, p)]

MergeAll(s, patches) ==
  LET after[i \in 0..Len(patches)] == IF i = 0 THEN s ELSE MergeOne(after[i - 1], patches[i])
  IN  after[Len(patches)]

\* rebase(patches): the pending patches go behind those of another tab.
RebaseOn(s, patches) ==
  LET begun == ApplyBatch(s.start, patches)
      rebased == RebaseAll(InOrder(s.log), NextTime(Last(patches)))
  IN  IF s.log = <<>> THEN MergeAll(s, patches)
      ELSE [start |-> begun,
            end |-> Clone(ApplyBatch(Clone(begun), rebased)),
            log |-> ById(ToSet(rebased))]

\* Mutant: an event that arrives while saving is dropped.
ReceiveIdle(t) ==
  /\ inbox[t] # <<>>
  /\ inbox' = [inbox EXCEPT ![t] = Tail(@)]
  /\ IF saving[t] = Idle
     THEN SetSession(t, RebaseOn(Session(t), Head(inbox[t])))
     ELSE UNCHANGED <<start, end, log>>
  /\ UNCHANGED <<saving, queued, events, frontier, lock, timeouts, edits>>

\* The event of another tab arrives: onEvent() handles it, or holds it back.
Receive(t) ==
  /\ inbox[t] # <<>>
  /\ inbox' = [inbox EXCEPT ![t] = Tail(@)]
  /\ IF saving[t] = Idle
     THEN SetSession(t, RebaseOn(Session(t), Head(inbox[t]))) /\ UNCHANGED events
     ELSE events' = [events EXCEPT ![t] = Append(@, Head(inbox[t]))] /\ UNCHANGED <<start, end, log>>
  /\ UNCHANGED <<saving, queued, frontier, lock, timeouts, edits>>

-----------------------------------------------------------------------------
(* sync().                                                                 *)

Stage(t) == saving[t].stage

\* The pending patches are taken; without any, sync() asks for news only.
SyncBegin(t) ==
  /\ saving[t] = Idle
  /\ queued[t] > 0
  /\ queued' = [queued EXCEPT ![t] = @ - 1]
  /\ saving' = [saving EXCEPT ![t] =
       [stage |-> IF log[t] = <<>> THEN "getIf" ELSE "merge", model |-> NoModel,
        sent |-> InOrder(log[t]), placed |-> <<>>, time |-> end[t].time - 1]]
  /\ UNCHANGED <<start, end, log, events, inbox, frontier, lock, timeouts, edits>>

Tip == frontier[Max(DOMAIN frontier)]

Replay == ApplyBatch(EmptyModel, InOrder(frontier))

\* getIf()
GetIf(t) ==
  LET news == frontier # <<>> /\ saving[t].time < NextTime(Tip) - 1
  IN  /\ Stage(t) = "getIf"
      /\ saving' = [saving EXCEPT ![t].stage = "done",
                                  ![t].model = IF news THEN <<Replay>> ELSE NoModel]
      /\ UNCHANGED <<start, end, log, queued, events, inbox, frontier, lock, timeouts, edits>>

\* _syncMerge(): under the lock, patches that are not ahead of the frontier are
\* rebased; the result is announced to the tabs before it is stored.
Placed(patches, nextTick) ==
  LET next[i \in 0..Len(patches)] ==
        IF i = 0 THEN nextTick
        ELSE next[i - 1] + (IF next[i - 1] > patches[i].id THEN Span(patches[i]) ELSE 0)
  IN  [i \in DOMAIN patches |->
        IF next[i - 1] > patches[i].id THEN Rebase(patches[i], next[i - 1]) ELSE patches[i]]

MergeEmit(t) ==
  LET placed == Placed(saving[t].sent, IF frontier = <<>> THEN 1 ELSE NextTime(Tip))
  IN  /\ Stage(t) = "merge"
      /\ lock = NoTab
      /\ lock' = t
      /\ inbox' = [u \in Tab |-> IF u = t THEN inbox[u] ELSE Append(inbox[u], placed)]
      /\ saving' = [saving EXCEPT ![t].stage = "write", ![t].placed = placed]
      /\ UNCHANGED <<start, end, log, queued, events, frontier, timeouts, edits>>

\* Mutant: the lock is not released.
MergeWriteLocked(t) ==
  /\ Stage(t) = "write"
  /\ frontier' = Put(frontier, ToSet(saving[t].placed))
  /\ saving' = [saving EXCEPT ![t].stage = IF saving[t].placed = saving[t].sent THEN "done" ELSE "read"]
  /\ UNCHANGED <<start, end, log, queued, events, inbox, lock, timeouts, edits>>

MergeWrite(t) ==
  /\ Stage(t) = "write"
  /\ frontier' = Put(frontier, ToSet(saving[t].placed))
  /\ lock' = NoTab
  /\ saving' = [saving EXCEPT ![t].stage = IF saving[t].placed = saving[t].sent THEN "done" ELSE "read"]
  /\ UNCHANGED <<start, end, log, queued, events, inbox, timeouts, edits>>

\* needsReset: the model is read after the lock has been released.
MergeRead(t) ==
  /\ Stage(t) = "read"
  /\ saving' = [saving EXCEPT ![t].stage = "done", ![t].model = <<Replay>>]
  /\ UNCHANGED <<start, end, log, queued, events, inbox, frontier, lock, timeouts, edits>>

\* The events held back, one after the other
Handled(s, batches) ==
  LET after[i \in 0..Len(batches)] == IF i = 0 THEN s ELSE RebaseOn(after[i - 1], batches[i])
  IN  after[Len(batches)]

Finish(t, s) ==
  /\ SetSession(t, Handled(s, events[t]))
  /\ events' = [events EXCEPT ![t] = <<>>]
  /\ saving' = [saving EXCEPT ![t] = Idle]
  /\ UNCHANGED <<queued, inbox, frontier, lock, timeouts, edits>>

\* Mutant: the log is emptied, what was typed in the meantime included.
SyncEndClears(t) ==
  LET stored == [Session(t) EXCEPT !.log = <<>>, !.start = ApplyBatch(@, saving[t].sent)]
  IN  /\ Stage(t) = "done"
      /\ Finish(t, IF saving[t].model = NoModel THEN stored ELSE ResetTo(stored, saving[t].model[1]))

\* sync() gets its answer, and then the events held back are handled.
SyncEnd(t) ==
  LET sent == saving[t].sent
      s == Session(t)
      stored == IF sent = <<>> THEN s
                ELSE [s EXCEPT !.log = [n \in {k \in DOMAIN @ : k > Last(sent).id} |-> @[n]],
                               !.start = ApplyBatch(@, sent)]
  IN  /\ Stage(t) = "done"
      /\ Finish(t, IF saving[t].model = NoModel THEN stored ELSE ResetTo(stored, saving[t].model[1]))

\* The lock was not to be had in time: the patches stay in the log.
LockTimeout(t) ==
  /\ timeouts
  /\ Stage(t) = "merge"
  /\ lock # NoTab
  /\ Finish(t, Session(t))

Handler(t) ==
  \/ Receive(t) \/ SyncBegin(t) \/ GetIf(t)
  \/ MergeEmit(t) \/ MergeWrite(t) \/ MergeRead(t)
  \/ SyncEnd(t) \/ LockTimeout(t)

Positions(t) == 0..Len(View(end[t].rga))

Next ==
  \/ \E t \in Tab : \E pos \in Positions(t) : Type(t, pos)
  \/ \E t \in Tab : \E pos \in Positions(t) : Erase(t, pos)
  \/ \E t \in Tab : \E pos \in Positions(t) : Retype(t, pos)
  \/ \E t \in Tab : Handler(t)

Spec == Init /\ [][Next]_vars

\* Handler(t) is enabled: an event is there, or a promise settled.
Runnable(t) ==
  \/ inbox[t] # <<>>
  \/ Stage(t) = "idle" /\ queued[t] > 0
  \/ Stage(t) \in {"getIf", "write", "read", "done"}
  \/ Stage(t) = "merge" /\ (lock = NoTab \/ timeouts)

\* WF_vars(Handler(t)) for every tab, its event loop does not stop, with ENABLED written
\* out, which TLC takes minutes to evaluate here.  Nobody has to edit.
FairSpec == Spec /\ \A t \in Tab : []<>~Runnable(t) \/ []<><<Handler(t)>>_vars

-----------------------------------------------------------------------------
(* Properties.                                                             *)

Stored == Values(frontier)

Text(m) == LET v == View(m.rga) IN [i \in DOMAIN v |-> m.ch[v[i].time]]

TypeOK ==
  LET IsPatch(p) == p.id \in Nat \ {0} /\ p.ops # <<>>
      IsById(f) == \A id \in DOMAIN f : f[id].id = id /\ IsPatch(f[id])
      IsModel(m) == m.time \in Nat \ {0} /\ DOMAIN m.ch \subseteq 1..(m.time - 1)
  IN  /\ \A t \in Tab : IsModel(start[t]) /\ IsModel(end[t]) /\ IsById(log[t])
      /\ IsById(frontier)
      /\ \A t \in Tab : Stage(t) \in {"idle", "getIf", "merge", "write", "read", "done"}
      /\ lock \in Tab \cup {NoTab}
      /\ queued \in [Tab -> 0..MaxEdits]

(* The frontier never has two patches with overlapping identifiers and     *)
(* loses none to another one stored under its key: tabs that edit at once, *)
(* with one session identifier and no knowledge of each other, are told    *)
(* apart by _syncMerge() under the lock.                                   *)
FrontierDisjoint ==
  \A p, q \in Stored : p = q \/ p.id + Span(p) <= q.id \/ q.id + Span(q) <= p.id

(* Every edit made is in the frontier or in the log of a tab that will     *)
(* store it, at any moment of a sync(), and after one that timed out.      *)
NothingLost ==
  {p.edit : p \in Stored \cup UNION {Values(log[t]) : t \in Tab}} = 1..edits

(* When every tab has stored its edits and heard of those of the others,   *)
(* all show the text that a tab opened now would load.  Events that were   *)
(* overtaken by the answer of a sync(), and patches rebased twice, leave   *)
(* no trace.                                                               *)
AtRest ==
  \A t \in Tab : saving[t] = Idle /\ queued[t] = 0 /\ inbox[t] = <<>> /\ log[t] = <<>>

Agree == AtRest => \A t \in Tab : Text(end[t]) = Text(Replay)

(* The tabs do come to rest: once nobody edits, every pending patch is     *)
(* stored and every event handled.  A patch rebased into the log is taken  *)
(* along by a sync() still queued.  Where the lock can time out, a patch    *)
(* may have to wait for the next edit.                                     *)
ComesToRest == timeouts \/ <>[]AtRest
===========================================================================
