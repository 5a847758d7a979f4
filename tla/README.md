# A TLA+ model of json-joy

json-joy is a collection of packages around a JSON CRDT: the data type itself,
the clocks and patches it exchanges, repositories that keep documents on a
device and on a server, RPC, and bindings to editors. This directory holds TLA+
modules for the parts whose correctness depends on the order in which things
happen, TLC configurations that check them on small instances, and proofs,
checked by TLAPS, of what holds for every size.

Paths below are relative to `src/packages/`. `PROJECT.json` maps every
definition that models code to the lines it stands for.

## Inventory

| Component | State | Operations | What makes it hard | What makes it correct |
|---|---|---|---|---|
| Logical clocks (`json-joy/src/json-crdt-patch/clock`) | time of the session, last tick seen of every peer | tick, observe, fork, clone | the clock moves under a builder that is in the middle of a patch | ids are unique, the clock is ahead of all it saw, a vector says exactly what was applied |
| Patch builder, patch (`json-crdt-patch/PatchBuilder.ts`, `Patch.ts`) | operations so far, next id | one method per operation, pad, flush, rebase | gaps when remote patches advance the clock; every id must move in a rebase | a patch is a span of ids without holes |
| RGA (`json-crdt/nodes/rga`, `str`, `bin`, `arr`) | chunks with tombstones, split links, two splay trees | insert, delete, update, ingest, views | concurrent inserts at one place; spans cut by later inserts; merging of chunks | convergence, intent, exact deletion |
| LWW nodes (`json-crdt/nodes/val`, `obj`, `vec`, `const`) | value, or a value per key | set, put | writes arrive in any order, losers are collected | last writer wins, nothing dangling |
| Model (`json-crdt/model`) | index of nodes, root, clock | applyPatch, reset, clone, delta, applyDelta | idempotence, garbage, reload | the document is a function of the set of patches |
| Delta sync (`json-crdt/delta`) | version vectors in messages | createSync, the three messages | deltas get stale, a third peer intervenes | nothing covered is missing |
| Log (`json-crdt/log`), patch compaction | patches by id, start model | end, advance, rebase, undo | concurrent edits and undo | replay gives the end state |
| Edit session (`json-crdt-repo/src/session`) | start, model, log, held-back events, cursor | load, sync, merge, rebase, reset | edits and events during an awaited sync | no edit lost, sessions agree at rest |
| Local repository (`json-crdt-repo/src/local/level`) | model, frontier, metadata, dirty mark, in a key-value store; a lock per block | create, sync, getIf, pull, push, del, listeners | tabs with one session id; lock time-outs; remote calls that fail half-way | frontier without overlaps, remote and local histories agree |
| Block server (`json-crdt-server/src/services/blocks`) | start and end snapshots, batches by sequence number | create, edit, pull, scan, compact, remove, gc | every step is asynchronous; two locks | numbering without gaps, acknowledged edits kept |
| Presence, pub-sub (`json-crdt-server/src/services`) | rooms, observers | publish, listen, collect | observers change during a publication | entries expire, none is lost early |
| RPC (`rpc-calls` and others) | calls in flight by id, executions by id, buffers of values | call, stream, notify, cancel, reconnect | ids wrap, late answers, batches, a microtask between a check and its procedure | an answer reaches its call; a request arrives whole, in order, once; every call is answered |
| Channels (`channel`) | the channel, two timers, a counter | start, stop, open, close, retry | a channel that never opened must be followed by another too | an active service comes to be connected again |
| OT of strings (`json-joy/src/json-ot`) | none | compose, transform, apply | components cut at offsets within both operations | compose does both; both orders of a transform agree |
| Editor bindings (`collaborative-*`) | editor content, model, cursors | sync both ways, presence | re-entrancy, late messages | editor and model agree |
| JSON Patch, diff, codecs, types, pointers, UI | none that survives a call, or none of ours | | | covered by tables of tests |

How they interact. An editor binding or the API of a model makes operations in
the *builder*, which flush as a *patch* that the *model* applies to its *nodes*
and the *log* keeps. The *edit session* hands pending patches to the *local
repository* under the lock of the block; the repository appends them to the
*frontier* and announces them to the other tabs, and pushes them to the *block
server* through *RPC*. The server numbers them as batches and announces them.
Peers that have no server exchange *deltas*.

## Plan

1. Core: clocks and patches (`LogicalClock`, `PatchClock`), the sequence
   (`Rga`, with `RgaOrder` as its abstract reference, composed in
   `RgaReplicas`), the document (`JsonModel`), state deltas (`DeltaSync`), the
   tabs of a device (`EditSessions`), the block server's store (`LevelBlocks`).
   Proofs: the inductive invariants of `PatchClock`, `RgaReplicas`, `LevelBlocks`,
   `DeltaSync`, `EditSessions` and `JsonModel`. *Done.*
2. Repository against server: push, pull and the remote subscription of
   `LevelLocalRepo` (`LocalRepos`), with lost answers, time-outs, disconnects and
   restarts, over what the server promises (`BlockLog`, which `LevelBlocks`
   implements); what all of it promises its users (`SharedLog`), as a refinement.
   Proofs of both refinements and of the invariants of `LocalRepos`. *Done.*
3. RPC over a persistent channel (`PersistentChannel`, `RpcCalls`) and the
   operational transform of strings (`StringOt`). Proofs of the invariants of
   `RpcCalls`. *Done.*
4. What is left: log and undo, the memory store, string binding and presence,
   the clock table of the codec, the extensions that remove tombstones, the splay
   trees of the RGA as a refinement of `Rga`'s sequence. Proofs of what
   `DeltaSync`, `EditSessions` and `JsonModel` say of the whole text or document,
   from the lemmas of `RgaReplicasProofs`.

The number of runs is kept small: where several instances ask one question of
one module, `Init` chooses between them (`group` in `RgaReplicas`, `kinds` in
`JsonModel` and `DeltaSync`, `timeouts` in `EditSessions`, `case` in `LocalRepos`
and `RpcCalls`).


## Modules

**LogicalClock** has the operators of `clock.ts`: a clock is its session, its
time and, for every other session, the last time seen (0: none). No state.

**PatchClock** (extends it) is sessions that work on one document. Actions:
`Create` (a model with a session of its own), `ForkModel`, `Build` (one
operation in the builder, applied at once: pads first when the clock has moved
on, as `PatchBuilder.pad` does), `Flush` (the patch is published) and `Apply` of
a published patch, for the first time or again. Content of operations is left
out; an operation is its id and span. The padding (`nop`) is an operation too.

**Rga** is `AbstractRga` over the sequence of its chunks. A chunk keeps its id,
span, tombstone flag and split link; content is left out because every element
is named by its id. The position tree and the id tree are abstracted to that
sequence, so `FindById` is a search where the code descends a splay tree.
**RgaOrder** is the reference: the order that a set of insert operations
determines, defined over the tree of references with no chunks at all.
**RgaReplicas** composes replicas over `Rga`: `LocalIns`, `LocalDel` (with the
reference and spans `StrApi` computes), `Deliver` of any operation whose
dependencies were applied, new or not, and `Reload` (decode of an encode).

**JsonModel** is the index of nodes and `Model.applyOperation`, one operator per
operation, with `_gcTree`. An edit makes a value and puts it in its place in one
patch. A vector is not quite an object whose keys are indices: a value put past
its end leaves holes, and two replicas that push at once meet at one index. Its
reference reads the document straight off the set of operations.

**DeltaSync** adds version vectors: `delta` of string, array and object,
`applyDelta`, `merge` and the three messages of `sync.ts`, any number under way
within the bounds, with edits of both peers between them. `made` is a history
variable: the edits that were made, against which a state is held that claims, by
its clock, to have some of them. `Exclusive` has the documents with which a peer
takes part in one exchange at a time. The code does not ask for it, and what holds
depends on it: text and array are complete only where callers keep to it
(`Complete`); the keys of an object are right either way (`ObjFaithful`, which is
checked of both and proved without the condition). What goes wrong otherwise, and
with array slots that are updated, is under *Disagreements* below.

**EditSessions** is `EditSession` in several tabs that share one repository and,
as tabs do, one session id. Its `sync` is split at every await: `SyncBegin`,
then under the lock `MergeEmit` and `MergeWrite`, then `MergeRead`, `SyncEnd`;
or `GetIf`; or `LockTimeout`. `Receive` is the arrival of another tab's merge
event; `Type`, `Erase` and `Retype` are edits. Events held back during a sync
are replayed at its end in the same step, as in the code.

What goes through the entries of a map or the keys of a store takes them in the
order of **Sorting**.

**LevelBlocks** is one block of the server: `BlocksServices` over `LevelStore`.
A request of a client is a record that says which `await` it is at and what it
has read so far; there is one action per stretch of code between two awaits
(`Exists`, `Get`, `Push` for an edit, `ReadSeq`, then `ReadStart` and `ReadBatches`
or `Scan` for a pull, `RemoveExists`, `Clear`, `CreateEmpty`, `CreateWithBatch`).
What runs under the mutex of the block is one step. A compaction is three
(`CompactBegin`, `CompactRead`, `CompactWrite`), because it holds another mutex,
`id + ".trunc"`, and pushes go on meanwhile. `Crash` loses all that is in memory.
A batch is the edit it came with, a model the set of edits applied. `kv.batch()`
and `kv.clear()` are taken to be atomic. `stored`, `life` and `mixed` are history
variables: a block may be removed and created again under its id, and nothing in
the store tells the two lives apart, so an edit or a compaction begun in one may
be written in the other; `mixed` marks that this has happened, and the properties
speak of the states where it has not.

**BlockLog** is what the server promises of a block: a log of batches that grows
at its end, and content that is what the batches amount to. `LevelBlocks`
implements it (`Implements`, whose mapping is in that module), and `LocalRepos`
takes its actions for the server, so that the two components are composed
through what lies between them.

**LocalRepos** is the `LevelLocalRepo` of several devices against that server. A
*worker* is one call under way on a device; its record says which `await` it is
at and what it has read. `Create` and `Merge` are edits (what becomes of their
timestamps is the business of `EditSessions`); `Mark`, `Collect`, `PushLock`,
`ServeUpdate` and `PushStore`, `PushFail` or `PushStoreFail` are
`markDirtyAndSync` and `push`; `ServeCreate` and `CreateLost` are the end of the
`remote.create()` that `push` sends and does not wait for; `ServePull`, `PullLock`
and `Store` are `pull`; `Load`, `ServeRead` and `LoadStore` are `pullNew` and
`load`; `Receive`, `UpdLock` and `Store` handle an event of the server; `SyncItem`
is the sync loop. Sequence numbers are one more than the code's. Block deletion is
left out.

The lock of a block is a lease of 500 ms (`LevelLocalRepo.ts:428`), and a push
waits for the server inside of it, up to 5000 ms (`:503-519`). `LeaseEnd` is the
end of the lease of a push: others get the lock, and the push goes on, to its
callback or to its catch block, which writes the metadata it read at the
beginning. Because such a push may write at any moment, a pull and an event of the
server read under the lock in one step (`PullLock`, `UpdLock`) and write in
another (`Store`). The sections that use only the key-value store are taken to
end within their lease; those which a late push cannot come in between of without
the outcome being that of some order of the two are one step (`Create`, `Merge`,
`LoadStore`).

What else may fail: a request or its answer is lost (`PushFail`, `PullFail`,
`CreateLost`), a push fails after it has taken the number of the answer
(`PushStoreFail`), a wait for the lock is given up (`LockTimeout`), a connection
breaks with the events on it (`Disconnect`), and all tabs are closed and opened
again (`Restart`), which keeps the key-value store only. `spoilt` is a history
variable: the devices where a push has outlived its lease or has failed with the
new number taken. What is claimed of a device's number and model is claimed until
then (see *Disagreements* below for what happens after); `NothingLost` and
`Converge` are claimed throughout.

**SharedLog** is what the devices promise together: one log of batches; each
device follows it up to a position that never moves back and shows exactly the
batches up to there and its own pending edits, which stop being pending only when
the position has passed them. `LocalRepos` implements it for as long as no device
is `spoilt` (`Implements`).
**MCLocalRepos** lists the cases of the run, and two for the disagreements below.

**PersistentChannel** is `PersistentPhysicalChannel` over `WebSocketChannel`: the
state of the channel, the delay before the next attempt (`wait`), the time a new
channel has to stay open (`uptime`) and the count of attempts. A channel may close
without having opened, and `newChannel()` may fail in two ways: the socket cannot
be made (a channel that has closed), or it throws.

**RpcCalls** extends it with the calls made over it. Client: `Make`, `Emit`,
`Cancel` and `Deliver` are the methods of `RxLogicalChannelCaller` and the values
of a request stream, messages wait in the `TimedQueue` until `Flush`, `Reissue` is
the `switchMap` of `RxPersistentCaller` on every channel that opens. Server:
`Receive` handles one message of a batch (`turn`: nothing else happens in
between), and `CheckPass`, `ExecAnswer`, `ExecEnd`, `ExecFail` are executions that
go on between batches; the values kept in a `BufferSubject` are handed over in a
microtask after the batch (`Opened`). A procedure may end with a value or without
one. A caller looks for a free id among its own calls; the call that had it before
may have been cancelled while messages of it are under way and its execution goes
on at the server, since cancelling completes its request and stops nothing.
`Forgotten` says that this is not so, and the history variable `mixed` that an id
was taken when it was: what is claimed of requests (`InOrder`) is claimed until
then, what is claimed of the answers of a call that is waited for, and of
executions, throughout. Assumptions: request streams begin anew for every
subscriber, and the executions of a lost connection are dropped. **MCRpcCalls**
lists the cases of the run.

**StringOt** has the operators of `ot-string`. A position within a component
(`i1`, `off1`) is the rest of the operation with its first component cut, and
`Walk` is the inner loop that compose and transform share. Two sites edit
(`Edit`, composed with what is pending) and `Meet`, each transforming the other's
operation over its own, as the library's fuzzers do. A character is a number of
its own, so that a lost or doubled one shows.

## Runs

| Run | Instance | Shows |
|---|---|---|
| `PatchClock` | 3 sessions, 4 operations of span 1 or 2 | `TypeOK`, `IdsUnique`, `PatchContiguous`, `ClockAhead`, `HasExact` |
| `Rga` | 2 sessions with 4 operations, or 3 with 3 | `Materialized` (state = reference, hence convergence), `DeletedExactly`, `LinksGenuine`, `LocalIntent` |
| `Json` | 2 replicas, 4 patches, objects, vectors or arrays | `Materialized`, `NoneMissing`, `LocalWins` |
| `Delta` | 3 peers, 3 edits, 3 exchanges; a string and an object, or an array, one exchange of a peer at a time; or an object, several at once | `Complete`, `ObjFaithful` |
| `Tabs` | 2 tabs, 3 edits | `TypeOK`, `FrontierDisjoint`, `NothingLost`, `Agree`, `ComesToRest` |
| `Blocks` | 2 clients, 4 edits, 1 removal, history of 1 | `TypeOK`, `Kept`, `Leads`, `PullWholeUncut`, `Implements` |
| `Repos` | 2 devices with 2 calls each, up to 3 edits, up to 2 faults, late pushes included | `TypeOK`, `SeqPulled`, `NothingLost`, `Implements`, `NothingUnseen`, `Converge` |
| `Rpc` | up to 3 calls, 2 broken connections, 2 ids, a buffer of 1 | `TypeOK`, `AnswersOwn`, `InOrder`, `OncePerConnection`, `Answered`, `KeepsConnected` |
| `Ot` | text of 2, 4 edits, 1 meeting | `Normal`, `Exact`, `Merged` |

A type invariant is checked where the module is proved about or where it says
more than shapes (`Tabs`, `Rpc`). Why the bounds suffice: an anomaly of the RGA
needs two concurrent inserts at one place plus an insert or a delete that cuts
one of them, which is four operations of span two by two authors; a third author
adds sibling orders that two cannot make, and needs one operation of each. A
document needs a value, its replacement, an edit inside the replaced one, and
the concurrent counterpart: four patches with the first. A delta gets stale with
one edit at each of two peers while a third holds another; crossing exchanges
need one each way and a merge. Tabs need an edit
during a sync of each: three. A block needs enough edits for a compaction to be
followed by another (`HistoryPerBlock` is 1 instead of 10000, `PullMax` 1 instead
of 100), while a client is inside an edit or a pull: four. A device is outrun when
one of its calls has read a number, another one of it stores a later one, and the
other device has added a batch: two calls, the founding edit and two more; beyond
one batch the server answers with a snapshot, so both answers occur. The cases of
`Repos` are: a block that is not there yet, made by one device with an edit while the
other creates it empty; one that both create empty, with one fault, which may lose the
creation sent without waiting (`:489`); three edits without faults, also
during a push; three edits of which none falls in a push, with one fault, which
may be the end of a lease; two edits with two faults, the end of a lease and late
failures among them. Two ids make ids wrap within three calls, and three calls of
which some are cancelled let an id be taken too early; a buffer of 1 overflows
with the second value; two breaks let a call be made again twice. An
operation composed of three edits beside one of the other site has every kind of
component next to every other, cut by a component of the other.

Deadlock is checked in `PatchClock`, `Rga` and `Json`, where delivery may always
repeat, and in `Blocks`, where a request may always come. In the others the
system really stops: the edits or calls are used up and nothing is under way.

Fairness. `Tabs` assumes weak fairness of each tab's event loop (`Handler`),
which is what a browser gives a page that is not closed: settled promises and
events get handled. `Repos` assumes it of every call under way (`Work`), of the
sync loop and the subscription (`Start`), which run on timers and streams, of the
server's answer to `create` (`ServeCreate`), and of coming on line again
(`Connect`). `Rpc` assumes it of timers, messages under way,
connecting and procedures that end (`Progress`). Nobody has to edit, to call or to
fail. The liveness properties name what the code does not promise:
`ComesToRest` is claimed where the lock is never waited for in vain (after a
time-out the code retries only with the next edit); `Converge` except where the
mark that makes the sync loop try again is lost, which takes a fault and either a
restart right after an edit or two pushes at once; `Answered`, where a call counts
as answered also when it was refused or its response has completed without a
value (whose promise then does not settle, see below), and
`KeepsConnected` unless the client is stopped or `newChannel()` throws, after
which it is never called again.

### Disagreements the runs show

Each is a run that TLC ends with a counterexample, stated from a sentence of the
repository; `PROJECT.json` quotes it.

- `RgaReload`: `ingest` links any two chunks whose ids are contiguous, wherever
  they stand; an insert may then be merged into the wrong chunk and one id name
  two characters.
- `DeltaState`: a delta sends a chunk with its present neighbour as reference, so
  the receiver's tie-break differs from the sender's and texts diverge for good.
- `BlocksSnapshot`: `getSnapshot` reads the start of a block and then its batches,
  under no lock; a compaction in between has deleted the batches that follow on
  the start that was read.

### Disagreements the models have

These are in the modules, and no run is kept for them: the properties of the runs
are stated as far as they hold in spite of them. Each has a definition that states
what the repository says; TLC ends with a counterexample when it checks that
definition alone on the instance given.

- `Covered` of `DeltaSync`, with two sessions, `Docs = {{"ins_str"}}`, `Exclusive = {}`
  and three edits (against `json-crdt/delta/Delta.ts:29-30`, that a version vector is
  "what the other peer has already incorporated into their state"): a delta
  computed before its receiver learned a part of one of its chunks, which takes two
  exchanges that cross, is skipped from that chunk on (`AbstractRga.ts:207-220`)
  while the clock is advanced over it (`Model.ts:292-295`); the rest is missing for
  good.
- `SlotsFaithful` of `DeltaSync`, with two sessions, `Docs = {{"ins_arr", "upd_arr"}}`
  and two edits (against the same comment): the delta of an array has no update of
  a slot (`ArrNode.ts:252`), and the clock of its receiver covers the update.
- `NumberPulled` of `LocalRepos` (`level/types.ts:20-22`, of `seq`: "The sequence number
  of the last remote batch that was successfully pulled"), with four edits and
  `Cases <- MCLease`: a push whose lease has ended fails after another call of the
  device has stored a later number, and its catch block (`LevelLocalRepo.ts:587-596`)
  puts back the one it had read; a later push takes up the number and the model that
  no longer fit, and the device comes to claim a batch that its model lacks.
- `NumberPulled` with two edits and `Cases <- MCStore`: a push that fails after it has
  taken the number of the answer (`LevelLocalRepo.ts:578`) stores the number without
  the model, and the device never pulls that batch.
- `Ends` of `RpcCalls`, on the instance of `Rpc` (`rpc-messages/README.md:46`:
  "Completes a response subscription (with an optional final value)", and the test
  "response can complete without sending any data",
  `RxLogicalChannelCaller.spec.ts:270`): `call()` waits for the first value of a
  stream that does not end with the response (`RxPersistentCaller.ts:78-86`), so its
  promise never settles.
- `CancelledIsSilent` of `RpcCalls`, on the same instance (`rpc-messages/README.md:38`:
  "Client cancels an active response subscription"): cancelling completes the
  request of a call and stops no procedure (`RxLogicalChannelBaseDispatcher.ts:249-255`;
  the dispatcher of the tests does stop it, `LoopbackChannel.ts:88`), so its answers
  are still sent. This is also why an id can be taken too early.

### Disagreements met in reading

The modules have the behaviour, or leave the case out, as said.

- Sessions. A batch is rebased patch by patch, each from its own first id, so
  references into an earlier patch of the batch stay behind
  (`LevelLocalRepo.ts:868`, against `Batch.rebase`, `Batch.ts:15-26`);
  `Patch.rewriteTime` does not move the spans of a delete (`Patch.ts:109`); a
  `reset` while a sync is in flight lets an id be given out again
  (`EditSession.ts:179`, as its TODO at `:88` fears). `EditSessions` does all
  three.
- Repositories. A pull whose number has changed meanwhile drops what it fetched
  and nothing wakes the device (`LevelLocalRepo.ts:1018`, `:1041-1044`, against
  `local/types.ts:48-52`); the push that changed the number has a later state, so
  `SeqPulled` and `NothingUnseen` hold, but the latest batch may stay unknown until
  the next event. A push that writes late puts back the `time` of the metadata too
  (`:577`, `:591`), from which `_syncMerge` takes the next id when the frontier is
  empty (`:843-849`); an edit of `LocalRepos` has a name of its own, so whether an
  id, and with it a key of the frontier, is then given out twice is not in the
  model.
- RPC. Nobody calls `disconnect()` of the dispatcher, so that the procedures of a
  lost connection go on; a call cancelled before its first value is executed later
  all the same (`Emit` has this). More than ten values in one batch overflow a
  procedure that has no check, because the buffer is flushed in a microtask
  (`RpcCallee.ts:150`). A notification is sent again over every new connection,
  because `notify` never unsubscribes (`RxPersistentCaller.ts:88-90`), and so is a
  completed stream whose `call$` is still subscribed to. Retries are not reset
  when a channel opens later than `minUptime`. `stop()` leaves pending calls
  without an end.
- Log. `AbstractRga.spanView` cuts a chunk to the span and not to the end of the
  chunk (`:883`) and so loses text when a span starts inside a chunk and goes on
  past a split; undo of a patch that deletes what it inserted throws on an empty
  string. Neither is modelled.
- OT. `validate` accepts an empty reversible removal, `[['']]`, which `append`
  does not drop either; no operation of `StringOt` makes one.

## Proofs

`PatchClockProofs` proves, for any finite or infinite set of sessions, any spans
and any bound on operations (`SidAssumption`, `SpansAssumption`,
`MaxOpsAssumption`), the type invariant and all four safety invariants of
`PatchClock`.

Uniqueness of ids is not inductive by itself: a step that gives out the id
`time` is safe only when all ids of that session, wherever they are, lie below
`time`. The inductive invariant `IndInv` therefore adds: a session has applied
all its own patches (`OwnApplied`); what its builder holds is the last it gave
out (`BuilderLast`); patches in circulation are closed under their author's
order (`SentClosed`); what others know of a session is behind what it knows of
itself (`PeersBehind`). One lemma per action preserves it, under each one step
per conjunct that the action can disturb; `Invariance` puts them together, and
each property follows from it by a short proof. (TLC, given
`IndInv` as an invariant of the instance of the run, finds that it holds.)

`LevelBlocksProofs` proves, for any set of clients, any `HistoryPerBlock` and
`PullMax` above zero and any bounds (`HistoryAssumption`, `PullMaxAssumption`,
`BoundsAssumption`), the type invariant, `Kept`, `Leads` and the action property
`PullWholeUncut` of `LevelBlocks`. `Kept` and `Leads` are not inductive because
requests and compactions write what they computed from an earlier state.
`RequestsFresh` says that a push holds the whole end in its model if its number
is the next one (so that the comparison under the mutex is enough), and that a
pull holds a number that was reached; `CompactionsFresh` that a compaction holds
the start that is there, and deletes exactly what it merged; `OneCompaction` that
one at a time does; `AbsentEmpty` and `Numbered` that a new life starts from
nothing and that a number names one batch. The same invariant gives `BlockIsLog`: every step of
`LevelBlocks` is a step of `BlockLog` or leaves the log and the content as they are.

`LocalReposProofs` proves, for any devices, any finite or infinite number of calls
under way and any number of edits and faults (`WorkerAssumption`,
`PullMaxAssumption`, `MaxEditsAssumption`, `CasesAssumption`), the type invariant,
`SeqPulled`, `NothingLost`, the refinement of `SharedLog` and the action property
`NothingUnseen`, with leases that end and late failures in the model. None is
inductive: a call stores what it read some steps ago. The invariant has a part that
holds whatever fails and a part that holds of a device until it is `spoilt`.

- Whatever fails (`Holds`, `Numbered`, `Unborn`): the patches of a push are still in
  the frontier or in the log, because only a confirmed push deletes any; what a
  pull, a load or an event holds is of a part of the log, which does not change; no
  number is beyond the log; a device without the block holds nothing. This gives
  `NothingLost`.
- Until then (`Fits`, `Exact`): a call that holds the lock has the model and the
  number that the device still has, and what a pull or an event is going to store
  is right; a model lies between the log up to the device's number and that with
  the frontier added. It gives `SeqPulled` and `NothingUnseen`, device by device:
  what is spoilt on one says nothing of the others. With it, storing an answer is
  either refused or moves the device forward (`SharedFollow`), which is the one
  step of the refinement that takes an argument; the refinement speaks of all
  devices, and so holds until the first of them is spoilt.

`RpcCallsProofs` proves, for any number of identifiers and calls, any size of the
buffer, any requests and any number of lost channels (`SizesAssumption`,
`CasesAssumption`, `MakesAssumption`, `MaxBreaksAssumption`), the type invariant
and all safety invariants of `RpcCalls`. What a reader may rely on speaks of both
ends, but a message is in neither while it waits in the queue or is under way. So
the invariant is stated over `Pipe`, everything sent and not yet handled as one
sequence: sending adds at its end, a flush leaves it alone, the server takes its
head. It has two parts.

- `Shape` holds whatever becomes of identifiers. `Wants` says that a message, an
  execution or an answer of a call that is waited for carries the identifier under
  which that call has its entry: a call that is waited for keeps its entry, so no
  other call can have taken its identifier. This gives `AnswersOwn` for such calls.
  `NamedOnce` and `Unsent` say that a request is named once, and not before it is
  sent, which gives `OncePerConnection`. `Entries` relates entries to those who
  wait, `Quiet` says that nothing lives on without a channel, `Few` that there is
  always a free identifier.
- `Fit` holds until a call takes an identifier too early (`mixed`). `Owned` says that
  whatever carries an identifier is of one call, `Ordered`, `Flows` and `Final` that
  the values handed to a procedure, those in its buffer and those in the pipe are,
  one after the other, the values the user sent. It gives `InOrder`, and `AnswersOwn`
  for calls that are over.

`DeltaSyncProofs` proves, for any sessions, keys, kinds of document, any number of
edits and exchanges, with or without `Exclusive`, `ObjFaithful`. A delta is applied
steps after it was computed, to a peer that has changed since, so that the
invariant has to speak of every message under way: a clock in a message covers only
what its sender knew (`NetCovered`), and a delta of an object has the latest of the
values it covers (`NetLatest`). Both stay true because what a peer's clock covers
only grows (`MessageInvSpreads`). `ClocksSane` and `OwnKnown` are what makes an edit
of one's own uncovered by any clock before it. That the text is complete
(`Complete`) is only model-checked.

`EditSessionsProofs` proves, for any tabs, any number of edits and time-outs
(`TabAssumption`, `EditsAssumption`, `TimeoutsAssumption`, `MaxEditsAssumption`),
the type invariant, `FrontierDisjoint` and `NothingLost`. Neither is inductive: a
`sync` works with what it took from the log before its awaits, and several tabs
give out ids of one session. `IsSession` says that the clock of a session is past
every patch it keeps; `IsSaving` that what a sync sends is in the log until it is
stored and that later patches have larger ids, so that `SyncEnd` drops exactly
what was sent; `IsPlaced` that what is to be stored lies behind the frontier and
keeps the edits of what was sent, for as long as the lock is held. There is one
lemma for each operator the actions use (`ApplyBatchOK`, `RebaseAllOK`,
`PlacedOK`, `MergeAllOK`, `HandledOK` and so on). That a recursive function over
the places of a sequence exists is shown along its prefixes, by `Upward`. Of the
text only its being one is used, nothing of `Rga`.

`JsonModelProofs` proves, for any documents, any sessions (at least one, who made
the document), any keys and any number of patches (`DocsAssumption`,
`SidsAssumption`, `MaxIndexAssumption`, `MaxPatchesAssumption`), `NoneMissing` and
the action property `LocalWins` of `JsonModel`. That what is collected is missed by
no node that stays does not follow from there being none missing before: a value
that came a second time, or was put in two places, would be collected under one
node and stay in another. The inductive invariant `IndInv` says that every value in
a place was put there by an operation that was made (`NodeOK`), that a value is put
in one place by one operation (`OpsOK`), and that the identifiers of a session lie
before its clock (`OpBelow`). So what is replaced has no other referrer, and
neither has anything below it (`GcOK`, `SetNodeOK`). A value is later than the node
it is in, so that the recursion of `_gcTree` comes to an end (`TreeExists`). For an
array the lemmas are about `Rga` itself, in the case of chunks of one slot: the
identifiers of slots are never adjacent, so chunks are not merged and not split
(`NothingMerged`), an insertion keeps the order of the chunks and adds one
(`InsOK`), a deletion kills one (`DeleteOK`), and decoding gives back what was
encoded (`IngestOK`). `LocalWins` follows from the same invariant: whatever is in a
place is earlier than the clock of who looks at it (`OlderValue`), so that the
guards of the put operations let an own value through. (TLC, given `IndInv` as an
invariant of the instance of the run, finds that it holds.)

`RgaReplicasProofs` proves, for any sessions, any spans and any number of operations
(`SidAssumption`, `GroupsAssumption`, `SpansAssumption`, `MaxWorkAssumption`), every
property of the specification of `RgaReplicas`: `LinksGenuine`, `DeletedExactly`,
`Materialized` and `LocalIntent`, and that copies which have seen the same
operations agree (`Convergence`). The properties compare a copy with a function of
a set of operations, and no step of the code computes that function. The invariant
`IndInv` therefore says what a copy is of the tree of insertions alone, in terms a
step can be held to (`IsCopy`, `Marked`):

- `Tiles`: each element is in one chunk, and nothing else is;
- `Runs`: within a chunk each element hangs below the one before;
- `Linked`: a chunk has a split link exactly if the element after its last one was
  inserted behind that one (so that the link names where it was split, and a
  deletion that follows links finds every piece);
- `InOrder`: an element comes after what it hangs below, and all between the two
  are later than it;
- `Marked`: tombstones are the elements some operation seen deleted.

With it go `OpsOK` (identifiers of operations never overlap, and an operation names
what it depends on) and that a session's clock is past all it has seen. Splitting,
putting a chunk in behind another (where the search over later siblings stops),
lengthening one, marking one deleted and joining two each have a lemma that they
keep `IsCopy`; those of `Ins`, `DeleteSpan` and `MergeTombstones2` follow, the loops
along their recursive functions. `InsertAfterRef` may append to a chunk instead of
adding one: that this is right is where `Runs` and the clock are used.

`LinksGenuinely` and `DeletesExactly` follow at once. For `Materialized`: a tree has
one order with the properties of `InOrder` (`OrderUnique`), the reference `Below`
lists a tree in such an order, and two sequences without repetition that go through
one set in one order are equal. `Convergence` is then a consequence. For
`LocalIntent`, the visible text before and after an insertion is cut at the position:
each part keeps its order, and what is new lies between (`InPlace`, `InsertionShown`);
the spans of a deletion are those of the selected positions (`SpansCut`,
`IntervalFound`), and taking elements out of a text leaves the rest (`CutOut`,
`DeletionShown`). `ReloadSpec` adds decoding, under which `UniqueChunkIds` fails
(see the disagreements above), and nothing is proved of it.

Only model-checked: `ComesToRest`, `Converge`, `Answered` and `KeepsConnected`
(liveness under fairness is out of the prover's reach); `Complete` of `DeltaSync`
and `Agree` of `EditSessions`, which say of a text that is sent in deltas, or rebased
and stored, what `Materialized` says of one made by operations alone: the lemmas of
`RgaReplicasProofs` about `Rga` apply, those about deltas and rebased patches are
still missing;
`Materialized` of `JsonModel`, which compares recursions over a whole document;
the properties of `StringOt`, whose `Walk` is a recursive operator (no theorem
can be stated in a module that reaches one), and whose properties say what
recursions over whole operations compute.

## Not modelled, and why

- Codecs, JSON Pack, types, expressions, pointers, code generation, UI:
  deterministic functions of their input, or glue, that tables of tests cover.
- The clock table of `ClockEncoder` drops sessions of which no node is left, so a
  decoded model forgets them. `HasExact` is about `fork` and `clone`, which keep
  them.
- `AbstractRga.rmTombstones`, which removes chunks that operations under way may
  refer to: the core never calls it, two extensions do (`mval/MvalApi.ts:13`,
  `peritext/slice/LocalSlices.ts:7`), and extensions are not modelled yet.
- The memory store of the server (its start and end snapshots are one object, and
  compactions may overlap), which tests use, and which blocks `gc()` picks (that
  any may be removed at any time is modelled).
- What a vector of two elements with a certain header stands for (an extension),
  and the error of an index above 255, which a bound of the model stays below.
- Relative timestamps, wall clocks, and the sizes at which the server compacts.
- Log and undo: undo rebuilds deleted text from views of the RGA; see the
  disagreements above.
- `StrBinding` and the presence manager: what they are exposed to is the order in
  which an editor fires events from inside calls, and no editor is part of the
  repository. Presence rooms and pub-sub are maps of entries that expire and a
  first-in-first-out fan-out.
- Of RPC: typed callers, validation other than as a refused check, batches over
  HTTP, and delays. Of OT: the two irreversible variants, which are the same loops
  without reversible removals, and the JSON types.
- Peritext, diff and the other layers that only emit operations.
