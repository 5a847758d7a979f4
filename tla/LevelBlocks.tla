---------------------------- MODULE LevelBlocks ----------------------------
(***************************************************************************)
(* One block of the server: BlocksServices over LevelStore.  Requests of   *)
(* clients run concurrently, every await of theirs a step; compactions of  *)
(* the history run in the background.                                      *)
(*                                                                         *)
(* The key-value store holds the end of the block (key "e"), its start     *)
(* (key "s") and the batches between them by number.  A batch of patches   *)
(* is represented by the edit it came with, a model by the set of edits    *)
(* applied to it.  What a store does under the mutex of the block is one   *)
(* step: nothing else it would meet writes the keys it reads.  A           *)
(* compaction has a mutex of its own and is three steps.  kv.batch() and   *)
(* kv.clear() are taken to be atomic.                                      *)
(*                                                                         *)
(* For the properties, stored records which edit got which number in       *)
(* which life of the block (it may be removed and created again), and      *)
(* mixed whether anything that was begun in one life was written in a      *)
(* later one.                                                              *)
(***************************************************************************)
EXTENDS Integers, Sequences, FiniteSets, Functions

CONSTANTS Client,           \* clients, each with one request at a time
          HistoryPerBlock,  \* opts.historyPerBlock
          PullMax,          \* pull() answers with a snapshot beyond that many (100 in the code)
          MaxEdits,         \* bound: edits in a behaviour
          MaxRemoves        \* bound: requests to remove the block

ASSUME HistoryAssumption == HistoryPerBlock \in Nat \ {0}
ASSUME PullMaxAssumption == PullMax \in Nat \ {0}
ASSUME BoundsAssumption == MaxEdits \in Nat /\ MaxRemoves \in Nat

VARIABLES end, start,       \* the values of the keys, <<>> or <<snapshot>>
          batches,          \* the batches by number
          req,              \* the request of each client
          jobs,             \* compactions in the background
          trunc,            \* whether a compaction holds the mutex id + ".trunc"
          life,             \* number of times the block was created
          stored, mixed,    \* history, see above
          edits, removes    \* counters of the bounds

kv == <<end, start, batches>>
vars == <<kv, req, jobs, trunc, life, stored, mixed, edits, removes>>

Absent == <<>>
Idle == [stage |-> "idle"]
Snapshot(seq, blob) == [seq |-> seq, blob |-> blob]

Init ==
  /\ end = Absent /\ start = Absent /\ batches = <<>>
  /\ req = [c \in Client |-> Idle]
  /\ jobs = {}
  /\ trunc = FALSE
  /\ life = 0
  /\ stored = {}
  /\ mixed = FALSE
  /\ edits = 0 /\ removes = 0

Stage(c) == req[c].stage
Goto(c, r) == req' = [req EXCEPT ![c] = r]
Answer(c) == Goto(c, Idle)

\* A step that only reads
Reads == UNCHANGED <<kv, jobs, trunc, life, stored, mixed, edits, removes>>

-----------------------------------------------------------------------------
(* Requests arrive.                                                        *)

\* edit(id, batch, create)
BeginEdit(c, create) ==
  /\ Stage(c) = "idle"
  /\ edits < MaxEdits
  /\ edits' = edits + 1
  /\ Goto(c, [stage |-> IF create THEN "exists" ELSE "get", edit |-> edits + 1])
  /\ UNCHANGED <<kv, jobs, trunc, life, stored, mixed, removes>>

\* pull(id, last, create) by a client that has the edits numbered up to last
BeginPull(c, last, create) ==
  /\ Stage(c) = "idle"
  /\ Goto(c, [stage |-> "seq", last |-> last, create |-> create])
  /\ Reads

\* create(id), without a batch
BeginCreate(c) ==
  /\ Stage(c) = "idle"
  /\ Goto(c, [stage |-> "create"])
  /\ Reads

\* remove(id), by a client or by gc()
BeginRemove(c) ==
  /\ Stage(c) = "idle"
  /\ removes < MaxRemoves
  /\ removes' = removes + 1
  /\ Goto(c, [stage |-> "remove"])
  /\ UNCHANGED <<kv, jobs, trunc, life, stored, mixed, edits>>

-----------------------------------------------------------------------------
(* Creation.                                                               *)

\* store.create(): a conflict where the block is there.
Create(c, seq, blob, entries) ==
  /\ Answer(c)
  /\ IF end # Absent THEN UNCHANGED <<kv, life, stored>>
     ELSE /\ start' = <<Snapshot(-1, {})>>
          /\ end' = <<Snapshot(seq, blob)>>
          /\ batches' = [n \in DOMAIN batches \cup DOMAIN entries |->
                          IF n \in DOMAIN entries THEN entries[n] ELSE batches[n]]
          /\ life' = life + 1
          /\ stored' = {[seq |-> n, edit |-> entries[n]] : n \in DOMAIN entries}
  /\ UNCHANGED <<jobs, trunc, mixed, edits, removes>>

CreateEmpty(c) == Stage(c) = "create" /\ Create(c, -1, {}, <<>>)

\* Mutant: the first batch is numbered as the start of the block.
CreateWithBatchEarly(c) ==
  Stage(c) = "createWith" /\ Create(c, -1, {req[c].edit}, [n \in {-1} |-> req[c].edit])

CreateWithBatch(c) ==
  Stage(c) = "createWith" /\ Create(c, 0, {req[c].edit}, [n \in {0} |-> req[c].edit])

-----------------------------------------------------------------------------
(* edit(): exists, get, push.                                              *)

Exists(c) ==
  /\ Stage(c) = "exists"
  /\ Goto(c, [stage |-> IF end = Absent THEN "createWith" ELSE "get", edit |-> req[c].edit])
  /\ Reads

\* The model of the block with the patches of the batch applied.
Get(c) ==
  /\ Stage(c) = "get"
  /\ IF end = Absent THEN Answer(c)
     ELSE Goto(c, [stage |-> "push", edit |-> req[c].edit, seq |-> end[1].seq + 1,
                   blob |-> end[1].blob \cup {req[c].edit}, life |-> life])
  /\ Reads

\* store.push() and, if historyCompactionDecision() says so, a compaction.
PushOf(c, accepted) ==
  LET r == req[c]
  IN  /\ Stage(c) = "push"
      /\ Answer(c)
      /\ IF ~accepted THEN UNCHANGED <<kv, jobs, stored, mixed>>
         ELSE /\ end' = <<Snapshot(r.seq, r.blob)>>
              /\ batches' = [n \in DOMAIN batches \cup {r.seq} |-> IF n = r.seq THEN r.edit ELSE batches[n]]
              /\ stored' = stored \cup {[seq |-> r.seq, edit |-> r.edit]}
              /\ mixed' = (mixed \/ r.life # life)
              /\ \/ UNCHANGED jobs
                 \/ /\ r.seq > HistoryPerBlock
                    /\ jobs' = jobs \cup {[stage |-> "wait", to |-> r.seq - HistoryPerBlock, life |-> life]}
              /\ UNCHANGED start
      /\ UNCHANGED <<trunc, life, edits, removes>>

\* Mutant: the number is not looked at again under the mutex.
PushUnchecked(c) == PushOf(c, end # Absent)

Push(c) == PushOf(c, end # Absent /\ end[1].seq + 1 = req[c].seq)

-----------------------------------------------------------------------------
(* pull(): the number of the block, then the start and the batches, or     *)
(* only batches.                                                           *)

\* seq(): of the last batch, under the mutex.
ReadSeq(c) ==
  LET last == req[c].last
      Read(stage, seq) == Goto(c, [stage |-> stage, last |-> last, seq |-> seq, life |-> life])
  IN  /\ Stage(c) = "seq"
      /\ \/ /\ batches = <<>>
            /\ IF req[c].create THEN Goto(c, [stage |-> "create"]) ELSE Answer(c)
         \/ \E seq \in DOMAIN batches :
              /\ \A n \in DOMAIN batches : n <= seq
              /\ IF last = seq THEN Answer(c)
                 ELSE IF last > seq \/ last = -1 \/ seq - last > PullMax THEN Read("start", seq)
                 ELSE Read("scan", seq)
      /\ Reads

\* getSnapshot(): the start ..
ReadStart(c) ==
  /\ Stage(c) = "start"
  /\ IF start = Absent THEN Answer(c)
     ELSE Goto(c, [stage |-> "batches", last |-> start[1].seq, seq |-> req[c].seq, life |-> req[c].life])
  /\ Reads

\* Mutant: the last batch the client has is sent again.
FoundFromLast(c) == {n \in DOMAIN batches : req[c].last <= n /\ n <= req[c].seq}

\* .. and the batches behind it.
Found(c) == {n \in DOMAIN batches : req[c].last < n /\ n <= req[c].seq}

ReadBatches(c) == Stage(c) = "batches" /\ Answer(c) /\ Reads

\* scan()
Scan(c) == Stage(c) = "scan" /\ Answer(c) /\ Reads

-----------------------------------------------------------------------------
(* remove().                                                               *)

RemoveExists(c) ==
  /\ Stage(c) = "remove"
  /\ IF end = Absent THEN Answer(c) ELSE Goto(c, [stage |-> "clear"])
  /\ Reads

Clear(c) ==
  /\ Stage(c) = "clear"
  /\ Answer(c)
  /\ end' = Absent /\ start' = Absent /\ batches' = <<>>
  /\ stored' = {}
  /\ UNCHANGED <<jobs, trunc, life, mixed, edits, removes>>

-----------------------------------------------------------------------------
(* store.compact().                                                        *)

\* The mutex is had; the start is read.
CompactBegin(j) ==
  /\ j.stage = "wait"
  /\ ~trunc
  /\ IF start = Absent \/ start[1].seq >= j.to
     THEN jobs' = jobs \ {j} /\ UNCHANGED trunc
     ELSE /\ jobs' = (jobs \ {j}) \cup {[stage |-> "read", to |-> j.to, life |-> j.life, start |-> start[1]]}
          /\ trunc' = TRUE
  /\ UNCHANGED <<kv, req, life, stored, mixed, edits, removes>>

\* The batches up to the number given are read and merged into the start.
CompactRead(j) ==
  LET ns == {n \in DOMAIN batches : j.start.seq < n /\ n <= j.to}
  IN  /\ j.stage = "read"
      /\ jobs' = (jobs \ {j}) \cup
           {[stage |-> "write", life |-> j.life, del |-> ns,
             start |-> Snapshot(j.to, j.start.blob \cup {batches[n] : n \in ns})]}
      /\ UNCHANGED <<kv, req, trunc, life, stored, mixed, edits, removes>>

\* Mutant: the merged batches are not deleted.
CompactWriteOnly(j) ==
  /\ j.stage = "write"
  /\ start' = <<j.start>>
  /\ jobs' = jobs \ {j}
  /\ trunc' = FALSE
  /\ UNCHANGED <<end, batches, req, life, stored, mixed, edits, removes>>

CompactWrite(j) ==
  /\ j.stage = "write"
  /\ start' = <<j.start>>
  /\ batches' = Restrict(batches, DOMAIN batches \ j.del)
  /\ jobs' = jobs \ {j}
  /\ trunc' = FALSE
  /\ mixed' = (mixed \/ (end # Absent /\ j.life # life))
  /\ UNCHANGED <<end, req, life, stored, edits, removes>>

\* The server stops and is started again: what was written is there.
Crash ==
  /\ req' = [c \in Client |-> Idle]
  /\ jobs' = {}
  /\ trunc' = FALSE
  /\ UNCHANGED <<kv, life, stored, mixed, edits, removes>>

Request(c) ==
  \/ \E create \in BOOLEAN : BeginEdit(c, create)
  \/ \E last \in -1..MaxEdits, create \in BOOLEAN : BeginPull(c, last, create)
  \/ BeginCreate(c)
  \/ BeginRemove(c)

Handle(c) ==
  \/ CreateEmpty(c) \/ CreateWithBatch(c)
  \/ Exists(c) \/ Get(c) \/ Push(c)
  \/ ReadSeq(c) \/ ReadStart(c) \/ ReadBatches(c) \/ Scan(c)
  \/ RemoveExists(c) \/ Clear(c)

Compact == \E j \in jobs : CompactBegin(j) \/ CompactRead(j) \/ CompactWrite(j)

Next ==
  \/ \E c \in Client : Request(c)
  \/ \E c \in Client : Handle(c)
  \/ Compact
  \/ Crash

Spec == Init /\ [][Next]_vars

-----------------------------------------------------------------------------
(* Properties.                                                             *)

Edit == 1..edits
Number == Nat \cup {-1}
Snap == [seq : Number, blob : SUBSET Edit]

Requests ==
  [stage : {"idle", "create", "remove", "clear"}]
    \cup [stage : {"exists", "get", "createWith"}, edit : Edit]
    \cup [stage : {"push"}, edit : Edit, seq : Nat, blob : SUBSET Edit, life : Nat]
    \cup [stage : {"seq"}, last : Number, create : BOOLEAN]
    \cup [stage : {"start", "batches", "scan"}, last : Number, seq : Nat, life : Nat]

Compactions ==
  [stage : {"wait"}, to : Nat, life : Nat]
    \cup [stage : {"read"}, to : Nat, life : Nat, start : Snap]
    \cup [stage : {"write"}, life : Nat, del : SUBSET Nat, start : Snap]

TypeOK ==
  /\ end # Absent => end = <<end[1]>> /\ end[1] \in Snap
  /\ start # Absent => start = <<start[1]>> /\ start[1] \in Snap
  /\ batches = [n \in DOMAIN batches |-> batches[n]]
  /\ DOMAIN batches \subseteq Nat /\ Range(batches) \subseteq Edit
  /\ req \in [Client -> Requests]
  /\ jobs \subseteq Compactions
  /\ trunc = (\E j \in jobs : j.stage # "wait")
  /\ life \in Nat /\ mixed \in BOOLEAN
  /\ stored \subseteq [seq : Nat, edit : Edit]
  /\ edits \in Nat /\ removes \in Nat

\* What is stored under each number, with the numbers counted from 1, and the edits the
\* block shows.
StoredAs(n) == {s.edit : s \in {x \in stored : x.seq = n}}
Numbers == IF end = Absent THEN <<>> ELSE [n \in 1..(end[1].seq + 1) |-> StoredAs(n - 1)]
Shown == IF end = Absent THEN {} ELSE end[1].blob

Log == INSTANCE BlockLog WITH Edit <- 1..MaxEdits, there <- end # Absent,
                              log <- Numbers, content <- Shown

(* However requests interleave, and over crashes, the block is a log that  *)
(* grows by one batch at a time, and what it shows is what the log amounts *)
(* to: until something begun in one life is written in a later one.        *)
Implements == Log!Init /\ [][Log!Next \/ mixed']_(Log!logVars)

\* The block is there, and nothing begun in an earlier life was written in this one.
Unmixed == end # Absent /\ ~mixed

Upto(n) == {s.edit : s \in {x \in stored : x.seq <= n}}

(* An edit once stored stays in the block and under a number of its own,   *)
(* however many clients edit at once: push() must have been computed from  *)
(* all that is stored.                                                     *)
Kept ==
  Unmixed =>
    /\ end[1].blob = {s.edit : s \in stored}
    /\ {s.seq : s \in stored} = 0..end[1].seq
    /\ Cardinality(stored) = end[1].seq + 1

(* The start of a block and the batches behind it always lead to its end,  *)
(* without a gap or an overlap, while compaction moves the start and       *)
(* pushes move the end under different mutexes, and after a crash.         *)
Leads ==
  Unmixed =>
    /\ start # Absent
    /\ start[1].seq <= end[1].seq
    /\ DOMAIN batches = (start[1].seq + 1)..end[1].seq
    /\ start[1].blob = Upto(start[1].seq)
    /\ \A n \in DOMAIN batches : [seq |-> n, edit |-> batches[n]] \in stored

(* "Snapshot and a list of batches to apply to the snapshot to get to the  *)
(* state at the given sequence number": no batch is missing between the    *)
(* snapshot getSnapshot() answers with and that number, unless the block   *)
(* was removed in the meantime.                                            *)
SnapshotWhole ==
  [][\A c \in Client :
       ReadBatches(c) =>
         \/ ~Unmixed \/ req[c].life # life
         \/ Found(c) = (req[c].last + 1)..req[c].seq]_vars

(* What a pull answers with lacks nothing but batches a compaction merged  *)
(* since: only the beginning can be missing, never the middle or the end,  *)
(* although pushes go on between its reads, and nothing is sent twice.     *)
PullWholeUncut ==
  [][\A c \in Client :
       ReadBatches(c) \/ Scan(c) =>
         \/ ~Unmixed \/ req[c].life # life
         \/ Found(c) = {n \in (req[c].last + 1)..req[c].seq : n > start[1].seq}]_vars
===========================================================================
