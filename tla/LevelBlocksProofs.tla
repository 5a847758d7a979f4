------------------------- MODULE LevelBlocksProofs -------------------------
(***************************************************************************)
(* Proofs about LevelBlocks, for every set of clients, every length of the *)
(* history kept and every bound: the types, Kept, Leads and                *)
(* PullWholeUncut.                                                         *)
(***************************************************************************)
EXTENDS LevelBlocks, FiniteSetTheorems, TLAPS

-----------------------------------------------------------------------------
(* The strengthening.  Kept and Leads are not inductive: a request or a    *)
(* compaction carries what it has read across the steps of others, and     *)
(* what it will write is right only as long as the number it read, or the  *)
(* start it read, is still there.                                          *)

\* What a request holds that was computed in this life of the block: a push that will
\* be accepted has the whole end in its model, a pull has a number that was reached.
FreshRequest(r) ==
  /\ r.stage \in {"push", "start", "batches", "scan"} => r.life <= life
  /\ Unmixed /\ r.stage = "push" /\ r.life = life =>
       /\ r.seq <= end[1].seq + 1
       /\ r.seq = end[1].seq + 1 => r.blob = end[1].blob \cup {r.edit}
  /\ Unmixed /\ r.stage \in {"start", "batches", "scan"} /\ r.life = life =>
       r.seq <= end[1].seq

RequestsFresh == \A c \in Client : FreshRequest(req[c])

\* What a compaction holds that was read in this life of the block.
FreshCompaction(j) ==
  /\ j.life <= life
  /\ Unmixed /\ j.life = life =>
       /\ j.stage \in {"wait", "read"} => j.to <= end[1].seq
       /\ j.stage = "read" => j.start = start[1] /\ j.start.seq < j.to
       /\ j.stage = "write" =>
            /\ start[1].seq <= j.start.seq
            /\ j.start.seq <= end[1].seq
            /\ j.del = (start[1].seq + 1)..j.start.seq
            /\ j.start.blob = Upto(j.start.seq)

CompactionsFresh == \A j \in jobs : FreshCompaction(j)

\* One compaction at a time has the mutex.
OneCompaction == \A i, j \in jobs : i.stage # "wait" /\ j.stage # "wait" => i = j

\* A block that is not there has no batches.
AbsentEmpty == end = Absent => DOMAIN batches = {}

\* A number names one batch.
Numbered ==
  /\ IsFiniteSet(stored)
  /\ Unmixed => \A s, t \in stored : s.seq = t.seq => s = t

IndInv ==
  /\ TypeOK
  /\ Kept
  /\ Leads
  /\ RequestsFresh
  /\ CompactionsFresh
  /\ OneCompaction
  /\ AbsentEmpty
  /\ Numbered

-----------------------------------------------------------------------------
(* The initial state.                                                      *)

LEMMA InitInv == Init => IndInv
<1> SUFFICES ASSUME Init PROVE IndInv
  OBVIOUS
<1> USE DEF Init, Absent, Idle
<1>1. TypeOK
  <2>1. req \in [Client -> Requests]
    BY DEF Requests
  <2>2. batches = [n \in DOMAIN batches |-> batches[n]] /\ DOMAIN batches = {}
    OBVIOUS
  <2>3. DOMAIN batches \subseteq Nat /\ Range(batches) \subseteq Edit
    BY <2>2 DEF Range
  <2>4. trunc = (\E j \in jobs : j.stage # "wait")
    BY Zenon
  <2> QED
    BY <2>1, <2>2, <2>3, <2>4 DEF TypeOK
<1>2. ~Unmixed
  BY DEF Unmixed
<1>3. IsFiniteSet(stored)
  BY FS_EmptySet
<1> QED
  BY <1>1, <1>2, <1>3
  DEF IndInv, Kept, Leads, RequestsFresh, FreshRequest, CompactionsFresh, OneCompaction,
      AbsentEmpty, Numbered

-----------------------------------------------------------------------------
(* Steps that only change requests.                                        *)

\* A step that gives a client a well-formed request, and changes nothing else
\* the invariant is about, preserves the invariant.
LEMMA RequestStep ==
  ASSUME IndInv, NEW c \in Client, NEW r, Goto(c, r),
         UNCHANGED <<kv, jobs, trunc, life, stored, mixed>>,
         edits' \in Nat, edits <= edits', removes' \in Nat,
         r \in Requests', FreshRequest(r)
  PROVE  IndInv'
<1> USE DEF kv
<1>1. TypeOK'
  <2>1. Edit \subseteq Edit' /\ Snap \subseteq Snap' /\ Requests \subseteq Requests'
        /\ Compactions \subseteq Compactions'
    BY DEF IndInv, TypeOK, Edit, Snap, Requests, Compactions
  <2>2. req' \in [Client -> Requests']
    BY <2>1 DEF IndInv, TypeOK, Goto
  <2> QED
    BY <2>1, <2>2 DEF IndInv, TypeOK, Range, Absent
<1>2. Unmixed' = Unmixed /\ \A n : Upto(n)' = Upto(n)
  BY DEF Unmixed, Upto, Absent
<1>3. Kept' /\ Leads'
  BY <1>2 DEF IndInv, Kept, Leads, Absent
<1>4. RequestsFresh'
  <2> SUFFICES ASSUME NEW d \in Client PROVE FreshRequest(req[d])'
    BY DEF RequestsFresh
  <2>1. req'[d] = IF d = c THEN r ELSE req[d]
    BY DEF IndInv, TypeOK, Goto
  <2> QED
    BY <1>2, <2>1 DEF IndInv, RequestsFresh, FreshRequest
<1>5. CompactionsFresh'
  BY <1>2 DEF IndInv, CompactionsFresh, FreshCompaction
<1>6. OneCompaction' /\ AbsentEmpty' /\ Numbered'
  BY <1>2 DEF IndInv, OneCompaction, AbsentEmpty, Numbered, Absent
<1> QED
  BY <1>1, <1>3, <1>4, <1>5, <1>6 DEF IndInv

\* The requests of which only the kind, and the edit they bring, matters.
LEMMA PlainRequest ==
  ASSUME NEW r, \/ r \in [stage : {"idle", "create", "remove", "clear"}]
                \/ r \in [stage : {"exists", "get", "createWith"}, edit : Edit]
                \/ r \in [stage : {"seq"}, last : Number, create : BOOLEAN]
  PROVE  r \in Requests /\ FreshRequest(r)
BY DEF Requests, FreshRequest

LEMMA BeginInv ==
  ASSUME IndInv, NEW c \in Client, Request(c)
  PROVE  IndInv'
<1> USE DEF kv
<1>0. edits \in Nat /\ removes \in Nat
  BY DEF IndInv, TypeOK
<1>1. ASSUME NEW create \in BOOLEAN, BeginEdit(c, create) PROVE IndInv'
  <2> DEFINE r == [stage |-> IF create THEN "exists" ELSE "get", edit |-> edits + 1]
  <2>1. edits' = edits + 1 /\ Goto(c, r)
        /\ UNCHANGED <<kv, jobs, trunc, life, stored, mixed, removes>>
    BY <1>1 DEF BeginEdit
  <2>2. r \in [stage : {"exists", "get", "createWith"}, edit : Edit']
    BY <1>0, <2>1 DEF Edit
  <2>3. r \in Requests'
    BY <2>2 DEF Requests
  <2>4. FreshRequest(r)
    BY DEF FreshRequest
  <2> HIDE DEF r
  <2> QED
    BY <1>0, <2>1, <2>3, <2>4, RequestStep
<1>2. ASSUME NEW last \in -1..MaxEdits, NEW create \in BOOLEAN, BeginPull(c, last, create)
      PROVE IndInv'
  <2> DEFINE r == [stage |-> "seq", last |-> last, create |-> create]
  <2>1. Goto(c, r) /\ UNCHANGED <<kv, jobs, trunc, life, stored, mixed, edits, removes>>
    BY <1>2 DEF BeginPull, Reads
  <2>2. r \in [stage : {"seq"}, last : Number, create : BOOLEAN]
    BY BoundsAssumption DEF Number
  <2>3. r \in Requests /\ FreshRequest(r)
    BY <2>2, PlainRequest
  <2>4. r \in Requests'
    BY <2>2 DEF Requests
  <2> HIDE DEF r
  <2> QED
    BY <1>0, <2>1, <2>3, <2>4, RequestStep
<1>3. CASE BeginCreate(c)
  <2> DEFINE r == [stage |-> "create"]
  <2>1. Goto(c, r) /\ UNCHANGED <<kv, jobs, trunc, life, stored, mixed, edits, removes>>
    BY <1>3 DEF BeginCreate, Reads
  <2>2. r \in Requests' /\ FreshRequest(r)
    BY DEF Requests, FreshRequest
  <2> HIDE DEF r
  <2> QED
    BY <1>0, <2>1, <2>2, RequestStep
<1>4. CASE BeginRemove(c)
  <2> DEFINE r == [stage |-> "remove"]
  <2>1. Goto(c, r) /\ removes' = removes + 1
        /\ UNCHANGED <<kv, jobs, trunc, life, stored, mixed, edits>>
    BY <1>4 DEF BeginRemove
  <2>2. r \in Requests' /\ FreshRequest(r)
    BY DEF Requests, FreshRequest
  <2> HIDE DEF r
  <2> QED
    BY <1>0, <2>1, <2>2, RequestStep
<1> QED
  BY <1>1, <1>2, <1>3, <1>4 DEF Request

\* The steps of a request that only read.
LEMMA ReadStep ==
  ASSUME IndInv, NEW c \in Client, Reads, NEW r, Goto(c, r), r \in Requests, FreshRequest(r)
  PROVE  IndInv'
<1>1. UNCHANGED <<kv, jobs, trunc, life, stored, mixed, edits, removes>>
  BY DEF Reads
<1>2. r \in Requests' /\ edits \in Nat /\ removes \in Nat
  BY <1>1 DEF Requests, Edit, IndInv, TypeOK
<1> QED
  BY <1>1, <1>2, RequestStep

LEMMA AnswerStep ==
  ASSUME IndInv, NEW c \in Client, Reads, Answer(c)
  PROVE  IndInv'
<1>1. Idle \in Requests /\ FreshRequest(Idle)
  BY DEF Idle, Requests, FreshRequest
<1> QED
  BY <1>1, ReadStep DEF Answer

\* What the stage of a request says of its fields.
LEMMA RequestFields ==
  ASSUME TypeOK, NEW c \in Client
  PROVE  /\ Stage(c) \in {"exists", "get", "createWith"} => req[c].edit \in Edit
         /\ Stage(c) = "push" => /\ req[c].edit \in Edit
                                 /\ req[c].seq \in Nat
                                 /\ req[c].blob \in SUBSET Edit
                                 /\ req[c].life \in Nat
         /\ Stage(c) = "seq" => req[c].last \in Number
         /\ Stage(c) \in {"start", "batches", "scan"} =>
              req[c].last \in Number /\ req[c].seq \in Nat /\ req[c].life \in Nat
<1>1. req[c] \in Requests
  BY DEF TypeOK
<1> QED
  BY <1>1 DEF Requests, Stage

LEMMA EditReadsInv ==
  ASSUME IndInv, NEW c \in Client, Exists(c) \/ Get(c)
  PROVE  IndInv'
<1> USE RequestFields DEF IndInv
<1>1. CASE Exists(c)
  <2> DEFINE r == [stage |-> IF end = Absent THEN "createWith" ELSE "get", edit |-> req[c].edit]
  <2>1. Goto(c, r) /\ Reads /\ Stage(c) = "exists"
    BY <1>1 DEF Exists
  <2>2. r \in [stage : {"exists", "get", "createWith"}, edit : Edit]
    BY <2>1
  <2>3. r \in Requests /\ FreshRequest(r)
    BY <2>2, PlainRequest
  <2> HIDE DEF r
  <2> QED
    BY <2>1, <2>3, ReadStep
<1>2. CASE Get(c) /\ end = Absent
  BY <1>2, AnswerStep DEF Get
<1>3. CASE Get(c) /\ end # Absent
  <2> DEFINE r == [stage |-> "push", edit |-> req[c].edit, seq |-> end[1].seq + 1,
                   blob |-> end[1].blob \cup {req[c].edit}, life |-> life]
  <2>1. Goto(c, r) /\ Reads /\ Stage(c) = "get"
    BY <1>3 DEF Get
  <2>2. req[c].edit \in Edit /\ end[1].seq \in Number /\ end[1].blob \in SUBSET Edit /\ life \in Nat
    BY <1>3, <2>1 DEF TypeOK, Snap
  <2>3. r \in [stage : {"push"}, edit : Edit, seq : Nat, blob : SUBSET Edit, life : Nat]
    BY <2>2 DEF Number
  <2>4. r \in Requests
    BY <2>3 DEF Requests
  <2>5. FreshRequest(r)
    BY <2>2 DEF FreshRequest, Number
  <2> HIDE DEF r
  <2> QED
    BY <2>1, <2>4, <2>5, ReadStep
<1> QED
  BY <1>1, <1>2, <1>3

\* A pull has a number the block has reached; which batches are there is not looked at.
LEMMA PullInv ==
  ASSUME IndInv, NEW c \in Client, ReadSeq(c) \/ ReadStart(c) \/ ReadBatches(c) \/ Scan(c)
  PROVE  IndInv'
<1> USE RequestFields DEF IndInv
<1>1. CASE ReadBatches(c) \/ Scan(c)
  BY <1>1, AnswerStep DEF ReadBatches, Scan
<1>2. CASE ReadStart(c)
  <2> DEFINE r == [stage |-> "batches", last |-> start[1].seq, seq |-> req[c].seq, life |-> req[c].life]
  <2>1. CASE start = Absent
    BY <1>2, <2>1, AnswerStep DEF ReadStart
  <2>2. CASE start # Absent
    <3>1. Goto(c, r) /\ Reads /\ Stage(c) = "start"
      BY <1>2, <2>2 DEF ReadStart
    <3>2. r \in [stage : {"start", "batches", "scan"}, last : Number, seq : Nat, life : Nat]
      BY <2>2, <3>1 DEF TypeOK, Snap
    <3>3. r \in Requests
      BY <3>2 DEF Requests
    <3>4. FreshRequest(r)
      BY <3>1 DEF FreshRequest, RequestsFresh, Stage
    <3> HIDE DEF r
    <3> QED
      BY <3>1, <3>3, <3>4, ReadStep
  <2> QED
    BY <2>1, <2>2
<1>3. CASE ReadSeq(c)
  <2> DEFINE r(stage, seq) == [stage |-> stage, last |-> req[c].last, seq |-> seq, life |-> life]
  <2>1. CASE Answer(c)
    BY <1>3, <2>1, AnswerStep DEF ReadSeq
  <2>2. CASE Goto(c, [stage |-> "create"])
    <3>1. [stage |-> "create"] \in [stage : {"idle", "create", "remove", "clear"}]
      OBVIOUS
    <3> QED
      BY <1>3, <2>2, <3>1, ReadStep, PlainRequest DEF ReadSeq
  <2>3. ASSUME NEW stage \in {"start", "scan"}, NEW seq \in DOMAIN batches, Goto(c, r(stage, seq))
        PROVE  IndInv'
    <3>1. Reads /\ Stage(c) = "seq"
      BY <1>3 DEF ReadSeq
    <3>2. seq \in Nat /\ life \in Nat /\ req[c].last \in Number
      BY <3>1 DEF TypeOK
    <3>3. r(stage, seq) \in [stage : {"start", "batches", "scan"}, last : Number, seq : Nat, life : Nat]
      BY <3>2
    <3>4. r(stage, seq) \in Requests
      BY <3>3 DEF Requests
    <3>5. Unmixed => seq <= end[1].seq
      <4>1. Unmixed => start[1].seq \in Int /\ end[1].seq \in Int
        BY DEF Unmixed, Leads, TypeOK, Snap, Number
      <4> QED
        BY <4>1 DEF Leads
    <3>6. FreshRequest(r(stage, seq))
      BY <3>2, <3>5 DEF FreshRequest
    <3> HIDE DEF r
    <3> QED
      BY <3>1, <3>4, <3>6, <2>3, ReadStep
  <2> QED
    BY <1>3, <2>1, <2>2, <2>3 DEF ReadSeq
<1> QED
  BY <1>1, <1>2, <1>3

-----------------------------------------------------------------------------
(* Steps that write.                                                       *)

\* Whoever has been answered holds nothing.
LEMMA Answered ==
  ASSUME IndInv, NEW c \in Client, Answer(c), edits' = edits
  PROVE  /\ req' \in [Client -> Requests']
         /\ \A d \in Client : req'[d] = IF d = c THEN Idle ELSE req[d]
<1>1. Idle \in Requests /\ Requests' = Requests
  BY DEF Idle, Requests, Edit
<1> QED
  BY <1>1 DEF Answer, Goto, IndInv, TypeOK

\* A new life of the block: nobody holds anything of it yet.
LEMMA CreateInv ==
  ASSUME IndInv, NEW c \in Client, NEW seq \in {-1, 0}, NEW blob, NEW entries,
         Create(c, seq, blob, entries),
         DOMAIN entries = 0..seq,
         \A n \in 0..seq : entries[n] \in Edit,
         blob = {entries[n] : n \in 0..seq}
  PROVE  IndInv'
<1> USE DEF kv
<1>1. CASE end # Absent
  BY <1>1, AnswerStep DEF Create, Reads
<1>2. CASE end = Absent
  <2>1. /\ start' = <<Snapshot(-1, {})>>
        /\ end' = <<Snapshot(seq, blob)>>
        /\ life' = life + 1
        /\ stored' = {[seq |-> n, edit |-> entries[n]] : n \in 0..seq}
        /\ UNCHANGED <<jobs, trunc, mixed, edits, removes>>
    BY <1>2 DEF Create
  <2>2. batches' = [n \in 0..seq |-> entries[n]]
    BY <1>2 DEF Create, IndInv, AbsentEmpty
  <2>3. Edit' = Edit /\ Snap' = Snap /\ Compactions' = Compactions
    BY <2>1 DEF Edit, Snap, Compactions
  <2>4. /\ end'[1].seq = seq /\ end'[1].blob = blob
        /\ start'[1].seq = -1 /\ start'[1].blob = {}
        /\ end' # <<>> /\ start' # <<>>
    BY <2>1 DEF Snapshot
  <2>5. TypeOK'
    <3>1. Snapshot(-1, {}) \in Snap /\ Snapshot(seq, blob) \in Snap
      BY DEF Snapshot, Snap, Number
    <3>2. DOMAIN batches' \subseteq Nat /\ Range(batches') \subseteq Edit
      BY <2>2 DEF Range
    <3>3. stored' \subseteq [seq : Nat, edit : Edit]
      BY <2>1
    <3>4. req' \in [Client -> Requests']
      BY <2>1, Answered DEF Create
    <3>5. trunc' = (\E j \in jobs' : j.stage # "wait") /\ mixed' \in BOOLEAN
      BY <2>1, Zenon DEF IndInv, TypeOK
    <3>6. /\ end' # Absent' => end' = <<end'[1]>> /\ end'[1] \in Snap'
          /\ start' # Absent' => start' = <<start'[1]>> /\ start'[1] \in Snap'
      BY <2>1, <2>3, <3>1
    <3>7. batches' = [n \in DOMAIN batches' |-> batches'[n]]
      BY <2>2
    <3>8. jobs' \subseteq Compactions' /\ life' \in Nat /\ edits' \in Nat /\ removes' \in Nat
      BY <2>1, <2>3 DEF IndInv, TypeOK
    <3> QED
      BY <2>3, <3>2, <3>3, <3>4, <3>5, <3>6, <3>7, <3>8 DEF TypeOK
  <2>6. IsFiniteSet(stored') /\ Cardinality(stored') = seq + 1
    <3>1. CASE seq = -1
      <4>1. stored' = {}
        BY <2>1, <3>1
      <4>2. IsFiniteSet(stored') /\ Cardinality(stored') = 0
        BY <4>1, FS_EmptySet, Zenon
      <4> QED
        BY <3>1, <4>2
    <3>2. CASE seq = 0
      <4>1. stored' = {[seq |-> 0, edit |-> entries[0]]}
        BY <2>1, <3>2
      <4>2. IsFiniteSet(stored') /\ Cardinality(stored') = 1
        BY <4>1, FS_Singleton, Zenon
      <4> QED
        BY <3>2, <4>2
    <3> QED
      BY <3>1, <3>2
  <2>7. Kept'
    <3>0. \A n \in 0..seq : LET s == [seq |-> n, edit |-> entries[n]]
                           IN  s \in stored' /\ s.seq = n /\ s.edit = entries[n]
      BY <2>1
    <3>1. \A s \in stored' : s.seq \in 0..seq /\ s.edit \in blob
      BY <2>1
    <3>2. {s.seq : s \in stored'} = 0..seq
      BY <3>0, <3>1
    <3>3. {s.edit : s \in stored'} = blob
      BY <3>0, <3>1
    <3> QED
      BY <2>4, <2>6, <3>2, <3>3 DEF Kept
  <2>8. Leads'
    <3>1. {s.edit : s \in {x \in stored' : x.seq <= -1}} = {}
      BY <2>1
    <3> QED
      BY <2>1, <2>2, <2>4, <3>1 DEF Leads, Upto, Absent
  <2>9. RequestsFresh'
    <3> SUFFICES ASSUME NEW d \in Client PROVE FreshRequest(req[d])'
      BY DEF RequestsFresh
    <3>1. req'[d] = Idle \/ req'[d] = req[d]
      BY <2>1, Answered DEF Create
    <3>2. req[d].stage \in {"push", "start", "batches", "scan"} => req[d].life < life'
      BY <2>1, RequestFields DEF IndInv, TypeOK, RequestsFresh, FreshRequest, Stage
    <3> QED
      BY <3>1, <3>2, <2>1, RequestFields DEF FreshRequest, Idle, IndInv, TypeOK, Stage
  <2>10. CompactionsFresh'
    <3> SUFFICES ASSUME NEW j \in jobs PROVE FreshCompaction(j)'
      BY <2>1 DEF CompactionsFresh
    <3>1. j.life \in Nat /\ life \in Nat
      BY DEF IndInv, TypeOK, Compactions
    <3> QED
      BY <2>1, <3>1 DEF FreshCompaction, IndInv, CompactionsFresh
  <2>11. OneCompaction' /\ AbsentEmpty' /\ Numbered'
    BY <2>1, <2>4, <2>6 DEF IndInv, OneCompaction, AbsentEmpty, Absent, Numbered
  <2> QED
    BY <2>5, <2>7, <2>8, <2>9, <2>10, <2>11 DEF IndInv
<1> QED
  BY <1>1, <1>2

LEMMA CreatesInv ==
  ASSUME IndInv, NEW c \in Client, CreateEmpty(c) \/ CreateWithBatch(c)
  PROVE  IndInv'
<1>1. CASE CreateEmpty(c)
  <2>1. DOMAIN <<>> = 0..(-1) /\ {} = {<<>>[n] : n \in 0..(-1)}
    OBVIOUS
  <2> QED
    BY <1>1, <2>1, CreateInv DEF CreateEmpty
<1>2. CASE CreateWithBatch(c)
  <2> DEFINE entries == [n \in {0} |-> req[c].edit]
  <2>1. Create(c, 0, {req[c].edit}, entries) /\ req[c].edit \in Edit
    BY <1>2, RequestFields DEF CreateWithBatch, IndInv
  <2>2. 0..0 = {0}
    OBVIOUS
  <2>3. DOMAIN entries = 0..0 /\ {req[c].edit} = {entries[n] : n \in 0..0}
        /\ \A n \in 0..0 : entries[n] \in Edit
    BY <2>1, <2>2
  <2> HIDE DEF entries
  <2> QED
    BY <2>1, <2>3, CreateInv
<1> QED
  BY <1>1, <1>2

\* A push that is accepted was computed from the end that is there, or mixes lives.
LEMMA PushInv ==
  ASSUME IndInv, NEW c \in Client, Push(c)
  PROVE  IndInv'
<1> USE DEF kv
<1> DEFINE r == req[c]
           accepted == end # Absent /\ end[1].seq + 1 = r.seq
<1>1. CASE ~accepted
  BY <1>1, AnswerStep DEF Push, PushOf, Reads
<1>2. CASE accepted
  <2>1. /\ Stage(c) = "push" /\ Answer(c)
        /\ end' = <<Snapshot(r.seq, r.blob)>>
        /\ batches' = [n \in DOMAIN batches \cup {r.seq} |-> IF n = r.seq THEN r.edit ELSE batches[n]]
        /\ stored' = stored \cup {[seq |-> r.seq, edit |-> r.edit]}
        /\ mixed' = (mixed \/ r.life # life)
        /\ UNCHANGED <<start, trunc, life, edits, removes>>
    BY <1>2 DEF Push, PushOf
  <2>2. \/ jobs' = jobs
        \/ /\ r.seq > HistoryPerBlock
           /\ jobs' = jobs \cup {[stage |-> "wait", to |-> r.seq - HistoryPerBlock, life |-> life]}
    BY <1>2 DEF Push, PushOf
  <2>3. r.edit \in Edit /\ r.seq \in Nat /\ r.blob \in SUBSET Edit /\ r.life \in Nat /\ life \in Nat
    BY <2>1, RequestFields DEF IndInv, TypeOK
  <2>4. end # Absent /\ end[1].seq \in Number /\ end[1].seq + 1 = r.seq
    BY <1>2 DEF IndInv, TypeOK, Snap
  <2>5. end'[1].seq = r.seq /\ end'[1].blob = r.blob /\ end' # Absent /\ end' # <<>>
    BY <2>1 DEF Snapshot, Absent
  <2>6. Edit' = Edit /\ Snap' = Snap /\ Compactions' = Compactions
    BY <2>1 DEF Edit, Snap, Compactions
  <2>7. ASSUME Unmixed'
        PROVE  Unmixed /\ r.life = life /\ r.blob = end[1].blob \cup {r.edit}
    <3>1. Unmixed /\ r.life = life
      BY <2>1, <2>4, <2>7 DEF Unmixed
    <3> QED
      BY <2>1, <2>4, <3>1 DEF IndInv, RequestsFresh, FreshRequest, Stage
  <2>8. ASSUME NEW j \in jobs' \ jobs
        PROVE  j = [stage |-> "wait", to |-> r.seq - HistoryPerBlock, life |-> life]
               /\ r.seq - HistoryPerBlock \in Nat /\ r.seq - HistoryPerBlock <= r.seq
    BY <2>2, <2>3, <2>8, HistoryAssumption
  <2> HIDE DEF r, accepted
  <2>10. TypeOK'
    <3>1. Snapshot(r.seq, r.blob) \in Snap
      BY <2>3 DEF Snapshot, Snap, Number
    <3>2. DOMAIN batches' = DOMAIN batches \cup {r.seq}
      BY <2>1
    <3>3. DOMAIN batches' \subseteq Nat /\ Range(batches') \subseteq Edit
      <4>1. \A n \in DOMAIN batches : batches[n] \in Edit /\ n \in Nat
        BY DEF IndInv, TypeOK, Range
      <4> QED
        BY <2>1, <2>3, <3>2, <4>1 DEF Range
    <3>4. stored' \subseteq [seq : Nat, edit : Edit]
      BY <2>1, <2>3 DEF IndInv, TypeOK
    <3>5. req' \in [Client -> Requests']
      BY <2>1, Answered
    <3>6. trunc' = (\E j \in jobs' : j.stage # "wait")
      <4>1. trunc = (\E j \in jobs : j.stage # "wait")
        BY DEF IndInv, TypeOK
      <4>2. (\E j \in jobs' : j.stage # "wait") <=> (\E j \in jobs : j.stage # "wait")
        <5>1. jobs \subseteq jobs'
          BY <2>2
        <5> QED
          BY <2>8, <5>1
      <4>3. trunc' = trunc
        BY <2>1
      <4> QED
        BY <4>1, <4>2, <4>3, Zenon
    <3>7. mixed' \in BOOLEAN
      BY <2>1, Zenon
    <3>8. /\ end' # Absent' => end' = <<end'[1]>> /\ end'[1] \in Snap'
          /\ start' # Absent' => start' = <<start'[1]>> /\ start'[1] \in Snap'
      BY <2>1, <2>6, <3>1 DEF IndInv, TypeOK, Absent
    <3>9. batches' = [n \in DOMAIN batches' |-> batches'[n]]
      BY <2>1
    <3>10. jobs' \subseteq Compactions'
      <4>1. \A j \in jobs' \ jobs : j \in Compactions
        BY <2>3, <2>8 DEF Compactions
      <4> QED
        BY <2>6, <4>1 DEF IndInv, TypeOK
    <3>11. life' \in Nat /\ edits' \in Nat /\ removes' \in Nat
      BY <2>1 DEF IndInv, TypeOK
    <3> QED
      BY <2>6, <3>3, <3>4, <3>5, <3>6, <3>7, <3>8, <3>9, <3>10, <3>11 DEF TypeOK
  <2>11. IsFiniteSet(stored')
    BY <2>1, FS_AddElement DEF IndInv, Numbered
  <2>12. ASSUME Unmixed' PROVE \A s \in stored : s.seq < r.seq /\ s.seq \in Nat
    <3>1. \A s \in stored : s.seq \in 0..end[1].seq
      BY <2>7, <2>12 DEF IndInv, Kept
    <3> QED
      BY <2>3, <2>4, <3>1 DEF Number
  <2>13. Kept'
    <3> SUFFICES ASSUME Unmixed' PROVE /\ end'[1].blob = {s.edit : s \in stored'}
                                       /\ {s.seq : s \in stored'} = 0..end'[1].seq
                                       /\ Cardinality(stored') = end'[1].seq + 1
      BY DEF Kept
    <3> DEFINE new == [seq |-> r.seq, edit |-> r.edit]
    <3>1. /\ end[1].blob = {s.edit : s \in stored}
          /\ {s.seq : s \in stored} = 0..end[1].seq
          /\ Cardinality(stored) = end[1].seq + 1
      BY <2>7 DEF IndInv, Kept
    <3>2. stored' = stored \cup {new} /\ new.seq = r.seq /\ new.edit = r.edit
      BY <2>1
    <3>3. new \notin stored
      BY <2>3, <2>12, <3>2
    <3> HIDE DEF new
    <3>4. {s.edit : s \in stored'} = {s.edit : s \in stored} \cup {r.edit}
      BY <3>2
    <3>5. {s.seq : s \in stored'} = (0..end[1].seq) \cup {r.seq}
      BY <3>1, <3>2
    <3>6. (0..end[1].seq) \cup {r.seq} = 0..r.seq
      BY <2>3, <2>4 DEF Number
    <3>7. Cardinality(stored') = Cardinality(stored) + 1
      BY <3>2, <3>3, FS_AddElement DEF IndInv, Numbered
    <3> QED
      BY <2>4, <2>5, <2>7, <3>1, <3>4, <3>5, <3>6, <3>7
  <2>14. ASSUME Unmixed', NEW n \in Int, n < r.seq PROVE Upto(n)' = Upto(n)
    <3>1. [seq |-> r.seq, edit |-> r.edit].seq = r.seq
      OBVIOUS
    <3>2. {x \in stored' : x.seq <= n} = {x \in stored : x.seq <= n}
      BY <2>1, <2>3, <2>14, <3>1
    <3> QED
      BY <3>2 DEF Upto
  <2>15. Leads'
    <3> SUFFICES ASSUME Unmixed'
                 PROVE  /\ start # Absent
                        /\ start[1].seq <= r.seq
                        /\ DOMAIN batches' = (start[1].seq + 1)..r.seq
                        /\ start[1].blob = Upto(start[1].seq)'
                        /\ \A n \in DOMAIN batches' : [seq |-> n, edit |-> batches'[n]] \in stored'
      BY <2>1, <2>5 DEF Leads, Absent
    <3>1. /\ start # Absent
          /\ start[1].seq <= end[1].seq
          /\ DOMAIN batches = (start[1].seq + 1)..end[1].seq
          /\ start[1].blob = Upto(start[1].seq)
          /\ \A n \in DOMAIN batches : [seq |-> n, edit |-> batches[n]] \in stored
      BY <2>7 DEF IndInv, Leads
    <3>2. start[1].seq \in Int
      BY <3>1 DEF IndInv, TypeOK, Snap, Number
    <3>3. start[1].seq < r.seq
      BY <2>3, <2>4, <3>1, <3>2 DEF Number
    <3>4. DOMAIN batches' = (start[1].seq + 1)..r.seq
      BY <2>1, <2>3, <2>4, <3>1, <3>2, <3>3 DEF Number
    <3>5. start[1].blob = Upto(start[1].seq)'
      BY <2>1, <2>14, <3>1, <3>2, <3>3
    <3>6. \A n \in DOMAIN batches' : [seq |-> n, edit |-> batches'[n]] \in stored'
      BY <2>1, <3>1
    <3> QED
      BY <3>1, <3>3, <3>2, <2>3, <3>4, <3>5, <3>6
  <2>16. RequestsFresh'
    <3> SUFFICES ASSUME NEW d \in Client PROVE FreshRequest(req[d])'
      BY DEF RequestsFresh
    <3>1. CASE req'[d] = Idle
      BY <3>1 DEF FreshRequest, Idle
    <3>2. CASE req'[d] = req[d]
      <4>1. req[d].stage \in {"push", "start", "batches", "scan"} => req[d].seq \in Nat
        BY RequestFields DEF IndInv, Stage
      <4>2. FreshRequest(req[d])
        BY DEF IndInv, RequestsFresh
      <4> QED
        BY <2>1, <2>3, <2>4, <2>5, <2>7, <3>2, <4>1, <4>2 DEF FreshRequest, Number
    <3> QED
      BY <2>1, <3>1, <3>2, Answered
  <2>17. CompactionsFresh'
    <3> SUFFICES ASSUME NEW j \in jobs' PROVE FreshCompaction(j)'
      BY DEF CompactionsFresh
    <3>1. CASE j \notin jobs
      BY <2>1, <2>3, <2>5, <2>8, <3>1 DEF FreshCompaction
    <3>2. CASE j \in jobs
      <4>1. FreshCompaction(j) /\ j \in Compactions
        BY <3>2 DEF IndInv, CompactionsFresh, TypeOK
      <4>2. j.stage \in {"wait", "read"} => j.to \in Nat
        BY <4>1 DEF Compactions
      <4>3. j.stage \in {"read", "write"} => j.start.seq \in Int
        BY <4>1 DEF Compactions, Snap, Number
      <4>4. CASE Unmixed' /\ j.life = life
        <5>1. Unmixed /\ end[1].seq < r.seq /\ end[1].seq \in Int
          BY <2>3, <2>4, <2>7, <4>4 DEF Number
        <5>2. j.stage = "write" => j.start.seq < r.seq
          BY <2>3, <4>1, <4>3, <4>4, <5>1 DEF FreshCompaction
        <5>3. j.stage = "write" => Upto(j.start.seq)' = Upto(j.start.seq)
          BY <2>14, <4>3, <4>4, <5>2
        <5> QED
          BY <2>1, <2>3, <2>5, <4>1, <4>2, <4>3, <4>4, <5>1, <5>2, <5>3 DEF FreshCompaction
      <4> QED
        BY <2>1, <4>1, <4>4 DEF FreshCompaction
    <3> QED
      BY <3>1, <3>2
  <2>18. OneCompaction'
    <3>1. \A j \in jobs' : j.stage # "wait" => j \in jobs
      BY <2>8
    <3> QED
      BY <3>1 DEF IndInv, OneCompaction
  <2>19. AbsentEmpty'
    BY <2>5 DEF AbsentEmpty, Absent
  <2>20. Numbered'
    <3> SUFFICES ASSUME Unmixed' PROVE \A s, t \in stored' : s.seq = t.seq => s = t
      BY <2>11 DEF Numbered
    <3>1. \A s, t \in stored : s.seq = t.seq => s = t
      BY <2>7 DEF IndInv, Numbered
    <3>2. [seq |-> r.seq, edit |-> r.edit].seq = r.seq
      OBVIOUS
    <3> QED
      BY <2>1, <2>3, <2>12, <3>1, <3>2
  <2> QED
    BY <2>10, <2>13, <2>15, <2>16, <2>17, <2>18, <2>19, <2>20 DEF IndInv
<1> QED
  BY <1>1, <1>2

\* A removed block leaves nothing but what requests and compactions hold.
LEMMA RemoveInv ==
  ASSUME IndInv, NEW c \in Client, RemoveExists(c) \/ Clear(c)
  PROVE  IndInv'
<1> USE DEF kv
<1>1. CASE RemoveExists(c)
  <2>1. CASE Answer(c)
    BY <1>1, <2>1, AnswerStep DEF RemoveExists
  <2>2. CASE Goto(c, [stage |-> "clear"])
    <3>1. [stage |-> "clear"] \in [stage : {"idle", "create", "remove", "clear"}]
      OBVIOUS
    <3> QED
      BY <1>1, <2>2, <3>1, PlainRequest, ReadStep DEF RemoveExists
  <2> QED
    BY <1>1, <2>1, <2>2 DEF RemoveExists
<1>2. CASE Clear(c)
  <2>1. /\ Answer(c) /\ end' = <<>> /\ start' = <<>> /\ batches' = <<>> /\ stored' = {}
        /\ UNCHANGED <<jobs, trunc, life, mixed, edits, removes>>
    BY <1>2 DEF Clear, Absent
  <2>2. Edit' = Edit /\ Snap' = Snap /\ Compactions' = Compactions
    BY <2>1 DEF Edit, Snap, Compactions
  <2>3. ~Unmixed'
    BY <2>1 DEF Unmixed, Absent
  <2>4. TypeOK'
    <3>1. batches' = [n \in DOMAIN batches' |-> batches'[n]] /\ DOMAIN batches' = {}
      BY <2>1
    <3>2. DOMAIN batches' \subseteq Nat /\ Range(batches') \subseteq Edit'
      BY <3>1 DEF Range
    <3>3. req' \in [Client -> Requests']
      BY <2>1, Answered
    <3>4. trunc' = (\E j \in jobs' : j.stage # "wait") /\ mixed' \in BOOLEAN
      BY <2>1, Zenon DEF IndInv, TypeOK
    <3>5. jobs' \subseteq Compactions' /\ life' \in Nat /\ edits' \in Nat /\ removes' \in Nat
      BY <2>1, <2>2 DEF IndInv, TypeOK
    <3> QED
      BY <2>1, <3>1, <3>2, <3>3, <3>4, <3>5 DEF TypeOK, Absent
  <2>5. RequestsFresh'
    BY <2>1, <2>3, Answered DEF RequestsFresh, FreshRequest, Idle, IndInv
  <2>6. CompactionsFresh'
    BY <2>1, <2>3 DEF CompactionsFresh, FreshCompaction, IndInv
  <2>7. OneCompaction' /\ AbsentEmpty' /\ Numbered'
    <3>1. IsFiniteSet(stored')
      BY <2>1, FS_EmptySet
    <3> QED
      BY <2>1, <2>3, <3>1 DEF IndInv, OneCompaction, AbsentEmpty, Numbered
  <2> QED
    BY <2>3, <2>4, <2>5, <2>6, <2>7 DEF IndInv, Kept, Leads
<1> QED
  BY <1>1, <1>2

\* A compaction takes its next step: j becomes new, or is done (no new one).
LEMMA CompactionStep ==
  ASSUME IndInv, NEW j \in jobs, NEW news \in SUBSET {n \in Compactions : FreshCompaction(n)},
         \A m, n \in news : m = n,
         jobs' = (jobs \ {j}) \cup news,
         trunc' = (\E n \in jobs' : n.stage # "wait"),
         OneCompaction',
         UNCHANGED <<kv, req, life, stored, mixed, edits, removes>>
  PROVE  IndInv'
<1> USE DEF kv
<1>1. Edit' = Edit /\ Snap' = Snap /\ Compactions' = Compactions /\ Requests' = Requests
  BY DEF Edit, Snap, Compactions, Requests
<1>2. Unmixed' = Unmixed /\ \A n : Upto(n)' = Upto(n)
  BY DEF Unmixed, Upto, Absent
<1>3. TypeOK'
  <2>1. trunc' = (\E n \in jobs' : n.stage # "wait") /\ mixed' \in BOOLEAN
    BY Zenon DEF IndInv, TypeOK
  <2>2. jobs' \subseteq Compactions'
    BY <1>1 DEF IndInv, TypeOK
  <2> QED
    BY <1>1, <2>1, <2>2 DEF IndInv, TypeOK, Range, Absent
<1>4. Kept' /\ Leads'
  BY <1>2 DEF IndInv, Kept, Leads, Absent
<1>5. RequestsFresh'
  BY <1>2 DEF IndInv, RequestsFresh, FreshRequest
<1>6. CompactionsFresh'
  BY <1>2 DEF IndInv, CompactionsFresh, FreshCompaction
<1>7. AbsentEmpty' /\ Numbered'
  BY <1>2 DEF IndInv, AbsentEmpty, Numbered, Absent
<1> QED
  BY <1>3, <1>4, <1>5, <1>6, <1>7 DEF IndInv

LEMMA CompactBeginInv ==
  ASSUME IndInv, NEW j \in jobs, CompactBegin(j)
  PROVE  IndInv'
<1> USE DEF kv
<1>1. j.stage = "wait" /\ ~trunc /\ UNCHANGED <<kv, req, life, stored, mixed, edits, removes>>
  BY DEF CompactBegin
<1>2. \A i \in jobs : i.stage = "wait"
  BY <1>1 DEF IndInv, TypeOK
<1>3. j.to \in Nat /\ j.life \in Nat
  BY <1>1 DEF IndInv, TypeOK, Compactions
<1>4. CASE start = Absent \/ start[1].seq >= j.to
  <2>1. jobs' = (jobs \ {j}) \cup {} /\ trunc' = trunc
    BY <1>4 DEF CompactBegin
  <2>2. ~trunc' /\ ~(\E n \in jobs' : n.stage # "wait")
    BY <1>1, <1>2, <2>1
  <2>3. trunc' = (\E n \in jobs' : n.stage # "wait")
    <3>1. trunc \in BOOLEAN
      BY Zenon DEF IndInv, TypeOK
    <3> QED
      BY <2>1, <2>2, <3>1, Zenon
  <2>4. OneCompaction'
    BY <1>2, <2>1 DEF OneCompaction
  <2>5. {} \in SUBSET {n \in Compactions : FreshCompaction(n)} /\ \A m, n \in {} : m = n
    OBVIOUS
  <2> QED
    BY <1>1, <2>1, <2>3, <2>4, <2>5, CompactionStep
<1>5. CASE ~(start = Absent \/ start[1].seq >= j.to)
  <2> DEFINE new == [stage |-> "read", to |-> j.to, life |-> j.life, start |-> start[1]]
  <2>1. jobs' = (jobs \ {j}) \cup {new} /\ trunc' = TRUE /\ new.stage = "read"
    BY <1>5 DEF CompactBegin
  <2>2. start[1] \in Snap /\ start[1].seq \in Int
    BY <1>5 DEF IndInv, TypeOK, Snap, Number
  <2>3. new \in [stage : {"read"}, to : Nat, life : Nat, start : Snap]
    BY <1>3, <2>2
  <2>4. new \in Compactions
    BY <2>3 DEF Compactions
  <2>5. FreshCompaction(new)
    BY <1>1, <1>3, <1>5, <2>2 DEF FreshCompaction, IndInv, CompactionsFresh
  <2>6. OneCompaction'
    BY <1>2, <2>1 DEF OneCompaction
  <2> HIDE DEF new
  <2>7. trunc' = (\E n \in jobs' : n.stage # "wait")
    <3>1. \E n \in jobs' : n.stage # "wait"
      BY <2>1
    <3> QED
      BY <2>1, <3>1, Zenon
  <2> QED
    BY <1>1, <2>1, <2>4, <2>5, <2>6, <2>7, CompactionStep
<1> QED
  BY <1>4, <1>5

\* The merged model is that of all batches up to the number given.
LEMMA CompactReadInv ==
  ASSUME IndInv, NEW j \in jobs, CompactRead(j)
  PROVE  IndInv'
<1> USE DEF kv
<1> DEFINE ns == {n \in DOMAIN batches : j.start.seq < n /\ n <= j.to}
           blob == j.start.blob \cup {batches[n] : n \in ns}
           new == [stage |-> "write", life |-> j.life, del |-> ns, start |-> Snapshot(j.to, blob)]
<1>1. /\ j.stage = "read" /\ jobs' = (jobs \ {j}) \cup {new}
      /\ UNCHANGED <<kv, req, trunc, life, stored, mixed, edits, removes>>
  BY DEF CompactRead
<1>2. j.to \in Nat /\ j.life \in Nat /\ j.start \in Snap
  BY <1>1 DEF IndInv, TypeOK, Compactions
<1>3. j.start.seq \in Int /\ j.start.blob \subseteq Edit
  BY <1>2 DEF Snap, Number
<1>4. new \in Compactions
  <2>1. \A n \in DOMAIN batches : batches[n] \in Edit /\ n \in Nat
    BY DEF IndInv, TypeOK, Range
  <2>2. Snapshot(j.to, blob) \in Snap
    BY <1>2, <1>3, <2>1 DEF Snapshot, Snap, Number
  <2>3. ns \in SUBSET Nat
    BY <2>1
  <2>4. new \in [stage : {"write"}, life : Nat, del : SUBSET Nat, start : Snap]
    BY <1>2, <2>2, <2>3
  <2> QED
    BY <2>4 DEF Compactions
<1>5. /\ new.stage = "write" /\ new.life = j.life /\ new.del = ns
      /\ new.start.seq = j.to /\ new.start.blob = blob
  BY DEF Snapshot
<1>6. FreshCompaction(new)
  <2>1. FreshCompaction(j)
    BY DEF IndInv, CompactionsFresh
  <2>2. CASE ~(Unmixed /\ j.life = life)
    BY <1>5, <2>1, <2>2 DEF FreshCompaction
  <2>3. CASE Unmixed /\ j.life = life
    <3>1. j.to <= end[1].seq /\ j.start = start[1] /\ j.start.seq < j.to
      BY <1>1, <2>1, <2>3 DEF FreshCompaction
    <3>2. end[1].seq \in Int
      BY <2>3 DEF Unmixed, IndInv, TypeOK, Snap, Number
    <3>3. /\ DOMAIN batches = (start[1].seq + 1)..end[1].seq
          /\ start[1].blob = Upto(start[1].seq)
          /\ \A n \in DOMAIN batches : [seq |-> n, edit |-> batches[n]] \in stored
      BY <2>3 DEF IndInv, Leads
    <3>4. ns = (start[1].seq + 1)..j.to
      BY <1>2, <1>3, <3>1, <3>2, <3>3
    <3>5. blob = Upto(j.to)
      <4>1. ASSUME NEW e \in blob PROVE e \in Upto(j.to)
        <5>1. CASE e \in Upto(start[1].seq)
          <6>1. PICK s \in stored : s.seq <= start[1].seq /\ s.edit = e
            BY <5>1 DEF Upto
          <6>2. s.seq \in Int
            BY DEF IndInv, TypeOK
          <6>3. s.seq <= j.to
            BY <1>2, <1>3, <3>1, <6>1, <6>2
          <6> QED
            BY <6>1, <6>3 DEF Upto
        <5>2. CASE e \in {batches[n] : n \in ns}
          <6>1. PICK n \in ns : e = batches[n]
            BY <5>2
          <6>2. [seq |-> n, edit |-> e] \in stored /\ n <= j.to
            BY <3>3, <6>1
          <6> QED
            BY <6>2 DEF Upto
        <5> QED
          BY <3>1, <3>3, <4>1, <5>1, <5>2
      <4>2. ASSUME NEW s \in stored, s.seq <= j.to PROVE s.edit \in blob
        <5>1. s.seq \in Nat /\ s = [seq |-> s.seq, edit |-> s.edit]
          BY DEF IndInv, TypeOK
        <5>2. CASE s.seq <= start[1].seq
          BY <3>1, <3>3, <5>2 DEF Upto
        <5>3. CASE s.seq > start[1].seq
          <6>1. s.seq \in ns
            BY <1>2, <1>3, <3>1, <3>4, <4>2, <5>1, <5>3
          <6>2. [seq |-> s.seq, edit |-> batches[s.seq]] \in stored
            BY <3>3, <6>1
          <6>3. s = [seq |-> s.seq, edit |-> batches[s.seq]]
            BY <2>3, <6>2 DEF IndInv, Numbered
          <6>4. s.edit = batches[s.seq]
            BY <6>3
          <6> QED
            BY <6>1, <6>4
        <5> QED
          BY <1>3, <3>1, <5>1, <5>2, <5>3
      <4> QED
        BY <4>1, <4>2 DEF Upto
    <3> HIDE DEF new, ns, blob
    <3> QED
      BY <1>2, <1>3, <1>5, <2>1, <2>3, <3>1, <3>2, <3>4, <3>5 DEF FreshCompaction
  <2> QED
    BY <2>2, <2>3
<1> HIDE DEF new
<1>7. OneCompaction'
  BY <1>1, <1>5 DEF IndInv, OneCompaction
<1>8. trunc' = (\E n \in jobs' : n.stage # "wait")
  <2>1. \E n \in jobs : n.stage # "wait"
    BY <1>1
  <2>2. \E n \in jobs' : n.stage # "wait"
    BY <1>1, <1>5
  <2>3. trunc = (\E n \in jobs : n.stage # "wait") /\ trunc' = trunc
    BY <1>1 DEF IndInv, TypeOK
  <2> QED
    BY <2>1, <2>2, <2>3, Zenon
<1> QED
  BY <1>1, <1>4, <1>6, <1>7, <1>8, CompactionStep

\* The start moves forward over what is deleted with it.
LEMMA CompactWriteInv ==
  ASSUME IndInv, NEW j \in jobs, CompactWrite(j)
  PROVE  IndInv'
<1> USE DEF kv
<1>1. /\ j.stage = "write" /\ start' = <<j.start>> /\ jobs' = jobs \ {j} /\ trunc' = FALSE
      /\ batches' = [n \in DOMAIN batches \ j.del |-> batches[n]]
      /\ mixed' = (mixed \/ (end # Absent /\ j.life # life))
      /\ UNCHANGED <<end, req, life, stored, edits, removes>>
  BY DEF CompactWrite, Restrict
<1>2. j.start \in Snap /\ j.start.seq \in Int /\ j.life \in Nat
  BY <1>1 DEF IndInv, TypeOK, Compactions, Snap, Number
<1>3. \A i \in jobs' : i.stage = "wait" /\ i \in jobs
  BY <1>1 DEF IndInv, OneCompaction
<1>4. ASSUME Unmixed'
      PROVE  Unmixed /\ j.life = life
  BY <1>1, <1>4 DEF Unmixed, Absent
<1>5. Edit' = Edit /\ Snap' = Snap /\ Compactions' = Compactions /\ Requests' = Requests
  BY <1>1 DEF Edit, Snap, Compactions, Requests
<1>6. \A n : Upto(n)' = Upto(n)
  BY <1>1 DEF Upto
<1>7. TypeOK'
  <2>1. DOMAIN batches' \subseteq Nat /\ Range(batches') \subseteq Edit
    BY <1>1 DEF Range, IndInv, TypeOK
  <2>2. batches' = [n \in DOMAIN batches' |-> batches'[n]]
    BY <1>1
  <2>3. trunc' = (\E i \in jobs' : i.stage # "wait")
    BY <1>1, <1>3, Zenon
  <2>4. mixed' \in BOOLEAN
    BY <1>1, Zenon
  <2>5. /\ end' # Absent' => end' = <<end'[1]>> /\ end'[1] \in Snap'
        /\ start' # Absent' => start' = <<start'[1]>> /\ start'[1] \in Snap'
    BY <1>1, <1>2, <1>5 DEF IndInv, TypeOK, Absent
  <2>6. /\ req' \in [Client -> Requests'] /\ jobs' \subseteq Compactions'
        /\ life' \in Nat /\ edits' \in Nat /\ removes' \in Nat
        /\ stored' \subseteq [seq : Nat, edit : Edit']
    BY <1>1, <1>5 DEF IndInv, TypeOK
  <2> QED
    BY <1>5, <2>1, <2>2, <2>3, <2>4, <2>5, <2>6 DEF TypeOK
<1>8. Kept'
  BY <1>1, <1>4 DEF IndInv, Kept
<1>9. Leads'
  <2> SUFFICES ASSUME Unmixed'
               PROVE  /\ start' # <<>>
                      /\ j.start.seq <= end[1].seq
                      /\ DOMAIN batches' = (j.start.seq + 1)..end[1].seq
                      /\ j.start.blob = Upto(j.start.seq)
                      /\ \A n \in DOMAIN batches' : [seq |-> n, edit |-> batches'[n]] \in stored
    BY <1>1, <1>6 DEF Leads, Absent
  <2>1. /\ start[1].seq <= j.start.seq
        /\ j.start.seq <= end[1].seq
        /\ j.del = (start[1].seq + 1)..j.start.seq
        /\ j.start.blob = Upto(j.start.seq)
    BY <1>1, <1>4 DEF IndInv, CompactionsFresh, FreshCompaction
  <2>2. start[1].seq \in Int /\ end[1].seq \in Int
    BY <1>4 DEF Unmixed, Leads, IndInv, TypeOK, Snap, Number
  <2>3. /\ DOMAIN batches = (start[1].seq + 1)..end[1].seq
        /\ \A n \in DOMAIN batches : [seq |-> n, edit |-> batches[n]] \in stored
    BY <1>4 DEF IndInv, Leads
  <2>4. DOMAIN batches' = (j.start.seq + 1)..end[1].seq
    BY <1>1, <1>2, <2>1, <2>2, <2>3
  <2> QED
    BY <1>1, <2>1, <2>3, <2>4
<1>10. RequestsFresh'
  BY <1>1, <1>4 DEF IndInv, RequestsFresh, FreshRequest
<1>11. CompactionsFresh'
  BY <1>1, <1>3, <1>4 DEF IndInv, CompactionsFresh, FreshCompaction
<1>12. OneCompaction' /\ AbsentEmpty' /\ Numbered'
  BY <1>1, <1>3, <1>4 DEF IndInv, OneCompaction, AbsentEmpty, Absent, Numbered
<1> QED
  BY <1>7, <1>8, <1>9, <1>10, <1>11, <1>12 DEF IndInv

\* What is stored does not depend on who was at work.
LEMMA CrashInv ==
  ASSUME IndInv, Crash
  PROVE  IndInv'
<1> USE DEF kv
<1>1. /\ req' = [c \in Client |-> Idle] /\ jobs' = {} /\ trunc' = FALSE
      /\ UNCHANGED <<end, start, batches, life, stored, mixed, edits, removes>>
  BY DEF Crash
<1>2. Edit' = Edit /\ Snap' = Snap /\ Requests' = Requests
  BY <1>1 DEF Edit, Snap, Requests
<1>3. Unmixed' = Unmixed /\ \A n : Upto(n)' = Upto(n)
  BY <1>1 DEF Unmixed, Upto, Absent
<1>4. TypeOK'
  <2>1. Idle \in Requests
    BY DEF Idle, Requests
  <2>2. trunc' = (\E j \in jobs' : j.stage # "wait")
    BY <1>1, Zenon
  <2>3. mixed' \in BOOLEAN
    BY <1>1, Zenon DEF IndInv, TypeOK
  <2> QED
    BY <1>1, <1>2, <2>1, <2>2, <2>3 DEF IndInv, TypeOK, Range, Absent
<1>5. Kept' /\ Leads'
  BY <1>1, <1>3 DEF IndInv, Kept, Leads, Absent
<1>6. RequestsFresh' /\ CompactionsFresh' /\ OneCompaction' /\ AbsentEmpty' /\ Numbered'
  BY <1>1, <1>3
  DEF IndInv, RequestsFresh, FreshRequest, Idle, CompactionsFresh, OneCompaction, AbsentEmpty,
      Absent, Numbered
<1> QED
  BY <1>4, <1>5, <1>6 DEF IndInv

LEMMA StutterInv == IndInv /\ UNCHANGED vars => IndInv'
<1> SUFFICES ASSUME IndInv, UNCHANGED vars PROVE IndInv'
  OBVIOUS
<1> USE DEF vars, kv
<1>1. /\ TypeOK' = TypeOK
  BY DEF TypeOK, Snap, Edit, Requests, Compactions, Absent, Range
<1>2. Kept' = Kept /\ Leads' = Leads
  BY DEF Kept, Leads, Unmixed, Upto, Absent
<1>3. RequestsFresh' = RequestsFresh /\ CompactionsFresh' = CompactionsFresh
  BY DEF RequestsFresh, FreshRequest, CompactionsFresh, FreshCompaction, Unmixed, Upto, Absent
<1>4. OneCompaction' = OneCompaction /\ AbsentEmpty' = AbsentEmpty /\ Numbered' = Numbered
  BY DEF OneCompaction, AbsentEmpty, Numbered, Unmixed, Absent
<1> QED
  BY <1>1, <1>2, <1>3, <1>4 DEF IndInv

-----------------------------------------------------------------------------
(* The theorems.                                                           *)

\* Every reachable state of the block satisfies the inductive invariant, whatever
\* the clients, the length of the history and the bounds.
THEOREM Invariance == Spec => []IndInv
<1>1. IndInv /\ [Next]_vars => IndInv'
  <2> SUFFICES ASSUME IndInv, [Next]_vars PROVE IndInv'
    OBVIOUS
  <2>1. CASE \E c \in Client : Request(c)
    BY <2>1, BeginInv
  <2>2. ASSUME NEW c \in Client, Handle(c) PROVE IndInv'
    BY <2>2, CreatesInv, EditReadsInv, PushInv, PullInv, RemoveInv DEF Handle
  <2>3. CASE Compact
    BY <2>3, CompactBeginInv, CompactReadInv, CompactWriteInv DEF Compact
  <2>4. CASE Crash
    BY <2>4, CrashInv
  <2>5. CASE UNCHANGED vars
    BY <2>5, StutterInv
  <2> QED
    BY <2>1, <2>2, <2>3, <2>4, <2>5 DEF Next
<1> QED
  BY <1>1, InitInv, PTL DEF Spec

\* The keys, the requests and the compactions of a block keep their shapes, and the
\* mutex of compaction is held exactly while one is at work.
THEOREM TypeCorrect == Spec => []TypeOK
BY Invariance, PTL DEF IndInv

\* Every acknowledged edit stays in the block under a number of its own.
THEOREM EditsKept == Spec => []Kept
BY Invariance, PTL DEF IndInv

\* Start, batches and end always fit.
THEOREM StartLeadsToEnd == Spec => []Leads
BY Invariance, PTL DEF IndInv

\* A pull lacks nothing but what a compaction merged.
THEOREM PullsUncut == Spec => PullWholeUncut
<1> DEFINE Uncut ==
      \A c \in Client :
        ReadBatches(c) \/ Scan(c) =>
          \/ ~Unmixed \/ req[c].life # life
          \/ Found(c) = {n \in (req[c].last + 1)..req[c].seq : n > start[1].seq}
<1>1. IndInv => Uncut
  <2> SUFFICES ASSUME IndInv, NEW c \in Client, ReadBatches(c) \/ Scan(c),
                      Unmixed, req[c].life = life
               PROVE  Found(c) = {n \in (req[c].last + 1)..req[c].seq : n > start[1].seq}
    OBVIOUS
  <2>1. Stage(c) \in {"batches", "scan"}
    BY DEF ReadBatches, Scan
  <2>2. req[c].last \in Int /\ req[c].seq \in Int
    BY <2>1, RequestFields DEF IndInv, Number
  <2>3. req[c].seq <= end[1].seq
    BY <2>1 DEF IndInv, RequestsFresh, FreshRequest, Stage
  <2>4. start[1].seq \in Int /\ end[1].seq \in Int
    BY DEF Unmixed, IndInv, Leads, TypeOK, Snap, Number
  <2>5. DOMAIN batches = (start[1].seq + 1)..end[1].seq
    BY DEF IndInv, Leads
  <2> QED
    BY <2>2, <2>3, <2>4, <2>5 DEF Found
<1>2. Spec => [][Uncut]_vars
  BY <1>1, Invariance, PTL
<1> QED
  BY <1>2 DEF PullWholeUncut

-----------------------------------------------------------------------------
(* LevelBlocks implements BlockLog, as long as nothing is mixed.           *)

\* The counter of the model's bound stays in it: the edits of the block are among those that
\* BlockLog is instantiated with.
LEMMA EditsBounded == Spec => [](edits <= MaxEdits)
<1>1. Init => edits <= MaxEdits
  BY BoundsAssumption DEF Init
<1>2. ASSUME TypeOK, edits <= MaxEdits, [Next]_vars PROVE (edits <= MaxEdits)'
  <2>1. edits \in Nat /\ MaxEdits \in Nat
    BY <1>2, BoundsAssumption DEF TypeOK
  <2>2. ASSUME NEW c \in Client, NEW create \in BOOLEAN, BeginEdit(c, create)
        PROVE  (edits <= MaxEdits)'
    BY <2>1, <2>2 DEF BeginEdit
  <2>3. ASSUME edits' = edits PROVE (edits <= MaxEdits)'
    BY <1>2, <2>3
  <2>4. ASSUME NEW c \in Client, Request(c) PROVE (edits <= MaxEdits)'
    BY <2>2, <2>3, <2>4 DEF Request, BeginPull, BeginCreate, BeginRemove, Reads
  <2>5. ASSUME NEW c \in Client, Handle(c) PROVE edits' = edits
    BY <2>5 DEF Handle, CreateEmpty, CreateWithBatch, Create, Exists, Get, Push, PushOf, ReadSeq,
                ReadStart, ReadBatches, Scan, RemoveExists, Clear, Reads
  <2>6. Compact \/ Crash \/ UNCHANGED vars => edits' = edits
    BY DEF Compact, CompactBegin, CompactRead, CompactWrite, Crash, vars
  <2> QED
    BY <1>2, <2>3, <2>4, <2>5, <2>6 DEF Next
<1> QED
  BY <1>1, <1>2, TypeCorrect, PTL DEF Spec

LEMMA LogInit == Init => Log!Init
BY DEF Init, Log!Init, Log!Nothing, Numbers, Shown, Absent

\* The log depends on the end of the block and on what was stored.
LEMMA LogUnchanged ==
  ASSUME end' = end, stored' = stored
  PROVE  UNCHANGED Log!logVars
BY DEF Log!logVars, Numbers, StoredAs, Shown, Absent

LEMMA AppendIs ==
  ASSUME NEW S, NEW s \in Seq(S), NEW t \in Seq(S), NEW b \in S,
         Len(t) = Len(s) + 1, \A i \in 1..Len(s) : t[i] = s[i], t[Len(s) + 1] = b
  PROVE  t = Append(s, b)
OBVIOUS

LEMMA OneEdit ==
  ASSUME NEW n, NEW e
  PROVE  {x.edit : x \in {[seq |-> n, edit |-> e]}} = {e}
<1> DEFINE r == [seq |-> n, edit |-> e]
<1>1. r.edit = e
  OBVIOUS
<1> HIDE DEF r
<1>2. {x.edit : x \in {r}} = {r.edit}
  BY Zenon
<1> QED
  BY <1>1, <1>2 DEF r

\* What the log is while the block is there.
LEMMA LogShape ==
  ASSUME IndInv, Unmixed
  PROVE  /\ end[1].seq + 1 \in Nat
         /\ Numbers = [n \in 1..(end[1].seq + 1) |-> StoredAs(n - 1)]
         /\ \A n \in Int : StoredAs(n) \in SUBSET Nat
         /\ \A s \in stored : s.seq <= end[1].seq /\ s.seq \in Nat
<1>1. end # Absent /\ end[1].seq \in Number /\ stored \subseteq [seq : Nat, edit : Edit]
  BY DEF IndInv, TypeOK, Unmixed, Snap
<1>2. \A n \in Int : StoredAs(n) \in SUBSET Nat
  BY <1>1 DEF StoredAs, Edit
<1>3. end[1].seq + 1 \in Nat
  BY <1>1 DEF Number
<1>4. Numbers = [n \in 1..(end[1].seq + 1) |-> StoredAs(n - 1)]
  BY <1>1 DEF Numbers
<1>5. \A s \in stored : s.seq <= end[1].seq /\ s.seq \in Nat
  <2>1. {s.seq : s \in stored} = 0..end[1].seq
    BY DEF IndInv, Kept
  <2> QED
    BY <1>1, <2>1
<1> QED
  BY <1>2, <1>3, <1>4, <1>5

\* An edit that gets the next number is a batch that the log accepts.
LEMMA AcceptStep ==
  ASSUME IndInv, NEW e \in Nat, e \in 1..MaxEdits, NEW s,
         IF end = Absent THEN s = 0 /\ stored' = {[seq |-> 0, edit |-> e]}
         ELSE /\ Unmixed /\ s = end[1].seq + 1
              /\ stored' = stored \cup {[seq |-> s, edit |-> e]},
         end' = <<Snapshot(s, Shown \cup {e})>>
  PROVE  Log!Next
<1> DEFINE batch == {e}
<1>1. end' # Absent /\ end'[1].seq = s /\ end'[1].blob = Shown \cup {e} /\ end' # <<>>
  BY DEF Snapshot, Absent
<1>2. Shown' = Shown \cup batch
  BY <1>1 DEF Shown, Absent
<1>3. Numbers' = [n \in 1..(s + 1) |-> StoredAs(n - 1)']
  BY <1>1 DEF Numbers, Absent
<1>4. Numbers' = Append(Numbers, batch)
  <2>1. CASE end = Absent
    <3>1. Numbers = <<>> /\ s = 0 /\ stored' = {[seq |-> 0, edit |-> e]}
      BY <2>1 DEF Numbers
    <3>2. StoredAs(0)' = batch
      <4>1. {x \in stored' : x.seq = 0} = {[seq |-> 0, edit |-> e]}
        BY <3>1
      <4> QED
        BY <4>1, OneEdit DEF StoredAs
    <3>3. Numbers' = [n \in 1..1 |-> batch]
      BY <1>3, <3>1, <3>2
    <3> HIDE DEF batch
    <3>4. Append(Numbers, batch) = <<batch>>
      BY <3>1
    <3>5. [n \in 1..1 |-> batch] = <<batch>>
      OBVIOUS
    <3> QED
      BY <3>3, <3>4, <3>5
  <2>2. CASE end # Absent
    <3>1. Unmixed /\ s = end[1].seq + 1 /\ stored' = stored \cup {[seq |-> s, edit |-> e]}
      BY <2>2
    <3>2. /\ s \in Nat
          /\ Numbers = [n \in 1..s |-> StoredAs(n - 1)]
          /\ \A n \in Int : StoredAs(n) \in SUBSET Nat
          /\ \A x \in stored : x.seq < s /\ x.seq \in Nat
      <4>1. Numbers = [n \in 1..s |-> StoredAs(n - 1)] /\ \A n \in Int : StoredAs(n) \in SUBSET Nat
        BY <3>1, LogShape, Zenon
      <4>2. s \in Nat /\ \A x \in stored : x.seq <= end[1].seq /\ x.seq \in Nat
        BY <3>1, LogShape, Zenon
      <4>3. end[1].seq \in Int
        BY <3>1 DEF IndInv, TypeOK, Unmixed, Snap, Number
      <4>4. \A x \in stored : x.seq < s
        BY <3>1, <4>2, <4>3
      <4> QED
        BY <4>1, <4>2, <4>4
    <3>3. \A n \in 0..(s - 1) : StoredAs(n)' = StoredAs(n)
      <4> SUFFICES ASSUME NEW n \in 0..(s - 1) PROVE StoredAs(n)' = StoredAs(n)
        OBVIOUS
      <4>1. {x \in stored' : x.seq = n} = {x \in stored : x.seq = n}
        BY <3>1, <3>2
      <4> QED
        BY <4>1 DEF StoredAs
    <3>4. StoredAs(s)' = batch
      <4>1. {x \in stored' : x.seq = s} = {[seq |-> s, edit |-> e]}
        BY <3>1, <3>2
      <4> QED
        BY <4>1, OneEdit DEF StoredAs
    <3>5. batch \in SUBSET Nat
      OBVIOUS
    <3> HIDE DEF batch
    <3>6. Numbers \in Seq(SUBSET Nat) /\ Len(Numbers) = s
          /\ \A n \in 1..s : Numbers[n] = StoredAs(n - 1)
      BY <3>2
    <3>7. \A n \in 1..(s + 1) : Numbers'[n] = IF n = s + 1 THEN batch ELSE StoredAs(n - 1)
      BY <1>3, <3>2, <3>3, <3>4
    <3>8. \A n \in 1..(s + 1) : Numbers'[n] \in SUBSET Nat
      <4> SUFFICES ASSUME NEW n \in 1..(s + 1) PROVE Numbers'[n] \in SUBSET Nat
        OBVIOUS
      <4>1. CASE n = s + 1
        BY <3>5, <3>7, <4>1
      <4>2. CASE n # s + 1
        <5>1. n - 1 \in Int
          BY <3>2
        <5> QED
          BY <3>2, <3>7, <4>2, <5>1
      <4> QED
        BY <4>1, <4>2
    <3>9. Numbers' \in Seq(SUBSET Nat) /\ Len(Numbers') = s + 1
      BY <1>3, <3>2, <3>8
    <3> QED
      BY <3>2, <3>5, <3>6, <3>7, <3>9, AppendIs
  <2> QED
    BY <2>1, <2>2
<1>5. batch \in Log!Batch
  BY DEF Log!Batch
<1>6. Log!Accept(batch)
  BY <1>1, <1>2, <1>4 DEF Log!Accept
<1> QED
  BY <1>5, <1>6 DEF Log!Next

LEMMA CreateLog ==
  ASSUME IndInv, edits <= MaxEdits, NEW c \in Client, CreateEmpty(c) \/ CreateWithBatch(c)
  PROVE  [Log!Next]_(Log!logVars)
<1>1. CASE end # Absent
  BY <1>1, LogUnchanged DEF CreateEmpty, CreateWithBatch, Create, kv
<1>2. CASE end = Absent /\ CreateEmpty(c)
  <2>1. end' = <<Snapshot(-1, {})>>
    BY <1>2 DEF CreateEmpty, Create
  <2>2. end' # Absent /\ end'[1].seq = -1 /\ end'[1].blob = {}
    BY <2>1 DEF Snapshot, Absent
  <2>3. Numbers' = <<>> /\ Numbers = <<>> /\ Shown' = {} /\ Shown = {}
    BY <1>2, <2>2 DEF Numbers, Shown
  <2> QED
    BY <1>2, <2>2, <2>3 DEF Log!Next, Log!Create, Absent
<1>3. CASE end = Absent /\ CreateWithBatch(c)
  <2>1. req[c].edit \in 1..MaxEdits /\ req[c].edit \in Nat
    BY <1>3, RequestFields, BoundsAssumption DEF CreateWithBatch, IndInv, TypeOK, Edit
  <2>2. end' = <<Snapshot(0, {req[c].edit})>>
        /\ stored' = {[seq |-> n, edit |-> [m \in {0} |-> req[c].edit][n]] : n \in {0}}
    BY <1>3 DEF CreateWithBatch, Create
  <2>3. stored' = {[seq |-> 0, edit |-> req[c].edit]}
    BY <2>2
  <2>4. Shown = {}
    BY <1>3 DEF Shown
  <2> QED
    BY <1>3, <2>1, <2>2, <2>3, <2>4, AcceptStep
<1> QED
  BY <1>1, <1>2, <1>3

LEMMA PushLog ==
  ASSUME IndInv, edits <= MaxEdits, NEW c \in Client, Push(c)
  PROVE  [Log!Next \/ mixed']_(Log!logVars)
<1>1. CASE ~(end # Absent /\ end[1].seq + 1 = req[c].seq)
  BY <1>1, LogUnchanged DEF Push, PushOf, kv
<1>2. CASE end # Absent /\ end[1].seq + 1 = req[c].seq /\ ~mixed'
  <2>1. /\ Stage(c) = "push"
        /\ end' = <<Snapshot(req[c].seq, req[c].blob)>>
        /\ stored' = stored \cup {[seq |-> req[c].seq, edit |-> req[c].edit]}
        /\ mixed' = (mixed \/ req[c].life # life)
    BY <1>2 DEF Push, PushOf
  <2>2. Unmixed /\ req[c].life = life
    BY <1>2, <2>1 DEF Unmixed
  <2>3. req[c].blob = Shown \cup {req[c].edit}
    BY <1>2, <2>1, <2>2 DEF IndInv, RequestsFresh, FreshRequest, Stage, Shown
  <2>4. req[c].edit \in 1..MaxEdits /\ req[c].edit \in Nat
    BY <2>1, RequestFields, BoundsAssumption DEF IndInv, TypeOK, Edit
  <2> QED
    BY <1>2, <2>1, <2>2, <2>3, <2>4, AcceptStep
<1> QED
  BY <1>1, <1>2

LEMMA ClearLog ==
  ASSUME IndInv, NEW c \in Client, Clear(c)
  PROVE  [Log!Next]_(Log!logVars)
<1>1. end' = Absent /\ stored' = {} /\ Numbers' = <<>> /\ Shown' = {}
  BY DEF Clear, Numbers, Shown
<1>2. CASE end = Absent
  BY <1>1, <1>2 DEF Log!logVars, Numbers, Shown
<1>3. CASE end # Absent
  BY <1>1, <1>3 DEF Log!Next, Log!Remove, Log!Nothing
<1> QED
  BY <1>2, <1>3

\* The server's block is a log to which concurrent requests, compactions and crashes do
\* nothing but what BlockLog allows, until a request begun in one life of the block is
\* written in a later one.
THEOREM BlockIsLog == Spec => Implements
<1>1. ASSUME IndInv, edits <= MaxEdits, [Next]_vars
      PROVE  [Log!Next \/ mixed']_(Log!logVars)
  <2>1. ASSUME NEW c \in Client, Request(c) PROVE end' = end /\ stored' = stored
    BY <2>1 DEF Request, BeginEdit, BeginPull, BeginCreate, BeginRemove, Reads, kv
  <2>2. ASSUME NEW c \in Client, Handle(c) PROVE [Log!Next \/ mixed']_(Log!logVars)
    <3>1. CASE CreateEmpty(c) \/ CreateWithBatch(c)
      BY <1>1, <3>1, CreateLog
    <3>2. CASE Push(c)
      BY <1>1, <3>2, PushLog
    <3>3. CASE Clear(c)
      BY <1>1, <3>3, ClearLog
    <3>4. CASE \/ Exists(c) \/ Get(c) \/ ReadSeq(c) \/ ReadStart(c) \/ ReadBatches(c)
               \/ Scan(c) \/ RemoveExists(c)
      BY <3>4, LogUnchanged
      DEF Exists, Get, ReadSeq, ReadStart, ReadBatches, Scan, RemoveExists, Reads, kv
    <3> QED
      BY <2>2, <3>1, <3>2, <3>3, <3>4 DEF Handle
  <2>3. Compact \/ Crash \/ UNCHANGED vars => end' = end /\ stored' = stored
    BY DEF Compact, CompactBegin, CompactRead, CompactWrite, Crash, vars, kv
  <2> QED
    BY <1>1, <2>1, <2>2, <2>3, LogUnchanged DEF Next
<1> QED
  BY <1>1, LogInit, Invariance, EditsBounded, PTL DEF Spec, Implements

=============================================================================
