--------------------------- MODULE RpcCallsProofs ---------------------------
(***************************************************************************)
(* Proofs about RpcCalls, for every number of identifiers, every size of   *)
(* the buffer and all calls: the types, AnswersOwn, InOrder and            *)
(* OncePerConnection.                                                      *)
(*                                                                         *)
(* The inductive invariant has two parts.  Shape holds whatever becomes of *)
(* identifiers; Fit, which says that whatever carries an identifier is of  *)
(* one call, holds until a call has taken an identifier while something of *)
(* its former call was still there, as RxLogicalChannelCaller may.         *)
(***************************************************************************)
EXTENDS RpcCalls, FiniteSetTheorems, WellFoundedInduction, TLAPS

-----------------------------------------------------------------------------
(* Numbers in order.                                                       *)

\* A set of natural numbers has a smallest one: of the finite sets 0..n, n a member,
\* one has none of the others in it.
LEMMA Least ==
  ASSUME NEW S \in SUBSET Nat, S # {}
  PROVE  \E m \in S : \A n \in S : m <= n
<1> DEFINE T == {0..n : n \in S}
<1>1. T \subseteq FiniteSubsetsOf(Nat) /\ T # {}
  <2>1. ASSUME NEW n \in S PROVE (0..n) \in SUBSET Nat /\ IsFiniteSet(0..n)
    BY FS_Interval
  <2> QED
    BY <2>1 DEF FiniteSubsetsOf
<1>2. PICK x \in T : \A y \in T : ~(<<y, x>> \in StrictSubsetOrdering(Nat))
  <2> HIDE DEF T
  <2> QED
    BY <1>1, FS_StrictSubsetOrderingWellFounded, WFMin
<1>3. PICK m \in S : x = 0..m
  OBVIOUS
<1>4. ASSUME NEW n \in S, n < m PROVE FALSE
  <2>1. (0..n) \subseteq (0..m) /\ m \in 0..m /\ m \notin 0..n
    BY <1>4
  <2>2. (0..n) # (0..m)
    BY <2>1
  <2>3. <<0..n, 0..m>> \in StrictSubsetOrdering(Nat)
    BY <2>1, <2>2 DEF StrictSubsetOrdering
  <2> QED
    BY <1>2, <1>3, <2>3
<1> QED
  BY <1>4

\* The number of members up to one of a set of numbers says which one it is.
LEMMA SortedOK ==
  ASSUME NEW S \in SUBSET Nat, IsFiniteSet(S)
  PROVE  /\ Cardinality(S) \in Nat
         /\ DOMAIN Sorted(S) = 1..Cardinality(S)
         /\ \A i \in DOMAIN Sorted(S) : Sorted(S)[i] \in S
         /\ \A i, j \in DOMAIN Sorted(S) : Sorted(S)[i] = Sorted(S)[j] => i = j
         /\ \A i, j \in DOMAIN Sorted(S) : i < j => Sorted(S)[i] < Sorted(S)[j]
         /\ \A n \in S : \E i \in DOMAIN Sorted(S) : Sorted(S)[i] = n
<1> DEFINE N == Cardinality(S)
           upto(n) == {m \in S : m <= n}
           rank == [n \in S |-> Cardinality(upto(n))]
<1>1. N \in Nat
  BY FS_CardinalityType
<1>2. ASSUME NEW n \in S
      PROVE  IsFiniteSet(upto(n)) /\ rank[n] \in 1..N /\ upto(n) \subseteq S
  <2>1. upto(n) \in SUBSET S /\ n \in upto(n)
    OBVIOUS
  <2>2. IsFiniteSet(upto(n)) /\ Cardinality(upto(n)) <= N
    BY <2>1, FS_Subset
  <2>3. Cardinality(upto(n)) \in Nat /\ Cardinality(upto(n)) # 0
    BY <2>1, <2>2, FS_CardinalityType, FS_EmptySet
  <2> QED
    BY <1>1, <2>1, <2>2, <2>3
<1>3. ASSUME NEW m \in S, NEW n \in S, rank[m] = rank[n], m < n PROVE FALSE
  <2>1. upto(m) \in SUBSET upto(n) /\ n \in upto(n) /\ n \notin upto(m)
    <3>1. \A k \in S : k \in Nat
      OBVIOUS
    <3>2. \A k \in upto(m) : k \in upto(n)
      BY <1>3, <3>1
    <3>3. n \in upto(n) /\ n \notin upto(m)
      BY <1>3, <3>1
    <3> QED
      BY <3>2, <3>3
  <2>2. Cardinality(upto(m)) = Cardinality(upto(n))
    BY <1>3
  <2>3. upto(n) = upto(m)
    BY <1>2, <2>1, <2>2, FS_Subset
  <2> QED
    BY <2>1, <2>3
<1>4. rank \in Injection(S, 1..N)
  <2>1. rank \in [S -> 1..N]
    BY <1>2
  <2>2. \A m, n \in S : rank[m] = rank[n] => m = n
    <3> HIDE DEF rank
    <3> QED
      BY <1>3
  <2> HIDE DEF rank
  <2> QED
    BY <2>1, <2>2 DEF Injection, IsInjective
<1>5. rank \in Surjection(S, 1..N)
  <2>1. IsFiniteSet(1..N) /\ Cardinality(1..N) = N
    BY <1>1, FS_Interval
  <2> HIDE DEF rank
  <2> QED
    BY <1>4, <2>1, FS_Injection
<1>6. ASSUME NEW i \in 1..N PROVE Sorted(S)[i] \in S /\ rank[Sorted(S)[i]] = i
  <2>1. \E n \in S : rank[n] = i
    <3> HIDE DEF rank
    <3> QED
      BY <1>5 DEF Surjection
  <2>2. \E n \in S : Cardinality(upto(n)) = i
    BY <2>1
  <2>3. Sorted(S)[i] = CHOOSE n \in S : Cardinality(upto(n)) = i
    BY DEF Sorted
  <2> HIDE DEF upto
  <2>4. Sorted(S)[i] \in S /\ Cardinality(upto(Sorted(S)[i])) = i
    BY <2>2, <2>3
  <2> QED
    BY <2>4
<1>7. DOMAIN Sorted(S) = 1..N
  BY DEF Sorted
<1>8. \A n \in S : rank[n] \in 1..N /\ Sorted(S)[rank[n]] = n
  <2> SUFFICES ASSUME NEW n \in S PROVE rank[n] \in 1..N /\ Sorted(S)[rank[n]] = n
    OBVIOUS
  <2>1. rank[n] \in 1..N
    BY <1>2
  <2> HIDE DEF rank
  <2>2. rank[Sorted(S)[rank[n]]] = rank[n] /\ Sorted(S)[rank[n]] \in S
    BY <1>6, <2>1
  <2> QED
    BY <1>4, <2>1, <2>2 DEF Injection, IsInjective
<1>9. ASSUME NEW i \in 1..N, NEW j \in 1..N, i < j, ~(Sorted(S)[i] < Sorted(S)[j]) PROVE FALSE
  <2>1. PICK m, n : m = Sorted(S)[i] /\ n = Sorted(S)[j]
    OBVIOUS
  <2>2. m \in S /\ n \in S /\ rank[m] = i /\ rank[n] = j
    <3> HIDE DEF rank
    <3> QED
      BY <1>6, <2>1
  <2>6. m \in Nat /\ n \in Nat /\ n <= m /\ \A k \in S : k \in Nat
    BY <1>9, <2>1, <2>2
  <2>3. upto(n) \in SUBSET upto(m)
    <3>1. \A k \in upto(n) : k \in upto(m)
      BY <2>6
    <3> QED
      BY <3>1
  <2>4. Cardinality(upto(n)) <= Cardinality(upto(m))
    BY <1>2, <2>2, <2>3, FS_Subset
  <2>5. Cardinality(upto(m)) = i /\ Cardinality(upto(n)) = j
    BY <2>2
  <2> QED
    BY <1>9, <2>4, <2>5
<1> HIDE DEF rank, upto
<1> QED
  BY <1>1, <1>6, <1>7, <1>8, <1>9

\* The same of a name for the sequence.
LEMMA SortedSeq ==
  ASSUME NEW S \in SUBSET Nat, IsFiniteSet(S), NEW f, f = Sorted(S)
  PROVE  /\ f \in Seq(S) /\ Len(f) = Cardinality(S) /\ Len(f) \in Nat /\ DOMAIN f = 1..Len(f)
         /\ \A i \in DOMAIN f : f[i] \in S
         /\ \A i, j \in DOMAIN f : f[i] = f[j] => i = j
         /\ \A i, j \in DOMAIN f : i < j => f[i] < f[j]
         /\ \A n \in S : \E i \in DOMAIN f : f[i] = n
<1> DEFINE g(i) == CHOOSE n \in S : Cardinality({m \in S : m <= n}) = i
<1>1. f = [i \in 1..Cardinality(S) |-> g(i)]
  BY DEF Sorted
<1> HIDE DEF g
<1>2. PICK n : n = Cardinality(S)
  OBVIOUS
<1>3. /\ n \in Nat /\ DOMAIN f = 1..n /\ \A i \in DOMAIN f : f[i] \in S
      /\ \A i, j \in DOMAIN f : f[i] = f[j] => i = j
      /\ \A i, j \in DOMAIN f : i < j => f[i] < f[j]
      /\ \A x \in S : \E i \in DOMAIN f : f[i] = x
  BY <1>2, SortedOK
<1>4. f \in [1..n -> S]
  BY <1>1, <1>2, <1>3
<1>5. f \in Seq(S) /\ Len(f) = n
  BY <1>3, <1>4
<1> QED
  BY <1>2, <1>3, <1>5


-----------------------------------------------------------------------------
(* The strengthening.  What the client has sent over the connection and    *)
(* the server has not handled yet is one queue.                            *)

Length == Len(up) + Len(outbox)

Pipe == [k \in 1..Length |-> IF k <= Len(up) THEN up[k].message ELSE outbox[k - Len(up)]]

Speech == {"data", "complete", "error"}

Speaks(m, n) == m.type \in Speech /\ m.call = n
Names(m) == m.method # ""

\* The stages of an execution that still takes values
Live == {"check", "opening", "run"}

\* The values an execution was given
Taken(e) == IF e.stage = "check" THEN e.buffer ELSE e.seen

Method == {"static", "rx", "checked"}

User == [state : {"waiting", "over", "settled", "cancelled"}, sent : Nat]
Calling == [call : Nat, request : {"open", "done"}, answer : {"open", "done"}, first : BOOLEAN]
Message == [type : Speech \cup {"unsub", "notify"}, id : 0..MaxId, call : Nat,
            method : Method \cup {""}, value : Nat]
Executing == [call : Nat, id : 0..MaxId, stage : Stages, request : {"open", "done", "cut"},
              buffer : Seq(Nat), seen : Seq(Nat), said : Nat]
Answering == [type : Speech, id : Id, call : Nat, value : Nat]

ChannelInv ==
  /\ ChannelTypeOK
  /\ retries + breaks <= MaxBreaks
  /\ wait => state = "closed"
  /\ service = "new" => state = "none"

Types ==
  /\ case \in Cases
  /\ user \in Seq(User) /\ Len(user) <= Len(plan)
  /\ nextId \in Id
  /\ DOMAIN calls \subseteq Id /\ calls \in [DOMAIN calls -> Calling]
  /\ outbox \in Seq(Message)
  /\ up \in Seq([message : Message, last : BOOLEAN])
  /\ turn \in BOOLEAN
  /\ DOMAIN active \subseteq Id /\ active \in [DOMAIN active -> Nat]
  /\ execs \in Seq(Executing)
  /\ down \in Seq(Answering)
  /\ mixed \in BOOLEAN

\* Nothing is there without a connection.
Quiet ==
  ~IsOpen => /\ outbox = <<>> /\ up = <<>> /\ down = <<>>
             /\ turn = FALSE /\ active = <<>> /\ execs = <<>>

\* No identifier is needed for those nobody waits for.
Few == Cardinality(Subscribed) <= MaxId

\* A call has one identifier at a time, and a request to be continued is a stream.
Entries ==
  /\ \A id \in DOMAIN calls :
       LET entry == calls[id]
       IN  /\ entry.call \in DOMAIN user
           /\ entry.request = "open" => plan[entry.call].form = "stream"
           /\ plan[entry.call].form # "notify"
           /\ entry.request = "open" \/ entry.answer = "open"
           /\ entry.answer = "open" <=> user[entry.call].state = "waiting"
  /\ \A id, other \in DOMAIN calls : calls[id].call = calls[other].call => id = other

MessageOK(m) ==
  /\ m.call \in DOMAIN user
  /\ m.type = "notify" <=> m.id = 0
  /\ m.type = "notify" => Names(m) /\ m.value = 1 /\ plan[m.call].form = "notify"
  /\ m.type = "unsub" => ~Names(m)
  /\ m.type \in {"unsub", "error"} => m.value = 0
  /\ m.type = "data" => m.value # 0
  /\ m.type \in Speech => m.value <= user[m.call].sent

Messages == \A k \in DOMAIN Pipe : MessageOK(Pipe[k])

Rising(values) == values = <<0>> \/ \A k \in DOMAIN values : values[k] = k

ExecOK(e) ==
  /\ Rising(e.seen) /\ Rising(Taken(e))
  /\ e.stage = "check" => e.seen = <<>>
  /\ e.stage \in Live /\ Taken(e) = <<0>> => e.request # "open"

Values == \A i \in DOMAIN execs : ExecOK(execs[i])

Bounded(e) ==
  /\ Len(e.buffer) <= BufferSize
  /\ e.stage \in Live => e.id # 0

Execs ==
  /\ \A i \in DOMAIN execs : Bounded(execs[i]) /\ execs[i].call \in DOMAIN user
  /\ \A id \in DOMAIN active :
       LET i == active[id]
       IN  /\ i \in DOMAIN execs
           /\ execs[i].id = id
           /\ execs[i].stage \in Live
           /\ execs[i].request # "cut"

\* A call that is waited for has the entry of whatever identifier goes with it.
Wanted(id, n) ==
  user[n].state = "waiting" => id \in DOMAIN calls /\ calls[id].call = n

Wants ==
  /\ \A k \in DOMAIN Pipe : Pipe[k].id # 0 => Wanted(Pipe[k].id, Pipe[k].call)
  /\ \A i \in DOMAIN execs : execs[i].id # 0 => Wanted(execs[i].id, execs[i].call)
  /\ \A k \in DOMAIN down : Wanted(down[k].id, down[k].call)

Answers ==
  \A k \in DOMAIN down :
    down[k].call \in DOMAIN user /\ (down[k].type = "data" => down[k].value # 0)

\* Whatever carries an identifier is of one call, which has no other one; 0 is none.
OwnedBy(own) ==
  /\ \A id, other \in Id : own[id] = own[other] /\ own[id] # 0 => id = other
  /\ \A k \in DOMAIN Pipe : Pipe[k].id # 0 => own[Pipe[k].id] = Pipe[k].call
  /\ \A k \in DOMAIN down : own[down[k].id] = down[k].call
  /\ \A i \in DOMAIN execs :
       execs[i].stage # "ended" /\ execs[i].id # 0 => own[execs[i].id] = execs[i].call
  /\ \A id \in DOMAIN calls : own[id] = calls[id].call

Owned == \E own \in [Id -> 0..Len(user)] : OwnedBy(own)

\* One message of a call, or one execution, names the procedure, and it is the first one.
NamedOnce ==
  /\ \A j, k \in DOMAIN Pipe :
       Names(Pipe[j]) /\ Names(Pipe[k]) /\ Pipe[j].call = Pipe[k].call => j = k
  /\ \A k \in DOMAIN Pipe, i \in DOMAIN execs : Names(Pipe[k]) => execs[i].call # Pipe[k].call

Unsent ==
  \A id \in DOMAIN calls :
    LET n == calls[id].call
    IN  calls[id].first /\ calls[id].request = "open" =>
          /\ user[n].sent = 0
          /\ \A k \in DOMAIN Pipe : ~Speaks(Pipe[k], n)
          /\ \A i \in DOMAIN execs : execs[i].call # n

\* What a call says is in the order it was said in, the last thing last.
Ordered ==
  \A j, k \in DOMAIN Pipe :
    j < k /\ Speaks(Pipe[j], Pipe[k].call) /\ Speaks(Pipe[k], Pipe[k].call) =>
      /\ Pipe[j].type = "data"
      /\ ~Names(Pipe[k])
      /\ Pipe[k].value # 0 => Pipe[j].value < Pipe[k].value

\* Of the values of call n, so many of which were sent, those after the first g are in
\* queue p.
Flow(p, n, sent, g) ==
  /\ g <= sent
  /\ \A k \in DOMAIN p : Speaks(p[k], n) /\ p[k].value # 0 => p[k].value \in (g + 1)..sent
  /\ \A v \in (g + 1)..sent : \E k \in DOMAIN p : Speaks(p[k], n) /\ p[k].value = v

Flows ==
  /\ \A k \in DOMAIN Pipe :
       LET n == Pipe[k].call
       IN  Speaks(Pipe[k], n) /\ Names(Pipe[k]) => Flow(Pipe, n, user[n].sent, 0)
  /\ \A id \in DOMAIN active :
       LET e == execs[active[id]]
       IN  Flow(Pipe, e.call, user[e.call].sent, Count(Taken(e)))

\* After the last thing a call says there is nothing.
Final ==
  /\ \A id \in DOMAIN calls :
       LET n == calls[id].call
       IN  calls[id].request = "open" =>
             /\ \A k \in DOMAIN Pipe : Speaks(Pipe[k], n) => Pipe[k].type = "data"
             /\ \A i \in DOMAIN execs :
                  execs[i].call = n /\ execs[i].stage \in Live => execs[i].request # "done"
  /\ \A i \in DOMAIN execs :
       LET e == execs[i]
       IN  e.stage \in Live /\ e.request = "done" =>
             /\ Count(Taken(e)) = user[e.call].sent
             /\ \A k \in DOMAIN Pipe : ~Speaks(Pipe[k], e.call)

\* What holds whatever becomes of identifiers.
Shape ==
  /\ ChannelInv /\ Types /\ Quiet /\ Few /\ Entries /\ Messages /\ Execs /\ Answers /\ Wants
  /\ NamedOnce /\ Unsent /\ OncePerConnection

\* What holds as long as none has been taken too early.
Fit == Values /\ Owned /\ Ordered /\ Flows /\ Final

IndInv == Shape /\ (mixed \/ Fit)

\* A step keeps both.
Keeps == Shape' /\ (Fit /\ ~mixed' => Fit')

-----------------------------------------------------------------------------
(* Identifiers.                                                            *)

\* While there is one, FreeId is an identifier that is not in use.
LEMMA FreeIdOK ==
  ASSUME nextId \in Id, Id \ DOMAIN calls # {}
  PROVE  FreeId \in Id \ DOMAIN calls
<1> DEFINE Distance(id) == IF id >= nextId THEN id - nextId ELSE id + MaxId - nextId
           free == Id \ DOMAIN calls
           D == {Distance(id) : id \in free}
<1>1. \A id \in free : Distance(id) \in Nat
  BY SizesAssumption DEF Id
<1>2. PICK d \in D : \A e \in D : d <= e
  <2>1. D \in SUBSET Nat /\ D # {}
    BY <1>1
  <2> HIDE DEF D
  <2> QED
    BY <2>1, Least
<1>3. \E id \in free : \A other \in free : Distance(id) <= Distance(other)
  BY <1>2
<1> QED
  BY <1>3 DEF FreeId

LEMMA AfterOK == \A id \in 0..MaxId : After(id) \in Id
BY SizesAssumption DEF After, Id

-----------------------------------------------------------------------------
(* The queue.                                                              *)

LEMMA PipeType ==
  ASSUME Types
  PROVE  /\ Length \in Nat /\ Len(up) \in Nat /\ Len(outbox) \in Nat
         /\ DOMAIN Pipe = 1..Length
         /\ \A k \in DOMAIN Pipe : Pipe[k] \in Message
<1>1. /\ Len(up) \in Nat /\ Len(outbox) \in Nat
      /\ \A k \in 1..Len(up) : up[k].message \in Message
      /\ \A k \in 1..Len(outbox) : outbox[k] \in Message
  <2> DEFINE Sent == [message : Message, last : BOOLEAN]
  <2>1. up \in Seq(Sent) /\ outbox \in Seq(Message)
    BY DEF Types
  <2>2. \A s \in Sent : s.message \in Message
    OBVIOUS
  <2> HIDE DEF Sent, Message
  <2> QED
    BY <2>1, <2>2
<1>2. Length \in Nat /\ DOMAIN Pipe = 1..Length
  BY <1>1 DEF Length, Pipe
<1>3. ASSUME NEW k \in 1..Length PROVE Pipe[k] \in Message
  <2>1. CASE k <= Len(up)
    BY <1>1, <2>1 DEF Pipe
  <2>2. CASE ~(k <= Len(up))
    <3>1. k - Len(up) \in 1..Len(outbox)
      BY <1>1, <2>2 DEF Length
    <3> QED
      BY <1>1, <2>2, <3>1 DEF Pipe
  <2> QED
    BY <2>1, <2>2
<1> QED
  BY <1>1, <1>2, <1>3

LEMMA PipeSame ==
  ASSUME up' = up, outbox' = outbox
  PROVE  Pipe' = Pipe /\ Length' = Length
BY DEF Pipe, Length

LEMMA PipeSent ==
  ASSUME Types, NEW m \in Message, IsOpen, up' = up, Send(<<m>>)
  PROVE  /\ outbox' \in Seq(Message)
         /\ DOMAIN Pipe' = 1..(Length + 1)
         /\ \A k \in 1..Length : Pipe'[k] = Pipe[k]
         /\ Pipe'[Length + 1] = m
<1>1. outbox \in Seq(Message) /\ Len(up) \in Nat /\ Len(outbox) \in Nat
  BY PipeType DEF Types
<1>2. outbox' = outbox \o <<m>>
  BY DEF Send
<1>3. /\ outbox' \in Seq(Message)
      /\ Len(outbox') = Len(outbox) + 1
      /\ \A k \in 1..Len(outbox) : outbox'[k] = outbox[k]
      /\ outbox'[Len(outbox) + 1] = m
  <2> HIDE DEF Message
  <2> QED
    BY <1>1, <1>2
<1>4. Length' = Length + 1 /\ Length = Len(up) + Len(outbox)
  BY <1>1, <1>3 DEF Length
<1>5. ASSUME NEW k \in 1..Length PROVE Pipe'[k] = Pipe[k]
  BY <1>1, <1>3, <1>4 DEF Pipe
<1>6. Pipe'[Length + 1] = m
  <2>1. ~(Length + 1 <= Len(up)) /\ Length + 1 - Len(up) = Len(outbox) + 1
    BY <1>1, <1>4
  <2> QED
    BY <1>1, <1>3, <1>4, <2>1 DEF Pipe
<1> QED
  BY <1>3, <1>4, <1>5, <1>6 DEF Pipe

LEMMA PipeServed ==
  ASSUME Types, up # <<>>, up' = Tail(up), outbox' = outbox
  PROVE  /\ up' \in Seq([message : Message, last : BOOLEAN])
         /\ Length \in Nat \ {0}
         /\ 1 \in DOMAIN Pipe /\ Pipe[1] = Head(up).message
         /\ Head(up).last \in BOOLEAN
         /\ DOMAIN Pipe' = 1..(Length - 1)
         /\ \A k \in DOMAIN Pipe' : k + 1 \in DOMAIN Pipe /\ Pipe'[k] = Pipe[k + 1]
         /\ \A k \in DOMAIN Pipe : k # 1 => k - 1 \in DOMAIN Pipe' /\ Pipe'[k - 1] = Pipe[k]
<1> DEFINE Sent == [message : Message, last : BOOLEAN]
<1>1. up \in Seq(Sent) /\ Len(outbox) \in Nat
  BY PipeType DEF Types
<1>2. Head(up) \in Sent
  <2> HIDE DEF Sent
  <2> QED
    BY <1>1
<1>3. /\ up' \in Seq(Sent)
      /\ Len(up) \in Nat \ {0}
      /\ Head(up) = up[1]
      /\ Len(up') = Len(up) - 1
      /\ \A k \in 1..(Len(up) - 1) : up'[k] = up[k + 1]
  <2> HIDE DEF Sent
  <2> QED
    BY <1>1
<1>4. /\ Length \in Nat \ {0}
      /\ DOMAIN Pipe = 1..Length
      /\ DOMAIN Pipe' = 1..(Length - 1)
      /\ Pipe[1] = Head(up).message
  BY <1>1, <1>3 DEF Pipe, Length
<1>5. ASSUME NEW k \in 1..(Length - 1) PROVE Pipe'[k] = Pipe[k + 1]
  <2>1. CASE k <= Len(up) - 1
    BY <1>1, <1>3, <1>4, <2>1 DEF Pipe, Length
  <2>2. CASE ~(k <= Len(up) - 1)
    <3>1. k - Len(up') = (k + 1) - Len(up)
      BY <1>3
    <3> QED
      BY <1>1, <1>3, <1>4, <2>2, <3>1 DEF Pipe, Length
  <2> QED
    BY <2>1, <2>2
<1>6. ASSUME NEW k \in DOMAIN Pipe, k # 1
      PROVE  k - 1 \in DOMAIN Pipe' /\ Pipe'[k - 1] = Pipe[k]
  <2>1. k - 1 \in 1..(Length - 1) /\ (k - 1) + 1 = k
    BY <1>4, <1>6
  <2> QED
    BY <1>4, <1>5, <2>1
<1>7. \A k \in DOMAIN Pipe' : k + 1 \in DOMAIN Pipe
  BY <1>4
<1> QED
  BY <1>2, <1>3, <1>4, <1>5, <1>6, <1>7

LEMMA PipeFlushed ==
  ASSUME Types, Flush
  PROVE  /\ Pipe' = Pipe
         /\ up' \in Seq([message : Message, last : BOOLEAN])
         /\ outbox' \in Seq(Message)
<1> DEFINE Sent == [message : Message, last : BOOLEAN]
           batch == [i \in DOMAIN outbox |-> [message |-> outbox[i], last |-> i = Len(outbox)]]
<1>1. up \in Seq(Sent) /\ outbox \in Seq(Message) /\ Len(up) \in Nat /\ Len(outbox) \in Nat
  BY PipeType DEF Types
<1>2. DOMAIN outbox = 1..Len(outbox) /\ \A i \in 1..Len(outbox) : outbox[i] \in Message
  <2> HIDE DEF Message
  <2> QED
    BY <1>1
<1>3. \A i \in 1..Len(outbox) : batch[i] \in Sent
  BY <1>2
<1>4. batch \in Seq(Sent) /\ Len(batch) = Len(outbox)
  <2>1. batch = [i \in 1..Len(outbox) |-> batch[i]]
    BY <1>2
  <2> HIDE DEF batch, Sent
  <2> QED
    BY <1>1, <1>3, <2>1
<1>5. up' = up \o batch /\ outbox' = <<>>
  BY DEF Flush
<1>6. /\ up' \in Seq(Sent)
      /\ Len(up') = Len(up) + Len(outbox)
      /\ \A k \in 1..Len(up) : up'[k] = up[k]
      /\ \A k \in (Len(up) + 1)..(Len(up) + Len(outbox)) : up'[k] = batch[k - Len(up)]
  <2> HIDE DEF batch, Sent
  <2> QED
    BY <1>1, <1>4, <1>5
<1>7. outbox' \in Seq(Message) /\ Len(outbox') = 0
  <2> HIDE DEF Message
  <2> QED
    BY <1>5
<1>8. Length' = Length
  BY <1>1, <1>6, <1>7 DEF Length
<1>9. ASSUME NEW k \in 1..Length PROVE Pipe'[k] = Pipe[k]
  <2>1. CASE k <= Len(up)
    BY <1>1, <1>6, <1>8, <2>1 DEF Pipe, Length
  <2>2. CASE ~(k <= Len(up))
    <3>1. k - Len(up) \in 1..Len(outbox) /\ k \in (Len(up) + 1)..(Len(up) + Len(outbox))
      BY <1>1, <2>2 DEF Length
    <3>2. up'[k] = batch[k - Len(up)]
      BY <1>6, <3>1
    <3>3. up'[k].message = outbox[k - Len(up)]
      BY <1>2, <3>1, <3>2
    <3> QED
      BY <1>1, <1>6, <1>8, <2>2, <3>1, <3>3 DEF Pipe, Length
  <2> QED
    BY <2>1, <2>2
<1> QED
  BY <1>6, <1>7, <1>8, <1>9 DEF Pipe

-----------------------------------------------------------------------------
(* Steps that leave the messages alone, and those that lose them all.      *)

LEMMA SameInv ==
  ASSUME Shape, Nothing, ChannelInv', Quiet'
  PROVE  Keeps
<1>1. Pipe' = Pipe /\ plan' = plan /\ user' = user
  BY PipeSame DEF Nothing, client, plan
<1> USE DEF Shape, Nothing, client, server
<1>2. Types' /\ Few' /\ Entries' /\ OncePerConnection'
  BY <1>1 DEF Types, Few, Subscribed, Entries, OncePerConnection
<1>3. Messages' /\ Execs' /\ Answers' /\ Wants'
  BY <1>1 DEF Messages, MessageOK, Execs, Bounded, Answers, Wants, Wanted
<1>4. NamedOnce' /\ Unsent' /\ (Ordered => Ordered')
  BY <1>1 DEF NamedOnce, Unsent, Ordered
<1>5. Shape'
  BY <1>2, <1>3, <1>4
<1> SUFFICES ASSUME Fit, ~mixed' PROVE Fit'
  BY <1>5 DEF Keeps
<1> USE DEF Fit
<1>6. Owned' /\ Values'
  BY <1>1 DEF Owned, OwnedBy, Values, ExecOK
<1>7. Flows' /\ Final'
  BY <1>1 DEF Flows, Flow, Final
<1> QED
  BY <1>4, <1>6, <1>7

\* What CreateChannel does to what is counted.
LEMMA CreateInv ==
  ASSUME ChannelInv, CreateChannel, service' \in {"new", "active", "stopped"},
         uptime' \in BOOLEAN, makes' = makes, service' = "new" => service = "new",
         state # "open", service = "new" => service' # "new"
  PROVE  ChannelInv' /\ state' # "open"
<1>1. /\ retries \in Nat /\ breaks \in Nat /\ retries + breaks <= MaxBreaks /\ MaxBreaks \in Nat
      /\ state \in {"none", "connecting", "open", "closed"}
  BY MaxBreaksAssumption DEF ChannelInv, ChannelTypeOK
<1>2. /\ retries' \in 0..MaxBreaks /\ breaks' \in 0..MaxBreaks /\ retries' + breaks' <= MaxBreaks
      /\ state' \in {"none", "connecting", "closed"}
  <2>1. CASE state' = "connecting" /\ UNCHANGED <<retries, breaks>>
    BY <1>1, <2>1
  <2>2. CASE Breaks /\ Closed
    BY <1>1, <2>2 DEF Breaks, Closed
  <2>3. CASE Breaks /\ UNCHANGED <<state, retries>>
    BY <1>1, <2>3 DEF Breaks
  <2> QED
    BY <2>1, <2>2, <2>3 DEF CreateChannel
<1>3. wait' \in BOOLEAN /\ (wait' => state' = "closed")
  BY Zenon DEF CreateChannel, Closed
<1>4. makes' \in Makes /\ service' # "new"
  BY DEF ChannelInv, ChannelTypeOK
<1>5. state' # "open" /\ state' \in {"none", "connecting", "open", "closed"}
  BY <1>2
<1>6. ChannelTypeOK'
  <2>1. retries' \in 0..MaxBreaks /\ breaks' \in 0..MaxBreaks /\ wait' \in BOOLEAN
    BY <1>2, <1>3
  <2> QED
    BY <1>4, <1>5, <2>1, Zenon DEF ChannelTypeOK
<1> QED
  BY <1>2, <1>3, <1>4, <1>5, <1>6 DEF ChannelInv

LEMMA StartInv ==
  ASSUME Shape, Start \/ Retry, Nothing
  PROVE  Keeps
<1>1. ChannelInv /\ Quiet
  BY DEF Shape
<1>2. state # "open"
  BY <1>1 DEF ChannelInv, Start, Retry
<1>3. /\ CreateChannel /\ service' \in {"new", "active", "stopped"} /\ uptime' \in BOOLEAN
      /\ makes' = makes
  BY <1>1 DEF ChannelInv, ChannelTypeOK, Start, Retry
<1>4. (service' = "new" => service = "new") /\ (service = "new" => service' # "new")
  BY <1>1 DEF ChannelInv, Start, Retry
<1>5. ChannelInv' /\ state' # "open"
  BY <1>1, <1>2, <1>3, <1>4, CreateInv, Zenon
<1>6. Quiet'
  BY <1>1, <1>2, <1>5 DEF Quiet, IsOpen, Nothing, client, server
<1> QED
  BY <1>5, <1>6, SameInv

LEMMA UptimeInv ==
  ASSUME Shape, Uptime, Nothing
  PROVE  Keeps
<1>1. ChannelInv'
  <2>1. retries' \in 0..MaxBreaks /\ retries' + breaks' <= MaxBreaks
    BY MaxBreaksAssumption DEF Shape, ChannelInv, ChannelTypeOK, Uptime
  <2> QED
    BY <2>1, Zenon DEF Shape, ChannelInv, ChannelTypeOK, Uptime
<1>2. Quiet'
  BY DEF Shape, Quiet, IsOpen, Uptime, Nothing, client, server
<1> QED
  BY <1>1, <1>2, SameInv

LEMMA StutterInv ==
  ASSUME Shape, UNCHANGED vars
  PROVE  Keeps
<1>1. Nothing /\ UNCHANGED channelVars
  BY DEF vars, Nothing, client, server
<1>2. ChannelInv'
  BY <1>1 DEF Shape, ChannelInv, ChannelTypeOK, channelVars
<1>3. Quiet'
  BY <1>1 DEF Shape, Quiet, IsOpen, channelVars, Nothing, client, server
<1> QED
  BY <1>1, <1>2, <1>3, SameInv

LEMMA FlushInv ==
  ASSUME Shape, Flush
  PROVE  Keeps
<1> USE DEF Shape
<1>1. /\ Pipe' = Pipe
      /\ up' \in Seq([message : Message, last : BOOLEAN])
      /\ outbox' \in Seq(Message)
  BY PipeFlushed
<1>2. /\ UNCHANGED <<case, user, nextId, calls, turn, active, execs, down, mixed>>
      /\ UNCHANGED <<service, state, wait, uptime, retries, makes, breaks>>
      /\ IsOpen
      /\ plan' = plan
  BY DEF Flush, server, channelVars, plan
<1>3. ChannelInv' /\ Quiet'
  BY <1>2 DEF ChannelInv, ChannelTypeOK, Quiet, IsOpen
<1>4. Types' /\ Few' /\ Entries' /\ OncePerConnection'
  BY <1>1, <1>2 DEF Types, Few, Subscribed, Entries, OncePerConnection
<1>5. Messages' /\ Execs' /\ Answers' /\ Wants'
  BY <1>1, <1>2 DEF Messages, MessageOK, Execs, Bounded, Answers, Wants, Wanted
<1>6. NamedOnce' /\ Unsent' /\ (Ordered => Ordered')
  BY <1>1, <1>2 DEF NamedOnce, Unsent, Ordered
<1>7. Shape'
  BY <1>3, <1>4, <1>5, <1>6
<1> SUFFICES ASSUME Fit, ~mixed' PROVE Fit'
  BY <1>7 DEF Keeps
<1> USE DEF Fit
<1>8. Owned' /\ Values'
  BY <1>1, <1>2 DEF Owned, OwnedBy, Values, ExecOK
<1>9. Flows' /\ Final'
  BY <1>1, <1>2 DEF Flows, Flow, Final
<1> QED
  BY <1>6, <1>8, <1>9

\* Without messages and executions most has nothing to be about.
LEMMA LoseInv ==
  ASSUME Lose
  PROVE  /\ DOMAIN Pipe' = {} /\ DOMAIN execs' = {} /\ DOMAIN active' = {} /\ DOMAIN down' = {}
         /\ Quiet' /\ Messages' /\ Execs' /\ Answers' /\ Wants' /\ NamedOnce' /\ OncePerConnection'
         /\ Values' /\ Ordered' /\ Flows'
         /\ outbox' \in Seq(Message) /\ up' \in Seq([message : Message, last : BOOLEAN])
         /\ turn' \in BOOLEAN /\ execs' \in Seq(Executing) /\ down' \in Seq(Answering)
         /\ active' \in [DOMAIN active' -> Nat]
<1>1. \A S : <<>> \in Seq(S) /\ Len(<<>>) = 0 /\ DOMAIN <<>> = {} /\ <<>> \in [{} -> S]
  OBVIOUS
<1>2. DOMAIN Pipe' = {}
  BY <1>1 DEF Lose, Pipe, Length
<1>3. DOMAIN execs' = {} /\ DOMAIN active' = {} /\ DOMAIN down' = {}
  BY <1>1 DEF Lose
<1>4. Quiet'
  BY DEF Lose, Quiet
<1>5. Messages' /\ NamedOnce' /\ Ordered' /\ Flows'
  BY <1>2, <1>3 DEF Messages, NamedOnce, Ordered, Flows
<1>6. Execs' /\ Answers' /\ Wants' /\ OncePerConnection' /\ Values'
  BY <1>2, <1>3 DEF Execs, Answers, Wants, OncePerConnection, Values
<1>7. /\ outbox' \in Seq(Message) /\ up' \in Seq([message : Message, last : BOOLEAN])
      /\ turn' \in BOOLEAN /\ execs' \in Seq(Executing) /\ down' \in Seq(Answering)
      /\ active' \in [DOMAIN active' -> Nat]
  BY <1>1, <1>3 DEF Lose
<1> QED
  BY <1>2, <1>3, <1>4, <1>5, <1>6, <1>7

LEMMA DisconnectInv ==
  ASSUME Shape, Disconnect
  PROVE  Keeps
<1> USE DEF Shape
<1>1. Lose /\ Close /\ UNCHANGED <<case, user, nextId, calls, mixed>> /\ plan' = plan
  BY DEF Disconnect, plan
<1>2. ChannelInv'
  BY <1>1, MaxBreaksAssumption DEF ChannelInv, ChannelTypeOK, Close, Breaks, Closed
<1>3. Types' /\ Few' /\ Entries'
  BY <1>1, LoseInv DEF Types, Few, Subscribed, Entries
<1>4. Unsent' /\ Final'
  BY <1>1, LoseInv DEF Unsent, Final
<1>5. Shape'
  BY <1>1, <1>2, <1>3, <1>4, LoseInv
<1> SUFFICES ASSUME Fit, ~mixed' PROVE Fit'
  BY <1>5 DEF Keeps
<1> USE DEF Fit
<1>6. Owned'
  BY <1>1, LoseInv DEF Owned, OwnedBy
<1> QED
  BY <1>1, <1>4, <1>6, LoseInv

LEMMA DisposeInv ==
  ASSUME Shape, Dispose
  PROVE  Keeps
<1> USE DEF Shape
<1>1. /\ Lose /\ Stop /\ calls' = <<>> /\ UNCHANGED <<case, nextId, mixed>> /\ plan' = plan
      /\ user' = [n \in DOMAIN user |->
                   IF n \in Subscribed THEN [user[n] EXCEPT !.state = "over"] ELSE user[n]]
  BY DEF Dispose, plan
<1>2. ChannelInv'
  <2>1. retries' \in 0..MaxBreaks /\ retries' + breaks' <= MaxBreaks
    BY <1>1, MaxBreaksAssumption DEF ChannelInv, ChannelTypeOK, Stop
  <2> QED
    BY <1>1, <2>1, Zenon DEF ChannelInv, ChannelTypeOK, Stop
<1>3. DOMAIN calls' = {} /\ calls' \in [DOMAIN calls' -> Calling]
  BY <1>1
<1>4. user \in Seq(User) /\ Len(user) \in Nat /\ DOMAIN user = 1..Len(user)
  BY DEF Types
<1>5. \A n \in DOMAIN user : user'[n] \in User
  <2> SUFFICES ASSUME NEW n \in DOMAIN user PROVE user'[n] \in User
    OBVIOUS
  <2>1. user[n] \in User
    BY <1>4
  <2>2. [user[n] EXCEPT !.state = "over"] \in User
    BY <2>1 DEF User
  <2> QED
    BY <1>1, <2>1, <2>2
<1>6. user' \in Seq(User) /\ Len(user') = Len(user) /\ DOMAIN user' = DOMAIN user
  <2>1. user' = [n \in 1..Len(user) |-> user'[n]]
    BY <1>1, <1>4
  <2> HIDE DEF User
  <2> QED
    BY <1>4, <1>5, <2>1
<1>7. Types'
  BY <1>1, <1>3, <1>6, LoseInv DEF Types
<1>8. Subscribed' = Subscribed
  <2>1. \A n \in DOMAIN user :
          user'[n].state \in {"waiting", "over"} <=> user[n].state \in {"waiting", "over"}
    BY <1>1, <1>4 DEF Subscribed, User
  <2> QED
    BY <1>6, <2>1 DEF Subscribed
<1>9. Few' /\ Entries' /\ Unsent' /\ Final'
  BY <1>1, <1>3, <1>8, LoseInv DEF Few, Entries, Unsent, Final
<1>10. Owned'
  <2> PICK own : own = [id \in Id |-> 0]
    OBVIOUS
  <2>1. own \in [Id -> 0..Len(user')] /\ \A id \in Id : own[id] = 0
    BY <1>4, <1>6
  <2>2. OwnedBy(own)'
    BY <1>1, <1>3, <2>1, LoseInv DEF OwnedBy
  <2> QED
    BY <2>1, <2>2 DEF Owned
<1> QED
  BY <1>1, <1>2, <1>7, <1>9, <1>10, LoseInv DEF Keeps, Fit

LEMMA InitInv ==
  ASSUME Init
  PROVE  Shape /\ Fit
<1>1. \A S : <<>> \in Seq(S) /\ Len(<<>>) = 0 /\ DOMAIN <<>> = {} /\ <<>> \in [{} -> S]
  OBVIOUS
<1>2. case \in Cases /\ plan \in Seq(Kind) /\ Len(plan) \in Nat
  BY CasesAssumption DEF Init, plan
<1>3. DOMAIN Pipe = {} /\ DOMAIN execs = {} /\ DOMAIN active = {} /\ DOMAIN down = {}
      /\ DOMAIN calls = {} /\ DOMAIN user = {} /\ Len(user) = 0
  BY <1>1 DEF Init, Pipe, Length
<1>4. ChannelInv
  <2>1. retries \in 0..MaxBreaks /\ retries + breaks <= MaxBreaks
    BY MaxBreaksAssumption DEF Init, ChannelInit
  <2> QED
    BY <2>1, Zenon DEF Init, ChannelInit, ChannelInv, ChannelTypeOK
<1>5. Types
  <2>1. nextId \in Id
    BY SizesAssumption DEF Init, Id
  <2>2. Len(user) <= Len(plan)
    BY <1>2, <1>3
  <2> HIDE DEF Id
  <2> QED
    BY <1>1, <1>2, <1>3, <2>1, <2>2 DEF Init, Types
<1>6. Quiet /\ Entries /\ Messages /\ Execs /\ NamedOnce /\ Unsent
  BY <1>3 DEF Init, Quiet, Entries, Messages, Execs, NamedOnce, Unsent
<1>7. Answers /\ Wants /\ OncePerConnection /\ Values /\ Ordered /\ Flows /\ Final
  BY <1>3 DEF Answers, Wants, OncePerConnection, Values, Ordered, Flows, Final
<1>8. Few
  <2>1. Subscribed = {}
    BY <1>3 DEF Subscribed
  <2> QED
    BY <2>1, FS_EmptySet, SizesAssumption DEF Few
<1>9. Owned
  <2> DEFINE own == [id \in Id |-> 0]
  <2>1. own \in [Id -> 0..Len(user)] /\ OwnedBy(own)
    BY <1>3 DEF OwnedBy
  <2> QED
    BY <2>1 DEF Owned
<1> QED
  BY <1>4, <1>5, <1>6, <1>7, <1>8, <1>9 DEF Shape, Fit

-----------------------------------------------------------------------------
(* An execution goes on.                                                   *)

LEMMA ConcatMembers ==
  ASSUME NEW S, NEW s \in Seq(S), NEW t \in Seq(S)
  PROVE  /\ s \o t \in Seq(S)
         /\ \A k \in DOMAIN (s \o t) :
              \/ k \in DOMAIN s /\ (s \o t)[k] = s[k]
              \/ \E j \in DOMAIN t : (s \o t)[k] = t[j]
<1>1. /\ s \o t \in Seq(S)
      /\ DOMAIN (s \o t) = 1..(Len(s) + Len(t))
      /\ Len(s) \in Nat /\ Len(t) \in Nat /\ DOMAIN s = 1..Len(s) /\ DOMAIN t = 1..Len(t)
      /\ \A k \in 1..(Len(s) + Len(t)) :
           (s \o t)[k] = IF k <= Len(s) THEN s[k] ELSE t[k - Len(s)]
  OBVIOUS
<1>2. ASSUME NEW k \in DOMAIN (s \o t), ~(k <= Len(s)) PROVE k - Len(s) \in DOMAIN t
  BY <1>1, <1>2
<1> QED
  BY <1>1, <1>2

LEMMA ExecsType ==
  ASSUME Types
  PROVE  /\ execs \in Seq(Executing) /\ Len(execs) \in Nat /\ DOMAIN execs = 1..Len(execs)
         /\ \A i \in DOMAIN execs : execs[i] \in Executing
<1> HIDE DEF Executing
<1> QED
  BY DEF Types

LEMMA UserType ==
  ASSUME Types
  PROVE  /\ user \in Seq(User) /\ Len(user) \in Nat /\ DOMAIN user = 1..Len(user)
         /\ \A n \in DOMAIN user : user[n] \in User /\ user[n].sent \in Nat
<1>1. /\ user \in Seq(User) /\ Len(user) \in Nat /\ DOMAIN user = 1..Len(user)
      /\ \A n \in DOMAIN user : user[n] \in User
  <2> HIDE DEF User
  <2> QED
    BY DEF Types
<1> QED
  BY <1>1 DEF User

\* What an execution may become by itself.
LEMMA StepInv ==
  ASSUME Shape, NEW i \in DOMAIN execs, NEW e \in Executing, NEW as, NEW ms \in Seq(Answering),
         Step(i, e, as, ms),
         Bounded(e), ExecOK(execs[i]) => ExecOK(e), e.call = execs[i].call, e.id = execs[i].id, e.request = execs[i].request,
         execs[i].stage # "ended",
         e.stage \in Live => execs[i].stage \in Live /\ Taken(e) = Taken(execs[i]),
         as \in [DOMAIN as -> Nat],
         \A id \in DOMAIN as :
           id \in DOMAIN active /\ as[id] = active[id] /\ (active[id] = i => e.stage \in Live),
         \A k \in DOMAIN ms : ms[k].id = e.id /\ ms[k].call = e.call /\ (ms[k].type = "data" => ms[k].value # 0)
  PROVE  Keeps
<1> USE DEF Shape
<1>1. /\ UNCHANGED <<case, user, nextId, calls, outbox, up, turn, mixed>> /\ UNCHANGED channelVars
      /\ execs' = [execs EXCEPT ![i] = e] /\ active' = as /\ down' = down \o ms
      /\ plan' = plan /\ Pipe' = Pipe
  BY PipeSame DEF Step, client, plan
<1>2. /\ execs \in Seq(Executing) /\ DOMAIN execs = 1..Len(execs)
      /\ \A j \in DOMAIN execs : execs[j] \in Executing
  BY ExecsType
<1>3. /\ DOMAIN execs' = DOMAIN execs
      /\ execs'[i] = e
      /\ \A j \in DOMAIN execs : j # i => execs'[j] = execs[j]
  BY <1>1, <1>2
<1>4. execs' \in Seq(Executing)
  <2> HIDE DEF Executing
  <2> QED
    BY <1>1, <1>2
<1>5. /\ down' \in Seq(Answering)
      /\ \A k \in DOMAIN down' : \/ k \in DOMAIN down /\ down'[k] = down[k]
                                 \/ /\ down'[k].id = e.id /\ down'[k].call = e.call /\ down'[k] \in Answering
                                    /\ down'[k].type = "data" => down'[k].value # 0
  <2>1. /\ \A k \in DOMAIN ms : ms[k] \in Answering
        /\ down \in Seq(Answering)
    <3> HIDE DEF Answering
    <3> QED
      BY DEF Types
  <2> HIDE DEF Answering
  <2> QED
    BY <1>1, <2>1, ConcatMembers
<1>6. DOMAIN active' \subseteq Id /\ active' \in [DOMAIN active' -> Nat]
  BY <1>1 DEF Types
<1>7. Types'
  BY <1>1, <1>4, <1>5, <1>6 DEF Types
<1>8. ChannelInv' /\ Quiet'
  <2>1. execs # <<>>
    BY <1>2
  <2>2. IsOpen /\ IsOpen'
    BY <1>1, <2>1 DEF Quiet, IsOpen, channelVars
  <2>3. ChannelInv'
    BY <1>1 DEF ChannelInv, ChannelTypeOK, channelVars
  <2> QED
    BY <2>2, <2>3 DEF Quiet
<1>9. Few' /\ Entries' /\ Messages' /\ (Ordered => Ordered')
  BY <1>1 DEF Few, Subscribed, Entries, Messages, MessageOK, Ordered
<1>10. Execs'
  <2>1. ASSUME NEW j \in DOMAIN execs PROVE Bounded(execs'[j]) /\ execs'[j].call \in DOMAIN user
    BY <1>3 DEF Execs
  <2>2. ASSUME NEW id \in DOMAIN active'
        PROVE  /\ active'[id] \in DOMAIN execs'
               /\ execs'[active'[id]].id = id
               /\ execs'[active'[id]].stage \in Live
               /\ execs'[active'[id]].request # "cut"
    <3>1. /\ id \in DOMAIN active /\ active'[id] = active[id]
          /\ active[id] \in DOMAIN execs /\ execs[active[id]].id = id
          /\ execs[active[id]].stage \in Live /\ execs[active[id]].request # "cut"
          /\ active[id] = i => e.stage \in Live
      BY <1>1 DEF Execs
    <3> QED
      BY <1>3, <3>1
  <2> QED
    BY <1>1, <1>3, <2>1, <2>2 DEF Execs
<1>11. \A j \in DOMAIN execs : /\ execs'[j].call = execs[j].call
                               /\ execs'[j].id = execs[j].id
                               /\ execs'[j].request = execs[j].request
                               /\ execs[j].stage = "ended" => execs'[j].stage = "ended"
                               /\ execs'[j].stage \in Live =>
                                    execs[j].stage \in Live /\ Taken(execs'[j]) = Taken(execs[j])
  BY <1>3
<1>12. NamedOnce' /\ Unsent' /\ OncePerConnection'
  BY <1>1, <1>3, <1>11 DEF NamedOnce, Unsent, OncePerConnection
<1>13. Answers' /\ Wants'
  <2>1. e.call \in DOMAIN user /\ (e.id # 0 => Wanted(e.id, e.call)) /\ \A m \in Answering : m.id # 0
    BY <1>1 DEF Execs, Wants, Answering, Id, Wanted
  <2>2. Answers'
    BY <1>1, <1>5, <2>1 DEF Answers
  <2>3. \A id, n : Wanted(id, n)' = Wanted(id, n)
    BY <1>1 DEF Wanted
  <2>4. Wants'
    BY <1>1, <1>3, <1>5, <1>11, <2>1, <2>3 DEF Wants
  <2> QED
    BY <2>2, <2>4
<1>14. Shape'
  BY <1>7, <1>8, <1>9, <1>10, <1>12, <1>13
<1> SUFFICES ASSUME Fit, ~mixed' PROVE Fit'
  BY <1>14 DEF Keeps
<1> USE DEF Fit
<1>15. Values'
  BY <1>3 DEF Values
<1>16. Owned'
  <2>1. PICK own \in [Id -> 0..Len(user)] : OwnedBy(own)
    BY DEF Owned
  <2>2. \A k \in DOMAIN down' : own[down'[k].id] = down'[k].call
    <3>1. e.id # 0 => own[e.id] = e.call
      BY <2>1 DEF OwnedBy
    <3>2. \A k \in DOMAIN down' : down'[k] \in Answering => down'[k].id # 0
      BY DEF Answering, Id
    <3> QED
      BY <1>5, <2>1, <3>1, <3>2 DEF OwnedBy
  <2>3. \A j \in DOMAIN execs' :
          execs'[j].stage # "ended" /\ execs'[j].id # 0 => own[execs'[j].id] = execs'[j].call
    BY <1>3, <1>11, <2>1 DEF OwnedBy
  <2>4. OwnedBy(own)'
    BY <1>1, <2>1, <2>2, <2>3 DEF OwnedBy
  <2> QED
    BY <1>1, <2>4 DEF Owned
<1>17. Flows'
  <2>1. ASSUME NEW id \in DOMAIN active'
        PROVE  /\ id \in DOMAIN active
               /\ execs'[active'[id]].call = execs[active[id]].call
               /\ Taken(execs'[active'[id]]) = Taken(execs[active[id]])
    <3>1. id \in DOMAIN active /\ active'[id] = active[id] /\ active[id] \in DOMAIN execs
      BY <1>1 DEF Execs
    <3>2. execs'[active[id]].stage \in Live
      BY <1>3, <1>10, <3>1 DEF Execs
    <3> QED
      BY <1>11, <3>1, <3>2
  <2> QED
    BY <1>1, <2>1 DEF Flows
<1>18. Final'
  <2>1. \A id \in DOMAIN calls' :
          calls'[id].request = "open" =>
            /\ \A k \in DOMAIN Pipe' : Speaks(Pipe'[k], calls'[id].call) => Pipe'[k].type = "data"
            /\ \A j \in DOMAIN execs' : execs'[j].call = calls'[id].call /\ execs'[j].stage \in Live =>
                                          execs'[j].request # "done"
    BY <1>1, <1>3, <1>11 DEF Final
  <2>2. \A j \in DOMAIN execs' :
          execs'[j].stage \in Live /\ execs'[j].request = "done" =>
            /\ Count(Taken(execs'[j])) = user'[execs'[j].call].sent
            /\ \A k \in DOMAIN Pipe' : ~Speaks(Pipe'[k], execs'[j].call)
    BY <1>1, <1>3, <1>11 DEF Final
  <2> QED
    BY <2>1, <2>2 DEF Final
<1> QED
  BY <1>9, <1>15, <1>16, <1>17, <1>18

LEMMA ExecutionInv ==
  ASSUME Shape, NEW i \in DOMAIN execs,
         CheckPass(i) \/ ExecFail(i) \/ ExecEnd(i, 0) \/ ExecEnd(i, 1) \/ ExecAnswer(i)
  PROVE  Keeps
<1> USE DEF Shape
<1>1. PICK e : e = execs[i]
  OBVIOUS
<1>2. e \in Executing /\ Bounded(e) /\ e.said \in Nat
  BY <1>1, ExecsType DEF Execs, Executing
<1>3. /\ active \in [DOMAIN active -> Nat] /\ DOMAIN active \subseteq Id
      /\ \A id \in DOMAIN active : execs[active[id]].id = id /\ execs[active[id]].stage \in Live
  BY DEF Types, Execs
<1>4. \A m \in Answering : <<m>> \in Seq(Answering) /\ DOMAIN <<m>> = {1} /\ <<m>>[1] = m
  <2> HIDE DEF Answering
  <2> QED
    OBVIOUS
<1>5. <<>> \in Seq(Answering) /\ DOMAIN <<>> = {}
  OBVIOUS
<1>6. e.id # 0 => \A type \in Speech, v \in Nat : Answer(e.call, e.id, type, v) \in Answering
  BY <1>2 DEF Executing, Answering, Answer, Id
<1>7. CASE CheckPass(i)
  <2> DEFINE f == [e EXCEPT !.stage = "run", !.seen = e.buffer, !.buffer = <<>>]
  <2>1. e.stage = "check" /\ Step(i, f, active, <<>>)
    BY <1>1, <1>7 DEF CheckPass
  <2>2. /\ f.call = e.call /\ f.id = e.id /\ f.request = e.request /\ f.stage = "run"
        /\ f.seen = e.buffer /\ f.buffer = <<>> /\ f.said = e.said
        /\ f \in Executing
    <3>1. e.buffer \in Seq(Nat) /\ <<>> \in Seq(Nat)
      BY <1>2 DEF Executing
    <3> QED
      BY <1>2, <3>1 DEF Executing, Stages
  <2>3. Taken(f) = Taken(e) /\ f.stage \in Live /\ e.stage \in Live /\ e.stage # "ended"
        /\ Taken(e) = f.seen
    BY <2>1, <2>2 DEF Taken, Live
  <2>4. Bounded(f) /\ (ExecOK(e) => ExecOK(f))
    <3>1. Len(f.buffer) <= BufferSize
      BY <2>2, SizesAssumption
    <3> QED
      BY <1>2, <2>1, <2>2, <2>3, <3>1 DEF ExecOK, Bounded
  <2> HIDE DEF f
  <2> QED
    BY <1>1, <1>3, <1>5, <2>1, <2>2, <2>3, <2>4, StepInv
<1>8. ASSUME NEW ms, End(i, ms), e.stage # "ended",
             e.id # 0 => /\ ms \in Seq(Answering)
                         /\ \A k \in DOMAIN ms : /\ ms[k].id = e.id /\ ms[k].call = e.call
                                                 /\ ms[k].type # "data"
      PROVE  Keeps
  <2> DEFINE f == [e EXCEPT !.stage = "ended"]
             as == IF e.stage = "static" THEN active ELSE Without(active, e.id)
             said == IF e.id = 0 THEN <<>> ELSE ms
  <2>1. Step(i, f, as, said)
    BY <1>1, <1>8 DEF End
  <2>2. /\ f.call = e.call /\ f.id = e.id /\ f.request = e.request /\ f.stage = "ended"
        /\ f.seen = e.seen /\ f.buffer = e.buffer
        /\ f \in Executing
    BY <1>2 DEF Executing, Stages
  <2>3. Bounded(f) /\ (ExecOK(e) => ExecOK(f))
    <3>1. ExecOK(e) => Rising(Taken(f))
      BY <1>2, <2>2 DEF ExecOK, Taken
    <3> QED
      BY <1>2, <2>2, <3>1 DEF ExecOK, Bounded, Live
  <2>4. as \in [DOMAIN as -> Nat]
        /\ \A id \in DOMAIN as : id \in DOMAIN active /\ as[id] = active[id] /\ active[id] # i
    BY <1>1, <1>3 DEF Without, Restrict, Live
  <2>5. /\ said \in Seq(Answering)
        /\ \A k \in DOMAIN said : /\ said[k].id = f.id /\ said[k].call = f.call
                                  /\ said[k].type # "data"
    BY <1>5, <1>8, <2>2
  <2>6. f.stage \notin Live
    BY <2>2 DEF Live
  <2> HIDE DEF f, as, said
  <2>7. /\ \A k \in DOMAIN said : /\ said[k].id = f.id /\ said[k].call = f.call
                                  /\ said[k].type = "data" => said[k].value # 0
        /\ \A id \in DOMAIN as :
             id \in DOMAIN active /\ as[id] = active[id] /\ (active[id] = i => f.stage \in Live)
        /\ f.stage \in Live => execs[i].stage \in Live /\ Taken(f) = Taken(execs[i])
    BY <2>4, <2>5, <2>6
  <2> QED
    BY <1>1, <1>8, <2>1, <2>2, <2>3, <2>4, <2>5, <2>7, StepInv
<1>9. CASE ExecFail(i)
  <2>1. /\ e.stage # "ended" /\ End(i, <<Answer(e.call, e.id, "error", 0)>>)
    BY <1>1, <1>9 DEF ExecFail
  <2>2. PICK m : m = Answer(e.call, e.id, "error", 0)
    OBVIOUS
  <2>3. m.id = e.id /\ m.call = e.call /\ m.type # "data" /\ (e.id # 0 => m \in Answering)
    <3>1. e.id # 0 => m \in Answering
      BY <1>6, <2>2 DEF Speech
    <3> QED
      BY <2>2, <3>1 DEF Answer
  <2>4. e.id # 0 => /\ <<m>> \in Seq(Answering)
                    /\ \A k \in DOMAIN <<m>> : /\ <<m>>[k].id = e.id /\ <<m>>[k].call = e.call
                                          /\ <<m>>[k].type # "data"
    BY <1>4, <2>3
  <2> QED
    BY <1>8, <2>1, <2>2, <2>4
<1>10. ASSUME NEW v \in {0, 1}, ExecEnd(i, v) PROVE Keeps
  <2>1. /\ e.stage # "ended" /\ End(i, <<Answer(e.call, e.id, "complete", v)>>)
    BY <1>1, <1>10 DEF ExecEnd
  <2>2. PICK m : m = Answer(e.call, e.id, "complete", v)
    OBVIOUS
  <2>3. m.id = e.id /\ m.call = e.call /\ m.type # "data" /\ (e.id # 0 => m \in Answering)
    <3>1. e.id # 0 => m \in Answering
      BY <1>6, <2>2 DEF Speech
    <3> QED
      BY <2>2, <3>1 DEF Answer
  <2>4. e.id # 0 => /\ <<m>> \in Seq(Answering)
                    /\ \A k \in DOMAIN <<m>> : /\ <<m>>[k].id = e.id /\ <<m>>[k].call = e.call
                                          /\ <<m>>[k].type # "data"
    BY <1>4, <2>3
  <2> QED
    BY <1>8, <2>1, <2>2, <2>4
<1>11. CASE ExecAnswer(i)
  <2> DEFINE f == [e EXCEPT !.said = @ + 1]
             m == Answer(e.call, e.id, "data", e.said + 1)
  <2>1. e.stage = "run" /\ e.id # 0 /\ Step(i, f, active, <<m>>)
    BY <1>1, <1>11 DEF ExecAnswer
  <2>2. /\ f.call = e.call /\ f.id = e.id /\ f.request = e.request /\ f.stage = e.stage
        /\ f.seen = e.seen /\ f.buffer = e.buffer
        /\ f \in Executing
    BY <1>2 DEF Executing
  <2>3. Taken(f) = Taken(e) /\ f.stage \in Live /\ e.stage \in Live /\ e.stage # "ended"
    BY <2>1, <2>2 DEF Taken, Live
  <2>4. Bounded(f) /\ (ExecOK(e) => ExecOK(f))
    BY <1>2, <2>2, <2>3 DEF ExecOK, Bounded
  <2>5. m \in Answering /\ m.id = f.id /\ m.call = f.call /\ m.value # 0
    <3>1. m \in Answering
      BY <1>2, <1>6, <2>1 DEF Speech
    <3> QED
      BY <1>2, <2>2, <3>1 DEF Answer
  <2> HIDE DEF f, m
  <2>6. /\ <<m>> \in Seq(Answering)
        /\ \A k \in DOMAIN <<m>> : /\ <<m>>[k].id = f.id /\ <<m>>[k].call = f.call
                                   /\ <<m>>[k].type = "data" => <<m>>[k].value # 0
    BY <1>4, <2>5
  <2> QED
    BY <1>1, <1>3, <2>1, <2>2, <2>3, <2>4, <2>6, StepInv
<1> QED
  BY <1>7, <1>9, <1>10, <1>11

-----------------------------------------------------------------------------
(* The server handles the next message.                                    *)

\* What the first message of the queue tells of the values of call n.
LEMMA Heard ==
  ASSUME Shape, Ordered, up # <<>>, up' = Tail(up), outbox' = outbox,
         NEW m, m = Head(up).message, NEW n, NEW sent \in Nat, NEW g \in Nat, Flow(Pipe, n, sent, g)
  PROVE  /\ ~Speaks(m, n) => Flow(Pipe', n, sent, g)
         /\ Speaks(m, n) /\ m.value # 0 => m.value = g + 1 /\ Flow(Pipe', n, sent, g + 1)
         /\ Speaks(m, n) /\ m.value = 0 => sent = g /\ Flow(Pipe', n, sent, g)
         /\ m.type = "complete" /\ m.call = n /\ m.value # 0 => sent = g + 1
<1> USE DEF Shape
<1>1. /\ 1 \in DOMAIN Pipe /\ Pipe[1] = m
      /\ \A k \in DOMAIN Pipe' : k + 1 \in DOMAIN Pipe /\ Pipe'[k] = Pipe[k + 1]
      /\ \A k \in DOMAIN Pipe : k # 1 => k - 1 \in DOMAIN Pipe' /\ Pipe'[k - 1] = Pipe[k]
  BY PipeServed
<1>2. /\ DOMAIN Pipe \subseteq Nat \ {0}
      /\ \A k \in DOMAIN Pipe : Pipe[k].value \in Nat
  <2>1. Length \in Nat /\ DOMAIN Pipe = 1..Length /\ \A k \in DOMAIN Pipe : Pipe[k] \in Message
    BY PipeType
  <2>2. \A x \in Message : x.value \in Nat
    BY DEF Message
  <2> QED
    BY <2>1, <2>2
<1>3. /\ g <= sent
      /\ \A k \in DOMAIN Pipe : Speaks(Pipe[k], n) /\ Pipe[k].value # 0 => Pipe[k].value \in (g + 1)..sent
      /\ \A v \in (g + 1)..sent : \E k \in DOMAIN Pipe : Speaks(Pipe[k], n) /\ Pipe[k].value = v
  BY DEF Flow
<1>4. \A k \in DOMAIN Pipe' : k \in Nat \ {0}
  BY <1>1, <1>2, PipeServed
<1>5. ASSUME ~Speaks(m, n) PROVE Flow(Pipe', n, sent, g)
  <2>1. \A k \in DOMAIN Pipe' :
          Speaks(Pipe'[k], n) /\ Pipe'[k].value # 0 => Pipe'[k].value \in (g + 1)..sent
    BY <1>1, <1>3
  <2>2. \A v \in (g + 1)..sent : \E k \in DOMAIN Pipe' : Speaks(Pipe'[k], n) /\ Pipe'[k].value = v
    BY <1>1, <1>3, <1>5
  <2> QED
    BY <1>3, <2>1, <2>2 DEF Flow
<1>6. ASSUME Speaks(m, n), NEW k \in DOMAIN Pipe', Speaks(Pipe'[k], n)
      PROVE  /\ m.type = "data"
             /\ Pipe'[k].value # 0 => m.value < Pipe'[k].value
  <2>1. k + 1 \in DOMAIN Pipe /\ Pipe'[k] = Pipe[k + 1] /\ 1 < k + 1
    BY <1>1, <1>4
  <2>2. Speaks(Pipe[1], Pipe[k + 1].call) /\ Speaks(Pipe[k + 1], Pipe[k + 1].call)
    BY <1>1, <1>6, <2>1 DEF Speaks
  <2> QED
    BY <1>1, <2>1, <2>2 DEF Ordered
<1>7. ASSUME Speaks(m, n), m.value # 0
      PROVE  m.value = g + 1 /\ Flow(Pipe', n, sent, g + 1)
  <2>1. m.value \in (g + 1)..sent
    BY <1>1, <1>3, <1>7
  <2>2. m.value = g + 1
    <3>1. PICK k \in DOMAIN Pipe : Speaks(Pipe[k], n) /\ Pipe[k].value = g + 1
      BY <1>3, <2>1
    <3>2. CASE k # 1
      BY <1>1, <1>6, <1>7, <2>1, <3>1, <3>2
    <3> QED
      BY <1>1, <3>1, <3>2
  <2>3. ASSUME NEW k \in DOMAIN Pipe', Speaks(Pipe'[k], n), Pipe'[k].value # 0
        PROVE  Pipe'[k].value \in (g + 2)..sent
    BY <1>1, <1>3, <1>6, <1>7, <2>2, <2>3
  <2>4. ASSUME NEW v \in (g + 2)..sent
        PROVE  \E k \in DOMAIN Pipe' : Speaks(Pipe'[k], n) /\ Pipe'[k].value = v
    <3>1. PICK k \in DOMAIN Pipe : Speaks(Pipe[k], n) /\ Pipe[k].value = v
      BY <1>3
    <3>2. k # 1
      BY <1>1, <2>2, <3>1
    <3> QED
      BY <1>1, <3>1, <3>2
  <2>5. g + 1 <= sent /\ (g + 1) + 1 = g + 2
    BY <2>1
  <2> QED
    BY <2>2, <2>3, <2>4, <2>5 DEF Flow
<1>8. ASSUME Speaks(m, n), m.type # "data"
      PROVE  \A k \in DOMAIN Pipe : Speaks(Pipe[k], n) => k = 1
  BY <1>1, <1>6, <1>8
<1>9. ASSUME Speaks(m, n), m.value = 0
      PROVE  sent = g /\ Flow(Pipe', n, sent, g)
  <2>1. m.type # "data"
    BY <1>1, <1>9 DEF Messages, MessageOK
  <2>2. sent = g
    <3>1. ASSUME g + 1 \in (g + 1)..sent PROVE FALSE
      BY <1>1, <1>3, <1>8, <1>9, <2>1, <3>1
    <3> QED
      BY <1>3, <3>1
  <2> QED
    BY <1>6, <1>9, <2>1, <2>2 DEF Flow
<1>10. ASSUME m.type = "complete", m.call = n, m.value # 0
       PROVE  sent = g + 1
  <2>1. Speaks(m, n)
    BY <1>10 DEF Speaks, Speech
  <2>2. m.value = g + 1 /\ g + 1 <= sent
    BY <1>7, <1>10, <2>1 DEF Flow
  <2>3. ASSUME g + 2 \in (g + 1)..sent PROVE FALSE
    <3>1. PICK k \in DOMAIN Pipe : Speaks(Pipe[k], n) /\ Pipe[k].value = g + 2
      BY <1>3, <2>3
    <3> QED
      BY <1>1, <1>8, <1>10, <2>1, <2>2, <3>1
  <2> QED
    BY <2>2, <2>3
<1> QED
  BY <1>5, <1>7, <1>9, <1>10

LEMMA OpenedOK ==
  ASSUME NEW e \in Executing, NEW f \in {e, Opened(e)}
  PROVE  /\ f \in Executing
         /\ f.call = e.call /\ f.id = e.id /\ f.request = e.request
         /\ Taken(f) = Taken(e)
         /\ f.stage \in Live <=> e.stage \in Live
         /\ f.stage = "ended" <=> e.stage = "ended"
         /\ ExecOK(e) => ExecOK(f)
         /\ Bounded(e) => Bounded(f)
<1>1. CASE f = e
  BY <1>1
<1>2. CASE f = Opened(e) /\ e.stage = "opening"
  <2>1. /\ f.call = e.call /\ f.id = e.id /\ f.request = e.request /\ f.stage = "run"
        /\ f.seen = e.seen /\ f.buffer = <<>>
    BY <1>2 DEF Opened, Executing
  <2>2. f \in Executing
    <3>1. <<>> \in Seq(Nat)
      OBVIOUS
    <3> QED
      BY <1>2, <3>1 DEF Opened, Executing, Stages
  <2>3. Taken(f) = Taken(e) /\ f.stage \in Live /\ e.stage \in Live
    BY <1>2, <2>1 DEF Taken, Live
  <2>4. Len(f.buffer) <= BufferSize
    BY <2>1, SizesAssumption
  <2>5. (ExecOK(e) => ExecOK(f)) /\ (Bounded(e) => Bounded(f))
    BY <2>1, <2>3, <2>4 DEF ExecOK, Bounded
  <2> QED
    BY <1>2, <2>1, <2>2, <2>3, <2>5
<1>3. CASE f = Opened(e) /\ e.stage # "opening"
  BY <1>3 DEF Opened
<1> QED
  BY <1>1, <1>2, <1>3

\* What handling message m may make of the executions and their identifiers.
Linked(as, es) ==
  \A id \in DOMAIN as : /\ as[id] \in DOMAIN es
                        /\ es[as[id]].id = id
                        /\ es[as[id]].stage \in Live
                        /\ es[as[id]].request # "cut"

Grown(es, m) ==
  \A i \in DOMAIN es :
    \/ /\ i \in DOMAIN execs /\ es[i].call = execs[i].call /\ es[i].id = execs[i].id
       /\ execs[i].stage = "ended" => es[i].stage = "ended"
    \/ i = Len(execs) + 1 /\ es[i].call = m.call /\ es[i].id = m.id /\ Names(m)

\* p is the rest of the queue.
Filled(p, as, es, m) ==
  \A id \in DOMAIN as :
    \/ id \in DOMAIN active /\ id # m.id /\ es[as[id]] = execs[active[id]]
    \/ /\ id = m.id /\ es[as[id]].call = m.call
       /\ Flow(p, m.call, user[m.call].sent, Count(Taken(es[as[id]])))

Finished(es, m) ==
  \A i \in DOMAIN es :
    es[i].stage \in Live /\ es[i].request = "done" =>
      \/ /\ i \in DOMAIN execs /\ execs[i].stage \in Live /\ execs[i].request = "done"
         /\ es[i].call = execs[i].call /\ Taken(es[i]) = Taken(execs[i])
      \/ /\ es[i].call = m.call /\ m.type = "complete"
         /\ Count(Taken(es[i])) = user[m.call].sent

\* An answer is of the call the message is of, or the execution it is for.
Asked(n, m) ==
  \/ n = m.call
  \/ \E i \in DOMAIN execs : execs[i].stage # "ended" /\ execs[i].id = m.id /\ execs[i].call = n

Replies(ms, m) ==
  \A k \in DOMAIN ms : ms[k].id = m.id /\ ms[k].type # "data" /\ Asked(ms[k].call, m)

AllBounded(es) == \A i \in DOMAIN es : Bounded(es[i])

AllOK(es) == \A i \in DOMAIN es : ExecOK(es[i])

LEMMA ServeInv ==
  ASSUME Shape, up # <<>>, NEW m, m = Head(up).message,
         NEW as, as \in [DOMAIN as -> Nat], DOMAIN as \subseteq Id,
         NEW es \in Seq(Executing), NEW ms \in Seq(Answering), Serve(as, es, ms),
         AllBounded(es), Linked(as, es), Grown(es, m), Replies(ms, m),
         Fit => AllOK(es) /\ Filled(Pipe', as, es, m) /\ Finished(es, m)
  PROVE  Keeps
<1> USE DEF Shape, AllBounded, AllOK, Linked, Grown, Replies, Filled, Finished
<1>1. /\ UNCHANGED <<case, user, nextId, calls, outbox, mixed>> /\ UNCHANGED channelVars
      /\ up' = Tail(up) /\ active' = as /\ down' = down \o ms /\ plan' = plan
      /\ turn' = ~Head(up).last
      /\ execs' = IF Head(up).last THEN [i \in DOMAIN es |-> Opened(es[i])] ELSE es
  BY DEF Serve, client, plan
<1>2. /\ up' \in Seq([message : Message, last : BOOLEAN])
      /\ 1 \in DOMAIN Pipe /\ Pipe[1] = m /\ Head(up).last \in BOOLEAN
      /\ \A k \in DOMAIN Pipe' : k + 1 \in DOMAIN Pipe /\ Pipe'[k] = Pipe[k + 1]
  BY <1>1, PipeServed
<1>3. /\ DOMAIN Pipe \subseteq Nat \ {0} /\ \A k \in DOMAIN Pipe' : k \in Nat \ {0}
      /\ m \in Message
  BY <1>1, <1>2, PipeType, PipeServed
<1>4. MessageOK(m)
  BY <1>2 DEF Messages
<1>5. /\ DOMAIN es = 1..Len(es) /\ Len(es) \in Nat /\ \A i \in DOMAIN es : es[i] \in Executing
      /\ Len(execs) \in Nat /\ DOMAIN execs = 1..Len(execs)
  <2> HIDE DEF Executing
  <2> QED
    BY ExecsType
<1>6. /\ DOMAIN execs' = DOMAIN es
      /\ \A i \in DOMAIN es : execs'[i] \in {es[i], Opened(es[i])}
  BY <1>1
<1>7. \A i \in DOMAIN es :
        /\ execs'[i] \in Executing
        /\ execs'[i].call = es[i].call /\ execs'[i].id = es[i].id /\ execs'[i].request = es[i].request
        /\ Taken(execs'[i]) = Taken(es[i])
        /\ execs'[i].stage \in Live <=> es[i].stage \in Live
        /\ execs'[i].stage = "ended" <=> es[i].stage = "ended"
        /\ Bounded(execs'[i])
        /\ ExecOK(es[i]) => ExecOK(execs'[i])
  <2> HIDE DEF Executing, Live
  <2> QED
    BY <1>5, <1>6, OpenedOK
<1>8. execs' \in Seq(Executing)
  <2>1. execs' = [i \in 1..Len(es) |-> execs'[i]]
    <3>1. CASE Head(up).last
      BY <1>1, <1>5, <3>1
    <3>2. CASE ~Head(up).last
      <4> HIDE DEF Executing
      <4>1. execs' = es
        BY <1>1, <3>2
      <4> QED
        BY <1>5, <4>1
    <3> QED
      BY <3>1, <3>2
  <2> HIDE DEF Executing
  <2> QED
    BY <1>5, <1>7, <2>1
<1>9. /\ down' \in Seq(Answering)
      /\ \A k \in DOMAIN down' :
           \/ k \in DOMAIN down /\ down'[k] = down[k]
           \/ /\ down'[k].id = m.id /\ down'[k].type # "data" /\ Asked(down'[k].call, m)
              /\ down'[k] \in Answering
  <2>1. /\ \A k \in DOMAIN ms : ms[k] \in Answering
        /\ down \in Seq(Answering)
    <3> HIDE DEF Answering
    <3> QED
      BY DEF Types
  <2> HIDE DEF Answering
  <2> QED
    BY <1>1, <2>1, ConcatMembers
<1>10. Types'
  <2>1. turn' \in BOOLEAN
    BY <1>1, <1>2
  <2>2. active' \in [DOMAIN active' -> Nat] /\ DOMAIN active' \subseteq Id
    BY <1>1
  <2> QED
    BY <1>1, <1>2, <1>8, <1>9, <2>1, <2>2 DEF Types
<1>11. ChannelInv' /\ Quiet'
  <2>1. IsOpen /\ IsOpen'
    BY <1>1 DEF Quiet, IsOpen, channelVars
  <2>2. ChannelInv'
    BY <1>1 DEF ChannelInv, ChannelTypeOK, channelVars
  <2> QED
    BY <2>1, <2>2 DEF Quiet
<1>12. Few' /\ Entries' /\ Messages'
  BY <1>1, <1>2 DEF Few, Subscribed, Entries, Messages, MessageOK
<1>13. \A i \in DOMAIN es :
         \/ /\ i \in DOMAIN execs /\ execs'[i].call = execs[i].call /\ execs'[i].id = execs[i].id
            /\ execs[i].stage = "ended" => execs'[i].stage = "ended"
         \/ i = Len(execs) + 1 /\ execs'[i].call = m.call /\ execs'[i].id = m.id /\ Names(m)
  BY <1>7
<1>14. Execs'
  <2>1. \A i \in DOMAIN execs' : Bounded(execs'[i]) /\ execs'[i].call \in DOMAIN user'
    BY <1>1, <1>4, <1>6, <1>7, <1>13 DEF Execs, MessageOK
  <2>2. ASSUME NEW id \in DOMAIN active'
        PROVE  /\ active'[id] \in DOMAIN execs'
               /\ execs'[active'[id]].id = id
               /\ execs'[active'[id]].stage \in Live
               /\ execs'[active'[id]].request # "cut"
    <3>1. PICK i : i = active'[id]
      OBVIOUS
    <3>2. i \in DOMAIN es /\ es[i].id = id /\ es[i].stage \in Live /\ es[i].request # "cut"
      BY <1>1, <3>1
    <3> QED
      BY <1>6, <1>7, <3>1, <3>2
  <2> QED
    BY <2>1, <2>2 DEF Execs
<1>15. NamedOnce'
  <2>1. \A j, k \in DOMAIN Pipe' :
          Names(Pipe'[j]) /\ Names(Pipe'[k]) /\ Pipe'[j].call = Pipe'[k].call => j = k
    <3> SUFFICES ASSUME NEW j \in DOMAIN Pipe', NEW k \in DOMAIN Pipe',
                        Names(Pipe'[j]), Names(Pipe'[k]), Pipe'[j].call = Pipe'[k].call
                 PROVE  j = k
      OBVIOUS
    <3>1. j + 1 = k + 1
      BY <1>2 DEF NamedOnce
    <3> QED
      BY <1>3, <3>1
  <2>2. ASSUME NEW k \in DOMAIN Pipe', NEW i \in DOMAIN execs', Names(Pipe'[k]),
               execs'[i].call = Pipe'[k].call
        PROVE  FALSE
    <3>1. k + 1 \in DOMAIN Pipe /\ Pipe'[k] = Pipe[k + 1] /\ k + 1 # 1
      BY <1>2, <1>3
    <3>2. CASE i \in DOMAIN execs /\ execs'[i].call = execs[i].call
      BY <2>2, <3>1, <3>2 DEF NamedOnce
    <3>3. CASE execs'[i].call = m.call /\ Names(m)
      BY <1>2, <2>2, <3>1, <3>3 DEF NamedOnce
    <3> QED
      BY <1>6, <1>13, <3>2, <3>3
  <2> QED
    BY <2>1, <2>2 DEF NamedOnce
<1>16. OncePerConnection'
  <2>1. ASSUME NEW i \in DOMAIN execs, Names(m) PROVE execs[i].call # m.call
    BY <1>2, <2>1 DEF NamedOnce
  <2>2. ASSUME NEW i \in DOMAIN execs', NEW j \in DOMAIN execs', execs'[i].call = execs'[j].call
        PROVE  i = j
    BY <1>6, <1>13, <2>1, <2>2 DEF OncePerConnection
  <2> QED
    BY <2>2 DEF OncePerConnection
<1>17. Unsent'
  <2> SUFFICES ASSUME NEW id \in DOMAIN calls, NEW n, n = calls[id].call,
                      calls[id].first, calls[id].request = "open"
               PROVE  /\ user[n].sent = 0
                      /\ \A k \in DOMAIN Pipe' : ~Speaks(Pipe'[k], n)
                      /\ \A i \in DOMAIN execs' : execs'[i].call # n
    BY <1>1 DEF Unsent
  <2>1. /\ user[n].sent = 0
        /\ \A k \in DOMAIN Pipe : ~Speaks(Pipe[k], n)
        /\ \A i \in DOMAIN execs : execs[i].call # n
    BY DEF Unsent
  <2>2. plan[n].form = "stream"
    BY DEF Entries
  <2>3. ~(m.call = n /\ Names(m))
    <3>1. ~Speaks(m, n)
      BY <1>2, <2>1
    <3>2. m.type \in Speech \cup {"unsub", "notify"}
      BY <1>3 DEF Message
    <3>3. m.type = "notify" => plan[m.call].form # "stream"
      BY <1>4 DEF MessageOK
    <3>4. m.type = "unsub" => ~Names(m)
      BY <1>4 DEF MessageOK
    <3> QED
      BY <2>2, <3>1, <3>2, <3>3, <3>4 DEF Speaks
  <2> QED
    BY <1>2, <1>6, <1>13, <2>1, <2>3
<1>18. Answers' /\ Wants'
  <2>1. \A n : Asked(n, m) => n \in DOMAIN user /\ (m.id # 0 => Wanted(m.id, n))
    BY <1>2, <1>4 DEF Asked, MessageOK, Execs, Wants
  <2>2. \A x \in Answering : x.id # 0
    BY DEF Answering, Id
  <2>3. \A id, n : Wanted(id, n)' = Wanted(id, n)
    BY <1>1 DEF Wanted
  <2>4. Answers'
    BY <1>1, <1>9, <2>1 DEF Answers
  <2>5. \A k \in DOMAIN Pipe' : Pipe'[k].id # 0 => Wanted(Pipe'[k].id, Pipe'[k].call)
    BY <1>2 DEF Wants
  <2>6. \A i \in DOMAIN execs' : execs'[i].id # 0 => Wanted(execs'[i].id, execs'[i].call)
    BY <1>6, <1>13, <2>1 DEF Wants, Asked
  <2>7. \A k \in DOMAIN down' : Wanted(down'[k].id, down'[k].call)
    BY <1>9, <2>1, <2>2 DEF Wants
  <2> QED
    BY <2>3, <2>4, <2>5, <2>6, <2>7 DEF Wants
<1>19. Shape'
  BY <1>10, <1>11, <1>12, <1>14, <1>15, <1>16, <1>17, <1>18
<1> SUFFICES ASSUME Fit, ~mixed' PROVE Fit'
  BY <1>19 DEF Keeps
<1> USE DEF Fit
<1>20. Values'
  BY <1>6, <1>7 DEF Values
<1>21. PICK own \in [Id -> 0..Len(user)] : OwnedBy(own)
  BY DEF Owned
<1>22. m.id # 0 => own[m.id] = m.call
  BY <1>2, <1>21 DEF OwnedBy
<1>23. Owned'
  <2>1. \A k \in DOMAIN Pipe' : Pipe'[k].id # 0 => own[Pipe'[k].id] = Pipe'[k].call
    BY <1>2, <1>21 DEF OwnedBy
  <2>2. \A k \in DOMAIN down' : own[down'[k].id] = down'[k].call
    <3>1. \A k \in DOMAIN down' : down'[k] \in Answering => down'[k].id # 0
      BY DEF Answering, Id
    <3> QED
      BY <1>9, <1>21, <1>22, <3>1 DEF OwnedBy, Asked
  <2>3. \A i \in DOMAIN execs' :
          execs'[i].stage # "ended" /\ execs'[i].id # 0 => own[execs'[i].id] = execs'[i].call
    BY <1>6, <1>13, <1>21, <1>22 DEF OwnedBy
  <2>4. OwnedBy(own)'
    BY <1>1, <1>21, <2>1, <2>2, <2>3 DEF OwnedBy
  <2> QED
    BY <1>1, <1>21, <2>4 DEF Owned
<1>24. Ordered'
  <2> SUFFICES ASSUME NEW j \in DOMAIN Pipe', NEW k \in DOMAIN Pipe', j < k,
                      Speaks(Pipe'[j], Pipe'[k].call), Speaks(Pipe'[k], Pipe'[k].call)
               PROVE  /\ Pipe'[j].type = "data"
                      /\ ~Names(Pipe'[k])
                      /\ Pipe'[k].value # 0 => Pipe'[j].value < Pipe'[k].value
    BY DEF Ordered
  <2>1. j + 1 < k + 1
    BY <1>3
  <2> QED
    BY <1>2, <2>1 DEF Ordered
<1>25. \A n \in DOMAIN user : user[n].sent \in Nat
  BY UserType
<1>26. Flows'
  <2>1. ASSUME NEW k \in DOMAIN Pipe', NEW n, n = Pipe'[k].call, Speaks(Pipe'[k], n), Names(Pipe'[k])
        PROVE  Flow(Pipe', n, user[n].sent, 0)
    <3>1. /\ k + 1 \in DOMAIN Pipe /\ Pipe'[k] = Pipe[k + 1] /\ 1 < k + 1
      BY <1>2, <1>3
    <3>2. Flow(Pipe, n, user[n].sent, 0) /\ n \in DOMAIN user
      BY <2>1, <3>1 DEF Flows, Messages, MessageOK
    <3>3. ~Speaks(m, n)
      BY <1>2, <2>1, <3>1 DEF Ordered
    <3> QED
      BY <1>1, <1>25, <3>2, <3>3, Heard
  <2>2. ASSUME NEW id \in DOMAIN active', NEW e, e = es[active'[id]]
        PROVE  Flow(Pipe', e.call, user[e.call].sent, Count(Taken(e)))
    <3>1. CASE /\ id = m.id /\ e.call = m.call
               /\ Flow(Pipe', m.call, user[m.call].sent, Count(Taken(e)))
      BY <3>1
    <3>2. CASE id \in DOMAIN active /\ id # m.id /\ e = execs[active[id]]
      <4>1. /\ active[id] \in DOMAIN execs /\ e.id = id /\ e.stage \in Live /\ e.call \in DOMAIN user
            /\ e \in Executing
        BY <3>2, ExecsType DEF Execs
      <4>2. Flow(Pipe, e.call, user[e.call].sent, Count(Taken(e)))
        BY <3>2 DEF Flows
      <4>3. Count(Taken(e)) \in Nat
        BY <4>1 DEF Count, Taken, Executing
      <4>4. id \in Id /\ id # 0 /\ own[id] = e.call /\ e.call # 0
        <5>1. id \in Id /\ id # 0
          BY <3>2 DEF Types, Id
        <5>2. own[id] = e.call
          BY <1>21, <3>2, <4>1, <5>1 DEF OwnedBy, Live
        <5>3. \A n \in DOMAIN user : n # 0
          BY DEF Types
        <5> QED
          BY <4>1, <5>1, <5>2, <5>3
      <4>5. ~Speaks(m, e.call)
        <5> SUFFICES ASSUME Speaks(m, e.call) PROVE FALSE
          OBVIOUS
        <5>1. m.id # 0 /\ m.id \in Id
          <6>1. m.id \in 0..MaxId
            BY <1>3 DEF Message
          <6>2. m.id # 0
            BY <1>4 DEF MessageOK, Speaks, Speech
          <6> QED
            BY <6>1, <6>2, SizesAssumption DEF Id
        <5>2. own[m.id] = own[id]
          BY <1>22, <4>4, <5>1 DEF Speaks
        <5> QED
          BY <1>21, <3>2, <4>4, <5>1, <5>2 DEF OwnedBy
      <4> QED
        BY <1>1, <1>25, <4>1, <4>2, <4>3, <4>5, Heard
    <3> QED
      BY <1>1, <2>2, <3>1, <3>2
  <2>3. ASSUME NEW id \in DOMAIN active'
        PROVE  LET e == execs'[active'[id]]
               IN  Flow(Pipe', e.call, user[e.call].sent, Count(Taken(e)))
    <3>1. PICK e : e = es[active'[id]]
      OBVIOUS
    <3>2. active'[id] \in DOMAIN es
      BY <1>1
    <3>3. execs'[active'[id]].call = e.call /\ Taken(execs'[active'[id]]) = Taken(e)
      BY <1>7, <3>1, <3>2
    <3> QED
      BY <2>2, <3>1, <3>3
  <2> QED
    BY <1>1, <2>1, <2>3 DEF Flows
<1>27. Final'
  <2>1. \A i \in DOMAIN execs' :
          execs'[i].stage \in Live /\ execs'[i].request = "done" =>
            \/ /\ i \in DOMAIN execs /\ execs[i].stage \in Live /\ execs[i].request = "done"
               /\ execs'[i].call = execs[i].call /\ Taken(execs'[i]) = Taken(execs[i])
            \/ /\ execs'[i].call = m.call /\ m.type = "complete"
               /\ Count(Taken(execs'[i])) = user[m.call].sent
    BY <1>6, <1>7
  <2>2. ASSUME NEW id \in DOMAIN calls, NEW n, n = calls[id].call, calls[id].request = "open"
        PROVE  /\ \A k \in DOMAIN Pipe' : Speaks(Pipe'[k], n) => Pipe'[k].type = "data"
               /\ \A i \in DOMAIN execs' :
                    execs'[i].call = n /\ execs'[i].stage \in Live => execs'[i].request # "done"
    <3>1. /\ \A k \in DOMAIN Pipe : Speaks(Pipe[k], n) => Pipe[k].type = "data"
          /\ \A i \in DOMAIN execs :
               execs[i].call = n /\ execs[i].stage \in Live => execs[i].request # "done"
      BY <2>2 DEF Final
    <3>2. ~(m.type = "complete" /\ m.call = n)
      BY <1>2, <3>1 DEF Speaks, Speech
    <3> QED
      BY <1>2, <2>1, <3>1, <3>2
  <2>3. m.type = "complete" => \A k \in DOMAIN Pipe' : ~Speaks(Pipe'[k], m.call)
    <3> SUFFICES ASSUME m.type = "complete", NEW k \in DOMAIN Pipe', Speaks(Pipe'[k], m.call)
                 PROVE  FALSE
      OBVIOUS
    <3>1. k + 1 \in DOMAIN Pipe /\ Pipe'[k] = Pipe[k + 1] /\ 1 < k + 1
      BY <1>2, <1>3
    <3>2. Speaks(Pipe[1], Pipe[k + 1].call) /\ Speaks(Pipe[k + 1], Pipe[k + 1].call)
      BY <1>2, <3>1 DEF Speaks, Speech
    <3> QED
      BY <1>2, <3>1, <3>2 DEF Ordered
  <2>4. ASSUME NEW i \in DOMAIN execs', execs'[i].stage \in Live, execs'[i].request = "done"
        PROVE  /\ Count(Taken(execs'[i])) = user[execs'[i].call].sent
               /\ \A k \in DOMAIN Pipe' : ~Speaks(Pipe'[k], execs'[i].call)
    <3>1. CASE /\ i \in DOMAIN execs /\ execs[i].stage \in Live /\ execs[i].request = "done"
               /\ execs'[i].call = execs[i].call /\ Taken(execs'[i]) = Taken(execs[i])
      BY <1>2, <3>1 DEF Final
    <3>2. CASE /\ execs'[i].call = m.call /\ m.type = "complete"
               /\ Count(Taken(execs'[i])) = user[m.call].sent
      BY <2>3, <3>2
    <3> QED
      BY <2>1, <2>4, <3>1, <3>2
  <2> QED
    BY <1>1, <2>2, <2>4 DEF Final
<1> QED
  BY <1>23, <1>24, <1>26, <1>27, <1>20

LEMMA HeadOK ==
  ASSUME Shape, up # <<>>, NEW m, m = Head(up).message
  PROVE  /\ m \in Message /\ MessageOK(m) /\ m.id \in 0..MaxId /\ m.value \in Nat
         /\ m.call \in DOMAIN user /\ m.call \in Nat /\ user[m.call].sent \in Nat
         /\ m.type # "notify" => m.id \in Id
         /\ m.type # "notify" => Failure(m) \in Seq(Answering)
         /\ Replies(<<>>, m) /\ Replies(Failure(m), m)
         /\ 1 \in 1..Length /\ Pipe[1] = m
<1> USE DEF Shape
<1>1. up \in Seq([message : Message, last : BOOLEAN])
  BY DEF Types
<1>2. 1 \in 1..Length /\ Pipe[1] = m /\ Length \in Nat /\ DOMAIN Pipe = 1..Length
  <2> DEFINE Sent == [message : Message, last : BOOLEAN]
  <2>1. Len(up) \in Nat \ {0} /\ Head(up) = up[1]
    <3>1. up \in Seq(Sent)
      BY <1>1
    <3> HIDE DEF Sent
    <3> QED
      BY <3>1
  <2> QED
    BY <2>1, PipeType DEF Pipe, Length
<1>3. m \in Message /\ MessageOK(m)
  BY <1>2, PipeType DEF Messages
<1>4. m.id \in 0..MaxId /\ m.value \in Nat /\ m.call \in Nat
  BY <1>3 DEF Message
<1>5. m.call \in DOMAIN user /\ (m.type # "notify" => m.id # 0)
  BY <1>3 DEF MessageOK
<1>6. user[m.call].sent \in Nat
  BY <1>5, UserType
<1>7. m.type # "notify" => m.id \in Id
  BY <1>4, <1>5, SizesAssumption DEF Id
<1>8. PICK x : x = Answer(m.call, m.id, "error", 0)
  OBVIOUS
<1>9. /\ x.id = m.id /\ x.call = m.call /\ x.type = "error"
      /\ m.type # "notify" => x \in Answering
  BY <1>4, <1>7, <1>8 DEF Answer, Answering, Speech
<1>10. Failure(m) = <<x>> /\ DOMAIN <<x>> = {1} /\ <<x>>[1] = x /\ DOMAIN <<>> = {}
  BY <1>8 DEF Failure
<1>11. m.type # "notify" => Failure(m) \in Seq(Answering)
  <2> SUFFICES ASSUME m.type # "notify" PROVE Failure(m) \in Seq(Answering)
    OBVIOUS
  <2>1. x \in Answering
    BY <1>9
  <2>2. <<x>> \in Seq(Answering)
    <3> HIDE DEF Answering
    <3> QED
      BY <2>1
  <2> QED
    BY <1>10, <2>2
<1>12. Replies(<<>>, m) /\ Replies(Failure(m), m)
  BY <1>9, <1>10 DEF Replies, Asked
<1> QED
  BY <1>2, <1>3, <1>4, <1>5, <1>6, <1>7, <1>11, <1>12

\* A message without consequence, or with a failure for its answer.
LEMMA ServedAloneInv ==
  ASSUME Shape, up # <<>>, NEW m, m = Head(up).message, ~Known(m),
         NEW ms \in Seq(Answering), Serve(active, execs, ms), Replies(ms, m)
  PROVE  Keeps
<1> USE DEF Shape
<1>1. execs \in Seq(Executing) /\ active \in [DOMAIN active -> Nat] /\ DOMAIN active \subseteq Id
  BY DEF Types
<1>2. AllBounded(execs) /\ Linked(active, execs) /\ Grown(execs, m)
  BY DEF Execs, AllBounded, Linked, Grown
<1>3. Fit => AllOK(execs) /\ Filled(Pipe', active, execs, m) /\ Finished(execs, m)
  BY DEF Fit, Values, AllOK, Known, Filled, Finished
<1> HIDE DEF Shape
<1> QED
  BY <1>1, <1>2, <1>3, ServeInv

\* An execution begins.
LEMMA ServedNewInv ==
  ASSUME Shape, up # <<>>, NEW m, m = Head(up).message, ~Known(m), Names(m), m.type \in {"data", "complete", "notify"},
         NEW e, e = NewExec(m, IF m.type = "data" THEN "open" ELSE "done"),
         NEW as,
         \/ as = active /\ e.stage = "static"
         \/ as = Put(active, m.id, Len(Append(execs, e))) /\ m.type # "notify" /\ e.stage # "static",
         Serve(as, Append(execs, e), <<>>)
  PROVE  Keeps
<1> USE DEF Shape
<1> DEFINE g == IF m.value = 0 THEN 0 ELSE 1
           sent == user[m.call].sent
<1>1. /\ m \in Message /\ MessageOK(m) /\ m.id \in 0..MaxId /\ m.value \in Nat
      /\ m.call \in DOMAIN user /\ m.call \in Nat /\ sent \in Nat
      /\ m.type # "notify" => m.id \in Id
      /\ 1 \in DOMAIN Pipe /\ Pipe[1] = m
  BY HeadOK, PipeType
<1>2. up' = Tail(up) /\ outbox' = outbox
  BY DEF Serve, client
<1>3. ASSUME Fit
      PROVE  /\ m.type # "notify" => Flow(Pipe', m.call, sent, g)
             /\ m.value \in {0, 1}
             /\ m.type = "data" => m.value = 1
             /\ m.type = "complete" => sent = g
  <2> USE <1>3 DEF Fit
  <2>1. CASE m.type = "notify"
    BY <1>1, <2>1 DEF MessageOK
  <2>2. CASE m.type # "notify"
    <3>1. Speaks(m, m.call)
      BY <2>2 DEF Speaks, Speech
    <3>2. Flow(Pipe, m.call, sent, 0)
      BY <1>1, <3>1 DEF Flows
    <3>3. /\ m.value # 0 => m.value = 1 /\ Flow(Pipe', m.call, sent, 1)
          /\ m.value = 0 => sent = 0 /\ Flow(Pipe', m.call, sent, 0)
          /\ m.type = "complete" /\ m.value # 0 => sent = 1
      BY <1>1, <1>2, <3>1, <3>2, Heard
    <3>4. m.type = "data" => m.value # 0
      BY <1>1 DEF MessageOK
    <3> QED
      BY <2>2, <3>3, <3>4
  <2> QED
    BY <2>1, <2>2
<1>4. /\ <<m.value>> \in Seq(Nat) /\ <<>> \in Seq(Nat) /\ Len(<<m.value>>) = 1
      /\ Len(<<>>) = 0
      /\ 1 <= BufferSize /\ 0 <= BufferSize
      /\ Fit => Rising(<<m.value>>) /\ Rising(<<>>) /\ Count(<<m.value>>) = g
      /\ <<m.value>> = <<0>> <=> m.value = 0
  BY <1>1, <1>3, SizesAssumption DEF Rising, Count
<1>5. /\ e.call = m.call /\ e.id = m.id
      /\ e.request = IF e.stage = "static" \/ m.type # "data" THEN "done" ELSE "open"
      /\ e.said = 0
      /\ \/ e.stage = "static" /\ e.seen = <<m.value>> /\ e.buffer = <<>>
         \/ m.type # "notify" /\ e.stage = "check" /\ e.seen = <<>> /\ e.buffer = <<m.value>>
         \/ m.type # "notify" /\ e.stage = "opening" /\ e.seen = <<m.value>> /\ e.buffer = <<m.value>>
      /\ e = [call |-> m.call, id |-> m.id, stage |-> e.stage, request |-> e.request,
              buffer |-> e.buffer, seen |-> e.seen, said |-> 0]
  BY DEF NewExec, Exec
<1>6. e \in Executing
  <2>1. /\ e.stage \in Stages /\ e.request \in {"open", "done", "cut"} /\ 0 \in Nat
        /\ e.buffer \in Seq(Nat) /\ e.seen \in Seq(Nat)
    BY <1>4, <1>5 DEF Stages
  <2> QED
    BY <1>1, <1>5, <2>1 DEF Executing
<1>7. /\ Taken(e) = <<m.value>>
      /\ e.stage # "ended"
      /\ e.stage = "static" <=> e.stage \notin Live
  BY <1>5 DEF Taken, Live
<1>8. Bounded(e) /\ (Fit => ExecOK(e))
  <2>1. e.stage \in Live => e.id # 0
    BY <1>1, <1>5, <1>7 DEF MessageOK
  <2>2. Fit /\ e.stage \in Live /\ m.value = 0 => e.request # "open"
    BY <1>3, <1>5
  <2>3. Len(e.buffer) <= BufferSize /\ (Fit => Rising(e.seen))
    BY <1>4, <1>5
  <2> QED
    BY <1>4, <1>5, <1>7, <2>1, <2>2, <2>3 DEF ExecOK, Bounded
<1> DEFINE es == Append(execs, e)
           new == Len(execs) + 1
<1>9. /\ es \in Seq(Executing) /\ Len(es) = new /\ DOMAIN es = 1..new
      /\ es[new] = e /\ \A i \in DOMAIN execs : es[i] = execs[i]
      /\ DOMAIN execs = 1..Len(execs) /\ Len(execs) \in Nat /\ new \in DOMAIN es /\ new \in Nat
  <2>1. execs \in Seq(Executing)
    BY DEF Types
  <2> HIDE DEF Executing
  <2> QED
    BY <1>6, <2>1
<1>10. /\ DOMAIN as = DOMAIN active /\ as = active
       \/ /\ DOMAIN as = DOMAIN active \cup {m.id} /\ as[m.id] = new /\ m.type # "notify" /\ e.stage \in Live
          /\ \A id \in DOMAIN active : as[id] = active[id]
  BY <1>7, <1>9 DEF Put, Known
<1>11. /\ as \in [DOMAIN as -> Nat] /\ DOMAIN as \subseteq Id
  <2>1. active \in [DOMAIN active -> Nat] /\ DOMAIN active \subseteq Id
    BY DEF Types
  <2>2. CASE as = active
    BY <2>1, <2>2
  <2>3. CASE as # active
    <3>1. \A id \in DOMAIN as : as[id] \in Nat /\ id \in Id
      <4> HIDE DEF es, new
      <4> QED
        BY <1>1, <1>9, <1>10, <2>1, <2>3
    <3>2. as = [id \in DOMAIN as |-> as[id]]
      BY <2>3 DEF Put
    <3> QED
      BY <3>1, <3>2
  <2> QED
    BY <2>2, <2>3
<1>12. /\ \A i \in DOMAIN execs : Bounded(execs[i]) /\ (Fit => ExecOK(execs[i]))
       /\ \A id \in DOMAIN active : /\ active[id] \in DOMAIN execs
                                    /\ execs[active[id]].id = id
                                    /\ execs[active[id]].stage \in Live
                                    /\ execs[active[id]].request # "cut"
                                    /\ id # m.id
  BY DEF Execs, Known, Fit, Values
<1>13. \A i \in DOMAIN es : i \in DOMAIN execs \/ i = new
  BY <1>9
<1>14. AllBounded(es) /\ (Fit => AllOK(es))
  BY <1>8, <1>9, <1>12, <1>13 DEF AllOK, AllBounded
<1>15. ASSUME NEW id \in DOMAIN as
       PROVE  \/ /\ id \in DOMAIN active /\ id # m.id /\ as[id] = active[id]
                 /\ as[id] \in DOMAIN execs
              \/ id = m.id /\ as[id] = new /\ m.type # "notify" /\ e.stage \in Live
  BY <1>10, <1>12
<1>16. Linked(as, es) /\ (Fit => Filled(Pipe', as, es, m))
  <2> SUFFICES ASSUME NEW id \in DOMAIN as, NEW i, i = as[id]
               PROVE  /\ i \in DOMAIN es /\ es[i].id = id /\ es[i].stage \in Live
                      /\ es[i].request # "cut"
                      /\ \/ id \in DOMAIN active /\ id # m.id /\ es[i] = execs[active[id]]
                         \/ /\ id = m.id /\ es[i].call = m.call
                            /\ Fit => Flow(Pipe', m.call, sent, Count(Taken(es[i])))
    <3> HIDE DEF es
    <3> QED
      BY DEF Linked, Filled
  <2>1. CASE id \in DOMAIN active /\ id # m.id /\ i = active[id] /\ i \in DOMAIN execs
    BY <1>9, <1>12, <2>1
  <2>2. CASE id = m.id /\ i = new /\ m.type # "notify" /\ e.stage \in Live
    <3>1. i \in DOMAIN es /\ es[i] = e
      <4> HIDE DEF es, new
      <4> QED
        BY <1>9, <2>2
    <3>2. Fit => Count(Taken(e)) = g /\ Flow(Pipe', m.call, sent, g)
      BY <1>3, <1>4, <1>7, <2>2
    <3>3. e.request # "cut" /\ e.call = m.call /\ e.id = m.id
      BY <1>5
    <3> HIDE DEF es, g, sent, new
    <3> QED
      BY <2>2, <3>1, <3>2, <3>3
  <2> QED
    BY <1>15, <2>1, <2>2
<1>17. Fit => Finished(es, m)
  BY <1>3, <1>4, <1>5, <1>7, <1>9, <1>13 DEF Finished
<1>18. Grown(es, m)
  BY <1>5, <1>9, <1>13 DEF Grown
<1>19. Serve(as, es, <<>>)
  OBVIOUS
<1>20. <<>> \in Seq(Answering) /\ Replies(<<>>, m)
  BY DEF Replies
<1> HIDE DEF Shape, es, g, new
<1> QED
  BY <1>9, <1>11, <1>14, <1>16, <1>17, <1>18, <1>19, <1>20, ServeInv

LEMMA ServeUnknownInv ==
  ASSUME Shape, up # <<>>, NEW m, m = Head(up).message, ~Known(m), ServeUnknown(m)
  PROVE  Keeps
<1>1. /\ m \in Message /\ MessageOK(m)
      /\ m.type # "notify" => Failure(m) \in Seq(Answering)
      /\ <<>> \in Seq(Answering) /\ Replies(<<>>, m) /\ Replies(Failure(m), m)
  BY HeadOK DEF Replies
<1>2. /\ m.type \in {"data", "complete", "error", "unsub", "notify"}
      /\ m.method \in {"static", "rx", "checked", ""}
      /\ m.type = "notify" => Names(m)
      /\ Names(m) <=> m.method # ""
  BY <1>1 DEF Message, Speech, Method, MessageOK, Names
<1>3. PICK e : e = NewExec(m, IF m.type = "data" THEN "open" ELSE "done")
  OBVIOUS
<1>4. \/ \E ms \in {<<>>, Failure(m)} : Serve(active, execs, ms) /\ (ms = <<>> \/ m.type # "notify")
      \/ /\ m.type = "notify" \/ (m.type \in {"data", "complete"} /\ m.method = "static")
         /\ Serve(active, Append(execs, e), <<>>) /\ m.method # ""
      \/ /\ m.type \in {"data", "complete"} /\ m.method \in {"rx", "checked"}
         /\ Serve(Put(active, m.id, Len(Append(execs, e))), Append(execs, e), <<>>)
  <2>1. CASE m.type = "unsub"
    BY <2>1 DEF ServeUnknown
  <2>2. CASE m.type # "unsub" /\ m.method = ""
    BY <1>2, <2>2 DEF ServeUnknown
  <2>3. CASE m.type = "error" /\ m.method # ""
    BY <2>3 DEF ServeUnknown
  <2>4. CASE /\ m.type = "notify" \/ (m.type \in {"data", "complete"} /\ m.method = "static")
             /\ m.method # ""
    BY <1>3, <2>4 DEF ServeUnknown
  <2>5. CASE m.type \in {"data", "complete"} /\ m.method \in {"rx", "checked"}
    BY <1>3, <2>5 DEF ServeUnknown
  <2> QED
    BY <1>2, <2>1, <2>2, <2>3, <2>4, <2>5
<1>5. CASE \E ms \in {<<>>, Failure(m)} : Serve(active, execs, ms) /\ (ms = <<>> \/ m.type # "notify")
  BY <1>1, <1>5, ServedAloneInv
<1>6. CASE /\ m.type = "notify" \/ (m.type \in {"data", "complete"} /\ m.method = "static")
           /\ Serve(active, Append(execs, e), <<>>) /\ m.method # ""
  <2>1. e.stage = "static"
    BY <1>3, <1>6 DEF NewExec, Exec
  <2>2. m.type \in {"data", "complete", "notify"} /\ Names(m)
    BY <1>2, <1>6
  <2> QED
    BY <1>3, <1>6, <2>1, <2>2, ServedNewInv
<1>7. CASE /\ m.type \in {"data", "complete"} /\ m.method \in {"rx", "checked"}
           /\ Serve(Put(active, m.id, Len(Append(execs, e))), Append(execs, e), <<>>)
  <2>1. e.stage # "static"
    BY <1>3, <1>7 DEF NewExec, Exec
  <2>2. m.type \in {"data", "complete", "notify"} /\ Names(m) /\ m.type # "notify"
    BY <1>2, <1>7
  <2>3. PICK as : as = Put(active, m.id, Len(Append(execs, e)))
    OBVIOUS
  <2> QED
    BY <1>3, <1>7, <2>1, <2>2, <2>3, ServedNewInv
<1> QED
  BY <1>4, <1>5, <1>6, <1>7

\* A value is kept, or handed over.
LEMMA GivenOK ==
  ASSUME NEW e \in Executing, NEW v \in Nat, e.stage \in Live
  PROVE  LET f == Given(e, v)
         IN  /\ f \in Executing
             /\ f.call = e.call /\ f.id = e.id /\ f.stage = e.stage /\ f.request = e.request
             /\ Taken(f) = Append(Taken(e), v)
             /\ f.seen = IF e.stage = "check" THEN e.seen ELSE Taken(f)
             /\ e.stage = "run" => f.buffer = e.buffer
             /\ e.stage # "run" => Len(f.buffer) = Len(e.buffer) + 1
<1> DEFINE f == Given(e, v)
<1>1. /\ e.buffer \in Seq(Nat) /\ e.seen \in Seq(Nat)
      /\ e.stage \in {"check", "opening", "run"}
      /\ Append(e.buffer, v) \in Seq(Nat) /\ Append(e.seen, v) \in Seq(Nat)
      /\ Len(Append(e.buffer, v)) = Len(e.buffer) + 1
  BY DEF Executing, Live
<1>2. /\ f.call = e.call /\ f.id = e.id /\ f.stage = e.stage /\ f.request = e.request /\ f.said = e.said
      /\ f.buffer = IF e.stage = "run" THEN e.buffer ELSE Append(e.buffer, v)
      /\ f.seen = IF e.stage = "check" THEN e.seen ELSE Append(e.seen, v)
      /\ f = [call |-> e.call, id |-> e.id, stage |-> e.stage, request |-> e.request,
              buffer |-> f.buffer, seen |-> f.seen, said |-> e.said]
  <2>1. PICK b, s : /\ b = IF e.stage = "run" THEN e.buffer ELSE Append(e.buffer, v)
                    /\ s = IF e.stage = "check" THEN e.seen ELSE Append(e.seen, v)
    OBVIOUS
  <2>2. f = [e EXCEPT !.buffer = b, !.seen = s]
    BY <2>1 DEF Given
  <2>3. e = [call |-> e.call, id |-> e.id, stage |-> e.stage, request |-> e.request,
             buffer |-> e.buffer, seen |-> e.seen, said |-> e.said]
    BY DEF Executing
  <2> HIDE DEF f
  <2>4. f = [call |-> e.call, id |-> e.id, stage |-> e.stage, request |-> e.request,
             buffer |-> b, seen |-> s, said |-> e.said]
    BY <2>2, <2>3
  <2> QED
    BY <2>1, <2>4
<1>3. f \in Executing
  <2>1. f.buffer \in Seq(Nat) /\ f.seen \in Seq(Nat)
    BY <1>1, <1>2
  <2> HIDE DEF f
  <2> QED
    BY <1>2, <2>1 DEF Executing
<1>4. Taken(f) = Append(Taken(e), v) /\ (e.stage # "check" => f.seen = Taken(f))
  <2> HIDE DEF f
  <2> QED
    BY <1>1, <1>2 DEF Taken
<1> HIDE DEF f
<1> QED
  BY <1>1, <1>2, <1>3, <1>4 DEF f

LEMMA ServeKnownInv ==
  ASSUME Shape, up # <<>>, NEW m, m = Head(up).message, Known(m), ServeKnown(m)
  PROVE  Keeps
<1> USE DEF Shape
<1> DEFINE sent == user[m.call].sent
<1>1. /\ m \in Message /\ MessageOK(m) /\ m.id \in 0..MaxId /\ m.value \in Nat
      /\ m.call \in DOMAIN user /\ m.call \in Nat /\ sent \in Nat
      /\ m.type # "notify" => Failure(m) \in Seq(Answering)
      /\ Replies(Failure(m), m)
      /\ 1 \in DOMAIN Pipe /\ Pipe[1] = m
      /\ <<>> \in Seq(Answering) /\ Replies(<<>>, m)
  BY HeadOK, PipeType DEF Replies
<1>2. PICK i, e : i = active[m.id] /\ e = execs[i]
  OBVIOUS
<1>3. /\ active \in [DOMAIN active -> Nat] /\ DOMAIN active \subseteq Id
      /\ execs \in Seq(Executing) /\ DOMAIN execs = 1..Len(execs)
      /\ \A j \in DOMAIN execs : execs[j] \in Executing /\ Bounded(execs[j])
  BY ExecsType DEF Types, Execs
<1>4. /\ m.id \in Id /\ m.id \in DOMAIN active
      /\ i \in DOMAIN execs /\ e.id = m.id /\ e.stage \in Live /\ e.request # "cut"
      /\ e \in Executing /\ Bounded(e) /\ (Fit => ExecOK(e))
  BY <1>2, <1>3 DEF Known, Execs, Fit, Values
<1>5. m.id # 0 /\ m.type # "notify"
  BY <1>1, <1>4, SizesAssumption DEF Id, MessageOK
<1>6. ASSUME Fit PROVE e.call = m.call
  <2>1. PICK own \in [Id -> 0..Len(user)] : OwnedBy(own)
    BY <1>6 DEF Fit, Owned
  <2>2. own[m.id] = m.call
    BY <1>1, <1>5, <2>1 DEF OwnedBy
  <2>3. own[e.id] = e.call
    BY <1>2, <1>4, <1>5, <2>1 DEF OwnedBy, Live
  <2> QED
    BY <1>4, <2>2, <2>3
\* What becomes of one execution, while the others stay as they are.
<1>7. ASSUME NEW f \in Executing, NEW as, NEW ms \in Seq(Answering),
             Serve(as, [execs EXCEPT ![i] = f], ms), Replies(ms, m), Bounded(f), Fit => ExecOK(f),
             f.call = e.call, f.id = e.id,
             \/ as = Without(active, m.id) /\ ~(f.stage \in Live /\ f.request = "done")
             \/ /\ as = active /\ f.stage \in Live /\ f.request # "cut"
                /\ Fit => /\ Flow(Pipe', m.call, sent, Count(Taken(f)))
                          /\ f.request = "done" => m.type = "complete" /\ Count(Taken(f)) = sent
      PROVE  Keeps
  <2> DEFINE es == [execs EXCEPT ![i] = f]
  <2>1. /\ DOMAIN es = DOMAIN execs /\ es[i] = f
        /\ \A j \in DOMAIN execs : j # i => es[j] = execs[j]
    BY <1>3, <1>4
  <2>2. es \in Seq(Executing)
    <3> HIDE DEF Executing
    <3> QED
      BY <1>3, <1>4
  <2>3. AllBounded(es) /\ (Fit => AllOK(es))
    <3> HIDE DEF es
    <3> QED
      BY <1>3, <1>7, <2>1 DEF AllBounded, AllOK, Fit, Values
  <2>4. \A id \in DOMAIN as : id \in DOMAIN active /\ as[id] = active[id]
    BY <1>7 DEF Without, Restrict
  <2>5. as \in [DOMAIN as -> Nat] /\ DOMAIN as \subseteq Id
    BY <1>3, <1>7 DEF Without, Restrict
  <2>6. ASSUME NEW id \in DOMAIN as
        PROVE  /\ active[id] \in DOMAIN execs /\ execs[active[id]].id = id
               /\ execs[active[id]].stage \in Live /\ execs[active[id]].request # "cut"
               /\ id # m.id => active[id] # i
    BY <1>2, <1>4, <2>4 DEF Execs
  <2>7. m.id \in DOMAIN as =>
          /\ as[m.id] = i /\ f.stage \in Live /\ f.request # "cut"
          /\ Fit => Flow(Pipe', m.call, sent, Count(Taken(f)))
    BY <1>2, <1>7, <2>4 DEF Without, Restrict
  <2>8. Linked(as, es)
    <3> SUFFICES ASSUME NEW id \in DOMAIN as, NEW j, j = as[id]
                 PROVE  /\ j \in DOMAIN es /\ es[j].id = id /\ es[j].stage \in Live
                        /\ es[j].request # "cut"
      <4> HIDE DEF es
      <4> QED
        BY DEF Linked
    <3> HIDE DEF es
    <3>1. CASE id = m.id
      BY <1>4, <1>7, <2>1, <2>7, <3>1
    <3>2. CASE id # m.id
      BY <2>1, <2>4, <2>6, <3>2
    <3> QED
      BY <3>1, <3>2
  <2>9. Fit => Filled(Pipe', as, es, m)
    <3> SUFFICES ASSUME Fit, NEW id \in DOMAIN as, NEW j, j = as[id]
                 PROVE  \/ id \in DOMAIN active /\ id # m.id /\ es[j] = execs[active[id]]
                        \/ /\ id = m.id /\ es[j].call = m.call
                           /\ Flow(Pipe', m.call, sent, Count(Taken(es[j])))
      <4> HIDE DEF es
      <4> QED
        BY DEF Filled
    <3> HIDE DEF es
    <3>1. CASE id = m.id
      BY <1>6, <1>7, <2>1, <2>7, <3>1
    <3>2. CASE id # m.id
      BY <2>1, <2>4, <2>6, <3>2
    <3> QED
      BY <3>1, <3>2
  <2>10. Grown(es, m)
    <3>1. e.stage # "ended"
      BY <1>4 DEF Live
    <3> HIDE DEF es
    <3> QED
      BY <1>2, <1>7, <2>1, <3>1 DEF Grown
  <2>11. Fit => Finished(es, m)
    <3> SUFFICES ASSUME Fit PROVE Finished(es, m)
      OBVIOUS
    <3>1. f.stage \in Live /\ f.request = "done" => m.type = "complete" /\ Count(Taken(f)) = sent
      BY <1>7
    <3> HIDE DEF es
    <3> QED
      BY <1>6, <1>7, <2>1, <3>1 DEF Finished
  <2>12. Serve(as, es, ms)
    BY <1>7
  <2> HIDE DEF es, Shape
  <2> QED
    BY <1>7, <2>2, <2>3, <2>5, <2>8, <2>9, <2>10, <2>11, <2>12, ServeInv
<1>8. CASE m.type = "unsub"
  <2> DEFINE f == [e EXCEPT !.request = "cut"]
  <2>1. Serve(Without(active, m.id), [execs EXCEPT ![i] = f], <<>>)
    <3>1. Serve(Without(active, m.id), [execs EXCEPT ![i].request = "cut"], <<>>)
      BY <1>1, <1>2, <1>8 DEF ServeKnown, MessageOK
    <3>2. [execs EXCEPT ![i].request = "cut"] = [execs EXCEPT ![i] = f]
      BY <1>2
    <3> HIDE DEF f
    <3> QED
      BY <3>1, <3>2
  <2>2. /\ f \in Executing /\ f.call = e.call /\ f.id = e.id /\ f.stage = e.stage /\ f.request = "cut"
        /\ f.seen = e.seen /\ f.buffer = e.buffer
    BY <1>4 DEF Executing
  <2>3. Bounded(f) /\ (Fit => ExecOK(f))
    <3>1. Taken(f) = Taken(e)
      BY <2>2 DEF Taken
    <3> QED
      BY <1>4, <2>2, <3>1 DEF ExecOK, Bounded
  <2> HIDE DEF f
  <2> QED
    BY <1>1, <1>7, <2>1, <2>2, <2>3
<1>9. CASE m.type # "unsub" /\ (m.type = "error" \/ (m.value # 0 /\ Overflows(e)))
  <2> DEFINE f == [e EXCEPT !.stage = "ended"]
  <2>1. Serve(Without(active, m.id), [execs EXCEPT ![i] = f], Failure([m EXCEPT !.call = e.call]))
    BY <1>2, <1>9 DEF ServeKnown
  <2>2. PICK x : x = Answer(e.call, m.id, "error", 0)
    OBVIOUS
  <2>3. /\ f \in Executing /\ f.call = e.call /\ f.id = e.id /\ f.stage = "ended" /\ f.request = e.request
        /\ f.seen = e.seen /\ f.buffer = e.buffer
    BY <1>4 DEF Executing, Stages
  <2>4. f.stage \notin Live
    BY <2>3 DEF Live
  <2>5. Bounded(f) /\ (Fit => ExecOK(f))
    <3>1. Taken(f) = f.seen
      BY <2>3 DEF Taken
    <3> QED
      BY <1>4, <2>3, <2>4, <3>1 DEF ExecOK, Bounded
  <2>6. x \in Answering /\ x.id = m.id /\ x.call = e.call /\ x.type = "error"
    <3>1. e.call \in Nat
      BY <1>4 DEF Executing
    <3> QED
      BY <1>4, <2>2, <3>1 DEF Answer, Answering, Speech
  <2>7. Failure([m EXCEPT !.call = e.call]) = <<x>>
    BY <1>1, <2>2 DEF Failure, Message
  <2>8. <<x>> \in Seq(Answering) /\ DOMAIN <<x>> = {1} /\ <<x>>[1] = x
    <3> HIDE DEF Answering
    <3> QED
      BY <2>6
  <2>9. Replies(<<x>>, m)
    <3>1. Asked(e.call, m)
      BY <1>2, <1>4 DEF Asked, Live
    <3> QED
      BY <2>6, <2>8, <3>1 DEF Replies
  <2> HIDE DEF f
  <2> QED
    BY <1>7, <2>1, <2>3, <2>4, <2>5, <2>7, <2>8, <2>9
<1>10. CASE m.type \notin {"unsub", "error"} /\ ~(m.value # 0 /\ Overflows(e))
  <2> DEFINE given == IF m.value = 0 THEN e ELSE Given(e, m.value)
             f == IF m.type = "complete" THEN [given EXCEPT !.request = "done"] ELSE given
             g == Len(Taken(e))
  <2>1. Serve(active, [execs EXCEPT ![i] = f], <<>>)
    BY <1>2, <1>10 DEF ServeKnown
  <2>2. m.type \in {"data", "complete"} /\ Speaks(m, m.call)
    BY <1>1, <1>5, <1>10 DEF Message, Speech, Speaks
  <2>3. Fit => e.request = "open"
    <3> SUFFICES ASSUME Fit PROVE e.request = "open"
      OBVIOUS
    <3> USE DEF Fit
    <3>1. e.request # "done"
      BY <1>1, <1>2, <1>4, <1>6, <2>2 DEF Final
    <3> QED
      BY <1>4, <3>1 DEF Executing
  <2>4. /\ Taken(e) \in Seq(Nat) /\ g \in Nat
        /\ Fit => /\ Taken(e) # <<0>> /\ DOMAIN Taken(e) = 1..g /\ \A k \in 1..g : Taken(e)[k] = k
                  /\ Count(Taken(e)) = g
    <3>1. Taken(e) \in Seq(Nat)
      BY <1>4 DEF Taken, Executing
    <3>2. Fit => Taken(e) # <<0>>
      BY <1>4, <2>3 DEF ExecOK
    <3>3. Fit => Rising(Taken(e))
      BY <1>4 DEF ExecOK
    <3> QED
      BY <3>1, <3>2, <3>3 DEF Rising, Count
  <2>5. Fit => Flow(Pipe, m.call, sent, g)
    BY <1>2, <1>4, <1>6, <2>4 DEF Fit, Flows, Known
  <2>6. up' = Tail(up) /\ outbox' = outbox
    BY <2>1 DEF Serve, client
  <2>7. ASSUME Fit
        PROVE  /\ m.value # 0 => m.value = g + 1 /\ Flow(Pipe', m.call, sent, g + 1)
               /\ m.value = 0 => sent = g /\ Flow(Pipe', m.call, sent, g)
               /\ m.type = "complete" /\ m.value # 0 => sent = g + 1
    <3>1. Ordered
      BY <2>7 DEF Fit
    <3> HIDE DEF g
    <3> QED
      BY <1>1, <2>2, <2>4, <2>5, <2>6, <2>7, <3>1, Heard
  <2>8. /\ given \in Executing
        /\ given.call = e.call /\ given.id = e.id /\ given.stage = e.stage /\ given.request = e.request
        /\ Len(given.buffer) <= BufferSize
        /\ e.stage = "check" => given.seen = e.seen
        /\ m.value = 0 => Taken(given) = Taken(e) /\ given.seen = e.seen
        /\ m.value # 0 => Taken(given) = Append(Taken(e), m.value)
                          /\ (e.stage # "check" => given.seen = Taken(given))
    <3>1. CASE m.value = 0
      BY <1>4, <3>1 DEF Bounded
    <3>2. CASE m.value # 0
      <4>1. given = Given(e, m.value)
        BY <3>2
      <4>2. e.stage # "run" => Len(e.buffer) < BufferSize
        <5>1. Len(e.buffer) \in Nat
          BY <1>4 DEF Executing
        <5> QED
          BY <1>4, <1>10, <3>2, <5>1, SizesAssumption DEF Overflows, Live
      <4>3. Len(e.buffer) \in Nat /\ Len(e.buffer) <= BufferSize
        BY <1>4 DEF Executing, Bounded
      <4>4. e.stage = "check" \/ e.stage # "check"
        OBVIOUS
      <4> HIDE DEF given
      <4> QED
        BY <1>1, <1>4, <3>2, <4>1, <4>2, <4>3, GivenOK, SizesAssumption
    <3> QED
      BY <3>1, <3>2
  <2>9. /\ f \in Executing
        /\ f.call = e.call /\ f.id = e.id /\ f.stage = e.stage
        /\ f.request = IF m.type = "complete" THEN "done" ELSE e.request
        /\ f.seen = given.seen /\ f.buffer = given.buffer
        /\ Taken(f) = Taken(given)
    <3> HIDE DEF given
    <3> QED
      BY <2>8 DEF Executing, Taken
  <2>10. ASSUME Fit
         PROVE  /\ Rising(Taken(f))
                /\ Taken(f) # <<0>>
                /\ Count(Taken(f)) = IF m.value = 0 THEN g ELSE g + 1
    <3>1. CASE m.value = 0
      <4> HIDE DEF f, given
      <4> QED
        BY <2>4, <2>8, <2>9, <2>10, <3>1 DEF Rising
    <3>2. CASE m.value # 0
      <4>1. Taken(f) = Append(Taken(e), g + 1)
        <5> HIDE DEF f, given, g
        <5> QED
          BY <2>7, <2>8, <2>9, <2>10, <3>2
      <4>2. /\ Len(Append(Taken(e), g + 1)) = g + 1
            /\ DOMAIN Append(Taken(e), g + 1) = 1..(g + 1)
            /\ \A k \in 1..(g + 1) : Append(Taken(e), g + 1)[k] = k
        BY <2>4, <2>10
      <4>3. Append(Taken(e), g + 1)[1] # 0 /\ 1 \in 1..(g + 1)
        BY <2>4, <2>10, <4>2
      <4>4. <<0>>[1] = 0
        OBVIOUS
      <4> HIDE DEF f, given, g
      <4> QED
        BY <3>2, <4>1, <4>2, <4>3, <4>4 DEF Rising, Count
    <3> QED
      BY <3>1, <3>2
  <2>11. Bounded(f) /\ (Fit => ExecOK(f))
    <3>1. Fit => Rising(f.seen) /\ (f.stage = "check" => f.seen = <<>>)
      <4> HIDE DEF f, given
      <4> QED
        BY <1>4, <2>8, <2>9, <2>10 DEF ExecOK
    <3> HIDE DEF f, given
    <3> QED
      BY <1>4, <2>8, <2>9, <2>10, <3>1 DEF ExecOK, Bounded
  <2>12. Fit => Flow(Pipe', m.call, sent, Count(Taken(f)))
    <3> HIDE DEF f, given, g
    <3> QED
      BY <2>7, <2>10
  <2>13. /\ f.request # "cut"
         /\ Fit => (f.request = "done" => m.type = "complete" /\ Count(Taken(f)) = sent)
    <3> HIDE DEF f, given, g
    <3> QED
      BY <1>4, <2>3, <2>7, <2>9, <2>10
  <2> HIDE DEF f, given, g
  <2> QED
    BY <1>1, <1>4, <1>7, <2>1, <2>9, <2>11, <2>12, <2>13
<1> QED
  BY <1>8, <1>9, <1>10

LEMMA ReceiveInv ==
  ASSUME Shape, Receive
  PROVE  Keeps
<1>1. PICK m : m = Head(up).message
  OBVIOUS
<1>2. up # <<>> /\ IF Known(m) THEN ServeKnown(m) ELSE ServeUnknown(m)
  BY <1>1 DEF Receive
<1> QED
  BY <1>1, <1>2, ServeKnownInv, ServeUnknownInv

-----------------------------------------------------------------------------
(* Those who made calls get answers, and lose interest.                    *)

LEMMA SettledOK ==
  ASSUME NEW cs, cs \in [DOMAIN cs -> Calling], NEW id \in DOMAIN cs, NEW e \in Calling,
         NEW ds, ds = Settled(cs, id, e)
  PROVE  /\ DOMAIN ds \subseteq DOMAIN cs /\ ds \in [DOMAIN ds -> Calling]
         /\ \A other \in DOMAIN ds : other # id => ds[other] = cs[other]
         /\ \A other \in DOMAIN cs : other # id => other \in DOMAIN ds
         /\ e.answer = "open" => id \in DOMAIN ds
         /\ id \in DOMAIN ds => ds[id] = e /\ (e.request = "open" \/ e.answer = "open")
<1>1. \A other \in DOMAIN cs : cs[other] \in Calling
  OBVIOUS
<1>2. e.request \in {"open", "done"} /\ e.answer \in {"open", "done"}
  BY DEF Calling
<1> HIDE DEF Calling
<1>3. CASE e.request = "done" /\ e.answer = "done"
  BY <1>1, <1>3 DEF Settled, Without, Restrict
<1>4. CASE ~(e.request = "done" /\ e.answer = "done")
  BY <1>1, <1>2, <1>4 DEF Settled, Put
<1> QED
  BY <1>3, <1>4

\* The queue stays, or grows by messages that say no more than that somebody has lost
\* interest in call n, whose identifier is id.
Unsubscribed(p, q, n, id) ==
  /\ DOMAIN p \subseteq DOMAIN q
  /\ \A k \in DOMAIN p : q[k] = p[k]
  /\ \A k \in DOMAIN q : k \in DOMAIN p \/ q[k] = Unsubscribe(n, id)

LEMMA UnsubscribedOK ==
  ASSUME Types, UNCHANGED <<case, up>>, NEW n \in DOMAIN user, NEW id \in Id,
         \/ outbox' = outbox
         \/ Send(<<>>)
         \/ IsOpen /\ Send(<<Unsubscribe(n, id)>>)
  PROVE  outbox' \in Seq(Message) /\ Unsubscribed(Pipe, Pipe', n, id)
<1>1. outbox \in Seq(Message)
  BY DEF Types
<1>2. CASE outbox' = outbox \/ Send(<<>>)
  <2>1. outbox' = outbox
    <3>1. outbox \o <<>> = outbox
      <4> HIDE DEF Message
      <4> QED
        BY <1>1
    <3> QED
      BY <1>2, <3>1 DEF Send
  <2> QED
    BY <1>1, <2>1, PipeSame DEF Unsubscribed
<1>3. CASE IsOpen /\ Send(<<Unsubscribe(n, id)>>)
  <2>1. n \in Nat
    BY UserType
  <2>2. Unsubscribe(n, id) \in Message
    <3>1. id \in 0..MaxId
      BY SizesAssumption DEF Id
    <3>2. "unsub" \in Speech \cup {"unsub", "notify"} /\ "" \in Method \cup {""} /\ 0 \in Nat
      OBVIOUS
    <3> QED
      BY <2>1, <3>1, <3>2 DEF Unsubscribe, Message
  <2> HIDE DEF Message
  <2>3. /\ outbox' \in Seq(Message)
        /\ DOMAIN Pipe' = 1..(Length + 1)
        /\ \A k \in 1..Length : Pipe'[k] = Pipe[k]
        /\ Pipe'[Length + 1] = Unsubscribe(n, id)
    BY <1>3, <2>2, PipeSent
  <2>4. DOMAIN Pipe = 1..Length /\ Length \in Nat
    BY PipeType
  <2> QED
    BY <2>3, <2>4 DEF Unsubscribed
<1> QED
  BY <1>2, <1>3

\* What may become of answers, and of those who wait for them.
LEMMA HeardInv ==
  ASSUME Shape, UNCHANGED <<channelVars, case, nextId, up, server, mixed>>,
         user' \in Seq(User), DOMAIN user' = DOMAIN user,
         \A n \in DOMAIN user :
           /\ user'[n].sent = user[n].sent
           /\ user'[n].state = "waiting" => user[n].state = "waiting",
         \A id \in DOMAIN calls : user'[calls[id].call].state = "waiting" => id \in DOMAIN calls',
         DOMAIN calls' \subseteq DOMAIN calls, calls' \in [DOMAIN calls' -> Calling],
         \A id \in DOMAIN calls' :
           /\ calls'[id].call = calls[id].call
           /\ calls'[id].request = calls[id].request
           /\ calls'[id].first = calls[id].first,
         down' \in Seq(Answering), \A k \in DOMAIN down' : \E j \in DOMAIN down : down'[k] = down[j],
         NEW c, NEW cid, cid \in DOMAIN calls, calls[cid].call = c,
         outbox' \in Seq(Message), Unsubscribed(Pipe, Pipe', c, cid),
         Few', Entries', IsOpen \/ (outbox' = <<>> /\ down' = <<>>)
  PROVE  Keeps
<1> USE DEF Shape
<1>1. /\ UNCHANGED <<case, nextId, up, turn, active, execs, mixed>> /\ plan' = plan
      /\ UNCHANGED <<service, state, wait, uptime, retries, makes, breaks>>
  BY DEF server, channelVars, plan
<1>2. ChannelInv' /\ Quiet'
  <2>1. ChannelInv'
    BY <1>1 DEF ChannelInv, ChannelTypeOK
  <2> QED
    BY <1>1, <2>1 DEF Quiet, IsOpen
<1>3. Len(user') = Len(user) /\ Len(user) \in Nat
  <2> HIDE DEF User
  <2> QED
    BY UserType
<1>4. Types'
  <2>1. DOMAIN calls' \subseteq Id
    BY DEF Types
  <2> QED
    BY <1>1, <1>3, <2>1 DEF Types
<1>5. /\ DOMAIN Pipe \subseteq DOMAIN Pipe'
      /\ \A k \in DOMAIN Pipe : Pipe'[k] = Pipe[k]
      /\ \A k \in DOMAIN Pipe' : k \in DOMAIN Pipe \/ Pipe'[k] = Unsubscribe(c, cid)
  BY DEF Unsubscribed
<1>6. \A k \in DOMAIN Pipe' :
        \/ k \in DOMAIN Pipe /\ Pipe'[k] = Pipe[k]
        \/ /\ Pipe'[k].type = "unsub" /\ Pipe'[k].id = cid /\ Pipe'[k].call = c
           /\ Pipe'[k].value = 0 /\ ~Names(Pipe'[k])
           /\ \A n : ~Speaks(Pipe'[k], n)
  <2>1. PICK u : u = Unsubscribe(c, cid)
    OBVIOUS
  <2>2. u.type = "unsub" /\ u.id = cid /\ u.call = c /\ u.value = 0 /\ u.method = ""
    BY <2>1 DEF Unsubscribe
  <2>3. ~Names(u) /\ \A n : ~Speaks(u, n)
    BY <2>2 DEF Names, Speaks, Speech
  <2>4. \A k \in DOMAIN Pipe' : (k \in DOMAIN Pipe /\ Pipe'[k] = Pipe[k]) \/ Pipe'[k] = u
    BY <1>5, <2>1
  <2> QED
    BY <2>2, <2>3, <2>4
<1>7. cid \in Id /\ cid # 0 /\ c \in DOMAIN user
  <2>1. cid \in Id /\ c \in DOMAIN user
    BY DEF Types, Entries
  <2> QED
    BY <2>1 DEF Id
<1>8. Messages'
  BY <1>1, <1>6, <1>7 DEF Messages, MessageOK, Speech
<1>9. Execs' /\ OncePerConnection'
  BY <1>1 DEF Execs, OncePerConnection
<1>10. NamedOnce'
  BY <1>1, <1>6 DEF NamedOnce
<1>11. Unsent'
  <2> SUFFICES ASSUME NEW id \in DOMAIN calls', NEW n, n = calls'[id].call,
                      calls'[id].first, calls'[id].request = "open"
               PROVE  /\ user'[n].sent = 0
                      /\ \A k \in DOMAIN Pipe' : ~Speaks(Pipe'[k], n)
                      /\ \A i \in DOMAIN execs : execs[i].call # n
    BY <1>1 DEF Unsent
  <2>1. id \in DOMAIN calls /\ n = calls[id].call /\ calls[id].first /\ calls[id].request = "open"
    OBVIOUS
  <2>2. /\ user[n].sent = 0 /\ n \in DOMAIN user
        /\ \A k \in DOMAIN Pipe : ~Speaks(Pipe[k], n)
        /\ \A i \in DOMAIN execs : execs[i].call # n
    BY <2>1 DEF Unsent, Entries
  <2> QED
    BY <1>6, <2>2
<1>12. Answers' /\ Wants'
  <2> DEFINE W(id, n) == user'[n].state = "waiting" => id \in DOMAIN calls' /\ calls'[id].call = n
  <2>1. Answers'
    BY DEF Answers
  <2>2. ASSUME NEW id, NEW n \in DOMAIN user, Wanted(id, n) PROVE W(id, n)
    <3>1. user'[n].state = "waiting" => id \in DOMAIN calls /\ calls[id].call = n
      BY <2>2 DEF Wanted
    <3> QED
      BY <3>1
  <2>3. /\ \A k \in DOMAIN Pipe : Pipe[k].call \in DOMAIN user
        /\ \A i \in DOMAIN execs : execs[i].call \in DOMAIN user
        /\ \A k \in DOMAIN down : down[k].call \in DOMAIN user
    BY DEF Messages, MessageOK, Execs, Answers
  <2>4. W(cid, c)
    OBVIOUS
  <2> HIDE DEF W
  <2>5. \A k \in DOMAIN Pipe' : Pipe'[k].id # 0 => W(Pipe'[k].id, Pipe'[k].call)
    <3> SUFFICES ASSUME NEW k \in DOMAIN Pipe', Pipe'[k].id # 0 PROVE W(Pipe'[k].id, Pipe'[k].call)
      OBVIOUS
    <3>1. CASE k \in DOMAIN Pipe /\ Pipe'[k] = Pipe[k]
      BY <2>2, <2>3, <3>1 DEF Wants
    <3> QED
      BY <1>6, <2>4, <3>1
  <2>6. \A i \in DOMAIN execs : execs[i].id # 0 => W(execs[i].id, execs[i].call)
    BY <2>2, <2>3 DEF Wants
  <2>7. \A k \in DOMAIN down' : W(down'[k].id, down'[k].call)
    <3> SUFFICES ASSUME NEW k \in DOMAIN down' PROVE W(down'[k].id, down'[k].call)
      OBVIOUS
    <3>1. PICK j \in DOMAIN down : down'[k] = down[j]
      OBVIOUS
    <3> QED
      BY <2>2, <2>3, <3>1 DEF Wants
  <2> QED
    BY <1>1, <2>1, <2>5, <2>6, <2>7 DEF Wants, Wanted, W
<1>13. Shape'
  BY <1>2, <1>4, <1>8, <1>9, <1>10, <1>11, <1>12
<1> SUFFICES ASSUME Fit, ~mixed' PROVE Fit'
  BY <1>13 DEF Keeps
<1> USE DEF Fit
<1>14. Owned' /\ Values'
  <2>1. PICK own \in [Id -> 0..Len(user)] : OwnedBy(own)
    BY DEF Owned
  <2>2. own[cid] = c
    BY <2>1 DEF OwnedBy
  <2>3. \A k \in DOMAIN Pipe' : Pipe'[k].id # 0 => own[Pipe'[k].id] = Pipe'[k].call
    BY <1>6, <2>1, <2>2 DEF OwnedBy
  <2>4. OwnedBy(own)'
    BY <1>1, <2>1, <2>3 DEF OwnedBy
  <2> QED
    BY <1>1, <1>3, <2>1, <2>4 DEF Owned, Values
<1>15. Ordered'
  BY <1>6 DEF Ordered
<1>16. \A n, sent, g : Flow(Pipe, n, sent, g) => Flow(Pipe', n, sent, g)
  BY <1>5, <1>6 DEF Flow
<1>17. Flows'
  <2>1. ASSUME NEW k \in DOMAIN Pipe', NEW n, n = Pipe'[k].call, Speaks(Pipe'[k], n), Names(Pipe'[k])
        PROVE  Flow(Pipe', n, user'[n].sent, 0)
    <3>1. k \in DOMAIN Pipe /\ Pipe'[k] = Pipe[k]
      BY <1>6, <2>1
    <3>2. Flow(Pipe, n, user[n].sent, 0) /\ n \in DOMAIN user
      BY <2>1, <3>1 DEF Flows, Messages, MessageOK
    <3> QED
      BY <1>16, <3>2
  <2>2. ASSUME NEW id \in DOMAIN active, NEW e, e = execs[active[id]]
        PROVE  Flow(Pipe', e.call, user'[e.call].sent, Count(Taken(e)))
    <3>1. e.call \in DOMAIN user
      BY <2>2 DEF Execs
    <3> QED
      BY <1>16, <2>2, <3>1 DEF Flows
  <2> QED
    BY <1>1, <2>1, <2>2 DEF Flows
<1>18. Final'
  <2>1. \A id \in DOMAIN calls' :
          calls'[id].request = "open" =>
            /\ \A k \in DOMAIN Pipe' : Speaks(Pipe'[k], calls'[id].call) => Pipe'[k].type = "data"
            /\ \A j \in DOMAIN execs : execs[j].call = calls'[id].call /\ execs[j].stage \in Live =>
                                         execs[j].request # "done"
    BY <1>6 DEF Final
  <2>2. \A j \in DOMAIN execs :
          execs[j].stage \in Live /\ execs[j].request = "done" =>
            /\ Count(Taken(execs[j])) = user'[execs[j].call].sent
            /\ \A k \in DOMAIN Pipe' : ~Speaks(Pipe'[k], execs[j].call)
    BY <1>6 DEF Final, Execs
  <2> QED
    BY <1>1, <2>1, <2>2 DEF Final
<1> QED
  BY <1>14, <1>15, <1>17, <1>18

LEMMA StateChanged ==
  ASSUME Types, NEW n \in DOMAIN user, NEW s \in {"waiting", "over", "settled", "cancelled"},
         user' = [user EXCEPT ![n].state = s]
  PROVE  /\ user' \in Seq(User) /\ DOMAIN user' = DOMAIN user
         /\ \A j \in DOMAIN user : /\ user'[j].sent = user[j].sent
                                   /\ user'[j].state = IF j = n THEN s ELSE user[j].state
<1>1. user \in Seq(User) /\ DOMAIN user = 1..Len(user) /\ \A j \in DOMAIN user : user[j] \in User
  BY UserType
<1>2. PICK x : x = [user[n] EXCEPT !.state = s]
  OBVIOUS
<1>3. x \in User /\ x.sent = user[n].sent /\ x.state = s
  BY <1>1, <1>2 DEF User
<1>4. user' = [user EXCEPT ![n] = x]
  BY <1>2
<1>5. user' \in Seq(User) /\ DOMAIN user' = DOMAIN user
  <2> HIDE DEF User
  <2> QED
    BY <1>1, <1>3, <1>4
<1> QED
  BY <1>1, <1>3, <1>4, <1>5

LEMMA SubscribedFew ==
  ASSUME Types
  PROVE  IsFiniteSet(Subscribed) /\ Cardinality(Subscribed) \in Nat /\ Subscribed \subseteq DOMAIN user
<1>1. Subscribed \subseteq 1..Len(user) /\ Len(user) \in Nat
  BY UserType DEF Subscribed
<1>2. IsFiniteSet(1..Len(user))
  BY <1>1, FS_Interval
<1>3. IsFiniteSet(Subscribed)
  BY <1>1, <1>2, FS_Subset
<1> QED
  BY <1>1, <1>3, UserType, FS_CardinalityType

LEMMA FewerInv ==
  ASSUME Types, Few, Subscribed' \subseteq Subscribed
  PROVE  Few'
<1>1. Cardinality(Subscribed') <= Cardinality(Subscribed) /\ Cardinality(Subscribed') \in Nat
  BY SubscribedFew, FS_Subset, FS_CardinalityType
<1> QED
  BY <1>1, SubscribedFew, SizesAssumption DEF Few

LEMMA DeliverInv ==
  ASSUME Shape, Deliver
  PROVE  Keeps
<1> USE DEF Shape
<1>1. PICK m, entry, n :
        m = Head(down) /\ entry = calls[m.id] /\ n = entry.call
  OBVIOUS
<1>2. /\ down # <<>> /\ down' = Tail(down) /\ UNCHANGED <<channelVars, case, nextId, up, server, mixed>>
      /\ down \in Seq(Answering)
      /\ plan' = plan
  BY DEF Deliver, Types, plan
<1>3. /\ m \in Answering /\ (m.type = "data" => m.value # 0)
      /\ down' \in Seq(Answering)
      /\ \A k \in DOMAIN down' : \E j \in DOMAIN down : down'[k] = down[j]
  <2> HIDE DEF Answering
  <2>1. Len(down) \in Nat /\ DOMAIN down = 1..Len(down)
    BY <1>2
  <2>2. /\ m \in Answering /\ down' \in Seq(Answering)
        /\ DOMAIN down' = 1..(Len(down) - 1)
        /\ \A k \in 1..(Len(down) - 1) : down'[k] = down[k + 1]
    BY <1>1, <1>2
  <2>3. \A k \in DOMAIN down' : k + 1 \in DOMAIN down
    BY <2>1, <2>2
  <2>4. m = down[1] /\ 1 \in DOMAIN down
    BY <1>1, <1>2, <2>1
  <2> QED
    BY <2>2, <2>3, <2>4 DEF Answers
<1>4. IsOpen
  BY <1>2 DEF Quiet
<1>5. /\ calls \in [DOMAIN calls -> Calling] /\ DOMAIN calls \subseteq Id
      /\ \A id \in DOMAIN calls : calls[id] \in Calling
  BY DEF Types
<1>6. CASE m.id \notin DOMAIN calls \/ entry.answer = "done"
  <2>1. UNCHANGED <<user, calls, outbox>>
    BY <1>1, <1>6 DEF Deliver
  <2>2. Few' /\ Entries'
    BY <1>2, <2>1 DEF Few, Subscribed, Entries
  <2>3. Pipe' = Pipe
    BY <1>2, <2>1, PipeSame
  <2>4. CASE DOMAIN calls # {}
    <3>1. PICK id \in DOMAIN calls : TRUE
      BY <2>4
    <3>2. Unsubscribed(Pipe, Pipe', calls[id].call, id)
      BY <2>3 DEF Unsubscribed
    <3>3. outbox' \in Seq(Message) /\ user' \in Seq(User)
      BY <2>1 DEF Types
    <3> HIDE DEF Shape
    <3> QED
      BY <1>2, <1>3, <1>4, <1>5, <2>1, <2>2, <3>1, <3>2, <3>3, HeardInv
  <2>5. CASE DOMAIN calls = {}
    <3>1. /\ UNCHANGED <<case, nextId, up, turn, active, execs, user, calls, outbox, mixed>>
          /\ UNCHANGED <<service, state, wait, uptime, retries, makes, breaks>>
      BY <1>2, <2>1 DEF server, channelVars
    <3>2. ChannelInv' /\ Quiet' /\ Types'
      BY <1>3, <1>4, <3>1, <1>2 DEF ChannelInv, ChannelTypeOK, Quiet, IsOpen, Types
    <3>3. Messages' /\ Execs' /\ NamedOnce' /\ Unsent'
      BY <1>2, <2>3, <3>1 DEF Messages, MessageOK, Execs, NamedOnce, Unsent
    <3>4. OncePerConnection' /\ Answers' /\ Wants'
      BY <1>3, <2>3, <3>1 DEF OncePerConnection, Answers, Wants, Wanted
    <3>5. Shape'
      BY <2>2, <3>2, <3>3, <3>4
    <3> SUFFICES ASSUME Fit, ~mixed' PROVE Fit'
      BY <3>5 DEF Keeps
    <3> USE DEF Fit
    <3>6. Values' /\ Ordered' /\ Flows' /\ Final'
      BY <2>3, <3>1 DEF Values, Ordered, Flows, Final
    <3>7. Owned'
      <4>1. PICK own \in [Id -> 0..Len(user)] : OwnedBy(own)
        BY DEF Owned
      <4>2. \A k \in DOMAIN down' : own[down'[k].id] = down'[k].call
        BY <1>3, <4>1 DEF OwnedBy
      <4>3. OwnedBy(own)'
        BY <2>3, <3>1, <4>1, <4>2 DEF OwnedBy
      <4> QED
        BY <3>1, <4>1, <4>3 DEF Owned
    <3> QED
      BY <3>6, <3>7
  <2> QED
    BY <2>4, <2>5
<1>7. CASE m.id \in DOMAIN calls /\ entry.answer # "done"
  <2> DEFINE once == plan[n].form = "call"
             final == m.type # "data"
             outcome == IF m.type = "error" \/ (once /\ m.value # 0) THEN "settled"
                        ELSE IF final THEN "over" ELSE user[n].state
             after == [entry EXCEPT !.answer = "done"]
  <2>1. /\ user' = [user EXCEPT ![n].state = outcome]
        /\ IF final \/ once THEN calls' = Settled(calls, m.id, after) ELSE UNCHANGED calls
        /\ Send(IF once /\ ~final THEN <<Unsubscribe(n, m.id)>> ELSE <<>>)
    BY <1>1, <1>7 DEF Deliver
  <2>2. /\ entry \in Calling /\ entry.answer = "open" /\ n \in DOMAIN user
        /\ user[n].state = "waiting" /\ m.id \in Id
        /\ \A id \in DOMAIN calls : calls[id].call = n => id = m.id
    <3>1. entry \in Calling /\ m.id \in Id
      BY <1>1, <1>5, <1>7
    <3>2. entry.answer = "open"
      BY <1>7, <3>1 DEF Calling
    <3> QED
      BY <1>1, <1>7, <3>1, <3>2 DEF Entries
  <2>3. /\ outcome \in {"waiting", "over", "settled", "cancelled"}
        /\ outcome = "waiting" <=> ~final /\ ~once
    BY <1>3, <2>2
  <2>4. /\ user' \in Seq(User) /\ DOMAIN user' = DOMAIN user
        /\ \A j \in DOMAIN user : /\ user'[j].sent = user[j].sent
                                  /\ user'[j].state = IF j = n THEN outcome ELSE user[j].state
    <3> HIDE DEF outcome
    <3> QED
      BY <2>1, <2>2, <2>3, StateChanged
  <2>5. /\ after \in Calling /\ after.answer = "done" /\ after.call = n
        /\ after.request = entry.request /\ after.first = entry.first
    BY <1>1, <2>2 DEF Calling
  <2>6. /\ DOMAIN calls' \subseteq DOMAIN calls /\ calls' \in [DOMAIN calls' -> Calling]
        /\ \A id \in DOMAIN calls' : id # m.id => calls'[id] = calls[id]
        /\ \A id \in DOMAIN calls : id # m.id => id \in DOMAIN calls'
        /\ m.id \in DOMAIN calls' =>
             \/ calls'[m.id] = after /\ after.request = "open" /\ (final \/ once)
             \/ calls'[m.id] = entry /\ ~final /\ ~once
        /\ ~final /\ ~once => m.id \in DOMAIN calls'
    <3>1. CASE final \/ once
      <4>1. calls' = Settled(calls, m.id, after)
        BY <2>1, <3>1
      <4> HIDE DEF after, final, once
      <4> QED
        BY <1>5, <1>7, <2>5, <3>1, <4>1, SettledOK
    <3>2. CASE ~(final \/ once)
      <4>1. calls' = calls
        BY <2>1, <3>2
      <4> HIDE DEF once, final
      <4> QED
        BY <1>1, <1>5, <1>7, <3>2, <4>1
    <3> QED
      BY <3>1, <3>2
  <2>7. Few'
    <3>1. Subscribed' \subseteq Subscribed
      BY <2>2, <2>4 DEF Subscribed
    <3> QED
      BY <3>1, FewerInv
  <2>8. \A id \in DOMAIN calls' :
          /\ calls'[id].call = calls[id].call
          /\ calls'[id].request = calls[id].request
          /\ calls'[id].first = calls[id].first
          /\ id # m.id => calls'[id].answer = calls[id].answer
    <3> HIDE DEF after, once, final
    <3> QED
      BY <1>1, <2>5, <2>6
  <2>9. Entries'
    <3>1. ASSUME NEW id \in DOMAIN calls'
          PROVE  /\ calls'[id].call \in DOMAIN user'
                 /\ calls'[id].request = "open" => plan[calls'[id].call].form = "stream"
                 /\ plan[calls'[id].call].form # "notify"
                 /\ calls'[id].request = "open" \/ calls'[id].answer = "open"
                 /\ calls'[id].answer = "open" <=> user'[calls'[id].call].state = "waiting"
      <4>1. CASE id # m.id
        <5>1. calls[id].call # n /\ calls[id].call \in DOMAIN user
          BY <2>2, <2>6, <4>1 DEF Entries
        <5> QED
          BY <2>4, <2>6, <4>1, <5>1 DEF Entries
      <4>2. CASE id = m.id
        <5> HIDE DEF outcome, after, once, final
        <5> QED
          BY <1>1, <2>2, <2>3, <2>4, <2>5, <2>6, <2>8, <4>2 DEF Entries
      <4> QED
        BY <4>1, <4>2
    <3>2. \A id, other \in DOMAIN calls' : calls'[id].call = calls'[other].call => id = other
      BY <2>6, <2>8 DEF Entries
    <3> QED
      BY <1>2, <3>1, <3>2 DEF Entries
  <2>10. outbox' \in Seq(Message) /\ Unsubscribed(Pipe, Pipe', n, m.id)
    <3>1. Send(<<>>) \/ Send(<<Unsubscribe(n, m.id)>>)
      BY <2>1
    <3> QED
      BY <1>2, <1>4, <2>2, <3>1, UnsubscribedOK
  <2>11. calls[m.id].call = n /\ m.id \in DOMAIN calls
    BY <1>1, <1>7
  <2>12. /\ \A j \in DOMAIN user : user'[j].state = "waiting" => user[j].state = "waiting"
         /\ \A id \in DOMAIN calls : user'[calls[id].call].state = "waiting" => id \in DOMAIN calls'
    <3> HIDE DEF outcome, after, once, final
    <3> QED
      BY <2>2, <2>3, <2>4, <2>6, <2>11
  <2> HIDE DEF Shape
  <2> QED
    BY <1>2, <1>3, <1>4, <2>4, <2>6, <2>7, <2>8, <2>9, <2>10, <2>11, <2>12, HeardInv
<1> QED
  BY <1>6, <1>7

LEMMA CancelInv ==
  ASSUME Shape, NEW n \in DOMAIN user, Cancel(n)
  PROVE  Keeps
<1> USE DEF Shape
<1> DEFINE mine == {id \in DOMAIN calls : calls[id].call = n /\ calls[id].answer = "open"}
<1>1. /\ UNCHANGED <<channelVars, case, nextId, up, server, down, mixed>>
      /\ user' = [user EXCEPT ![n].state = "cancelled"] /\ n \in Subscribed
      /\ plan' = plan
  BY DEF Cancel, plan
<1>2. /\ user' \in Seq(User) /\ DOMAIN user' = DOMAIN user
      /\ \A j \in DOMAIN user : /\ user'[j].sent = user[j].sent
                                /\ user'[j].state = IF j = n THEN "cancelled" ELSE user[j].state
  BY <1>1, StateChanged
<1>3. Few'
  <2>1. Subscribed' \subseteq Subscribed
    BY <1>1, <1>2 DEF Subscribed
  <2> QED
    BY <2>1, FewerInv
<1>4. /\ calls \in [DOMAIN calls -> Calling] /\ DOMAIN calls \subseteq Id
      /\ \A id \in DOMAIN calls : calls[id] \in Calling
      /\ down \in Seq(Answering)
  BY DEF Types
<1>5. CASE mine = {}
  <2>1. UNCHANGED <<calls, outbox>>
    BY <1>5 DEF Cancel
  <2>2. Entries'
    BY <1>1, <1>2, <1>4, <1>5, <2>1 DEF Entries, Calling
  <2>3. /\ UNCHANGED <<case, nextId, up, turn, active, execs, down, calls, outbox, mixed>>
        /\ UNCHANGED <<service, state, wait, uptime, retries, makes, breaks>>
        /\ Pipe' = Pipe
    BY <1>1, <2>1, PipeSame DEF server, channelVars
  <2>4. Len(user') = Len(user)
    <3> HIDE DEF User
    <3> QED
      BY <1>2, UserType
  <2>5. ChannelInv' /\ Quiet' /\ Types'
    BY <1>1, <1>2, <2>3, <2>4 DEF ChannelInv, ChannelTypeOK, Quiet, IsOpen, Types
  <2>6. Messages' /\ Execs' /\ NamedOnce'
    BY <1>1, <1>2, <2>3 DEF Messages, MessageOK, Execs, NamedOnce
  <2>7. Unsent' /\ OncePerConnection'
    BY <1>2, <2>3 DEF Unsent, OncePerConnection, Entries
  <2>8. Answers' /\ Wants'
    <3>1. \A id : \A j \in DOMAIN user : Wanted(id, j) => Wanted(id, j)'
      BY <1>2, <2>3 DEF Wanted
    <3>2. /\ \A k \in DOMAIN Pipe : Pipe[k].call \in DOMAIN user
          /\ \A k \in DOMAIN down : down[k].call \in DOMAIN user
          /\ \A i \in DOMAIN execs : execs[i].call \in DOMAIN user
      BY DEF Messages, MessageOK, Answers, Execs
    <3> QED
      BY <1>2, <2>3, <3>1, <3>2 DEF Answers, Wants
  <2>9. Shape'
    BY <1>3, <2>2, <2>5, <2>6, <2>7, <2>8
  <2> SUFFICES ASSUME Fit, ~mixed' PROVE Fit'
    BY <2>9 DEF Keeps
  <2> USE DEF Fit
  <2>10. Flows' /\ Final' /\ Values' /\ Ordered'
    <3>1. \A k \in DOMAIN Pipe : Pipe[k].call \in DOMAIN user
      BY DEF Messages, MessageOK
    <3>2. \A i \in DOMAIN execs : execs[i].call \in DOMAIN user
      BY DEF Execs
    <3>3. \A id \in DOMAIN active : active[id] \in DOMAIN execs
      BY DEF Execs
    <3> QED
      BY <1>2, <2>3, <3>1, <3>2, <3>3 DEF Flows, Final, Values, Ordered
  <2>11. Owned'
    BY <1>1, <2>3, <2>4 DEF Owned, OwnedBy
  <2> QED
    BY <2>10, <2>11
<1>6. CASE mine # {}
  <2>1. PICK id \in mine : /\ calls' = Settled(calls, id, [calls[id] EXCEPT !.answer = "done"])
                           /\ Send(<<Unsubscribe(n, id)>>)
    BY <1>6 DEF Cancel
  <2>2. id \in DOMAIN calls /\ calls[id].call = n /\ calls[id].answer = "open" /\ id \in Id
    BY <1>4, <2>1
  <2>3. PICK after : after = [calls[id] EXCEPT !.answer = "done"]
    OBVIOUS
  <2>4. /\ after \in Calling /\ after.answer = "done" /\ after.call = n
        /\ after.request = calls[id].request /\ after.first = calls[id].first
    BY <1>4, <2>2, <2>3 DEF Calling
  <2>5. /\ DOMAIN calls' \subseteq DOMAIN calls /\ calls' \in [DOMAIN calls' -> Calling]
        /\ \A other \in DOMAIN calls' : other # id => calls'[other] = calls[other]
        /\ \A other \in DOMAIN calls : other # id => other \in DOMAIN calls'
        /\ id \in DOMAIN calls' => calls'[id] = after /\ after.request = "open"
    <3>1. calls' = Settled(calls, id, after)
      BY <2>1, <2>3
    <3> HIDE DEF Calling, Shape, mine
    <3>2. /\ DOMAIN calls' \subseteq DOMAIN calls /\ calls' \in [DOMAIN calls' -> Calling]
          /\ \A other \in DOMAIN calls' : other # id => calls'[other] = calls[other]
          /\ \A other \in DOMAIN calls : other # id => other \in DOMAIN calls'
          /\ id \in DOMAIN calls' => calls'[id] = after /\ (after.request = "open" \/ after.answer = "open")
      BY <1>4, <2>2, <2>4, <3>1, SettledOK
    <3> QED
      BY <2>4, <3>2
  <2>6. \A other \in DOMAIN calls' :
          /\ calls'[other].call = calls[other].call
          /\ calls'[other].request = calls[other].request
          /\ calls'[other].first = calls[other].first
    BY <2>2, <2>4, <2>5
  <2>7. Entries'
    <3>1. ASSUME NEW other \in DOMAIN calls'
          PROVE  /\ calls'[other].call \in DOMAIN user'
                 /\ calls'[other].request = "open" => plan[calls'[other].call].form = "stream"
                 /\ plan[calls'[other].call].form # "notify"
                 /\ calls'[other].request = "open" \/ calls'[other].answer = "open"
                 /\ calls'[other].answer = "open" <=> user'[calls'[other].call].state = "waiting"
      <4>1. CASE other # id
        <5>1. calls[other].call # n /\ calls[other].call \in DOMAIN user
          BY <2>2, <2>5, <4>1 DEF Entries
        <5> QED
          BY <1>2, <2>5, <4>1, <5>1 DEF Entries
      <4>2. CASE other = id
        BY <1>2, <2>2, <2>4, <2>5, <4>2 DEF Entries
      <4> QED
        BY <4>1, <4>2
    <3>2. \A other, another \in DOMAIN calls' :
            calls'[other].call = calls'[another].call => other = another
      BY <2>5, <2>6 DEF Entries
    <3> QED
      BY <1>1, <3>1, <3>2 DEF Entries
  <2>8. outbox' \in Seq(Message) /\ Unsubscribed(Pipe, Pipe', n, id)
    <3>1. IsOpen \/ outbox' = outbox
      BY <2>1 DEF Send
    <3> QED
      BY <1>1, <2>1, <2>2, <3>1, UnsubscribedOK
  <2>9. /\ IsOpen \/ (outbox' = <<>> /\ down' = <<>>)
        /\ down' \in Seq(Answering) /\ \A k \in DOMAIN down' : \E j \in DOMAIN down : down'[k] = down[j]
        /\ UNCHANGED <<channelVars, case, nextId, up, server, mixed>>
    BY <1>1, <1>4, <2>1 DEF Quiet, Send
  <2>10. /\ \A j \in DOMAIN user : user'[j].state = "waiting" => user[j].state = "waiting"
         /\ \A other \in DOMAIN calls :
              user'[calls[other].call].state = "waiting" => other \in DOMAIN calls'
    BY <1>2, <2>2, <2>5
  <2> HIDE DEF Shape
  <2> QED
    BY <1>2, <1>3, <2>2, <2>5, <2>6, <2>7, <2>8, <2>9, <2>10, HeardInv
<1> QED
  BY <1>5, <1>6

-----------------------------------------------------------------------------
(* Requests go on.                                                         *)

\* One of those who made calls has sent more, or less.
LEMMA SentChanged ==
  ASSUME Types, NEW n \in DOMAIN user, NEW v \in Nat, user' = [user EXCEPT ![n].sent = v]
  PROVE  /\ user' \in Seq(User) /\ DOMAIN user' = DOMAIN user /\ Len(user') = Len(user)
         /\ \A j \in DOMAIN user : /\ user'[j].state = user[j].state
                                   /\ user'[j].sent = IF j = n THEN v ELSE user[j].sent
<1>1. user \in Seq(User) /\ DOMAIN user = 1..Len(user) /\ \A j \in DOMAIN user : user[j] \in User
  BY UserType
<1>2. PICK x : x = [user[n] EXCEPT !.sent = v]
  OBVIOUS
<1>3. x \in User /\ x.sent = v /\ x.state = user[n].state
  BY <1>1, <1>2 DEF User
<1>4. user' = [user EXCEPT ![n] = x]
  BY <1>2
<1>5. user' \in Seq(User) /\ DOMAIN user' = DOMAIN user /\ Len(user') = Len(user)
  <2> HIDE DEF User
  <2> QED
    BY <1>1, <1>3, <1>4
<1> QED
  BY <1>1, <1>3, <1>4, <1>5

\* What is known of a call is of one of the kinds there are.
LEMMA PlanType ==
  ASSUME Types
  PROVE  /\ Len(plan) \in Nat /\ DOMAIN plan = 1..Len(plan)
         /\ \A n \in DOMAIN plan : plan[n] \in Kind /\ plan[n].method \in Method /\ plan[n].method # ""
                                 /\ plan[n].form \in {"call", "stream", "notify"}
         /\ DOMAIN user \subseteq DOMAIN plan
<1>1. case \in Cases /\ Len(user) <= Len(plan)
  BY DEF Types
<1>2. plan \in Seq(Kind)
  BY <1>1, CasesAssumption DEF plan
<1>3. Len(plan) \in Nat /\ DOMAIN plan = 1..Len(plan) /\ \A n \in DOMAIN plan : plan[n] \in Kind
  <2> HIDE DEF plan, Kind
  <2> QED
    BY <1>2
<1>4. \A x \in Kind : x.method \in Method /\ x.method # "" /\ x.form \in {"call", "stream", "notify"}
  BY DEF Kind, Method
<1>5. DOMAIN user \subseteq DOMAIN plan
  <2> HIDE DEF plan
  <2> QED
    BY <1>1, <1>3, UserType
<1> QED
  BY <1>3, <1>4, <1>5

LEMMA EmitInv ==
  ASSUME Shape, NEW id \in DOMAIN calls, NEW type \in Emission, Emit(id, type)
  PROVE  Keeps
<1> USE DEF Shape
<1>1. PICK n, method, old, valued :
        /\ n = calls[id].call /\ old = user[n].sent
        /\ method = IF calls[id].first THEN plan[n].method ELSE ""
        /\ valued = (type \in {"data", "last"})
  OBVIOUS
<1>2. PICK new : new = IF type \in {"data", "last"} THEN old + 1 ELSE old
  OBVIOUS
<1>3. PICK entry : entry = [calls[id] EXCEPT !.first = FALSE, !.request = IF type = "data" THEN @ ELSE "done"]
  OBVIOUS
<1>4. PICK m : m = CASE type = "data" -> Data(n, id, method, old + 1)
                     [] type = "last" -> Complete(n, id, method, old + 1)
                     [] type = "end" -> Complete(n, id, method, 0)
                     [] type = "error" -> Fail(n, id, method)
  OBVIOUS
<1>5. /\ calls[id].request = "open"
      /\ user' = [user EXCEPT ![n].sent = new]
      /\ calls' = Settled(calls, id, entry)
      /\ Send(<<m>>)
      /\ UNCHANGED <<channelVars, case, nextId, up, server, down, mixed>>
  <2>1. EmitOf(id, type, method)
    BY <1>1 DEF Emit
  <2>2. /\ calls[id].request = "open"
        /\ calls' = Settled(calls, id, entry)
        /\ UNCHANGED <<channelVars, case, nextId, up, server, down, mixed>>
    BY <1>3, <2>1 DEF EmitOf
  <2>3. user' = [user EXCEPT ![n].sent = new]
    BY <1>1, <1>2, <2>1 DEF EmitOf
  <2>4. Send(<<m>>)
    <3>1. Send(CASE type = "data" -> <<Data(n, id, method, old + 1)>>
                 [] type = "last" -> <<Complete(n, id, method, old + 1)>>
                 [] type = "end" -> <<Complete(n, id, method, 0)>>
                 [] type = "error" -> <<Fail(n, id, method)>>)
      BY <1>1, <2>1 DEF EmitOf
    <3>2. CASE type = "data"
      BY <1>4, <3>1, <3>2
    <3>3. CASE type = "last"
      BY <1>4, <3>1, <3>3
    <3>4. CASE type = "end"
      BY <1>4, <3>1, <3>4
    <3>5. CASE type = "error"
      BY <1>4, <3>1, <3>5
    <3> QED
      BY <3>2, <3>3, <3>4, <3>5 DEF Emission
  <2> QED
    BY <2>2, <2>3, <2>4
<1>6. /\ UNCHANGED <<case, nextId, up, down, turn, active, execs, mixed>> /\ plan' = plan
      /\ UNCHANGED <<service, state, wait, uptime, retries, makes, breaks>>
  BY <1>5 DEF server, channelVars, plan
<1>7. /\ id \in Id /\ id \in 0..MaxId /\ id # 0
      /\ calls \in [DOMAIN calls -> Calling] /\ calls[id] \in Calling
      /\ n \in DOMAIN user /\ n \in Nat /\ old \in Nat /\ new \in Nat /\ old <= new
      /\ plan[n].form = "stream"
  <2>1. id \in Id /\ calls \in [DOMAIN calls -> Calling] /\ calls[id] \in Calling
    BY DEF Types
  <2>2. n \in DOMAIN user /\ plan[n].form = "stream"
    BY <1>1, <1>5 DEF Entries
  <2>3. n \in Nat /\ old \in Nat
    <3>1. Len(user) \in Nat /\ DOMAIN user = 1..Len(user) /\ \A j \in DOMAIN user : user[j].sent \in Nat
      BY UserType
    <3>2. old = user[n].sent
      BY <1>1
    <3> QED
      BY <2>2, <3>1, <3>2
  <2>4. id \in 0..MaxId /\ id # 0
    BY <2>1, SizesAssumption DEF Id
  <2> QED
    BY <1>2, <2>1, <2>2, <2>3, <2>4
<1>8. /\ method \in Method \cup {""} /\ (method # "" => calls[id].first)
  BY <1>1, <1>7, PlanType
<1>9. /\ m.type \in Speech /\ m.call = n /\ m.id = id /\ m.method = method
      /\ m.value = IF type \in {"data", "last"} THEN old + 1 ELSE 0
      /\ m.type = "data" <=> type = "data"
      /\ m.type = "error" => m.value = 0
      /\ m = [type |-> m.type, id |-> id, call |-> n, method |-> method, value |-> m.value]
  <2>1. CASE type = "data"
    BY <1>4, <2>1 DEF Data, Speech
  <2>2. CASE type = "last"
    BY <1>4, <2>2 DEF Complete, Speech
  <2>3. CASE type = "end"
    BY <1>4, <2>3 DEF Complete, Speech
  <2>4. CASE type = "error"
    BY <1>4, <2>4 DEF Fail, Speech
  <2> QED
    BY <2>1, <2>2, <2>3, <2>4 DEF Emission
<1>10. /\ m.value \in Nat /\ m.value <= new
       /\ m.value # 0 => m.value = new /\ new = old + 1
       /\ m.value = 0 => new = old
  BY <1>2, <1>7, <1>9
<1>11. m \in Message
  <2>1. m.type \in Speech \cup {"unsub", "notify"}
    BY <1>9
  <2> QED
    BY <1>7, <1>8, <1>9, <1>10, <2>1 DEF Message
<1>12. /\ user' \in Seq(User) /\ DOMAIN user' = DOMAIN user /\ Len(user') = Len(user)
       /\ \A j \in DOMAIN user : /\ user'[j].state = user[j].state
                                 /\ user'[j].sent = IF j = n THEN new ELSE user[j].sent
  BY <1>5, <1>7, SentChanged
<1>13. /\ entry \in Calling /\ entry.call = n /\ ~entry.first /\ entry.answer = calls[id].answer
       /\ entry.request = IF type = "data" THEN "open" ELSE "done"
  BY <1>1, <1>3, <1>5, <1>7 DEF Calling
<1>14. /\ DOMAIN calls' \subseteq DOMAIN calls /\ calls' \in [DOMAIN calls' -> Calling]
       /\ \A other \in DOMAIN calls' : other # id => calls'[other] = calls[other]
       /\ \A other \in DOMAIN calls : other # id => other \in DOMAIN calls'
       /\ entry.answer = "open" => id \in DOMAIN calls'
       /\ id \in DOMAIN calls' => calls'[id] = entry /\ (entry.request = "open" \/ entry.answer = "open")
  <2> HIDE DEF Calling, Shape
  <2> QED
    BY <1>5, <1>7, <1>13, SettledOK
<1>15. \A other \in DOMAIN calls' : calls'[other].call = calls[other].call
  BY <1>1, <1>13, <1>14
<1>16. \A other \in DOMAIN calls' : other # id => calls[other].call # n
  BY <1>1, <1>14 DEF Entries
<1>17. /\ DOMAIN Pipe = 1..Length /\ Length \in Nat
       /\ outbox' \in Seq(Message)
       /\ DOMAIN Pipe \subseteq DOMAIN Pipe'
       /\ \A k \in DOMAIN Pipe : Pipe'[k] = Pipe[k]
       /\ \A k \in DOMAIN Pipe' : k \in DOMAIN Pipe \/ (Pipe'[k] = m /\ k = Length + 1)
       /\ IsOpen => Length + 1 \in DOMAIN Pipe' /\ Pipe'[Length + 1] = m
       /\ ~IsOpen => DOMAIN Pipe' = {} /\ execs = <<>> /\ active = <<>>
  <2>1. DOMAIN Pipe = 1..Length /\ Length \in Nat
    BY PipeType
  <2>2. CASE IsOpen
    <3>1. /\ outbox' \in Seq(Message) /\ DOMAIN Pipe' = 1..(Length + 1)
          /\ \A k \in 1..Length : Pipe'[k] = Pipe[k]
          /\ Pipe'[Length + 1] = m
      BY <1>5, <1>6, <1>11, <2>2, PipeSent
    <3> QED
      BY <2>1, <2>2, <3>1
  <2>3. CASE ~IsOpen
    <3>1. outbox' = outbox /\ outbox \in Seq(Message) /\ outbox = <<>> /\ up = <<>>
          /\ execs = <<>> /\ active = <<>>
      BY <1>5, <2>3 DEF Send, Types, Quiet
    <3>2. Pipe' = Pipe
      BY <1>6, <3>1, PipeSame
    <3>3. Length = 0
      BY <3>1 DEF Length
    <3> QED
      BY <2>1, <2>3, <3>1, <3>2, <3>3
  <2> QED
    BY <2>2, <2>3
<1>18. /\ Speaks(m, n) /\ \A c : Speaks(m, c) => c = n
       /\ Names(m) => calls[id].first
       /\ m.type \notin {"unsub", "notify"}
  BY <1>8, <1>9 DEF Speaks, Names, Speech
<1>19. ChannelInv' /\ Quiet' /\ Types' /\ Few'
  <2>1. ChannelInv'
    BY <1>6 DEF ChannelInv, ChannelTypeOK
  <2>2. Quiet'
    BY <1>5, <1>6 DEF Quiet, Send, IsOpen
  <2>3. Types'
    <3>1. DOMAIN calls' \subseteq Id
      BY <1>14 DEF Types
    <3> QED
      BY <1>6, <1>12, <1>14, <1>17, <3>1 DEF Types
  <2>4. Subscribed' = Subscribed
    BY <1>12 DEF Subscribed
  <2> QED
    BY <2>1, <2>2, <2>3, <2>4 DEF Few
<1>20. Entries'
  <2>1. ASSUME NEW other \in DOMAIN calls'
        PROVE  /\ calls'[other].call \in DOMAIN user'
               /\ calls'[other].request = "open" => plan[calls'[other].call].form = "stream"
               /\ plan[calls'[other].call].form # "notify"
               /\ calls'[other].request = "open" \/ calls'[other].answer = "open"
               /\ calls'[other].answer = "open" <=> user'[calls'[other].call].state = "waiting"
    <3>1. CASE other # id
      <4>1. calls[other].call \in DOMAIN user /\ calls'[other] = calls[other]
        BY <1>14, <3>1 DEF Entries
      <4> QED
        BY <1>12, <1>14, <4>1 DEF Entries
    <3>2. CASE other = id
      <4>1. calls[id].answer = "open" <=> user[n].state = "waiting"
        BY <1>1 DEF Entries
      <4> QED
        BY <1>7, <1>12, <1>13, <1>14, <3>2, <4>1
    <3> QED
      BY <3>1, <3>2
  <2>2. \A other, another \in DOMAIN calls' :
          calls'[other].call = calls'[another].call => other = another
    BY <1>14, <1>15 DEF Entries
  <2> QED
    BY <1>6, <2>1, <2>2 DEF Entries
<1>21. Messages'
  <2> SUFFICES ASSUME NEW k \in DOMAIN Pipe', NEW x, x = Pipe'[k]
               PROVE  MessageOK(x)'
    BY DEF Messages
  <2>1. CASE k \in DOMAIN Pipe
    <3>1. x = Pipe[k] /\ MessageOK(x) /\ x.value \in Nat
      BY <1>17, <2>1, PipeType DEF Messages, Message
    <3>2. x.call \in DOMAIN user /\ user[x.call].sent \in Nat
      BY <3>1, UserType DEF MessageOK
    <3>3. user[x.call].sent <= user'[x.call].sent /\ user'[x.call].sent \in Nat
      <4>1. user'[x.call].sent = IF x.call = n THEN new ELSE user[x.call].sent
        BY <1>12, <3>2
      <4>2. old = user[n].sent
        BY <1>1
      <4> QED
        BY <1>7, <3>2, <4>1, <4>2
    <3>4. x.type \in Speech => x.value <= user'[x.call].sent
      <4>1. x.type \in Speech => x.value <= user[x.call].sent
        BY <3>1 DEF MessageOK
      <4> QED
        BY <3>1, <3>2, <3>3, <4>1
    <3> QED
      BY <1>6, <1>12, <3>1, <3>4 DEF MessageOK
  <2>2. CASE Pipe'[k] = m
    <3>1. m.type = "data" => m.value # 0
      BY <1>7, <1>9
    <3>2. m.call \in DOMAIN user' /\ user'[m.call].sent = new
      BY <1>7, <1>9, <1>12
    <3> QED
      BY <1>7, <1>9, <1>10, <1>18, <2>2, <3>1, <3>2 DEF MessageOK
  <2> QED
    BY <1>17, <2>1, <2>2
<1>22. Execs' /\ OncePerConnection'
  BY <1>6, <1>12 DEF Execs, OncePerConnection
<1>23. calls[id].first =>
         /\ old = 0
         /\ \A k \in DOMAIN Pipe : ~Speaks(Pipe[k], n)
         /\ \A k \in DOMAIN Pipe : Names(Pipe[k]) => Pipe[k].call # n
         /\ \A i \in DOMAIN execs : execs[i].call # n
  <2> SUFFICES ASSUME calls[id].first
               PROVE  /\ old = 0
                      /\ \A k \in DOMAIN Pipe : ~Speaks(Pipe[k], n)
                      /\ \A k \in DOMAIN Pipe : Names(Pipe[k]) => Pipe[k].call # n
                      /\ \A i \in DOMAIN execs : execs[i].call # n
    OBVIOUS
  <2>1. /\ old = 0
        /\ \A k \in DOMAIN Pipe : ~Speaks(Pipe[k], n)
        /\ \A i \in DOMAIN execs : execs[i].call # n
    BY <1>1, <1>5 DEF Unsent
  <2>2. ASSUME NEW k \in DOMAIN Pipe, NEW x, x = Pipe[k], Names(x), x.call = n
        PROVE  FALSE
    <3>1. x \in Message /\ MessageOK(x)
      BY <2>2, PipeType DEF Messages
    <3>2. x.type \in Speech \cup {"unsub", "notify"}
      BY <3>1 DEF Message
    <3>3. x.type # "unsub" /\ x.type # "notify"
      BY <1>7, <2>2, <3>1 DEF MessageOK
    <3>4. Speaks(x, n)
      BY <2>2, <3>2, <3>3 DEF Speaks
    <3> QED
      BY <2>1, <2>2, <3>4
  <2> QED
    BY <2>1, <2>2
<1>24. NamedOnce'
  <2>1. ASSUME NEW j \in DOMAIN Pipe', NEW k \in DOMAIN Pipe', NEW x, NEW y, x = Pipe'[j], y = Pipe'[k],
               Names(x), Names(y), x.call = y.call
        PROVE  j = k
    <3>1. CASE j \in DOMAIN Pipe /\ k \in DOMAIN Pipe
      BY <1>17, <2>1, <3>1 DEF NamedOnce
    <3>2. CASE j \notin DOMAIN Pipe /\ k \in DOMAIN Pipe
      BY <1>9, <1>17, <1>18, <1>23, <2>1, <3>2
    <3>3. CASE j \in DOMAIN Pipe /\ k \notin DOMAIN Pipe
      BY <1>9, <1>17, <1>18, <1>23, <2>1, <3>3
    <3>4. CASE j \notin DOMAIN Pipe /\ k \notin DOMAIN Pipe
      BY <1>17, <3>4
    <3> QED
      BY <3>1, <3>2, <3>3, <3>4
  <2>2. ASSUME NEW k \in DOMAIN Pipe', NEW i \in DOMAIN execs, NEW x, x = Pipe'[k], Names(x)
        PROVE  execs[i].call # x.call
    <3>1. CASE k \in DOMAIN Pipe
      BY <1>17, <2>2, <3>1 DEF NamedOnce
    <3>2. CASE x = m
      BY <1>9, <1>18, <1>23, <2>2, <3>2
    <3> QED
      BY <1>17, <2>2, <3>1, <3>2
  <2> QED
    BY <1>6, <2>1, <2>2 DEF NamedOnce
<1>25. Unsent'
  <2> SUFFICES ASSUME NEW other \in DOMAIN calls', NEW c, c = calls'[other].call,
                      calls'[other].first, calls'[other].request = "open"
               PROVE  /\ user'[c].sent = 0
                      /\ \A k \in DOMAIN Pipe' : ~Speaks(Pipe'[k], c)
                      /\ \A i \in DOMAIN execs : execs[i].call # c
    BY <1>6 DEF Unsent
  <2>1. other # id
    BY <1>13, <1>14
  <2>2. other \in DOMAIN calls /\ calls'[other] = calls[other] /\ c # n
    BY <1>14, <1>16, <2>1
  <2>3. /\ user[c].sent = 0 /\ c \in DOMAIN user
        /\ \A k \in DOMAIN Pipe : ~Speaks(Pipe[k], c)
        /\ \A i \in DOMAIN execs : execs[i].call # c
    BY <2>2 DEF Unsent, Entries
  <2> QED
    BY <1>12, <1>17, <1>18, <2>2, <2>3
<1>26. Answers' /\ Wants'
  <2>1. Answers'
    BY <1>6, <1>12 DEF Answers
  <2> DEFINE W(other, c) ==
        user'[c].state = "waiting" => other \in DOMAIN calls' /\ calls'[other].call = c
  <2>2. \A other : \A c \in DOMAIN user : Wanted(other, c) => W(other, c)
    <3>1. user[n].state = "waiting" => id \in DOMAIN calls'
      BY <1>1, <1>13, <1>14 DEF Entries
    <3> QED
      BY <1>1, <1>12, <1>14, <1>15, <3>1 DEF Wanted
  <2>3. /\ \A k \in DOMAIN Pipe : Pipe[k].call \in DOMAIN user
        /\ \A i \in DOMAIN execs : execs[i].call \in DOMAIN user
        /\ \A k \in DOMAIN down : down[k].call \in DOMAIN user
    BY DEF Messages, MessageOK, Execs, Answers
  <2>4. W(id, n)
    BY <1>1, <1>7, <2>2 DEF Wanted
  <2> HIDE DEF W
  <2>5. \A k \in DOMAIN Pipe' : Pipe'[k].id # 0 => W(Pipe'[k].id, Pipe'[k].call)
    <3> SUFFICES ASSUME NEW k \in DOMAIN Pipe', Pipe'[k].id # 0 PROVE W(Pipe'[k].id, Pipe'[k].call)
      OBVIOUS
    <3>1. CASE k \in DOMAIN Pipe
      BY <1>17, <2>2, <2>3, <3>1 DEF Wants
    <3> QED
      BY <1>9, <1>17, <2>4, <3>1
  <2>6. \A i \in DOMAIN execs : execs[i].id # 0 => W(execs[i].id, execs[i].call)
    BY <2>2, <2>3 DEF Wants
  <2>7. \A k \in DOMAIN down : W(down[k].id, down[k].call)
    BY <2>2, <2>3 DEF Wants
  <2> QED
    BY <1>6, <2>1, <2>5, <2>6, <2>7 DEF Wants, Wanted, W
<1>27. Shape'
  BY <1>19, <1>20, <1>21, <1>22, <1>24, <1>25, <1>26
<1> SUFFICES ASSUME Fit, ~mixed' PROVE Fit'
  BY <1>27 DEF Keeps
<1> USE DEF Fit
<1>28. Owned' /\ Values'
  <2>1. PICK own \in [Id -> 0..Len(user)] : OwnedBy(own)
    BY DEF Owned
  <2>2. own[id] = n
    BY <1>1, <2>1 DEF OwnedBy
  <2>3. \A k \in DOMAIN Pipe' : Pipe'[k].id # 0 => own[Pipe'[k].id] = Pipe'[k].call
    <3>1. own[m.id] = m.call
      BY <1>9, <2>2
    <3> QED
      BY <1>17, <2>1, <3>1 DEF OwnedBy
  <2>4. \A other \in DOMAIN calls' : own[other] = calls'[other].call
    BY <1>14, <1>15, <2>1 DEF OwnedBy
  <2>5. OwnedBy(own)'
    BY <1>6, <2>1, <2>3, <2>4 DEF OwnedBy
  <2> QED
    BY <1>6, <1>12, <2>1, <2>5 DEF Owned, Values
<1>29. Ordered'
  <2> SUFFICES ASSUME NEW j \in DOMAIN Pipe', NEW k \in DOMAIN Pipe', j < k,
                      NEW x, NEW y, x = Pipe'[j], y = Pipe'[k], Speaks(x, y.call), Speaks(y, y.call)
               PROVE  x.type = "data" /\ ~Names(y) /\ (y.value # 0 => x.value < y.value)
    BY DEF Ordered
  <2>1. j \in DOMAIN Pipe /\ x = Pipe[j]
    BY <1>17
  <2>2. CASE k \in DOMAIN Pipe
    BY <1>17, <2>1, <2>2 DEF Ordered
  <2>3. CASE y = m
    <3>1. Speaks(x, n)
      BY <1>9, <2>3
    <3>2. x.type = "data"
      BY <1>1, <1>5, <2>1, <3>1 DEF Final
    <3>3. ~Names(y)
      BY <1>18, <1>23, <2>1, <2>3, <3>1
    <3>4. x.value \in Nat /\ x.value <= old
      BY <1>1, <2>1, <3>1, PipeType DEF Messages, MessageOK, Speaks, Message
    <3>5. y.value # 0 => x.value < y.value
      BY <1>7, <1>10, <2>3, <3>4
    <3> QED
      BY <3>2, <3>3, <3>5
  <2> QED
    BY <1>17, <2>2, <2>3
<1>30. ASSUME NEW c \in DOMAIN user, NEW g \in Nat, IsOpen, Flow(Pipe, c, user[c].sent, g)
       PROVE  Flow(Pipe', c, user'[c].sent, g)
  <2>1. CASE c # n
    <3>1. user'[c].sent = user[c].sent
      BY <1>12, <2>1
    <3>2. \A k \in DOMAIN Pipe' : Speaks(Pipe'[k], c) => k \in DOMAIN Pipe /\ Pipe'[k] = Pipe[k]
      BY <1>17, <1>18, <2>1
    <3> QED
      BY <1>17, <1>30, <3>1, <3>2 DEF Flow
  <2>2. CASE c = n
    <3>1. user'[c].sent = new /\ user[c].sent = old
      BY <1>1, <1>12, <2>2
    <3>2. g <= old
      BY <1>30, <3>1 DEF Flow
    <3>3. ASSUME NEW k \in DOMAIN Pipe', Speaks(Pipe'[k], n), Pipe'[k].value # 0
          PROVE  Pipe'[k].value \in (g + 1)..new
      <4>1. CASE k \in DOMAIN Pipe
        <5>1. Pipe[k].value \in (g + 1)..old
          BY <1>17, <1>30, <2>2, <3>1, <3>3, <4>1 DEF Flow
        <5> QED
          BY <1>7, <1>17, <4>1, <5>1
      <4>2. CASE Pipe'[k] = m
        BY <1>7, <1>10, <3>2, <3>3, <4>2
      <4> QED
        BY <1>17, <4>1, <4>2
    <3>4. ASSUME NEW v \in (g + 1)..new
          PROVE  \E k \in DOMAIN Pipe' : Speaks(Pipe'[k], n) /\ Pipe'[k].value = v
      <4>1. CASE v <= old
        <5>1. v \in (g + 1)..old
          BY <1>7, <4>1
        <5>2. PICK k \in DOMAIN Pipe : Speaks(Pipe[k], n) /\ Pipe[k].value = v
          BY <1>30, <2>2, <3>1, <5>1 DEF Flow
        <5> QED
          BY <1>17, <5>2
      <4>2. CASE v > old
        <5>1. v = new /\ m.value = new
          BY <1>2, <1>7, <1>10, <4>2
        <5> QED
          BY <1>17, <1>18, <1>30, <5>1
      <4> QED
        BY <1>7, <4>1, <4>2
    <3> QED
      BY <1>7, <2>2, <3>1, <3>2, <3>3, <3>4 DEF Flow
  <2> QED
    BY <2>1, <2>2
<1>31. Flows'
  <2>1. ASSUME NEW k \in DOMAIN Pipe', NEW x, x = Pipe'[k], NEW c, c = x.call, Speaks(x, c), Names(x)
        PROVE  Flow(Pipe', c, user'[c].sent, 0)
    <3>1. IsOpen
      BY <1>17
    <3>2. CASE k \in DOMAIN Pipe
      <4>1. x = Pipe[k] /\ c \in DOMAIN user /\ Flow(Pipe, c, user[c].sent, 0)
        BY <1>17, <2>1, <3>2 DEF Flows, Messages, MessageOK
      <4> QED
        BY <1>30, <3>1, <4>1
    <3>3. CASE x = m
      <4>1. c = n /\ old = 0 /\ \A j \in DOMAIN Pipe : ~Speaks(Pipe[j], n)
        BY <1>9, <1>18, <1>23, <2>1, <3>3
      <4>2. Flow(Pipe, n, 0, 0)
        BY <4>1 DEF Flow
      <4> QED
        BY <1>1, <1>7, <1>30, <3>1, <4>1, <4>2
    <3> QED
      BY <1>17, <2>1, <3>2, <3>3
  <2>2. ASSUME NEW other \in DOMAIN active, NEW e, e = execs[active[other]]
        PROVE  Flow(Pipe', e.call, user'[e.call].sent, Count(Taken(e)))
    <3>1. IsOpen /\ active[other] \in DOMAIN execs /\ e.call \in DOMAIN user
      BY <1>17, <2>2 DEF Execs
    <3>2. e \in Executing
      BY <2>2, <3>1, ExecsType
    <3>3. Count(Taken(e)) \in Nat
      <4>1. Taken(e) \in Seq(Nat)
        BY <3>2 DEF Taken, Executing
      <4> QED
        BY <4>1 DEF Count
    <3>4. Flow(Pipe, e.call, user[e.call].sent, Count(Taken(e)))
      BY <2>2 DEF Flows
    <3> QED
      BY <1>30, <3>1, <3>3, <3>4
  <2> QED
    BY <1>6, <2>1, <2>2 DEF Flows
<1>32. Final'
  <2>1. ASSUME NEW other \in DOMAIN calls', NEW c, c = calls'[other].call, calls'[other].request = "open"
        PROVE  /\ \A k \in DOMAIN Pipe' : Speaks(Pipe'[k], c) => Pipe'[k].type = "data"
               /\ \A i \in DOMAIN execs :
                    execs[i].call = c /\ execs[i].stage \in Live => execs[i].request # "done"
    <3>1. other \in DOMAIN calls /\ calls[other].call = c /\ calls[other].request = "open"
      BY <1>5, <1>14, <1>15, <2>1
    <3>2. /\ \A k \in DOMAIN Pipe : Speaks(Pipe[k], c) => Pipe[k].type = "data"
          /\ \A i \in DOMAIN execs :
               execs[i].call = c /\ execs[i].stage \in Live => execs[i].request # "done"
      BY <3>1 DEF Final
    <3>3. c = n => m.type = "data"
      <4>1. c = n => other = id
        BY <1>16, <2>1, <3>1
      <4> QED
        BY <1>9, <1>13, <1>14, <2>1, <4>1
    <3> QED
      BY <1>17, <1>18, <3>2, <3>3
  <2>2. ASSUME NEW i \in DOMAIN execs, NEW e, e = execs[i], e.stage \in Live, e.request = "done"
        PROVE  /\ Count(Taken(e)) = user'[e.call].sent
               /\ \A k \in DOMAIN Pipe' : ~Speaks(Pipe'[k], e.call)
    <3>1. e.call # n
      BY <1>1, <1>5, <2>2 DEF Final
    <3>2. /\ Count(Taken(e)) = user[e.call].sent /\ e.call \in DOMAIN user
          /\ \A k \in DOMAIN Pipe : ~Speaks(Pipe[k], e.call)
      BY <2>2 DEF Final, Execs
    <3> QED
      BY <1>12, <1>17, <1>18, <3>1, <3>2
  <2> QED
    BY <1>6, <2>1, <2>2 DEF Final
<1> QED
  BY <1>28, <1>29, <1>31, <1>32

-----------------------------------------------------------------------------
(* Calls are made.                                                         *)

\* An identifier that is forgotten is nowhere.
LEMMA ForgottenOK ==
  ASSUME Types, NEW id \in Id, Forgotten(id)
  PROVE  /\ \A k \in DOMAIN Pipe : Pipe[k].id # id
         /\ \A k \in DOMAIN down : down[k].id # id
         /\ \A i \in DOMAIN execs : execs[i].id = id => execs[i].stage = "ended"
<1>1. /\ \A k \in DOMAIN outbox : outbox[k].id # id
      /\ \A k \in DOMAIN up : up[k].message.id # id
      /\ \A k \in DOMAIN down : down[k].id # id
      /\ \A i \in DOMAIN execs : execs[i].id = id => execs[i].stage = "ended"
  BY DEF Forgotten
<1>2. /\ Length = Len(up) + Len(outbox) /\ Len(up) \in Nat /\ Len(outbox) \in Nat
      /\ DOMAIN Pipe = 1..Length
  BY PipeType DEF Length
<1>3. DOMAIN up = 1..Len(up) /\ DOMAIN outbox = 1..Len(outbox)
  <2> DEFINE Sent == [message : Message, last : BOOLEAN]
  <2>1. up \in Seq(Sent) /\ outbox \in Seq(Message)
    BY DEF Types
  <2> HIDE DEF Sent, Message
  <2> QED
    BY <2>1
<1>4. ASSUME NEW k \in DOMAIN Pipe PROVE Pipe[k].id # id
  <2>1. CASE k <= Len(up)
    <3>1. k \in DOMAIN up /\ Pipe[k] = up[k].message
      BY <1>2, <1>3, <1>4, <2>1 DEF Pipe
    <3> QED
      BY <1>1, <3>1
  <2>2. CASE ~(k <= Len(up))
    <3>1. k - Len(up) \in DOMAIN outbox /\ Pipe[k] = outbox[k - Len(up)]
      BY <1>2, <1>3, <1>4, <2>2 DEF Pipe
    <3> QED
      BY <1>1, <3>1
  <2> QED
    BY <2>1, <2>2
<1> QED
  BY <1>1, <1>4

\* One more has made a call.
LEMMA UserAppended ==
  ASSUME Types, NEW n, n = Len(user) + 1, NEW s \in User, user' = Append(user, s)
  PROVE  /\ user' \in Seq(User) /\ Len(user') = n /\ n \in Nat /\ DOMAIN user' = 1..n
         /\ n \in DOMAIN user' /\ n \notin DOMAIN user /\ user'[n] = s
         /\ \A j \in DOMAIN user : j \in DOMAIN user' /\ user'[j] = user[j]
         /\ \A j \in DOMAIN user' : j \in DOMAIN user \/ j = n
<1>1. user \in Seq(User) /\ Len(user) \in Nat /\ DOMAIN user = 1..Len(user)
  BY UserType
<1> HIDE DEF User
<1> QED
  BY <1>1

LEMMA MakeInv ==
  ASSUME Shape, Make
  PROVE  Keeps
<1> USE DEF Shape
<1>1. PICK n, s : n = Len(user) + 1 /\ s = Made(n)
  OBVIOUS
<1>2. /\ n \in DOMAIN plan /\ Cardinality(Subscribed) < MaxId /\ user' = Append(user, s)
      /\ UNCHANGED <<channelVars, case, up, server, down>>
  BY <1>1 DEF Make
<1>3. /\ UNCHANGED <<case, up, down, turn, active, execs>> /\ plan' = plan
      /\ UNCHANGED <<service, state, wait, uptime, retries, makes, breaks>>
  BY <1>2 DEF server, channelVars, plan
<1>4. /\ s \in User /\ s.state = "waiting"
      /\ s.sent = IF plan[n].form = "stream" THEN 0 ELSE 1
  BY <1>1 DEF Made, User
<1>5. /\ user' \in Seq(User) /\ Len(user') = n /\ n \in Nat /\ n \in DOMAIN user' /\ n \notin DOMAIN user
      /\ user'[n] = s
      /\ \A j \in DOMAIN user : j \in DOMAIN user' /\ user'[j] = user[j]
      /\ \A j \in DOMAIN user' : j \in DOMAIN user \/ j = n
  <2> HIDE DEF User, Shape
  <2>1. Types
    BY DEF Shape
  <2> QED
    BY <1>1, <1>2, <1>4, <2>1, UserAppended
<1>6. PICK cid :
        \/ /\ cid = 0 /\ UNCHANGED <<nextId, calls, mixed>>
           /\ outbox' = outbox \/ (IsOpen /\ plan[n].form = "notify" /\ Send(Opening(n, 0)))
        \/ /\ cid \in Id \ DOMAIN calls /\ IsOpen /\ plan[n].form # "notify"
           /\ mixed' = (mixed \/ ~Forgotten(cid))
           /\ nextId' = After(cid) /\ calls' = Put(calls, cid, Entry(n))
           /\ Send(Opening(n, cid))
  <2>1. CASE ~IsOpen
    <3>1. UNCHANGED <<nextId, calls, outbox, mixed>>
      BY <2>1 DEF Make
    <3> QED
      BY <3>1
  <2>2. CASE IsOpen /\ plan[n].form = "notify"
    BY <1>1, <2>2 DEF Make
  <2>3. CASE IsOpen /\ plan[n].form # "notify"
    <3>1. /\ Id \ DOMAIN calls # {} /\ mixed' = (mixed \/ ~Forgotten(FreeId))
          /\ nextId' = After(FreeId) /\ calls' = Put(calls, FreeId, Entry(n))
          /\ Send(Opening(n, FreeId))
      BY <1>1, <2>3 DEF Make
    <3>2. FreeId \in Id \ DOMAIN calls
      BY <3>1, FreeIdOK DEF Types
    <3> QED
      BY <2>3, <3>1, <3>2
  <2> QED
    BY <2>1, <2>2, <2>3
<1>7. cid \in 0..MaxId /\ (cid # 0 <=> cid \in Id) /\ cid \notin DOMAIN calls
  <2>1. 0 \notin Id
    BY DEF Id
  <2>2. DOMAIN calls \subseteq Id
    BY DEF Types
  <2> QED
    BY <1>6, <2>1, <2>2, SizesAssumption DEF Id
<1>8. /\ nextId' \in Id
      /\ DOMAIN calls' \subseteq Id /\ calls' \in [DOMAIN calls' -> Calling]
      /\ DOMAIN calls \subseteq DOMAIN calls' /\ (cid # 0 => cid \in DOMAIN calls')
      /\ \A id \in DOMAIN calls : calls'[id] = calls[id]
      /\ \A id \in DOMAIN calls' : id \in DOMAIN calls \/ (id = cid /\ cid # 0 /\ calls'[id] = Entry(n))
      /\ cid # 0 => plan[n].form \in {"call", "stream"}
  <2>1. nextId \in Id /\ DOMAIN calls \subseteq Id /\ calls \in [DOMAIN calls -> Calling]
    BY DEF Types
  <2>2. CASE cid = 0
    BY <1>6, <1>7, <2>1, <2>2
  <2>3. CASE cid # 0
    <3>1. cid \in Id /\ nextId' = After(cid) /\ calls' = Put(calls, cid, Entry(n)) /\ plan[n].form # "notify"
      BY <1>6, <2>3
    <3>2. nextId' \in Id
      BY <1>7, <3>1, AfterOK
    <3>3. Entry(n) \in Calling
      BY <1>5 DEF Entry, Calling
    <3>4. \A id \in DOMAIN calls : calls[id] \in Calling
      BY <2>1
    <3>5. /\ DOMAIN calls' = DOMAIN calls \cup {cid}
          /\ calls' = [i \in DOMAIN calls \cup {cid} |-> IF i = cid THEN Entry(n) ELSE calls[i]]
      BY <3>1 DEF Put
    <3>6. plan[n].form \in {"call", "stream"}
      BY <1>2, <3>1, PlanType
    <3> HIDE DEF Calling
    <3> QED
      BY <1>7, <2>1, <2>3, <3>1, <3>2, <3>3, <3>4, <3>5, <3>6
  <2> QED
    BY <2>2, <2>3
<1>9. PICK m, said :
        /\ said \in BOOLEAN
        /\ outbox' \in Seq(Message)
        /\ ~said => Pipe' = Pipe /\ outbox' = outbox /\ (cid # 0 => plan[n].form = "stream")
        /\ said => /\ IsOpen
                   /\ DOMAIN Pipe' = 1..(Length + 1)
                   /\ \A k \in 1..Length : Pipe'[k] = Pipe[k]
                   /\ Pipe'[Length + 1] = m
                   /\ m.call = n /\ m.id = cid /\ m.method = plan[n].method /\ m.value = 1
                   /\ \/ m.type = "complete" /\ plan[n].form = "call" /\ cid # 0
                      \/ m.type = "notify" /\ plan[n].form = "notify" /\ cid = 0
  <2>1. outbox \in Seq(Message)
    BY DEF Types
  <2>2. CASE outbox' = outbox /\ cid = 0
    <3>1. Pipe' = Pipe
      BY <1>3, <2>2, PipeSame
    <3> QED
      BY <2>1, <2>2, <3>1
  <2>3. CASE IsOpen /\ plan[n].form = "stream" /\ Send(Opening(n, cid))
    <3>1. Opening(n, cid) = <<>>
      BY <2>3 DEF Opening
    <3>2. outbox' = outbox
      <4>1. outbox' = outbox \o <<>>
        BY <2>3, <3>1 DEF Send
      <4> HIDE DEF Message
      <4> QED
        BY <2>1, <4>1
    <3>3. Pipe' = Pipe
      BY <1>3, <3>2, PipeSame
    <3> QED
      BY <2>1, <2>3, <3>2, <3>3
  <2>4. CASE /\ IsOpen /\ Send(Opening(n, cid))
             /\ (plan[n].form = "call" /\ cid # 0) \/ (plan[n].form = "notify" /\ cid = 0)
    <3>1. PICK m : m = IF plan[n].form = "call" THEN Complete(n, cid, plan[n].method, 1) ELSE Notification(n)
      OBVIOUS
    <3>2. Opening(n, cid) = <<m>>
      BY <2>4, <3>1 DEF Opening
    <3>3. /\ m.call = n /\ m.id = cid /\ m.method = plan[n].method /\ m.value = 1
          /\ m.type = IF plan[n].form = "call" THEN "complete" ELSE "notify"
          /\ m = [type |-> m.type, id |-> cid, call |-> n, method |-> plan[n].method, value |-> 1]
      BY <2>4, <3>1 DEF Complete, Notification
    <3>4. m \in Message
      <4>1. m.type \in Speech \cup {"unsub", "notify"} /\ 1 \in Nat
        BY <3>3 DEF Speech
      <4>2. plan[n].method \in Method \cup {""}
        BY <1>2, PlanType
      <4> QED
        BY <1>5, <1>7, <3>3, <4>1, <4>2 DEF Message
    <3>5. /\ outbox' \in Seq(Message) /\ DOMAIN Pipe' = 1..(Length + 1)
          /\ \A k \in 1..Length : Pipe'[k] = Pipe[k]
          /\ Pipe'[Length + 1] = m
      <4>1. Send(<<m>>) /\ up' = up
        BY <1>3, <2>4, <3>2
      <4> QED
        BY <2>4, <3>4, <4>1, PipeSent
    <3> QED
      BY <2>4, <3>3, <3>5
  <2> QED
    BY <1>6, <1>7, <1>8, <2>2, <2>3, <2>4
<1>10. /\ DOMAIN Pipe = 1..Length /\ Length \in Nat
       /\ \A k \in DOMAIN Pipe : k \in DOMAIN Pipe' /\ Pipe'[k] = Pipe[k]
       /\ \A k \in DOMAIN Pipe' : k \in DOMAIN Pipe \/ (said /\ k = Length + 1 /\ Pipe'[k] = m)
  <2>1. DOMAIN Pipe = 1..Length /\ Length \in Nat
    BY PipeType
  <2>2. CASE said
    BY <1>9, <2>1, <2>2
  <2>3. CASE ~said
    BY <1>9, <2>1, <2>3
  <2> QED
    BY <1>9, <2>1, <2>2, <2>3
<1>11. said => /\ Names(m) /\ m.type # "unsub" /\ m.type # "error" /\ m.type # "data"
               /\ plan[n].form # "stream"
               /\ \A c : Speaks(m, c) => c = n /\ m.type = "complete"
  <2> SUFFICES ASSUME said
               PROVE  /\ Names(m) /\ m.type # "unsub" /\ m.type # "error" /\ m.type # "data"
                      /\ plan[n].form # "stream"
                      /\ \A c : Speaks(m, c) => c = n /\ m.type = "complete"
    OBVIOUS
  <2>1. plan[n].method # ""
    BY <1>2, PlanType
  <2>2. /\ m.call = n /\ m.method = plan[n].method /\ plan[n].form \in {"call", "notify"}
        /\ m.type = "complete" \/ m.type = "notify"
    BY <1>9
  <2>3. \A c : Speaks(m, c) => c = n /\ m.type = "complete"
    BY <2>2 DEF Speaks, Speech
  <2> QED
    BY <2>1, <2>2, <2>3 DEF Names
<1>12. /\ \A k \in DOMAIN Pipe : Pipe[k].call \in DOMAIN user /\ Pipe[k].call # n /\ ~Speaks(Pipe[k], n)
       /\ \A i \in DOMAIN execs : execs[i].call \in DOMAIN user /\ execs[i].call # n
       /\ \A id \in DOMAIN calls : calls[id].call \in DOMAIN user /\ calls[id].call # n
  BY <1>5 DEF Messages, MessageOK, Execs, Entries, Speaks
<1>13. ChannelInv' /\ Quiet' /\ Types'
  <2>1. ChannelInv'
    BY <1>3 DEF ChannelInv, ChannelTypeOK
  <2>2. Quiet'
    <3>1. ~IsOpen => ~said
      BY <1>9
    <3> QED
      BY <1>3, <1>9, <3>1 DEF Quiet, IsOpen
  <2>3. Len(user') <= Len(plan)
    <3>1. Len(plan) \in Nat /\ n \in 1..Len(plan) /\ Len(user') = n
      BY <1>2, <1>5, PlanType
    <3> HIDE DEF Shape, plan
    <3> QED
      BY <3>1
  <2>4. mixed' \in BOOLEAN
    <3>1. mixed \in BOOLEAN
      BY DEF Types
    <3>2. \/ mixed' = mixed
          \/ mixed' = (mixed \/ ~Forgotten(cid))
      BY <1>6
    <3> HIDE DEF Shape
    <3> QED
      BY <3>1, <3>2
  <2> QED
    BY <1>3, <1>5, <1>8, <1>9, <2>1, <2>2, <2>3, <2>4 DEF Types
<1>14. Few'
  <2>1. Subscribed' \subseteq Subscribed \cup {n}
    BY <1>5 DEF Subscribed
  <2>2. /\ IsFiniteSet(Subscribed) /\ Cardinality(Subscribed) \in Nat
    BY SubscribedFew
  <2>3. /\ IsFiniteSet(Subscribed \cup {n}) /\ Cardinality(Subscribed \cup {n}) <= Cardinality(Subscribed) + 1
        /\ Cardinality(Subscribed \cup {n}) \in Nat
    <3> HIDE DEF Shape
    <3>1. IsFiniteSet(Subscribed \cup {n})
      BY <2>2, FS_AddElement
    <3>2. Cardinality(Subscribed \cup {n}) \in {Cardinality(Subscribed), Cardinality(Subscribed) + 1}
      BY <2>2, FS_AddElement
    <3> QED
      BY <2>2, <3>1, <3>2
  <2>4. Cardinality(Subscribed') <= Cardinality(Subscribed \cup {n}) /\ Cardinality(Subscribed') \in Nat
    BY <2>1, <2>3, FS_Subset, FS_CardinalityType
  <2> QED
    BY <1>2, <2>2, <2>3, <2>4, SizesAssumption DEF Few
<1>15. PICK x : x = Entry(n)
  OBVIOUS
<1>16. x.call = n /\ x.answer = "open" /\ x.request = IF plan[n].form = "call" THEN "done" ELSE "open"
  BY <1>15 DEF Entry
<1>17. \A id \in DOMAIN calls' :
         \/ id \in DOMAIN calls /\ calls'[id] = calls[id]
         \/ id = cid /\ cid # 0 /\ calls'[id] = x
  BY <1>8, <1>15
<1>18. Entries'
  <2>1. ASSUME NEW id \in DOMAIN calls'
        PROVE  /\ calls'[id].call \in DOMAIN user'
               /\ calls'[id].request = "open" => plan[calls'[id].call].form = "stream"
               /\ plan[calls'[id].call].form # "notify"
               /\ calls'[id].request = "open" \/ calls'[id].answer = "open"
               /\ calls'[id].answer = "open" <=> user'[calls'[id].call].state = "waiting"
    <3>1. CASE id \in DOMAIN calls /\ calls'[id] = calls[id]
      <4>1. /\ calls[id].call \in DOMAIN user /\ calls[id].call \in DOMAIN user'
            /\ user'[calls[id].call] = user[calls[id].call]
        BY <1>5, <1>12, <3>1
      <4> QED
        BY <3>1, <4>1 DEF Entries
    <3>2. CASE cid # 0 /\ calls'[id] = x
      BY <1>4, <1>5, <1>8, <1>16, <3>2
    <3> QED
      BY <1>17, <3>1, <3>2
  <2>2. ASSUME NEW id \in DOMAIN calls', NEW other \in DOMAIN calls', calls'[id].call = calls'[other].call
        PROVE  id = other
    BY <1>12, <1>16, <1>17, <2>2 DEF Entries
  <2> QED
    BY <1>3, <2>1, <2>2 DEF Entries
<1>19. Messages'
  <2> SUFFICES ASSUME NEW k \in DOMAIN Pipe', NEW y, y = Pipe'[k]
               PROVE  MessageOK(y)'
    BY DEF Messages
  <2>1. CASE k \in DOMAIN Pipe
    <3>1. y = Pipe[k] /\ MessageOK(y)
      BY <1>10, <2>1 DEF Messages
    <3>2. y.call \in DOMAIN user /\ y.call \in DOMAIN user' /\ user'[y.call] = user[y.call]
      BY <1>5, <3>1 DEF MessageOK
    <3> QED
      BY <1>3, <3>1, <3>2 DEF MessageOK
  <2>2. CASE said /\ y = m
    <3>1. /\ y.call = n /\ y.id = cid /\ y.value = 1 /\ Names(y)
          /\ \/ y.type = "complete" /\ plan[n].form = "call" /\ cid # 0
             \/ y.type = "notify" /\ plan[n].form = "notify" /\ cid = 0
      BY <1>9, <1>11, <2>2
    <3>2. user'[n].sent = 1
      BY <1>4, <1>5, <3>1
    <3> QED
      BY <1>3, <1>5, <3>1, <3>2 DEF MessageOK, Speech
  <2> QED
    BY <1>10, <2>1, <2>2
<1>20. Execs' /\ OncePerConnection'
  BY <1>3, <1>5 DEF Execs, OncePerConnection
<1>21. NamedOnce'
  <2>1. \A j, k \in DOMAIN Pipe' :
          Names(Pipe'[j]) /\ Names(Pipe'[k]) /\ Pipe'[j].call = Pipe'[k].call => j = k
    BY <1>9, <1>10, <1>12 DEF NamedOnce
  <2>2. \A k \in DOMAIN Pipe', i \in DOMAIN execs : Names(Pipe'[k]) => execs[i].call # Pipe'[k].call
    BY <1>9, <1>10, <1>12 DEF NamedOnce
  <2> QED
    BY <1>3, <2>1, <2>2 DEF NamedOnce
<1>22. ~said => \A k \in DOMAIN Pipe' : ~Speaks(Pipe'[k], n)
  BY <1>10, <1>12
<1>23. Unsent'
  <2> SUFFICES ASSUME NEW id \in DOMAIN calls', NEW c, c = calls'[id].call,
                      calls'[id].first, calls'[id].request = "open"
               PROVE  /\ user'[c].sent = 0
                      /\ \A k \in DOMAIN Pipe' : ~Speaks(Pipe'[k], c)
                      /\ \A i \in DOMAIN execs : execs[i].call # c
    BY <1>3 DEF Unsent
  <2>1. CASE id \in DOMAIN calls /\ calls'[id] = calls[id]
    <3>1. /\ user[c].sent = 0 /\ c \in DOMAIN user /\ c # n
          /\ \A k \in DOMAIN Pipe : ~Speaks(Pipe[k], c)
          /\ \A i \in DOMAIN execs : execs[i].call # c
      BY <1>12, <2>1 DEF Unsent
    <3> QED
      BY <1>5, <1>10, <1>11, <3>1
  <2>2. CASE cid # 0 /\ calls'[id] = x
    <3>1. c = n /\ plan[n].form = "stream"
      BY <1>8, <1>16, <2>2
    <3>2. ~said
      BY <1>11, <3>1
    <3> QED
      BY <1>4, <1>5, <1>12, <1>22, <3>1, <3>2
  <2> QED
    BY <1>17, <2>1, <2>2
<1>24. Answers' /\ Wants'
  <2> DEFINE W(id, c) == user'[c].state = "waiting" => id \in DOMAIN calls' /\ calls'[id].call = c
  <2>1. \A id : \A c \in DOMAIN user : Wanted(id, c) => W(id, c)
    BY <1>5, <1>8 DEF Wanted
  <2>2. cid # 0 => W(cid, n)
    BY <1>7, <1>8, <1>16, <1>17
  <2> HIDE DEF W
  <2>3. \A k \in DOMAIN Pipe' : Pipe'[k].id # 0 => W(Pipe'[k].id, Pipe'[k].call)
    <3>1. \A k \in DOMAIN Pipe : Pipe[k].id # 0 => W(Pipe[k].id, Pipe[k].call)
      BY <1>12, <2>1 DEF Wants
    <3>2. said /\ m.id # 0 => W(m.id, m.call)
      BY <1>9, <2>2
    <3> QED
      BY <1>10, <3>1, <3>2
  <2>4. \A i \in DOMAIN execs : execs[i].id # 0 => W(execs[i].id, execs[i].call)
    BY <1>12, <2>1 DEF Wants
  <2>5. \A k \in DOMAIN down : down[k].call \in DOMAIN user /\ W(down[k].id, down[k].call)
    BY <2>1 DEF Wants, Answers
  <2>6. Answers'
    BY <1>3, <1>5, <2>5 DEF Answers
  <2> QED
    BY <1>3, <2>3, <2>4, <2>5, <2>6 DEF Wants, Wanted, W
<1>25. Shape'
  BY <1>13, <1>14, <1>18, <1>19, <1>20, <1>21, <1>23, <1>24
<1> SUFFICES ASSUME Fit, ~mixed' PROVE Fit'
  BY <1>25 DEF Keeps
<1> USE DEF Fit
<1>26. Owned' /\ Values'
  <2>1. PICK own \in [Id -> 0..Len(user)] : OwnedBy(own)
    BY DEF Owned
  <2> DEFINE now == [id \in Id |-> IF id = cid THEN n ELSE own[id]]
  <2>2. Len(user) \in Nat /\ n = Len(user) + 1
    BY <1>1, UserType
  <2>3. /\ now \in [Id -> 0..Len(user')]
        /\ \A id \in Id : own[id] # n /\ now[id] = IF id = cid THEN n ELSE own[id]
    <3>1. \A id \in Id : own[id] \in 0..Len(user)
      OBVIOUS
    <3> QED
      BY <1>5, <2>2, <3>1
  <2> HIDE DEF now
  <2>4. cid # 0 => Forgotten(cid) /\ cid \in Id
    BY <1>6
  <2>5. /\ \A k \in DOMAIN Pipe : Pipe[k].id # 0 => Pipe[k].id # cid
        /\ \A k \in DOMAIN down : cid # 0 => down[k].id # cid
        /\ \A i \in DOMAIN execs : execs[i].stage # "ended" /\ execs[i].id # 0 => execs[i].id # cid
    <3>1. CASE cid = 0
      BY <3>1
    <3>2. CASE cid # 0
      BY <2>4, <3>2, ForgottenOK
    <3> QED
      BY <3>1, <3>2
  <2>6. \A k \in DOMAIN Pipe : Pipe[k].id # 0 => Pipe[k].id \in Id
    <3>1. \A k \in DOMAIN Pipe : Pipe[k].id \in 0..MaxId
      BY PipeType DEF Message
    <3> QED
      BY <3>1, SizesAssumption DEF Id
  <2>7. \A k \in DOMAIN Pipe' : Pipe'[k].id # 0 => now[Pipe'[k].id] = Pipe'[k].call
    <3>1. ASSUME NEW k \in DOMAIN Pipe, Pipe[k].id # 0 PROVE now[Pipe[k].id] = Pipe[k].call
      BY <2>1, <2>3, <2>5, <2>6, <3>1 DEF OwnedBy
    <3>2. said /\ m.id # 0 => now[m.id] = m.call
      BY <1>9, <2>3, <2>4
    <3> QED
      BY <1>10, <3>1, <3>2
  <2>8. \A k \in DOMAIN down : down[k].id \in Id /\ down[k].id # cid
    <3>1. \A k \in DOMAIN down : down[k] \in Answering
      <4> HIDE DEF Answering
      <4> QED
        BY DEF Types
    <3>2. \A k \in DOMAIN down : down[k].id \in Id
      BY <3>1 DEF Answering
    <3> QED
      BY <1>7, <2>5, <3>2
  <2>9. \A k \in DOMAIN down : now[down[k].id] = down[k].call
    BY <2>1, <2>3, <2>8 DEF OwnedBy
  <2>10. \A i \in DOMAIN execs : execs[i].stage # "ended" /\ execs[i].id # 0 => now[execs[i].id] = execs[i].call
    <3>1. \A i \in DOMAIN execs : execs[i].id # 0 => execs[i].id \in Id
      <4>1. \A i \in DOMAIN execs : execs[i].id \in 0..MaxId
        BY ExecsType DEF Executing
      <4> QED
        BY <4>1, SizesAssumption DEF Id
    <3> QED
      BY <2>1, <2>3, <2>5, <3>1 DEF OwnedBy
  <2>11. \A id \in DOMAIN calls' : now[id] = calls'[id].call
    <3>1. DOMAIN calls' \subseteq Id
      BY <1>8
    <3> QED
      BY <1>7, <1>16, <1>17, <2>1, <2>3, <3>1 DEF OwnedBy
  <2>12. \A id, other \in Id : now[id] = now[other] /\ now[id] # 0 => id = other
    BY <2>1, <2>3 DEF OwnedBy
  <2>13. OwnedBy(now)'
    BY <1>3, <2>7, <2>9, <2>10, <2>11, <2>12 DEF OwnedBy
  <2> QED
    BY <1>3, <2>3, <2>13 DEF Owned, Values
<1>27. Ordered'
  <2> SUFFICES ASSUME NEW j \in DOMAIN Pipe', NEW k \in DOMAIN Pipe', j < k,
                      NEW y, NEW z, y = Pipe'[j], z = Pipe'[k], Speaks(y, z.call), Speaks(z, z.call)
               PROVE  y.type = "data" /\ ~Names(z) /\ (z.value # 0 => y.value < z.value)
    BY DEF Ordered
  <2>1. j \in DOMAIN Pipe /\ y = Pipe[j]
    BY <1>10
  <2>2. CASE k \in DOMAIN Pipe
    BY <1>10, <2>1, <2>2 DEF Ordered
  <2>3. CASE said /\ z = m
    BY <1>9, <1>12, <2>1, <2>3
  <2> QED
    BY <1>10, <2>2, <2>3
<1>28. ASSUME NEW c \in DOMAIN user, NEW sent, NEW g, Flow(Pipe, c, sent, g)
       PROVE  Flow(Pipe', c, sent, g)
  <2>1. c # n
    BY <1>5
  <2>2. \A k \in DOMAIN Pipe' : Speaks(Pipe'[k], c) => k \in DOMAIN Pipe /\ Pipe'[k] = Pipe[k]
    BY <1>10, <1>11, <2>1
  <2> QED
    BY <1>10, <1>28, <2>2 DEF Flow
<1>29. Flows'
  <2>1. ASSUME NEW k \in DOMAIN Pipe', NEW y, y = Pipe'[k], NEW c, c = y.call, Speaks(y, c), Names(y)
        PROVE  Flow(Pipe', c, user'[c].sent, 0)
    <3>1. CASE k \in DOMAIN Pipe
      <4>1. y = Pipe[k] /\ c \in DOMAIN user /\ user'[c] = user[c] /\ Flow(Pipe, c, user[c].sent, 0)
        BY <1>5, <1>10, <1>12, <2>1, <3>1 DEF Flows
      <4> QED
        BY <1>28, <4>1
    <3>2. CASE said /\ y = m
      <4>1. c = n /\ m.value = 1 /\ m.type = "complete" /\ plan[n].form = "call" /\ Pipe'[Length + 1] = m
            /\ Length + 1 \in DOMAIN Pipe'
        BY <1>9, <1>10, <1>11, <2>1, <3>2
      <4>2. user'[n].sent = 1
        BY <1>4, <1>5, <4>1
      <4>3. \A j \in DOMAIN Pipe' : Speaks(Pipe'[j], n) => Pipe'[j].value = 1
        BY <1>10, <1>12, <4>1
      <4>4. Speaks(Pipe'[Length + 1], n) /\ Pipe'[Length + 1].value = 1
        BY <2>1, <3>2, <4>1
      <4> QED
        BY <4>1, <4>2, <4>3, <4>4 DEF Flow
    <3> QED
      BY <1>10, <2>1, <3>1, <3>2
  <2>2. ASSUME NEW id \in DOMAIN active, NEW e, e = execs[active[id]]
        PROVE  Flow(Pipe', e.call, user'[e.call].sent, Count(Taken(e)))
    <3>1. e.call \in DOMAIN user
      BY <2>2 DEF Execs
    <3>2. Flow(Pipe, e.call, user[e.call].sent, Count(Taken(e)))
      BY <2>2 DEF Flows
    <3> QED
      BY <1>5, <1>28, <3>1, <3>2
  <2> QED
    BY <1>3, <2>1, <2>2 DEF Flows
<1>30. Final'
  <2>1. ASSUME NEW id \in DOMAIN calls', NEW c, c = calls'[id].call, calls'[id].request = "open"
        PROVE  /\ \A k \in DOMAIN Pipe' : Speaks(Pipe'[k], c) => Pipe'[k].type = "data"
               /\ \A i \in DOMAIN execs :
                    execs[i].call = c /\ execs[i].stage \in Live => execs[i].request # "done"
    <3>1. CASE id \in DOMAIN calls /\ calls'[id] = calls[id]
      <4>1. c # n
        BY <1>12, <2>1, <3>1
      <4>2. /\ \A k \in DOMAIN Pipe : Speaks(Pipe[k], c) => Pipe[k].type = "data"
            /\ \A i \in DOMAIN execs :
                 execs[i].call = c /\ execs[i].stage \in Live => execs[i].request # "done"
        BY <2>1, <3>1 DEF Final
      <4> QED
        BY <1>10, <1>11, <4>1, <4>2
    <3>2. CASE cid # 0 /\ calls'[id] = x
      <4>1. c = n /\ plan[n].form = "stream"
        BY <1>8, <1>16, <2>1, <3>2
      <4>2. ~said
        BY <1>11, <4>1
      <4> QED
        BY <1>12, <1>22, <4>1, <4>2
    <3> QED
      BY <1>17, <3>1, <3>2
  <2>2. ASSUME NEW i \in DOMAIN execs, NEW e, e = execs[i], e.stage \in Live, e.request = "done"
        PROVE  /\ Count(Taken(e)) = user'[e.call].sent
               /\ \A k \in DOMAIN Pipe' : ~Speaks(Pipe'[k], e.call)
    <3>1. e.call # n /\ e.call \in DOMAIN user
      BY <1>12, <2>2
    <3>2. /\ Count(Taken(e)) = user[e.call].sent
          /\ \A k \in DOMAIN Pipe : ~Speaks(Pipe[k], e.call)
      BY <2>2 DEF Final
    <3> QED
      BY <1>5, <1>10, <1>11, <3>1, <3>2
  <2> QED
    BY <1>3, <2>1, <2>2 DEF Final
<1> QED
  BY <1>26, <1>27, <1>29, <1>30

-----------------------------------------------------------------------------
(* A channel has opened.                                                   *)

\* Those who make their calls again, in the order of their identifiers
Numbered == Sorted({n \in Subscribed : plan[n].form # "notify"})

\* The first message of a call, and a notification, when all are made again.
Opener(m, ns, again) ==
  /\ m.call \in again /\ m.method = plan[m.call].method /\ m.value = 1
  /\ \/ m.type = "complete" /\ plan[m.call].form = "call" /\ m.id \in DOMAIN ns /\ ns[m.id] = m.call
     \/ m.type = "notify" /\ plan[m.call].form = "notify" /\ m.id = 0

\* What is sent at once: no two messages of one call.
LEMMA ReissueSent ==
  ASSUME Types, Few, Reissue,
         NEW ns, ns = Numbered
  PROVE  /\ ns \in Seq(Subscribed) /\ Len(ns) \in 0..MaxId
         /\ \A i \in DOMAIN ns : ns[i] \in Subscribed /\ plan[ns[i]].form # "notify"
         /\ \A i, j \in DOMAIN ns : ns[i] = ns[j] => i = j
         /\ outbox' \in Seq(Message)
         /\ \A k \in DOMAIN outbox' : Opener(outbox'[k], ns, Subscribed)
         /\ \A j, k \in DOMAIN outbox' : outbox'[j].call = outbox'[k].call => j = k
<1> DEFINE again == Subscribed
           A == {n \in again : plan[n].form # "notify"}
           B == {n \in again : plan[n].form = "call"}
           C == {n \in again : plan[n].form = "notify"}
           asked == Sorted(B)
           noted == Sorted(C)
           idOf(n) == CHOOSE i \in DOMAIN Numbered : Numbered[i] = n
           p == [j \in DOMAIN asked |-> Opening(asked[j], idOf(asked[j]))[1]]
           q == [j \in DOMAIN noted |-> Opening(noted[j], 0)[1]]
<1>11. outbox' = p \o q
  <2>1. ReissueOf(Subscribed)
    BY DEF Reissue
  <2> QED
    BY <2>1 DEF ReissueOf, Numbered
<1>1. again = Subscribed
  OBVIOUS
<1>2. /\ A = {n \in again : plan[n].form # "notify"}
      /\ B = {n \in again : plan[n].form = "call"}
      /\ C = {n \in again : plan[n].form = "notify"}
  OBVIOUS
<1>3. asked = Sorted(B) /\ noted = Sorted(C)
  OBVIOUS
<1>4. ns = Sorted(A)
  BY DEF Numbered
<1>10. /\ p = [j \in DOMAIN asked |-> Opening(asked[j], idOf(asked[j]))[1]]
       /\ q = [j \in DOMAIN noted |-> Opening(noted[j], 0)[1]]
       /\ \A n : idOf(n) = CHOOSE i \in DOMAIN ns : ns[i] = n
  OBVIOUS
<1> HIDE DEF again, A, B, C, asked, noted, idOf, p, q
<1>5. /\ again \subseteq Nat /\ IsFiniteSet(again) /\ Cardinality(again) <= MaxId /\ Cardinality(again) \in Nat
      /\ again \subseteq DOMAIN plan
  <2>1. IsFiniteSet(again) /\ Cardinality(again) \in Nat /\ again \subseteq DOMAIN user
    BY <1>1, SubscribedFew
  <2>2. DOMAIN user \subseteq Nat /\ DOMAIN user \subseteq DOMAIN plan
    <3>1. DOMAIN user = 1..Len(user) /\ Len(user) \in Nat
      BY UserType
    <3>2. DOMAIN user \subseteq DOMAIN plan
      BY PlanType
    <3>3. DOMAIN user \subseteq Nat
      BY <3>1
    <3> QED
      BY <3>2, <3>3
  <2>3. Cardinality(again) <= MaxId
    BY <1>1 DEF Few
  <2> QED
    BY <2>1, <2>2, <2>3
<1>6. /\ A \in SUBSET Nat /\ IsFiniteSet(A) /\ Cardinality(A) \in 0..MaxId
      /\ B \in SUBSET Nat /\ IsFiniteSet(B)
      /\ C \in SUBSET Nat /\ IsFiniteSet(C)
  <2>1. A \in SUBSET again /\ B \in SUBSET again /\ C \in SUBSET again
    BY <1>2
  <2>2. /\ IsFiniteSet(A) /\ Cardinality(A) <= Cardinality(again) /\ Cardinality(A) \in Nat
        /\ IsFiniteSet(B) /\ IsFiniteSet(C)
    BY <1>5, <2>1, FS_Subset, FS_CardinalityType
  <2> QED
    BY <1>5, <2>1, <2>2, SizesAssumption
<1>7. /\ ns \in Seq(A) /\ Len(ns) = Cardinality(A) /\ DOMAIN ns = 1..Len(ns) /\ Len(ns) \in Nat
      /\ \A i \in DOMAIN ns : ns[i] \in A
      /\ \A i, j \in DOMAIN ns : ns[i] = ns[j] => i = j
      /\ \A n \in A : \E i \in DOMAIN ns : ns[i] = n
  BY <1>4, <1>6, SortedSeq
<1>8. /\ asked \in Seq(B) /\ DOMAIN asked = 1..Len(asked) /\ Len(asked) \in Nat
      /\ \A i \in DOMAIN asked : asked[i] \in B
      /\ \A i, j \in DOMAIN asked : asked[i] = asked[j] => i = j
  BY <1>3, <1>6, SortedSeq
<1>9. /\ noted \in Seq(C) /\ DOMAIN noted = 1..Len(noted) /\ Len(noted) \in Nat
      /\ \A i \in DOMAIN noted : noted[i] \in C
      /\ \A i, j \in DOMAIN noted : noted[i] = noted[j] => i = j
  BY <1>3, <1>6, SortedSeq
<1>12. \A n \in again : n \in Nat /\ plan[n].method \in Method
  BY <1>5, PlanType
<1>13. ASSUME NEW j \in DOMAIN asked, NEW m, m = p[j]
       PROVE  m \in Message /\ m.call = asked[j] /\ Opener(m, ns, again)
  <2>1. PICK n, i : n = asked[j] /\ i = idOf(n)
    OBVIOUS
  <2>2. n \in again /\ n \in A /\ plan[n].form = "call"
    BY <1>2, <1>8, <2>1
  <2>3. i \in DOMAIN ns /\ ns[i] = n
    BY <1>7, <1>10, <2>1, <2>2
  <2>4. m = Complete(n, i, plan[n].method, 1)
    BY <1>10, <1>13, <2>1, <2>2 DEF Opening
  <2>5. i \in 0..MaxId
    <3>1. i \in 1..Len(ns) /\ Len(ns) \in Nat /\ Len(ns) <= MaxId
      BY <1>6, <1>7, <2>3, SizesAssumption
    <3> QED
      BY <3>1, SizesAssumption
  <2>6. m \in Message
    BY <1>12, <2>2, <2>4, <2>5 DEF Complete, Message, Speech
  <2> QED
    BY <2>1, <2>2, <2>3, <2>4, <2>6 DEF Complete, Opener
<1>14. ASSUME NEW j \in DOMAIN noted, NEW m, m = q[j]
       PROVE  m \in Message /\ m.call = noted[j] /\ Opener(m, ns, again)
  <2>1. PICK n : n = noted[j]
    OBVIOUS
  <2>2. n \in again /\ plan[n].form = "notify"
    BY <1>2, <1>9, <2>1
  <2>3. m = Notification(n)
    BY <1>10, <1>14, <2>1, <2>2 DEF Opening
  <2>4. 0 \in 0..MaxId
    BY SizesAssumption
  <2>5. m \in Message
    BY <1>12, <2>2, <2>3, <2>4 DEF Notification, Message
  <2> QED
    BY <2>1, <2>2, <2>3, <2>5 DEF Notification, Opener
<1>15. /\ p \in Seq(Message) /\ Len(p) = Len(asked) /\ q \in Seq(Message) /\ Len(q) = Len(noted)
  <2>1. PICK a, b : a = Len(asked) /\ b = Len(noted)
    OBVIOUS
  <2>2. a \in Nat /\ b \in Nat /\ DOMAIN asked = 1..a /\ DOMAIN noted = 1..b
    BY <1>8, <1>9, <2>1
  <2> HIDE DEF Message
  <2>3. p \in [1..a -> Message]
    BY <1>10, <1>13, <2>2
  <2>4. q \in [1..b -> Message]
    BY <1>10, <1>14, <2>2
  <2>5. p \in Seq(Message) /\ Len(p) = a
    BY <2>2, <2>3
  <2>6. q \in Seq(Message) /\ Len(q) = b
    BY <2>2, <2>4
  <2> QED
    BY <2>1, <2>5, <2>6
<1>16. /\ outbox' \in Seq(Message) /\ DOMAIN outbox' = 1..(Len(p) + Len(q))
       /\ \A k \in DOMAIN outbox' :
            \/ k \in DOMAIN asked /\ outbox'[k] = p[k]
            \/ k - Len(p) \in DOMAIN noted /\ outbox'[k] = q[k - Len(p)]
  <2> HIDE DEF Message
  <2>1. /\ outbox' \in Seq(Message) /\ Len(outbox') = Len(p) + Len(q)
        /\ \A k \in 1..(Len(p) + Len(q)) : outbox'[k] = IF k <= Len(p) THEN p[k] ELSE q[k - Len(p)]
    <3>1. /\ p \o q \in Seq(Message) /\ Len(p \o q) = Len(p) + Len(q)
          /\ \A k \in 1..(Len(p) + Len(q)) : (p \o q)[k] = IF k <= Len(p) THEN p[k] ELSE q[k - Len(p)]
      BY <1>15
    <3> QED
      BY <1>11, <3>1
  <2>2. DOMAIN outbox' = 1..(Len(p) + Len(q))
    BY <2>1
  <2>3. Len(p) \in Nat /\ Len(q) \in Nat /\ DOMAIN asked = 1..Len(p) /\ DOMAIN noted = 1..Len(q)
    BY <1>8, <1>9, <1>15
  <2>4. \A k \in 1..(Len(p) + Len(q)) : k \in 1..Len(p) \/ (k > Len(p) /\ k - Len(p) \in 1..Len(q))
    BY <2>3
  <2> QED
    BY <2>1, <2>2, <2>3, <2>4
<1>17. \A k \in DOMAIN outbox' : Opener(outbox'[k], ns, again)
  BY <1>13, <1>14, <1>16
<1>18. ASSUME NEW j \in DOMAIN outbox', NEW k \in DOMAIN outbox', outbox'[j].call = outbox'[k].call
       PROVE  j = k
  <2>1. \A i \in DOMAIN asked : p[i].call = asked[i] /\ plan[asked[i]].form = "call"
    BY <1>2, <1>8, <1>13
  <2>2. \A i \in DOMAIN noted : q[i].call = noted[i] /\ plan[noted[i]].form = "notify"
    BY <1>2, <1>9, <1>14
  <2>3. j \in Nat /\ k \in Nat /\ Len(p) \in Nat
    BY <1>8, <1>9, <1>15, <1>16
  <2>4. CASE j \in DOMAIN asked /\ outbox'[j] = p[j] /\ k \in DOMAIN asked /\ outbox'[k] = p[k]
    BY <1>8, <1>18, <2>1, <2>4
  <2>5. CASE /\ j - Len(p) \in DOMAIN noted /\ outbox'[j] = q[j - Len(p)]
             /\ k - Len(p) \in DOMAIN noted /\ outbox'[k] = q[k - Len(p)]
    <3>1. PICK a, b : a = j - Len(p) /\ b = k - Len(p)
      OBVIOUS
    <3>2. a = b
      BY <1>9, <1>18, <2>2, <2>5, <3>1
    <3> QED
      BY <2>3, <3>1, <3>2
  <2> QED
    <3>1. /\ (j \in DOMAIN asked /\ outbox'[j] = p[j]) \/ (j - Len(p) \in DOMAIN noted /\ outbox'[j] = q[j - Len(p)])
          /\ (k \in DOMAIN asked /\ outbox'[k] = p[k]) \/ (k - Len(p) \in DOMAIN noted /\ outbox'[k] = q[k - Len(p)])
      BY <1>16
    <3>2. ASSUME NEW a \in DOMAIN asked, NEW b \in DOMAIN noted PROVE p[a].call # q[b].call
      BY <2>1, <2>2
    <3> QED
      BY <1>18, <2>4, <2>5, <3>1, <3>2
<1>19. Len(ns) \in 0..MaxId
  BY <1>6, <1>7
<1>20. ns \in Seq(Subscribed)
  BY <1>1, <1>2, <1>7
<1>21. \A i \in DOMAIN ns : ns[i] \in Subscribed /\ plan[ns[i]].form # "notify"
  BY <1>1, <1>2, <1>7
<1> QED
  BY <1>1, <1>7, <1>16, <1>17, <1>18, <1>19, <1>20, <1>21

LEMMA ConnectInv ==
  ASSUME Shape, Connect
  PROVE  Keeps
<1> USE DEF Shape
<1>1. PICK ns, again : ns = Numbered /\ again = Subscribed
  OBVIOUS
<1>2. /\ state = "connecting" /\ state' = "open"
      /\ UNCHANGED <<service, wait, uptime, retries, makes, breaks>>
  BY DEF Connect, Open
<1>3. /\ UNCHANGED <<case, up, down, turn, active, execs, mixed>> /\ plan' = plan
      /\ nextId' = After(Len(ns))
      /\ calls' = [i \in DOMAIN ns |-> Entry(ns[i])]
      /\ user' = [n \in DOMAIN user |-> IF n \in again THEN Made(n) ELSE user[n]]
  <2>1. /\ UNCHANGED <<case, up, down, turn, active, execs, mixed>> /\ plan' = plan
        /\ nextId' = After(Len(Numbered))
        /\ calls' = [i \in DOMAIN Numbered |-> Entry(Numbered[i])]
        /\ user' = [n \in DOMAIN user |-> IF n \in Subscribed THEN Made(n) ELSE user[n]]
    BY DEF Connect, Reissue, ReissueOf, server, plan, Numbered
  <2> QED
    BY <1>1, <2>1
<1>4. up = <<>> /\ down = <<>> /\ turn = FALSE /\ active = <<>> /\ execs = <<>>
  BY <1>2 DEF Quiet, IsOpen
<1>5. /\ ns \in Seq(again) /\ Len(ns) \in 0..MaxId
      /\ \A i \in DOMAIN ns : ns[i] \in again /\ plan[ns[i]].form # "notify"
      /\ \A i, j \in DOMAIN ns : ns[i] = ns[j] => i = j
      /\ outbox' \in Seq(Message)
      /\ \A k \in DOMAIN outbox' : Opener(outbox'[k], ns, again)
      /\ \A j, k \in DOMAIN outbox' : outbox'[j].call = outbox'[k].call => j = k
  <2>1. Reissue
    BY DEF Connect
  <2> QED
    BY <1>1, <2>1, ReissueSent
<1>6. DOMAIN ns \subseteq Id /\ DOMAIN ns = 1..Len(ns)
  BY <1>5, SizesAssumption DEF Id
<1>7. again \subseteq DOMAIN user /\ again \subseteq Nat /\ \A n \in again : plan[n].form \in {"call", "stream", "notify"}
  <2>1. DOMAIN user = 1..Len(user) /\ Len(user) \in Nat
    BY UserType
  <2>2. again \subseteq DOMAIN user
    BY <1>1 DEF Subscribed
  <2>3. again \subseteq DOMAIN plan
    BY <2>2, PlanType
  <2>4. again \subseteq Nat
    BY <2>1, <2>2
  <2>5. \A n \in again : plan[n].form \in {"call", "stream", "notify"}
    BY <2>3, PlanType
  <2> QED
    BY <2>2, <2>4, <2>5
<1>8. \A n \in again : /\ Made(n) \in User /\ Made(n).state = "waiting"
                       /\ Made(n).sent = IF plan[n].form = "stream" THEN 0 ELSE 1
  BY DEF Made, User
<1>9. /\ user' \in Seq(User) /\ DOMAIN user' = DOMAIN user /\ Len(user') = Len(user)
      /\ \A n \in again : /\ user'[n].state = "waiting"
                          /\ user'[n].sent = IF plan[n].form = "stream" THEN 0 ELSE 1
      /\ \A n \in DOMAIN user : n \notin again => user'[n] = user[n]
  <2>1. DOMAIN user = 1..Len(user) /\ Len(user) \in Nat /\ \A n \in DOMAIN user : user[n] \in User
    BY UserType
  <2> HIDE DEF User, Made
  <2>2. user' \in [1..Len(user) -> User]
    BY <1>3, <1>8, <2>1
  <2>3. user' \in Seq(User) /\ DOMAIN user' = DOMAIN user /\ Len(user') = Len(user)
    BY <2>1, <2>2
  <2> QED
    BY <1>3, <1>7, <1>8, <2>3
<1>10. /\ DOMAIN calls' = DOMAIN ns
       /\ \A i \in DOMAIN ns : /\ calls'[i] \in Calling /\ calls'[i].call = ns[i] /\ calls'[i].answer = "open"
                               /\ calls'[i].request = "open" => plan[ns[i]].form = "stream"
  <2>1. \A i \in DOMAIN ns : Entry(ns[i]) \in Calling /\ Entry(ns[i]).call = ns[i] /\ Entry(ns[i]).answer = "open"
    BY <1>5, <1>7 DEF Entry, Calling
  <2>2. \A i \in DOMAIN ns : Entry(ns[i]).request = "open" => plan[ns[i]].form = "stream"
    BY <1>5, <1>7 DEF Entry
  <2> HIDE DEF Entry, Calling
  <2> QED
    BY <1>3, <2>1, <2>2
<1>11. calls' \in [DOMAIN calls' -> Calling]
  <2> HIDE DEF Calling
  <2> QED
    BY <1>3, <1>10
<1>12. DOMAIN Pipe' = DOMAIN outbox' /\ \A k \in DOMAIN Pipe' : Pipe'[k] = outbox'[k] /\ k \in Nat
  <2>1. up' = <<>> /\ Len(<<>>) = 0
    BY <1>3, <1>4
  <2>2. DOMAIN outbox' = 1..Len(outbox') /\ Len(outbox') \in Nat
    <3> HIDE DEF Message
    <3> QED
      BY <1>5
  <2>3. Length' = Len(outbox')
    BY <2>1, <2>2 DEF Length
  <2> QED
    BY <2>1, <2>2, <2>3 DEF Pipe
<1>13. \A k \in DOMAIN Pipe' : Opener(Pipe'[k], ns, again)
  BY <1>5, <1>12
<1>14. \A j, k \in DOMAIN Pipe' : Pipe'[j].call = Pipe'[k].call => j = k
  BY <1>5, <1>12
<1>15. ASSUME NEW k \in DOMAIN Pipe', NEW n, Speaks(Pipe'[k], n)
       PROVE  /\ n \in again /\ plan[n].form = "call" /\ Pipe'[k].call = n /\ Pipe'[k].type = "complete"
              /\ Pipe'[k].value = 1 /\ user'[n].sent = 1
  <2>1. n \in again /\ plan[n].form = "call" /\ Pipe'[k].call = n /\ Pipe'[k].type = "complete" /\ Pipe'[k].value = 1
    BY <1>13, <1>15 DEF Opener, Speaks, Speech
  <2> QED
    BY <1>9, <2>1
<1>16. ChannelInv' /\ Quiet'
  <2>1. ChannelInv'
    BY <1>2 DEF ChannelInv, ChannelTypeOK
  <2> QED
    BY <1>2, <2>1 DEF Quiet, IsOpen
<1>17. Types'
  <2>1. nextId' \in Id
    BY <1>3, <1>5, AfterOK
  <2> QED
    BY <1>3, <1>5, <1>6, <1>9, <1>10, <1>11, <2>1 DEF Types
<1>18. Few'
  <2>1. Subscribed' = Subscribed
    BY <1>1, <1>9 DEF Subscribed
  <2> QED
    BY <2>1 DEF Few
<1>19. Entries'
  <2>1. \A i \in DOMAIN calls' :
          /\ calls'[i].call \in DOMAIN user'
          /\ calls'[i].request = "open" => plan[calls'[i].call].form = "stream"
          /\ plan[calls'[i].call].form # "notify"
          /\ calls'[i].request = "open" \/ calls'[i].answer = "open"
          /\ calls'[i].answer = "open" <=> user'[calls'[i].call].state = "waiting"
    BY <1>5, <1>7, <1>9, <1>10
  <2>2. \A i, j \in DOMAIN calls' : calls'[i].call = calls'[j].call => i = j
    BY <1>5, <1>10
  <2> QED
    BY <1>3, <2>1, <2>2 DEF Entries
<1>20. Messages'
  <2> SUFFICES ASSUME NEW k \in DOMAIN Pipe', NEW m, m = Pipe'[k]
               PROVE  MessageOK(m)'
    BY DEF Messages
  <2>1. Opener(m, ns, again)
    BY <1>13
  <2>2. /\ m.call \in again /\ m.call \in DOMAIN user' /\ m.value = 1
        /\ \/ m.type = "complete" /\ plan[m.call].form = "call" /\ m.id \in DOMAIN ns
           \/ m.type = "notify" /\ plan[m.call].form = "notify" /\ m.id = 0
    BY <1>7, <1>9, <2>1 DEF Opener
  <2>3. Names(m)
    <3>1. m.method = plan[m.call].method /\ m.call \in DOMAIN plan
      BY <1>7, <2>1, PlanType DEF Opener
    <3> QED
      BY <3>1, PlanType DEF Names
  <2>4. user'[m.call].sent = 1
    BY <1>9, <2>2
  <2>5. 0 \notin DOMAIN ns
    BY <1>6
  <2> QED
    BY <1>3, <2>2, <2>3, <2>4, <2>5 DEF MessageOK, Speech
<1>21. Execs' /\ OncePerConnection'
  BY <1>3, <1>4 DEF Execs, OncePerConnection
<1>22. NamedOnce'
  BY <1>3, <1>4, <1>14 DEF NamedOnce
<1>23. Unsent'
  <2> SUFFICES ASSUME NEW id \in DOMAIN calls', NEW n, n = calls'[id].call,
                      calls'[id].first, calls'[id].request = "open"
               PROVE  /\ user'[n].sent = 0
                      /\ \A k \in DOMAIN Pipe' : ~Speaks(Pipe'[k], n)
                      /\ \A i \in DOMAIN execs : execs[i].call # n
    BY <1>3 DEF Unsent
  <2>1. n \in again /\ plan[n].form = "stream"
    BY <1>5, <1>10
  <2>2. user'[n].sent = 0
    BY <1>9, <2>1
  <2>3. \A k \in DOMAIN Pipe' : ~Speaks(Pipe'[k], n)
    BY <1>15, <2>1
  <2> QED
    BY <1>4, <2>2, <2>3
<1>24. Answers' /\ Wants'
  <2>1. Answers'
    BY <1>3, <1>4 DEF Answers
  <2>2. \A k \in DOMAIN Pipe' : Pipe'[k].id # 0 =>
          Pipe'[k].id \in DOMAIN calls' /\ calls'[Pipe'[k].id].call = Pipe'[k].call
    BY <1>10, <1>13 DEF Opener
  <2> QED
    BY <1>3, <1>4, <2>1, <2>2 DEF Wants, Wanted
<1>25. Shape'
  BY <1>16, <1>17, <1>18, <1>19, <1>20, <1>21, <1>22, <1>23, <1>24
<1> SUFFICES ASSUME Fit, ~mixed' PROVE Fit'
  BY <1>25 DEF Keeps
<1> USE DEF Fit
<1>26. Owned' /\ Values'
  <2> DEFINE own == [id \in Id |-> IF id \in DOMAIN ns THEN ns[id] ELSE 0]
  <2>1. own \in [Id -> 0..Len(user')]
    <3>1. \A n \in again : n \in 0..Len(user)
      BY <1>7, UserType
    <3>2. \A id \in DOMAIN ns : ns[id] \in 0..Len(user)
      BY <1>5, <3>1
    <3>3. 0 \in 0..Len(user)
      BY UserType
    <3> QED
      BY <1>9, <3>2, <3>3
  <2>2. \A id \in Id : own[id] = IF id \in DOMAIN ns THEN ns[id] ELSE 0
    OBVIOUS
  <2> HIDE DEF own
  <2>3. \A id, other \in Id : own[id] = own[other] /\ own[id] # 0 => id = other
    BY <1>5, <2>2
  <2>4. \A k \in DOMAIN Pipe' : Pipe'[k].id # 0 => own[Pipe'[k].id] = Pipe'[k].call
    BY <1>6, <1>13, <2>2 DEF Opener
  <2>5. \A id \in DOMAIN calls' : own[id] = calls'[id].call
    BY <1>6, <1>10, <2>2
  <2>6. OwnedBy(own)'
    BY <1>3, <1>4, <2>3, <2>4, <2>5 DEF OwnedBy
  <2> QED
    BY <1>3, <1>4, <2>1, <2>6 DEF Owned, Values
<1>27. Ordered'
  <2> SUFFICES ASSUME NEW j \in DOMAIN Pipe', NEW k \in DOMAIN Pipe', j < k,
                      Speaks(Pipe'[j], Pipe'[k].call), Speaks(Pipe'[k], Pipe'[k].call)
               PROVE  FALSE
    BY DEF Ordered
  <2>1. j = k
    BY <1>14, <1>15
  <2> QED
    BY <1>12, <2>1
<1>28. Flows'
  <2>1. ASSUME NEW k \in DOMAIN Pipe', NEW n, n = Pipe'[k].call, Speaks(Pipe'[k], n)
        PROVE  Flow(Pipe', n, user'[n].sent, 0)
    <3>1. user'[n].sent = 1 /\ Pipe'[k].value = 1
      BY <1>15, <2>1
    <3>2. \A j \in DOMAIN Pipe' : Speaks(Pipe'[j], n) => Pipe'[j].value = 1
      BY <1>15
    <3> QED
      BY <2>1, <3>1, <3>2 DEF Flow
  <2> QED
    BY <1>3, <1>4, <2>1 DEF Flows
<1>29. Final'
  <2>1. ASSUME NEW id \in DOMAIN calls', NEW n, n = calls'[id].call, calls'[id].request = "open"
        PROVE  \A k \in DOMAIN Pipe' : ~Speaks(Pipe'[k], n)
    <3>1. plan[n].form = "stream"
      BY <1>10, <2>1
    <3> QED
      BY <1>15, <3>1
  <2> QED
    BY <1>3, <1>4, <2>1 DEF Final
<1> QED
  BY <1>26, <1>27, <1>28, <1>29

-----------------------------------------------------------------------------
(* All steps together.                                                     *)

LEMMA NextKeeps ==
  ASSUME Shape, [Next]_vars
  PROVE  Keeps
<1>1. CASE Progress
  <2>1. CASE (Start \/ Retry) /\ Nothing
    BY <2>1, StartInv
  <2>2. CASE Connect
    BY <2>2, ConnectInv
  <2>3. CASE Flush
    BY <2>3, FlushInv
  <2>4. CASE Receive
    BY <2>4, ReceiveInv
  <2>5. CASE Execution
    <3>1. PICK i \in DOMAIN execs : CheckPass(i) \/ ExecFail(i) \/ ExecEnd(i, 0) \/ ExecEnd(i, 1)
      BY <2>5 DEF Execution
    <3> QED
      BY <3>1, ExecutionInv
  <2>6. CASE Deliver
    BY <2>6, DeliverInv
  <2> QED
    BY <1>1, <2>1, <2>2, <2>3, <2>4, <2>5, <2>6 DEF Progress
<1>2. CASE \E i \in DOMAIN execs : ExecAnswer(i)
  BY <1>2, ExecutionInv
<1>3. CASE Make
  BY <1>3, MakeInv
<1>4. CASE \E id \in DOMAIN calls, type \in Emission : Emit(id, type)
  BY <1>4, EmitInv
<1>5. CASE \E n \in DOMAIN user : Cancel(n)
  BY <1>5, CancelInv
<1>6. CASE Uptime /\ Nothing
  BY <1>6, UptimeInv
<1>7. CASE Disconnect \/ Dispose
  BY <1>7, DisconnectInv, DisposeInv
<1>8. CASE UNCHANGED vars
  BY <1>8, StutterInv
<1> QED
  BY <1>1, <1>2, <1>3, <1>4, <1>5, <1>6, <1>7, <1>8 DEF Next

\* What has been taken too early stays so.
LEMMA MixedStays ==
  ASSUME Shape, mixed, [Next]_vars
  PROVE  mixed'
<1>1. CASE Progress
  <2>1. CASE ((Start \/ Retry) /\ Nothing) \/ Connect \/ Flush
    BY <2>1 DEF Nothing, Connect, Reissue, ReissueOf, Flush
  <2>2. CASE Receive
    <3>1. PICK m : m = Head(up).message
      OBVIOUS
    <3>2. up # <<>> /\ IF Known(m) THEN ServeKnown(m) ELSE ServeUnknown(m)
      BY <2>2, <3>1 DEF Receive
    <3>3. ASSUME NEW as, NEW es, NEW ms, Serve(as, es, ms) PROVE mixed' = mixed
      BY <3>3 DEF Serve
    <3>4. CASE Known(m)
      <4>1. CASE m.type = "unsub"
        BY <3>2, <3>3, <3>4, <4>1 DEF ServeKnown
      <4>2. CASE /\ m.type # "unsub"
                 /\ m.type = "error" \/ (m.value # 0 /\ Overflows(execs[active[m.id]]))
        BY <3>2, <3>3, <3>4, <4>2 DEF ServeKnown
      <4>3. CASE /\ m.type # "unsub"
                 /\ ~(m.type = "error" \/ (m.value # 0 /\ Overflows(execs[active[m.id]])))
        BY <3>2, <3>3, <3>4, <4>3 DEF ServeKnown
      <4> QED
        BY <4>1, <4>2, <4>3
    <3>5. CASE ~Known(m)
      <4>1. m \in Message /\ MessageOK(m)
        BY <3>1, <3>2, HeadOK
      <4>2. /\ m.type \in {"data", "complete", "error", "unsub", "notify"}
            /\ m.method \in {"static", "rx", "checked", ""}
            /\ m.type = "notify" => m.method # ""
        BY <4>1 DEF Message, Speech, Method, MessageOK, Names
      <4>3. CASE m.type = "unsub"
        BY <3>2, <3>3, <3>5, <4>3 DEF ServeUnknown
      <4>4. CASE m.type # "unsub" /\ m.method = ""
        BY <3>2, <3>3, <3>5, <4>4 DEF ServeUnknown
      <4>5. CASE m.type = "error" /\ m.method # ""
        BY <3>2, <3>3, <3>5, <4>5 DEF ServeUnknown
      <4>6. CASE /\ m.type = "notify" \/ (m.type \in {"data", "complete"} /\ m.method = "static")
                 /\ m.method # ""
        BY <3>2, <3>3, <3>5, <4>6 DEF ServeUnknown
      <4>7. CASE m.type \in {"data", "complete"} /\ m.method \in {"rx", "checked"}
        BY <3>2, <3>3, <3>5, <4>7 DEF ServeUnknown
      <4> QED
        BY <4>2, <4>3, <4>4, <4>5, <4>6, <4>7
    <3> QED
      BY <3>4, <3>5
  <2>3. CASE Execution
    <3>1. PICK i \in DOMAIN execs : CheckPass(i) \/ ExecFail(i) \/ ExecEnd(i, 0) \/ ExecEnd(i, 1)
      BY <2>3 DEF Execution
    <3>2. ASSUME NEW e, NEW as, NEW ms, Step(i, e, as, ms) PROVE mixed' = mixed
      BY <3>2 DEF Step
    <3>3. ASSUME NEW ms, End(i, ms) PROVE mixed' = mixed
      BY <3>2, <3>3 DEF End
    <3> QED
      BY <3>1, <3>2, <3>3 DEF CheckPass, ExecFail, ExecEnd
  <2>4. CASE Deliver
    BY <2>4 DEF Deliver
  <2> QED
    BY <1>1, <2>1, <2>2, <2>3, <2>4 DEF Progress
<1>2. CASE \E i \in DOMAIN execs : ExecAnswer(i)
  BY <1>2 DEF ExecAnswer, Step
<1>3. CASE Make
  BY <1>3 DEF Make
<1>4. CASE \E id \in DOMAIN calls, type \in Emission : Emit(id, type)
  BY <1>4 DEF Emit, EmitOf
<1>5. CASE \E n \in DOMAIN user : Cancel(n)
  BY <1>5 DEF Cancel
<1>6. CASE Uptime /\ Nothing
  BY <1>6 DEF Nothing
<1>7. CASE Disconnect \/ Dispose
  BY <1>7 DEF Disconnect, Dispose
<1>8. CASE UNCHANGED vars
  BY <1>8 DEF vars
<1> QED
  BY <1>1, <1>2, <1>3, <1>4, <1>5, <1>6, <1>7, <1>8 DEF Next

LEMMA NextInv ==
  ASSUME IndInv, [Next]_vars
  PROVE  IndInv'
<1>1. Shape' /\ (Fit /\ ~mixed' => Fit')
  BY NextKeeps DEF IndInv, Keeps
<1>2. mixed => mixed'
  BY MixedStays DEF IndInv
<1> QED
  BY <1>1, <1>2 DEF IndInv

\* Whatever calls are made and cancelled, however channels break, and whatever becomes of
\* identifiers: what the client waits for, what is on its way and what the server executes
\* fit together, and everything that has an identifier is of one call as long as none was
\* taken too early.
THEOREM Invariance == Spec => []IndInv
<1>1. Init => IndInv
  BY InitInv DEF IndInv
<1>2. IndInv /\ [Next]_vars => IndInv'
  BY NextInv
<1> QED
  BY <1>1, <1>2, PTL DEF Spec

\* The entries of the callers, the executions and the identifiers they are kept under keep
\* their shape, and no buffer of a request holds more than BufferSize values.
THEOREM TypeCorrect == Spec => []TypeOK
<1>1. ASSUME IndInv PROVE TypeOK
  <2> USE <1>1 DEF IndInv, Shape
  <2>1. ChannelTypeOK /\ nextId \in Id /\ mixed \in BOOLEAN /\ DOMAIN calls \subseteq Id
    BY DEF ChannelInv, Types
  <2>2. \A n \in DOMAIN user : user[n].state \in {"waiting", "over", "settled", "cancelled"}
    BY UserType DEF User
  <2>3. \A id \in DOMAIN calls : calls[id].call \in DOMAIN user
                               /\ {calls[id].request, calls[id].answer} # {"done"}
    BY DEF Entries
  <2>4. \A id \in DOMAIN active : active[id] \in DOMAIN execs /\ execs[active[id]].id = id
    BY DEF Execs
  <2>5. \A i \in DOMAIN execs : execs[i].stage \in Stages /\ Len(execs[i].buffer) <= BufferSize
    BY ExecsType DEF Executing, Execs, Bounded
  <2> QED
    BY <2>1, <2>2, <2>3, <2>4, <2>5 DEF TypeOK
<1> QED
  BY <1>1, Invariance, PTL

\* The answer of a call that is waited for finds the entry of that call: identifiers may be
\* used again, and too early.  Any answer does, while none has been.
THEOREM AnswersAreOwn == Spec => []AnswersOwn
<1>1. ASSUME IndInv PROVE AnswersOwn
  <2> USE <1>1 DEF IndInv, Shape
  <2> SUFFICES ASSUME NEW i \in DOMAIN down, down[i].id \in DOMAIN calls,
                      calls[down[i].id].call # down[i].call
               PROVE  mixed /\ user[down[i].call].state # "waiting"
    BY DEF AnswersOwn
  <2>1. user[down[i].call].state # "waiting"
    BY DEF Wants, Wanted
  <2>2. ASSUME Owned PROVE FALSE
    <3>1. PICK own \in [Id -> 0..Len(user)] : OwnedBy(own)
      BY <2>2 DEF Owned
    <3> QED
      BY <3>1 DEF OwnedBy
  <2> QED
    BY <2>1, <2>2 DEF Fit
<1> QED
  BY <1>1, Invariance, PTL

\* While no identifier has been taken too early, a procedure sees the values of a request in
\* the order they were emitted in, none twice, and all of them when it is told that there
\* are no more.
THEOREM ValuesInOrder == Spec => []InOrder
<1>1. ASSUME IndInv PROVE InOrder
  <2> SUFFICES ASSUME NEW i \in DOMAIN execs, NEW e, e = execs[i], ~mixed
               PROVE  /\ e.seen = <<0>> \/ \A k \in DOMAIN e.seen : e.seen[k] = k
                      /\ e.stage = "run" /\ e.request = "done" => Count(e.seen) = user[e.call].sent
    BY DEF InOrder
  <2>1. Rising(e.seen)
    BY <1>1 DEF IndInv, Fit, Values, ExecOK
  <2>2. ASSUME e.stage = "run", e.request = "done" PROVE Count(e.seen) = user[e.call].sent
    <3>1. e.stage \in Live /\ Taken(e) = e.seen
      BY <2>2 DEF Live, Taken
    <3> QED
      BY <1>1, <2>2, <3>1 DEF IndInv, Fit, Final
  <2> QED
    BY <2>1, <2>2 DEF Rising
<1> QED
  BY <1>1, Invariance, PTL

\* No call is executed twice over one connection, whatever becomes of identifiers.
THEOREM ExecutedOnce == Spec => []OncePerConnection
<1>1. IndInv => OncePerConnection
  BY DEF IndInv, Shape
<1> QED
  BY <1>1, Invariance, PTL
===========================================================================
