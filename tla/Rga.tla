-------------------------------- MODULE Rga --------------------------------
(***************************************************************************)
(* The replicated growable array of json-crdt/nodes/rga/AbstractRga.ts,    *)
(* which StrNode, BinNode and ArrNode extend, as operators on the sequence *)
(* of its chunks in document order.                                        *)
(*                                                                         *)
(* A chunk holds the elements (sid, time) .. (sid, time + span - 1); del   *)
(* says that they are tombstones; s is the split link: the time of the     *)
(* chunk that continues the interval of this one elsewhere in the document *)
(* (its session is the same), or 0.  The content of a chunk is not kept.   *)
(*                                                                         *)
(* The code keeps the chunks in two splay trees, one in document order and *)
(* one by identifier; the trees, their rotations and the cached lengths    *)
(* are abstracted: next() is the following index, findById() and           *)
(* findChunk() are a search by what they search for.                       *)
(***************************************************************************)
EXTENDS LogicalClock, Sequences, SequencesExt, FiniteSetsExt

Id(c) == [sid |-> c.sid, time |-> c.time]

Chunk(id, span) == [sid |-> id.sid, time |-> id.time, span |-> span, del |-> FALSE, s |-> 0]

\* containsId(c.id, c.span, id)
ContainsId(c, id) == c.sid = id.sid /\ c.time <= id.time /\ id.time < c.time + c.span

EndTime(c) == c.time + c.span - 1

\* findById(): where the chunk is that contains the element, 0 if nowhere.
FindById(q, id) == SelectInSeq(q, LAMBDA c : ContainsId(c, id))

\* Following a split link.
LinkIndex(q, k) == SelectInSeq(q, LAMBDA c : c.sid = q[k].sid /\ c.time = q[k].s)

-----------------------------------------------------------------------------
(* What a reader sees.                                                     *)

\* The elements of one chunk, and of all of them, tombstones included.
ChunkElements(c) == [i \in 1..c.span |-> [sid |-> c.sid, time |-> c.time + i - 1]]
Elements(q) == FlattenSeq([k \in DOMAIN q |-> ChunkElements(q[k])])
View(q) == FlattenSeq([k \in DOMAIN q |-> IF q[k].del THEN <<>> ELSE ChunkElements(q[k])])

\* findChunk(): the chunk and the offset in it of the visible position pos.
FindChunk(q, pos) ==
  LET id == View(q)[pos + 1]
      k  == FindById(q, id)
  IN  [at |-> k, offset |-> id.time - q[k].time]

\* findInterval(): the visible positions pos .. pos + len - 1 as spans of
\* identifiers, one per chunk they lie in.
FindInterval(q, pos, len) ==
  LET part(k) ==
        LET before == Len(View(SubSeq(q, 1, k - 1)))
            from   == IF pos > before THEN pos - before ELSE 0
            to     == IF pos + len < before + q[k].span THEN pos + len - before ELSE q[k].span
        IN  IF q[k].del \/ from >= to THEN <<>>
            ELSE <<[sid |-> q[k].sid, time |-> q[k].time + from, span |-> to - from]>>
  IN  FlattenSeq([k \in DOMAIN q |-> part(k)])

-----------------------------------------------------------------------------
(* Insertion.                                                              *)

\* insertAfterRef(c, ref, q[i]): walk right past everything that is later than
\* c, linking c to the chunk it continues; then put it there, unless it is
\* there already, or append its content to the chunk it continues.
InsertAfterRef(q, c, ref, i) ==
  LET j == Min({k \in i..Len(q) : k = Len(q) \/ ~Before(c, q[k + 1])})
      unlinked == {k \in i..j : q[k].s = 0}
      continues(k) == /\ q[k].sid = c.sid
                      /\ EndTime(q[k]) + 1 = c.time
                      /\ EndTime(q[k]) = ref.time
      linked == [k \in DOMAIN q |-> IF k \in unlinked /\ continues(k)
                                    THEN [q[k] EXCEPT !.s = c.time] ELSE q[k]]
      isSplit == unlinked # {} /\ continues(Max(unlinked))
  IN  IF j < Len(q) /\ Id(q[j + 1]) = Id(c) THEN linked
      ELSE IF isSplit /\ ~q[j].del
           THEN [linked EXCEPT ![j].span = @ + c.span, ![j].s = 0]
           ELSE InsertAt(linked, j + 1, c)

InsAfterRoot(q, c, root) ==
  IF q = <<>> THEN <<c>>
  ELSE IF Before(q[1], c) THEN InsertAt(q, 1, c)
  ELSE IF ContainsId(q[1], Id(c)) THEN q
  ELSE InsertAfterRef(q, c, root, 1)

\* Mutant: the left half is not linked to the right one.
SplitChunkUnlinked(q, k, ticks) ==
  LET left  == [q[k] EXCEPT !.span = ticks, !.s = 0]
      right == [q[k] EXCEPT !.time = @ + ticks, !.span = @ - ticks]
  IN  InsertAt([q EXCEPT ![k] = left], k + 1, right)

\* chunk.split(ticks), the two halves linked (split(), insertInside()).
SplitChunk(q, k, ticks) ==
  LET left  == [q[k] EXCEPT !.span = ticks, !.s = q[k].time + ticks]
      right == [q[k] EXCEPT !.time = @ + ticks, !.span = @ - ticks]
  IN  InsertAt([q EXCEPT ![k] = left], k + 1, right)

\* Mutant: a chunk is split for whatever is inserted into it.
InsAfterChunkInside(q, c, after, k, offset) ==
  LET needsSplit == offset + 1 < q[k].span
  IN  IF needsSplit /\ ContainsId(q[k], Id(c)) THEN q
      ELSE IF needsSplit THEN InsertAt(SplitChunk(q, k, offset + 1), k + 1, c)
           ELSE InsertAfterRef(q, c, after, k)

\* insAfterChunk(after, q[k], offset, c.id, content)
InsAfterChunk(q, c, after, k, offset) ==
  LET needsSplit == offset + 1 < q[k].span
  IN  IF needsSplit /\ ContainsId(q[k], Id(c)) THEN q
      ELSE IF needsSplit /\ (c.time > after.time + 1 \/ c.sid > after.sid)
           THEN InsertAt(SplitChunk(q, k, offset + 1), k + 1, c)
           ELSE InsertAfterRef(q, c, after, k)

\* ins(): a remote insertion, after an element given by its identifier.  Where
\* the element is missing nothing is inserted.
Ins(q, root, after, id, span) ==
  LET k == FindById(q, after)
  IN  IF after = root THEN InsAfterRoot(q, Chunk(id, span), root)
      ELSE IF k = 0 THEN q
      ELSE InsAfterChunk(q, Chunk(id, span), after, k, after.time - q[k].time)

\* insAt(): a local insertion at a visible position; what it was inserted after.
InsAtAfter(q, root, pos) == IF pos = 0 THEN root ELSE View(q)[pos]

InsAt(q, root, pos, id, span) ==
  IF pos = 0 THEN InsAfterRoot(q, Chunk(id, span), root)
  ELSE LET found == FindChunk(q, pos - 1)
       IN  InsAfterChunk(q, Chunk(id, span), View(q)[pos], found.at, found.offset)

-----------------------------------------------------------------------------
(* Deletion.                                                               *)

Kill(q, k) == [q EXCEPT ![k].del = TRUE]

\* A round of the loop of deleteSpan(), at the chunk k: delete what lies in the
\* times t1..t2, then follow the split link.
DeleteRound(q, k, t1, t2) ==
  LET c  == q[k]
      c1 == c.time
      c2 == EndTime(c)
      stop(p) == [q |-> p, k |-> k, stop |-> TRUE]
      onward(p) == IF p[k].s = 0 THEN stop(p)
                   ELSE [q |-> p, k |-> LinkIndex(p, k), stop |-> FALSE]
      unless(done, p) == IF done THEN stop(p) ELSE onward(p)
  IN  CASE c.del                -> unless(c2 >= t2, q)
        [] ~c.del /\ t1 > c2    -> onward(q)
        [] ~c.del /\ t1 <= c1 /\ t2 >= c2 -> unless(t2 <= c2, Kill(q, k))
        [] ~c.del /\ t1 <= c1 /\ t2 < c2  -> stop(Kill(SplitChunk(q, k, t2 - c1 + 1), k))
        [] ~c.del /\ c1 < t1 /\ t1 <= c2 /\ t2 >= c2 ->
             unless(t2 <= c2, Kill(SplitChunk(q, k, t1 - c1), k + 1))
        [] ~c.del /\ c1 < t1 /\ t1 <= c2 /\ t2 < c2  ->
             stop(Kill(SplitChunk(SplitChunk(q, k, t2 - c1 + 1), k, t1 - c1), k + 1))

\* The loop, from the chunk at k.  Links lead to later times: a round for each chunk,
\* and one for the half of a chunk that is split, are enough.
DeleteFrom(q, k, t1, t2) ==
  LET next(st) == IF st.stop THEN st ELSE DeleteRound(st.q, st.k, t1, t2)
      after[i \in 0..(Len(q) + 1)] ==
        IF i = 0 THEN [q |-> q, k |-> k, stop |-> FALSE] ELSE next(after[i - 1])
  IN  after[Len(q) + 1]

\* mergeTombstones(): two neighbouring tombstones become one when the second
\* continues the interval of the first.
Mergeable(a, b) == a.del /\ b.del /\ a.sid = b.sid /\ EndTime(a) + 1 = b.time

\* Mutant: the merged tombstone keeps the link of its left part.
MergeAtKeepingLink(q, k) ==
  IF k \in 1..(Len(q) - 1) /\ Mergeable(q[k], q[k + 1])
  THEN RemoveAt([q EXCEPT ![k].span = @ + q[k + 1].span], k + 1)
  ELSE q

MergeAt(q, k) ==
  IF k \in 1..(Len(q) - 1) /\ Mergeable(q[k], q[k + 1])
  THEN RemoveAt([q EXCEPT ![k].span = @ + q[k + 1].span, ![k].s = q[k + 1].s], k + 1)
  ELSE q

\* A round of the loop of mergeTombstones2(), at the chunk k.
MergeRound(q, k, end) ==
  LET stop(p) == [q |-> p, k |-> k, stop |-> TRUE]
  IN  IF k = Len(q) THEN stop(q)
      ELSE IF Mergeable(q[k], q[k + 1]) THEN [q |-> MergeAt(q, k), k |-> k, stop |-> FALSE]
      ELSE IF Id(q[k + 1]) = end THEN stop(MergeAt(q, k + 1))
      ELSE IF q[k].s = 0 THEN stop(q)
      ELSE [q |-> q, k |-> LinkIndex(q, k), stop |-> FALSE]

\* The loop, from the chunk at k: a round removes a chunk, leaves one behind or stops.
MergeFrom(q, k, end) ==
  LET next(st) == IF st.stop THEN st ELSE MergeRound(st.q, st.k, end)
      after[i \in 0..Len(q)] ==
        IF i = 0 THEN [q |-> q, k |-> k, stop |-> FALSE] ELSE next(after[i - 1])
  IN  after[Len(q)].q

MergeTombstones2(q, start, end) ==
  LET before(p) == MergeAt(p, FindById(p, start) - 1)
  IN  before(MergeFrom(q, FindById(q, start), end))

DeleteSpan(q, span) ==
  LET k == FindById(q, [sid |-> span.sid, time |-> span.time])
      merge(done) == MergeTombstones2(done.q, Id(q[k]), Id(done.q[done.k]))
  IN  IF k = 0 THEN q ELSE merge(DeleteFrom(q, k, span.time, span.time + span.span - 1))

Delete(q, spans) ==
  LET after[i \in 0..Len(spans)] == IF i = 0 THEN q ELSE DeleteSpan(after[i - 1], spans[i])
  IN  after[Len(spans)]

-----------------------------------------------------------------------------
\* ingest(): the chunks of a decoded or cloned node.  A chunk is linked to a
\* later one that continues its interval.
Ingest(q) ==
  [k \in DOMAIN q |->
    LET continued == \E m \in (k + 1)..Len(q) : q[m].sid = q[k].sid /\ q[m].time = EndTime(q[k]) + 1
    IN  [q[k] EXCEPT !.s = IF continued THEN EndTime(q[k]) + 1 ELSE 0]]
===========================================================================
