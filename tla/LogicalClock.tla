--------------------------- MODULE LogicalClock ---------------------------
(***************************************************************************)
(* Timestamps and vector clocks of json-crdt-patch/clock/clock.ts, as      *)
(* operators on records.  A clock is the class ClockVector: its session,   *)
(* the next free logical time of that session, and for every other session *)
(* the last logical time observed of it.  An entry the Map peers does not  *)
(* have is 0 here: logical time starts at 1, and has() and gap() answer    *)
(* the same for an absent entry and for 0.                                 *)
(***************************************************************************)
EXTENDS Integers

CONSTANT Sid            \* the session identifiers in use

ASSUME SidAssumption == Sid \subseteq Nat \ {0}

Stamp == [sid : Sid, time : Nat]
Clock == [sid : Sid, time : Nat, peers : [Sid -> Nat]]

\* compare(ts1, ts2) < 0: by time first, the session breaks ties.
Before(a, b) == a.time < b.time \/ (a.time = b.time /\ a.sid < b.sid)

Larger(m, n) == IF m >= n THEN m ELSE n

\* new ClockVector(sid, time)
NewClock(sid, time) == [sid |-> sid, time |-> time, peers |-> [q \in Sid |-> 0]]

\* Mutant: an operation of any span takes one tick.
TickOnce(c, cycles) == [c EXCEPT !.time = @ + 1]

\* tick(cycles): the caller takes the timestamp TickStamp(c), the clock moves on.
TickStamp(c) == [sid |-> c.sid, time |-> c.time]
Tick(c, cycles) == [c EXCEPT !.time = @ + cycles]

\* Mutant: the clock is left at the last tick observed, not behind it.
ObserveEdge(c, id, span) ==
  LET edge == id.time + span - 1
  IN  [c EXCEPT !.peers = IF id.sid = c.sid THEN c.peers
                          ELSE [c.peers EXCEPT ![id.sid] = Larger(c.peers[id.sid], edge)],
                !.time = Larger(c.time, edge)]

\* observe(id, span): the interval of span ticks that starts at id was seen.
Observe(c, id, span) ==
  LET edge == id.time + span - 1
  IN  [c EXCEPT !.peers = IF id.sid = c.sid THEN c.peers
                          ELSE [c.peers EXCEPT ![id.sid] = Larger(c.peers[id.sid], edge)],
                !.time = Larger(c.time, edge + 1)]

Has(c, id) ==
  IF id.sid = c.sid THEN id.time < c.time ELSE id.time <= c.peers[id.sid]

Gap(c, id) ==
  IF id.sid = c.sid THEN Larger(id.time - c.time + 1, 0)
                    ELSE Larger(id.time - c.peers[id.sid], 0)

\* vv(): the last time known of every session, the local one included.
VersionVector(c) == [q \in Sid |-> IF q = c.sid THEN c.time - 1 ELSE c.peers[q]]

\* advanceCC(d): observe every entry of the version vector of d.
AdvanceCC(c, d) ==
  LET vv  == VersionVector(d)
      top == CHOOSE t \in {vv[q] : q \in Sid} : \A q \in Sid : vv[q] <= t
  IN  [c EXCEPT !.peers = [q \in Sid |-> IF q = c.sid THEN @[q] ELSE Larger(@[q], vv[q])],
                !.time = Larger(@, top + 1)]

\* Mutant: the session left behind is not observed.
ForkUnobserved(c, sid) ==
  [sid |-> sid, time |-> c.time, peers |-> [q \in Sid |-> IF q = sid THEN 0 ELSE c.peers[q]]]

\* fork(sid): the same knowledge under another session; the session that is
\* left behind becomes a peer, observed up to its last tick.
Fork(c, sid) ==
  [sid   |-> sid,
   time  |-> c.time,
   peers |-> [q \in Sid |-> IF q = sid THEN 0
                            ELSE IF q = c.sid THEN c.time - 1
                            ELSE c.peers[q]]]
===========================================================================
