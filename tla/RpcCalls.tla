------------------------------ MODULE RpcCalls ------------------------------
(***************************************************************************)
(* Calls of procedures over a PersistentChannel: RxPersistentCaller makes  *)
(* an RxLogicalChannelCaller for every channel that opens, which talks to  *)
(* an RxLogicalChannelBaseDispatcher and the RpcCallee behind it.          *)
(*                                                                         *)
(* Messages are batched on their way up (BufferedLogicalChannel); the      *)
(* server handles the messages of a batch one after the other and does     *)
(* nothing else in between, which is what `turn` is for.  The values of a  *)
(* request are numbered; 0 is undefined.  In messages and executions, call *)
(* is for the properties: the number of the call they are of.              *)
(***************************************************************************)
EXTENDS PersistentChannel, Sequences, Sorting, Functions

CONSTANTS MaxId,        \* identifiers of messages are 1..MaxId (0xfffe)
          BufferSize,   \* values of a request kept while its check runs (10)
          Cases         \* the calls users may make, and bounds: see CasesAssumption

\* form: client.call(), whose request is one value and which takes one answer; call$()
\* with a stream; notify().  method: a static procedure, a reactive one, one with a check.
Kind == [form : {"call", "stream", "notify"}, method : {"static", "rx", "checked"}]

ASSUME SizesAssumption == {MaxId, BufferSize} \subseteq Nat \ {0}

Emission == {"data", "last", "end", "error"}

\* emits: what request streams do; values, answers: bounds on the values of a request, and
\* of an answer before its last one; breaks, makes: see PersistentChannel; cancels:
\* whether users cancel calls.
ASSUME CasesAssumption ==
  \A c \in Cases :
    /\ c.calls \in Seq(Kind)
    /\ c.emits \subseteq Emission
    /\ {c.values, c.answers} \subseteq Nat /\ c.breaks \in 0..MaxBreaks /\ c.makes \in Makes
    /\ c.cancels \in BOOLEAN

VARIABLES case,         \* the case
          user,         \* what has become of those made so far, for those who wait for them
          nextId,       \* RxLogicalChannelCaller.id
          calls,        \* RxLogicalChannelCaller.calls
          outbox, up,   \* messages in the TimedQueue, and on their way
          turn,         \* the server is in the middle of a batch
          active,       \* activeStreamCalls: executions by identifier
          execs,        \* what the server was asked to execute over this connection
          down,         \* messages on their way to the client
          mixed         \* history: a call took an identifier while messages or executions of
                        \* its former call were still there

client == <<user, nextId, calls, outbox>>
server == <<turn, active, execs>>
vars == <<channelVars, case, client, up, server, down, mixed>>

Id == 1..MaxId

plan == case.calls

\* Whoever made the call is subscribed to rpc$, and will make it again on a new channel.
Subscribed == {n \in DOMAIN user : user[n].state \in {"waiting", "over"}}

Without(f, id) == Restrict(f, DOMAIN f \ {id})
Put(f, id, x) == [i \in DOMAIN f \cup {id} |-> IF i = id THEN x ELSE f[i]]

-----------------------------------------------------------------------------
(* Messages.                                                               *)

Data(n, id, method, v) == [type |-> "data", id |-> id, call |-> n, method |-> method, value |-> v]
Complete(n, id, method, v) == [type |-> "complete", id |-> id, call |-> n, method |-> method, value |-> v]
Fail(n, id, method) == [type |-> "error", id |-> id, call |-> n, method |-> method, value |-> 0]
Unsubscribe(n, id) == [type |-> "unsub", id |-> id, call |-> n, method |-> "", value |-> 0]
Notification(n) == [type |-> "notify", id |-> 0, call |-> n, method |-> plan[n].method, value |-> 1]
Answer(n, id, type, v) == [type |-> type, id |-> id, call |-> n, value |-> v]

\* What is sent while the channel is not open is lost with it.
Send(ms) == outbox' = IF IsOpen THEN outbox \o ms ELSE outbox

-----------------------------------------------------------------------------
(* RxLogicalChannelCaller.                                                 *)

\* Mutant: identifiers in use are not skipped.
FreeIdNext == nextId

\* this.id++ with its wrap, until an identifier is found that is not in use.
FreeId ==
  LET Distance(id) == IF id >= nextId THEN id - nextId ELSE id + MaxId - nextId
      free == Id \ DOMAIN calls
  IN  CHOOSE id \in free : \A other \in free : Distance(id) <= Distance(other)

After(id) == IF id = MaxId THEN 1 ELSE id + 1

\* What the one who makes a call has sent so far over this connection.
Made(n) == [state |-> "waiting", sent |-> IF plan[n].form = "stream" THEN 0 ELSE 1]

Entry(n) == [call |-> n, request |-> IF plan[n].form = "call" THEN "done" ELSE "open",
             answer |-> "open", first |-> TRUE]

Opening(n, id) ==
  CASE plan[n].form = "call" -> <<Complete(n, id, plan[n].method, 1)>>
    [] plan[n].form = "notify" -> <<Notification(n)>>
    [] plan[n].form = "stream" -> <<>>

\* An entry goes when its request and its answer are final.
Settled(cs, id, entry) ==
  IF entry.request = "done" /\ entry.answer = "done" THEN Without(cs, id) ELSE Put(cs, id, entry)

\* Nothing is left of the former call with that identifier.
Forgotten(id) ==
  /\ \A m \in {outbox[i] : i \in DOMAIN outbox} \cup {up[i].message : i \in DOMAIN up}
                \cup {down[i] : i \in DOMAIN down} : m.id # id
  /\ \A e \in {execs[i] : i \in DOMAIN execs} : e.id = id => e.stage = "ended"

\* call$(), notify(): nothing is sent before the first channel has opened.  The caller looks
\* for the identifier in its own calls only; the server may still have to do with its former
\* call, if that one was cancelled.
Make ==
  LET n == Len(user) + 1
      id == FreeId
  IN  /\ n \in DOMAIN plan
      /\ Cardinality(Subscribed) < MaxId
      /\ user' = Append(user, Made(n))
      /\ IF ~IsOpen THEN UNCHANGED <<nextId, calls, outbox, mixed>>
         ELSE IF plan[n].form = "notify"
              THEN Send(Opening(n, 0)) /\ UNCHANGED <<nextId, calls, mixed>>
         ELSE /\ Id \ DOMAIN calls # {}
              /\ nextId' = After(id)
              /\ calls' = Put(calls, id, Entry(n))
              /\ mixed' = (mixed \/ ~Forgotten(id))
              /\ Send(Opening(n, id))
      /\ UNCHANGED <<channelVars, case, up, server, down>>

EmitOf(id, type, method) ==
  LET n == calls[id].call
      v == user[n].sent + 1
      entry == [calls[id] EXCEPT !.first = FALSE, !.request = IF type = "data" THEN @ ELSE "done"]
  IN  /\ calls[id].request = "open"
      /\ type \in case.emits
      /\ type \in {"data", "last"} => v <= case.values
      /\ user' = [user EXCEPT ![n].sent = IF type \in {"data", "last"} THEN v ELSE @]
      /\ calls' = Settled(calls, id, entry)
      /\ Send(CASE type = "data" -> <<Data(n, id, method, v)>>
                [] type = "last" -> <<Complete(n, id, method, v)>>
                [] type = "end" -> <<Complete(n, id, method, 0)>>
                [] type = "error" -> <<Fail(n, id, method)>>)
      /\ UNCHANGED <<channelVars, case, nextId, up, server, down, mixed>>

\* Mutant: every message of a request names the procedure.
EmitNamed(id, type) == EmitOf(id, type, plan[calls[id].call].method)

\* The request stream emits a value, emits its last one and completes, completes, or
\* fails; the first message names the procedure.  It goes on when the answer is final,
\* and when the call has been cancelled.
Emit(id, type) == EmitOf(id, type, IF calls[id].first THEN plan[calls[id].call].method ELSE "")

\* The one who made a call loses interest in it.
Cancel(n) ==
  LET mine == {id \in DOMAIN calls : calls[id].call = n /\ calls[id].answer = "open"}
  IN  /\ case.cancels
      /\ n \in Subscribed /\ plan[n].form = "stream"
      /\ user' = [user EXCEPT ![n].state = "cancelled"]
      /\ IF mine = {} THEN UNCHANGED <<calls, outbox>>
         ELSE LET id == CHOOSE i \in mine : TRUE
              IN  /\ calls' = Settled(calls, id, [calls[id] EXCEPT !.answer = "done"])
                  /\ Send(<<Unsubscribe(n, id)>>)
      /\ UNCHANGED <<channelVars, case, nextId, up, server, down, mixed>>

\* TimedQueue.flush()
Flush ==
  /\ IsOpen /\ outbox # <<>>
  /\ up' = up \o [i \in DOMAIN outbox |-> [message |-> outbox[i], last |-> i = Len(outbox)]]
  /\ outbox' = <<>>
  /\ UNCHANGED <<channelVars, case, user, nextId, calls, server, down, mixed>>

\* onMessage(): client.call() takes the first value and cancels what may follow.
Deliver ==
  LET m == Head(down)
      entry == calls[m.id]
      n == entry.call
      once == plan[n].form = "call"
      final == m.type # "data"
      outcome == IF m.type = "error" \/ (once /\ m.value # 0) THEN "settled"
               ELSE IF final THEN "over" ELSE user[n].state
  IN  /\ down # <<>>
      /\ down' = Tail(down)
      /\ IF m.id \notin DOMAIN calls \/ entry.answer = "done"
         THEN UNCHANGED <<user, calls, outbox>>
         ELSE /\ user' = [user EXCEPT ![n].state = outcome]
              /\ IF final \/ once
                 THEN calls' = Settled(calls, m.id, [entry EXCEPT !.answer = "done"])
                 ELSE UNCHANGED calls
              /\ Send(IF once /\ ~final THEN <<Unsubscribe(n, m.id)>> ELSE <<>>)
      /\ UNCHANGED <<channelVars, case, nextId, up, server, mixed>>

-----------------------------------------------------------------------------
(* RxLogicalChannelBaseDispatcher and RpcCallee.createCall().              *)

Stages == {"static", "check", "opening", "run", "ended"}

Exec(m, stage, request, buffer, seen) ==
  [call |-> m.call, id |-> m.id, stage |-> stage, request |-> request,
   buffer |-> buffer, seen |-> seen, said |-> 0]

\* Mutant: the values of a batch that come before the procedure has seen the first one
\* are handed to it twice.
OpenedTwice(e) == IF e.stage = "opening" THEN [e EXCEPT !.stage = "run", !.seen = @ \o e.buffer, !.buffer = <<>>] ELSE e

\* BufferSubject.flush(), in a microtask after the batch.
Opened(e) == IF e.stage = "opening" THEN [e EXCEPT !.stage = "run", !.buffer = <<>>] ELSE e

\* Mutant: off by one.
OverflowsLate(e) == e.stage \in {"check", "opening"} /\ Len(e.buffer) > BufferSize

\* A value for the procedure: BufferSubject.next().
Overflows(e) == e.stage \in {"check", "opening"} /\ Len(e.buffer) >= BufferSize

Given(e, v) ==
  [e EXCEPT !.buffer = IF e.stage = "run" THEN @ ELSE Append(@, v),
            !.seen = IF e.stage = "check" THEN @ ELSE Append(@, v)]

\* createStreamCall(), and the value it begins with.
NewExec(m, request) ==
  IF m.method = "static" \/ m.type = "notify" THEN Exec(m, "static", "done", <<>>, <<m.value>>)
  ELSE IF m.method = "checked" THEN Exec(m, "check", request, <<m.value>>, <<>>)
  ELSE Exec(m, "opening", request, <<m.value>>, <<m.value>>)

Serve(as, es, ms) ==
  LET last == Head(up).last
  IN  /\ up' = Tail(up)
      /\ turn' = ~last
      /\ active' = as
      /\ execs' = IF last THEN [i \in DOMAIN es |-> Opened(es[i])] ELSE es
      /\ down' = down \o ms
      /\ UNCHANGED <<channelVars, case, client, mixed>>

Failure(m) == <<Answer(m.call, m.id, "error", 0)>>

Known(m) == m.id \in DOMAIN active

\* The execution with that identifier gets what the message brings.
ServeKnown(m) ==
  LET i == active[m.id]
      e == execs[i]
      ended == [execs EXCEPT ![i].stage = "ended"]
      given == IF m.value = 0 THEN e ELSE Given(e, m.value)
  IN  CASE m.type = "unsub" ->
             Serve(Without(active, m.id), [execs EXCEPT ![i].request = "cut"], <<>>)
        [] m.type = "error" \/ (m.value # 0 /\ Overflows(e)) ->
             Serve(Without(active, m.id), ended, Failure([m EXCEPT !.call = e.call]))
        [] OTHER ->
             Serve(active,
                   [execs EXCEPT ![i] = IF m.type = "complete" THEN [given EXCEPT !.request = "done"] ELSE given],
                   <<>>)

\* onRequestDataMessage(), onRequestCompleteMessage(), onRequestErrorMessage(),
\* onUnsubscribeMessage(), onNotificationMessage()
ServeUnknown(m) ==
  LET es == Append(execs, NewExec(m, IF m.type = "data" THEN "open" ELSE "done"))
  IN  CASE m.type = "unsub" -> Serve(active, execs, <<>>)
        [] m.method = "" -> Serve(active, execs, IF m.type = "complete" THEN <<>> ELSE Failure(m))
        [] m.method # "" /\ m.type = "error" -> Serve(active, execs, Failure(m))
        [] m.type = "notify" \/ (m.type \in {"data", "complete"} /\ m.method = "static") ->
             Serve(active, es, <<>>)
        [] m.type \in {"data", "complete"} /\ m.method \in {"rx", "checked"} ->
             Serve(Put(active, m.id, Len(es)), es, <<>>)

Receive ==
  /\ up # <<>>
  /\ LET m == Head(up).message IN IF Known(m) THEN ServeKnown(m) ELSE ServeUnknown(m)

\* An execution goes on by itself, between batches.
Step(i, e, as, ms) ==
  /\ ~turn
  /\ execs' = [execs EXCEPT ![i] = e]
  /\ active' = as
  /\ down' = down \o ms
  /\ UNCHANGED <<channelVars, case, client, up, turn, mixed>>

\* preCall() is over: the procedure gets what was kept for it.
CheckPass(i) ==
  LET e == execs[i]
  IN  /\ e.stage = "check"
      /\ Step(i, [e EXCEPT !.stage = "run", !.seen = e.buffer, !.buffer = <<>>], active, <<>>)

End(i, ms) ==
  LET e == execs[i]
  IN  Step(i, [e EXCEPT !.stage = "ended"],
           IF e.stage = "static" THEN active ELSE Without(active, e.id),
           IF e.id = 0 THEN <<>> ELSE ms)

\* preCall() refuses, or the procedure fails.
ExecFail(i) ==
  LET e == execs[i]
  IN  /\ e.stage \in {"static", "check", "run"}
      /\ End(i, <<Answer(e.call, e.id, "error", 0)>>)

\* The procedure has answered for the last time, or is done without an answer.
ExecEnd(i, v) ==
  LET e == execs[i]
  IN  /\ e.stage \in {"static", "run"}
      /\ End(i, <<Answer(e.call, e.id, "complete", v)>>)

ExecAnswer(i) ==
  LET e == execs[i]
  IN  /\ e.stage = "run" /\ e.id # 0
      /\ e.said < case.answers
      /\ Step(i, [e EXCEPT !.said = @ + 1], active, <<Answer(e.call, e.id, "data", e.said + 1)>>)

-----------------------------------------------------------------------------
(* The channel comes and goes.                                             *)

Init ==
  /\ ChannelInit
  /\ case \in Cases /\ breaks = case.breaks /\ makes = case.makes
  /\ user = <<>>
  /\ nextId = 1 /\ calls = <<>>
  /\ outbox = <<>> /\ up = <<>> /\ down = <<>>
  /\ turn = FALSE /\ active = <<>> /\ execs = <<>>
  /\ mixed = FALSE

Nothing == UNCHANGED <<case, client, up, server, down, mixed>>

ReissueOf(again) ==
  LET ns == Sorted({n \in again : plan[n].form # "notify"})
      asked == Sorted({n \in again : plan[n].form = "call"})
      noted == Sorted({n \in again : plan[n].form = "notify"})
      idOf(n) == CHOOSE i \in DOMAIN ns : ns[i] = n
  IN  /\ nextId' = After(Len(ns))
      /\ calls' = [i \in DOMAIN ns |-> Entry(ns[i])]
      /\ user' = [n \in DOMAIN user |-> IF n \in again THEN Made(n) ELSE user[n]]
      /\ outbox' = [j \in DOMAIN asked |-> Opening(asked[j], idOf(asked[j]))[1]]
                      \o [j \in DOMAIN noted |-> Opening(noted[j], 0)[1]]
      /\ UNCHANGED <<case, up, server, down, mixed>>

\* Mutant: calls that were under way are left to the caller of the closed channel.
ReissueFew == ReissueOf({n \in Subscribed : \A id \in DOMAIN calls : calls[id].call # n})

\* A channel has opened: a new caller, to which all who are subscribed to rpc$ turn with
\* their calls (numbered from 1, in the order they were made) and their notifications.
Reissue == ReissueOf(Subscribed)

Connect == Open /\ Reissue

\* What is on its way, and all that the server keeps for the connection, is gone.
Lose ==
  /\ outbox' = <<>> /\ up' = <<>> /\ down' = <<>>
  /\ turn' = FALSE /\ active' = <<>> /\ execs' = <<>>

Disconnect == Close /\ Lose /\ UNCHANGED <<case, user, nextId, calls, mixed>>

\* RxPersistentCaller.stop(): calls end without an answer.
Dispose ==
  /\ Stop
  /\ Lose
  /\ calls' = <<>>
  /\ user' = [n \in DOMAIN user |-> IF n \in Subscribed THEN [user[n] EXCEPT !.state = "over"] ELSE user[n]]
  /\ UNCHANGED <<case, nextId, mixed>>

Execution ==
  \E i \in DOMAIN execs :
    CheckPass(i) \/ ExecFail(i) \/ ExecEnd(i, 0) \/ ExecEnd(i, 1)

Progress ==
  \/ (Start \/ Retry) /\ Nothing
  \/ Connect
  \/ Flush \/ Receive \/ Execution \/ Deliver

Next ==
  \/ Progress
  \/ \E i \in DOMAIN execs : ExecAnswer(i)
  \/ Make
  \/ \E id \in DOMAIN calls, type \in Emission : Emit(id, type)
  \/ \E n \in DOMAIN user : Cancel(n)
  \/ Uptime /\ Nothing
  \/ Disconnect \/ Dispose

Spec == Init /\ [][Next]_vars

(* Timers run out, connections are made, messages arrive, and procedures   *)
(* end.  Nobody has to call or to emit anything.                           *)
FairSpec == Spec /\ WF_vars(Progress)

-----------------------------------------------------------------------------
(* Properties.                                                             *)

TypeOK ==
  /\ ChannelTypeOK
  /\ \A n \in DOMAIN user : user[n].state \in {"waiting", "over", "settled", "cancelled"}
  /\ nextId \in Id /\ mixed \in BOOLEAN
  /\ DOMAIN calls \subseteq Id
  /\ \A id \in DOMAIN calls : calls[id].call \in DOMAIN user
                            /\ {calls[id].request, calls[id].answer} # {"done"}
  /\ \A id \in DOMAIN active : active[id] \in DOMAIN execs /\ execs[active[id]].id = id
  /\ \A i \in DOMAIN execs : execs[i].stage \in Stages /\ Len(execs[i].buffer) <= BufferSize

(* The answer of a call that is still waited for reaches that call and no  *)
(* other, though identifiers are used again, and calls are made again over *)
(* other connections.  A call takes the answers of another one only when   *)
(* it has taken its identifier too early, and then of one that is over.    *)
AnswersOwn ==
  \A i \in DOMAIN down :
    LET m == down[i]
    IN  m.id \in DOMAIN calls /\ calls[m.id].answer = "open" /\ calls[m.id].call # m.call
          => mixed /\ user[m.call].state # "waiting"

(* A procedure sees the values of a request in the order they were emitted *)
(* in, from the first one on, none twice; when it is told that there are   *)
(* no more it has seen all of them, whether it was begun before or after.  *)
(* A request that ends without a value is one that is undefined.  All this *)
(* while no identifier has been taken too early: see Make.                 *)
Count(values) == IF values = <<0>> THEN 0 ELSE Len(values)

InOrder ==
  mixed \/ \A i \in DOMAIN execs :
    LET e == execs[i]
    IN  /\ e.seen = <<0>> \/ \A k \in DOMAIN e.seen : e.seen[k] = k
        /\ e.stage = "run" /\ e.request = "done" => Count(e.seen) = user[e.call].sent

(* Over one connection no call is executed twice, whatever of its request  *)
(* reaches the server after the execution has ended.                       *)
OncePerConnection ==
  \A i, j \in DOMAIN execs : execs[i].call = execs[j].call => i = j

(* Every client.call() is answered or refused, or its response completes   *)
(* without a value, over however many connections, unless the client is    *)
(* stopped or no channel can be made any more.                             *)
Waiting(n) == n \in DOMAIN user /\ plan[n].form = "call" /\ user[n].state = "waiting"

MadeByUser == UNION {DOMAIN c.calls : c \in Cases}

NoMore == service = "stopped" \/ ("throws" \in makes /\ GivenUp)

Answered == \A n \in MadeByUser : Waiting(n) ~> (~Waiting(n) \/ NoMore)

(* "Completes a response subscription (with an optional final value)": a   *)
(* client.call() of which the response has completed without one ends as   *)
(* well.  It does not, because its promise does not hear of it: see the    *)
(* README.                                                                 *)
Unanswered(n) == n \in DOMAIN user /\ plan[n].form = "call" /\ user[n].state \in {"waiting", "over"}

Ends == \A n \in MadeByUser : Unanswered(n) ~> (~Unanswered(n) \/ NoMore)

(* "Client cancels an active response subscription": an execution that has *)
(* been told so sends no more answers.  It does: see the README.           *)
CancelledIsSilent ==
  [][\A i \in DOMAIN execs \cap DOMAIN execs' :
       execs[i].request = "cut" => execs'[i].said = execs[i].said]_vars
===========================================================================
