------------------------- MODULE PersistentChannel -------------------------
(***************************************************************************)
(* PersistentPhysicalChannel over WebSocketChannel: one channel after the  *)
(* other, a new one some time after the last one has closed.  open$ is     *)
(* true exactly while the channel is open.  Delays are left out, what is   *)
(* counted for them is not.                                                *)
(***************************************************************************)
EXTENDS Integers

CONSTANTS Makes,        \* what newChannel() may do: the cases, sets of Outcome
          MaxBreaks     \* bound: channels that close or are not to be had

Outcome == {"connecting", "refused", "throws"}

ASSUME MakesAssumption == Makes \subseteq SUBSET Outcome
ASSUME MaxBreaksAssumption == MaxBreaks \in Nat

VARIABLES service,      \* active$: "new", "active", and "stopped" when it is disposed of
          state,        \* the state of the channel in channel$, "none" without one
          wait,         \* the delay before the next attempt runs
          uptime,       \* the time that a new channel has to stay open runs
          retries,      \* counter of the attempts
          makes,        \* the case: what newChannel() may do
          breaks        \* counter of the bound, downwards

channelVars == <<service, state, wait, uptime, retries, makes, breaks>>

ChannelInit ==
  /\ service = "new"
  /\ state = "none"
  /\ wait = FALSE /\ uptime = FALSE
  /\ retries = 0
  /\ makes \in Makes /\ breaks \in 0..MaxBreaks

IsOpen == state = "open"

Breaks == breaks > 0 /\ breaks' = breaks - 1

\* A channel has closed: the delay begins.
Closed == state' = "closed" /\ wait' = TRUE /\ retries' = retries + 1

\* createChannel(): an error of newChannel() is emitted and changes nothing; a socket
\* that cannot be made is a channel that has closed.
CreateChannel ==
  \/ state' = "connecting" /\ wait' = FALSE /\ UNCHANGED <<retries, breaks>>
  \/ "refused" \in makes /\ Breaks /\ Closed
  \/ "throws" \in makes /\ Breaks /\ wait' = FALSE /\ UNCHANGED <<state, retries>>

Start ==
  /\ service = "new"
  /\ service' = "active"
  /\ CreateChannel
  /\ UNCHANGED <<uptime, makes>>

Retry ==
  /\ wait
  /\ uptime' = TRUE
  /\ CreateChannel
  /\ UNCHANGED <<service, makes>>

Open ==
  /\ state = "connecting"
  /\ state' = "open"
  /\ UNCHANGED <<service, wait, uptime, retries, makes, breaks>>

\* Mutant: only a channel that was open is followed by another.
CloseOfOpen ==
  /\ state \in {"connecting", "open"}
  /\ Breaks
  /\ state' = "closed" /\ wait' = IsOpen /\ retries' = retries + 1
  /\ UNCHANGED <<service, uptime, makes>>

Close ==
  /\ state \in {"connecting", "open"}
  /\ Breaks
  /\ Closed
  /\ UNCHANGED <<service, uptime, makes>>

\* minUptime is over.
Uptime ==
  /\ uptime
  /\ uptime' = FALSE
  /\ retries' = IF IsOpen THEN 0 ELSE retries
  /\ UNCHANGED <<service, state, wait, makes, breaks>>

Stop ==
  /\ service = "active"
  /\ service' = "stopped"
  /\ state' = "none"
  /\ wait' = FALSE /\ uptime' = FALSE /\ retries' = 0
  /\ UNCHANGED <<makes, breaks>>

-----------------------------------------------------------------------------
ChannelTypeOK ==
  /\ service \in {"new", "active", "stopped"}
  /\ state \in {"none", "connecting", "open", "closed"}
  /\ wait \in BOOLEAN /\ uptime \in BOOLEAN
  /\ makes \in Makes
  /\ retries \in 0..MaxBreaks /\ breaks \in 0..MaxBreaks

GivenUp == service = "active" /\ state \in {"none", "closed"} /\ ~wait

(* "When service is active it will attempt to always keep an open channel  *)
(* connected": it comes to be open again, however often channels close or  *)
(* fail to open, unless it is stopped or newChannel() itself throws.       *)
KeepsConnected ==
  [](service = "active" => <>(IsOpen \/ service = "stopped" \/ ("throws" \in makes /\ GivenUp)))
===========================================================================
