------------------------------ MODULE BlockLog ------------------------------
(***************************************************************************)
(* What the server promises of one block, to requests that come at any     *)
(* time: a log of batches of edits, which grows at its end, and content    *)
(* that is always what the batches of the log amount to.  The block may be *)
(* removed and begun anew.                                                 *)
(*                                                                         *)
(* LevelBlocks implements this; LocalRepos takes it for the server.        *)
(***************************************************************************)
EXTENDS Naturals, Sequences

CONSTANT Edit

VARIABLES there,    \* whether the block exists
          log,      \* the batches, in the order of their numbers
          content   \* the edits the block shows

logVars == <<there, log, content>>

Batch == SUBSET Edit

Nothing == there = FALSE /\ log = <<>> /\ content = {}

Init == Nothing

Create ==
  /\ ~there
  /\ there' = TRUE
  /\ UNCHANGED <<log, content>>

Accept(batch) ==
  /\ there' = TRUE
  /\ log' = Append(log, batch)
  /\ content' = content \cup batch

Remove == there /\ Nothing'

Next ==
  \/ Create
  \/ \E batch \in Batch : Accept(batch)
  \/ Remove

Spec == Init /\ [][Next]_logVars
===========================================================================
