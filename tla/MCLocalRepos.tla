---------------------------- MODULE MCLocalRepos ----------------------------
(* Instances of LocalRepos for TLC. *)
EXTENDS LocalRepos

\* Which device has founded the block, or creates it without an edit, does not matter.
Someone == CHOOSE d \in Device : TRUE

Founded(overlap, edits, f, late) ==
  [first |-> {<<Someone, 1>>}, blank |-> {}, overlap |-> overlap, edits |-> edits,
   faults |-> f, late |-> late]

Unfounded(blank, edits, f) ==
  [first |-> {}, blank |-> blank, overlap |-> TRUE, edits |-> edits, faults |-> f, late |-> {}]

MCCases ==
  {Unfounded({Someone}, 1, 0), Unfounded(Device, 0, 1), Founded(TRUE, 3, 0, {}),
   Founded(FALSE, 3, 1, {"lease"}), Founded(TRUE, 2, 2, {"lease", "store"})}

MCLease == {Founded(FALSE, 4, 2, {"lease"})}

MCStore == {Founded(FALSE, 2, 1, {"store"})}
===========================================================================
