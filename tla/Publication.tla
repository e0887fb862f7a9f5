---------------------------- MODULE Publication ----------------------------
(***************************************************************************)
(* What the utility operations of a workflow promise together: however     *)
(* often a step is repeated, the outside world sees one candidate commit,  *)
(* one merge request or one merge of it, and a workflow counts as          *)
(* published only when both are there.                                     *)
(***************************************************************************)
EXTENDS Naturals

VARIABLES
  committed,  \* candidate commits made by the workflow
  proposed,   \* merge requests opened, or merges made, by it
  outcome     \* "open", "published" or "failed"

vars == <<committed, proposed, outcome>>

Init == committed = 0 /\ proposed = 0 /\ outcome = "open"

Commit ==
  /\ outcome = "open" /\ committed = 0
  /\ committed' = 1
  /\ UNCHANGED <<proposed, outcome>>

Propose ==
  /\ outcome = "open" /\ committed = 1 /\ proposed = 0
  /\ proposed' = 1
  /\ UNCHANGED <<committed, outcome>>

Publish ==
  /\ outcome = "open" /\ committed = 1 /\ proposed = 1
  /\ outcome' = "published"
  /\ UNCHANGED <<committed, proposed>>

Fail ==
  /\ outcome = "open"
  /\ outcome' = "failed"
  /\ UNCHANGED <<committed, proposed>>

Next == Commit \/ Propose \/ Publish \/ Fail

Spec == Init /\ [][Next]_vars
=============================================================================
