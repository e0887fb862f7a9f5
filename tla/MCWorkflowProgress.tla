------------------------- MODULE MCWorkflowProgress -------------------------
(***************************************************************************)
(* Plans and environments for the runs of WorkflowProgress.                *)
(***************************************************************************)
EXTENDS WorkflowProgress

Work(max) == [kind |-> "Work", max |-> max, gate |-> 0]
Gate == [kind |-> "HumanGate", max |-> 1, gate |-> 0]
Operation(max, g) == [kind |-> "Work", max |-> max, gate |-> g]

\* author, test-author, test-candidate, approval, merge
Canonical == <<Work(0), Work(2), Work(2), Gate, Operation(1, 4)>>

\* approval, test-author, test-candidate, merge
GateFirst == <<Gate, Work(1), Work(2), Operation(1, 1)>>

AllButDeletes == {"lag", "reject", "deny"}
Losses        == {"lag", "deleteExec", "deleteAttempt", "loseInput"}
=============================================================================
