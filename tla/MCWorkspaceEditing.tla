------------------------- MODULE MCWorkspaceEditing -------------------------
(* A developer's task, a test author's, a repair of tests and a planner's.  *)
EXTENDS WorkspaceEditing

\* "check" is in a directory that listings leave out, ".spec" is a temporary
\* file beside "spec".
Files == {"code", "fresh", "gone", "spec", "check", ".spec"}
Checkout == [p \in Files |-> IF p \in {"fresh", ".spec"} THEN Absent ELSE "old"]
FileOf == [t \in {".spec"} |-> "spec"]
Anything == {"old", "edit", "dropped"}
NoPrior == [p \in {} |-> Absent]

Development == [contract |-> "change-set", prior |-> NoPrior, preserves |-> FALSE,
  plan |-> [p \in {"code", "fresh", "gone"} |->
    CASE p = "code" -> "modify" [] p = "fresh" -> "add" [] p = "gone" -> "delete"]]
TestAuthoring == [contract |-> "test-change-set", prior |-> NoPrior, plan |-> NoPrior,
  preserves |-> FALSE]
TestRepair == [TestAuthoring EXCEPT !.preserves = TRUE,
  !.prior = [p \in {"spec", "check"} |-> IF p = "spec" THEN "edit" ELSE Absent]]
Planning == [contract |-> "implementation-plan", prior |-> NoPrior, plan |-> NoPrior,
  preserves |-> FALSE]

AllTasks == {Development, TestAuthoring, TestRepair, Planning}
=============================================================================
