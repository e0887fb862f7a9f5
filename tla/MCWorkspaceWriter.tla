------------------------- MODULE MCWorkspaceWriter -------------------------
(* Instances of WorkspaceWriter small enough for TLC.                       *)
EXTENDS WorkspaceWriter

CONSTANTS a, o, s

\* Unit a is an agent run, o a utility operation, s a human session.
MCKind ==
  [u \in Units |-> IF u = a THEN "AgentRun"
                   ELSE IF u = o THEN "UtilityOperation" ELSE "HumanSession"]

\* Everything but a lagging cache of the workloads and refusals.
NoRefusal == EnvEvents \ {"workloadLag", "reject", "preempt"}
\* Fresh leases, no eviction.
NoEvict   == EnvEvents \ {"leaseLag", "evict"}
=============================================================================
