-------------------------- MODULE MCInferenceLeasing --------------------------
(* Small instances of InferenceLeasing for TLC: leases of one endpoint. *)
EXTENDS InferenceLeasing

CONSTANTS l1, l2, l3, ep

\* Three leases of one endpoint of size two; l3 is urgent and wants all of it.
OneEndpoint == [l \in Leases |-> ep]
Demand      == [l \in Leases |-> IF l = l3 THEN 2 ELSE 1]
Urgency     == [l \in Leases |-> IF l = l3 THEN 2 ELSE IF l = l2 THEN 1 ELSE 0]
Two         == [x \in Endpoints |-> 2]

One         == [x \in Endpoints |-> 1]

AllOf(S)  == [l \in Leases |-> l \in S]
Everybody == AllOf(Leases)
Nobody    == AllOf({})
But1      == AllOf(Leases \ {l1})
But3      == AllOf(Leases \ {l3})

NoLag        == EnvEvents \ {"lag"}
LagAndDelete == {"lag", "deleteRun"}
=============================================================================
