------------------------- MODULE MCLineageEvidence -------------------------
(* Two members of the group, who both answer the first gate, and every event *)
(* but the loss of a replacement.                                          *)
EXTENDS LineageEvidence

CONSTANTS ann, bob

People == {ann, bob}
Reviewers == [u \in People |-> IF u = ann THEN {1, 2} ELSE {1}]
Survived == EnvEvents \ {"deleteReplacement"}
=============================================================================
