--------------------------- MODULE MCArtifactFlow ---------------------------
(* The repeated part of the canonical plan, with everything that may fail. *)
EXTENDS ArtifactFlow
=============================================================================
