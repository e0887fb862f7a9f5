------------------------ MODULE MCValidationPreview ------------------------
(* One run of one project, with every event.                               *)
EXTENDS ValidationPreview

=============================================================================
