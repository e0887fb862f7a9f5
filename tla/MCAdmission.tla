---------------------------- MODULE MCAdmission ----------------------------
(* One request, with everything but a lease or a ConfigMap the cache has   *)
(* not seen yet.                                                           *)
EXTENDS Admission

Seen == EnvEvents \ {"leaseLag", "sourceLag"}
=============================================================================
