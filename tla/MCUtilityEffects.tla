-------------------------- MODULE MCUtilityEffects --------------------------
(* Small instances of UtilityEffects for TLC. *)
EXTENDS UtilityEffects

Everything   == EnvEvents
=============================================================================
