---------------------------- MODULE MCHealthPool ----------------------------
(* Instances of HealthPool for TLC. *)
EXTENDS HealthPool

\* A primary and a fallback.
TwoTiers == <<0, 1>>
=============================================================================
