--------------------------- MODULE MCProbeSchedule ---------------------------
(* Instances of ProbeSchedule for TLC. *)
EXTENDS ProbeSchedule

\* A primary and a fallback.
TwoTiers == <<0, 1>>

\* Two primaries and a fallback.
TwoPrimaries == <<0, 0, 1>>
=============================================================================
