----------------------------- MODULE MCSelection -----------------------------
(* Instances of SelectionHistory for TLC. *)
EXTENDS SelectionHistory, TLC

\* Two primaries and a fallback, the fallback configured first.
FallbackFirst == <<1, 0, 0>>

CallerSymmetry == Permutations(Callers)
=============================================================================
