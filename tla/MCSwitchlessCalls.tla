------------------------- MODULE MCSwitchlessCalls --------------------------
(* SwitchlessCalls on small instances. *)
EXTENDS SwitchlessCalls, TLC

\* Callers and workers are interchangeable; not used where liveness is checked.
Symmetry == Permutations(Callers) \cup Permutations(Workers)

=============================================================================
