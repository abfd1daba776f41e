------------------------ MODULE MCSwitchlessWorkers -------------------------
(* SwitchlessWorkers on small instances. *)
EXTENDS SwitchlessWorkers, TLC

\* The workers of a pool are interchangeable; not used for liveness.
Symmetry == Permutations(UWorkers) \cup Permutations(TWorkers)

=============================================================================
