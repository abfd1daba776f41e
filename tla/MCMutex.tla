------------------------------ MODULE MCMutex -------------------------------
(* SgxThreadMutex on small instances. *)
EXTENDS SgxThreadMutex, TLC

\* The threads are interchangeable; not used where liveness is checked.
Symmetry == Permutations(Threads)

=============================================================================
