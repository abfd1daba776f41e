------------------------- MODULE MCEnclaveLifecycle -------------------------
(* EnclaveLifecycle on small instances. *)
EXTENDS EnclaveLifecycle, TLC

=============================================================================
