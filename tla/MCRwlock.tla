------------------------------ MODULE MCRwlock ------------------------------
(* RwlockQueues on small instances. *)
EXTENDS RwlockQueues

=============================================================================
