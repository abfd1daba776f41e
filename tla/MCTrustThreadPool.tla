------------------------- MODULE MCTrustThreadPool --------------------------
(* TrustThreadPool on small instances. *)
EXTENDS TrustThreadPool, TLC

=============================================================================
