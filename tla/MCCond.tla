------------------------------- MODULE MCCond -------------------------------
(* SgxThreadCond on small instances. *)
EXTENDS SgxThreadCond, TLC

\* Bound: where wakers may be slow, cond_wait is called with the mutex that is
\* not recursive.
RecursiveWaitsArePrompt ==
    prompt \/ m_control = "nonrecursive" \/ c_queue' = <<>>

=============================================================================
