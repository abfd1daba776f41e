---------------------------- MODULE MCPthreadLib ----------------------------
(* Small instances of PthreadLib. *)
EXTENDS PthreadLib

CONSTANTS c1, c2, c3, r1

=============================================================================
