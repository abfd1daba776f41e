--------------------------- MODULE MCProtectedFile ---------------------------
(* Small instances of ProtectedFile. *)
EXTENDS ProtectedFile
==============================================================================
