--------------------------- MODULE MCReadCommitted ---------------------------
(***************************************************************************)
(* Small instances of ReadCommitted for TLC.                               *)
(***************************************************************************)
EXTENDS ReadCommitted

=============================================================================
