--------------------------- MODULE MCNzDataReader ---------------------------
(***************************************************************************)
(* NzDataReader for TLC.                                                   *)
(***************************************************************************)
EXTENDS NzDataReader
============================================================================
