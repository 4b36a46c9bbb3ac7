--------------------------- MODULE MCNzConnection ---------------------------
(***************************************************************************)
(* NzConnection with the constants of the NzConnection_*.cfg files.        *)
(***************************************************************************)
EXTENDS NzConnection
=============================================================================
