-------------------------- MODULE MCExternalTable --------------------------
(***************************************************************************)
(* ExternalTable for TLC.                                                  *)
(***************************************************************************)
EXTENDS ExternalTable
============================================================================
