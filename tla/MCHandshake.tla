---------------------------- MODULE MCHandshake ----------------------------
(***************************************************************************)
(* Handshake for TLC: one server for each chain of options, and servers    *)
(* that accept no version or only one the client never offers first.       *)
(***************************************************************************)
EXTENDS Handshake

OneVersion == {{}} \cup {{v} : v \in Versions}
============================================================================
