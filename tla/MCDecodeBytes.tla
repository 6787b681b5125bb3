--------------------------- MODULE MCDecodeBytes ---------------------------
(* Instances of DecodeBytes for TLC. *)
EXTENDS DecodeBytes, MCMessages

\* Everything once, with a few messages afterwards.
First == NodeLevel \cup LinkLevel
=============================================================================
