--------------------------- MODULE MCPBAssembler ---------------------------
(* Instances of PBAssembler for TLC. *)
EXTENDS PBAssembler

CONSTANTS h1, h2, a, t1, d1, none

MCLink == [Hash |-> h2, Name |-> none, Tsize |-> t1]
MCTypedLinks == {MCLink}
MCTypedNodes == {[Links |-> <<MCLink>>, Data |-> none]}
=============================================================================
