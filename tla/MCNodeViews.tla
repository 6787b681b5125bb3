---------------------------- MODULE MCNodeViews -----------------------------
(* Instances of NodeViews for TLC. *)
EXTENDS NodeViews

SX == INSTANCE SequencesExt

CONSTANTS h1, h2, a, t1, d1, none

MCLinks == [Hash : {h1, h2}, Name : {a, none}, Tsize : {t1, none}]
MCNodes == [Links : SX!SeqOf(MCLinks, 1), Data : {d1, none}]
MCViews ==
  LET levels == {"type", "repr"}
  IN [kind : {"PBLink"}, level : levels, value : MCLinks]
     \cup [kind : {"PBNode"}, level : levels, value : MCNodes]
     \cup [kind : {"PBLinks"}, level : levels, value : SX!SeqOf(MCLinks, 2)]
MCAsked ==
  [field : NodeFields \cup LinkFields \cup {"Other"}] \cup [index : -1..3]
=============================================================================
