----------------------------- MODULE AssignSpec -----------------------------
(***************************************************************************)
(* What a caller of AssignNode on a PBNode builder may rely on, without    *)
(* the loops that do it: which nodes are taken, and what is left in the    *)
(* builder after each outcome.                                             *)
(***************************************************************************)
EXTENDS Schema

CONSTANT Sources  \* the nodes callers assign

VARIABLES
  source,   \* the argument of the current call
  outcome,  \* "busy", or how the last call ended
  builder,  \* "fresh", "spoilt" by a failed call, or "built"
  built     \* the node Build would return, EmptyNode unless "built"

specVars == <<source, outcome, builder, built>>

-----------------------------------------------------------------------------
\* A source refused before anything is assembled.
Harmless(v) == v.kind # "map" \/ v.entries = <<>>

-----------------------------------------------------------------------------
NoSource == [kind |-> "null"]

SpecInit ==
  /\ source = NoSource /\ outcome = "ok" /\ builder = "fresh"
  /\ built = EmptyNode

\* After a failed call that left something behind, the builder must be reset.
Ask(v) ==
  /\ builder # "spoilt"
  /\ source' = v /\ outcome' = "busy"
  /\ UNCHANGED <<builder, built>>

Accept ==
  /\ outcome = "busy" /\ builder = "fresh" /\ IsANode(source)
  /\ outcome' = "ok" /\ builder' = "built" /\ built' = NodeOf(source)
  /\ source' = NoSource

Reject ==
  /\ outcome = "busy" /\ builder = "fresh" /\ ~IsANode(source)
  /\ outcome' = "err" /\ builder' = (IF Harmless(source) THEN "fresh" ELSE "spoilt")
  /\ source' = NoSource /\ UNCHANGED built

\* A finished builder takes nothing more, and Build still returns what it had.
Refuse ==
  /\ outcome = "busy" /\ builder = "built"
  /\ outcome' \in {"err", "panic"}
  /\ source' = NoSource /\ UNCHANGED <<builder, built>>

Forget ==
  /\ outcome # "busy" /\ outcome' = "ok" /\ builder' = "fresh" /\ built' = EmptyNode
  /\ UNCHANGED source

Answer == Accept \/ Reject \/ Refuse

SpecNext ==
  \/ outcome # "busy" /\ \E v \in Sources : Ask(v)
  \/ Answer
  \/ Forget

AssignService == SpecInit /\ [][SpecNext]_specVars /\ WF_specVars(Answer)
=============================================================================
