----------------------------- MODULE DecodeSpec -----------------------------
(***************************************************************************)
(* What a caller of Decode may rely on, without the loop that does it:     *)
(* which messages are DAG-PB, what node each one denotes, and what is left *)
(* in the builder after each outcome.                                      *)
(***************************************************************************)
EXTENDS DagPB

CONSTANTS Inputs, MaxCalls

VARIABLES
  input,    \* the message of the current or last call
  outcome,  \* "none", "busy", or how the last call ended
  builder,  \* "fresh", "spoilt" by a failed call, or "built"
  built,    \* the node Build would return, EmptyNode unless "built"
  tries     \* calls so far, bounded by MaxCalls

specVars == <<input, outcome, builder, built, tries>>

-----------------------------------------------------------------------------
SpecInit ==
  /\ input = <<>> /\ outcome = "none" /\ builder = "fresh" /\ built = EmptyNode
  /\ tries = 0

Ask(msg) ==
  /\ outcome # "busy" /\ tries < MaxCalls
  /\ input' = msg /\ outcome' = "busy" /\ tries' = tries + 1
  /\ UNCHANGED <<builder, built>>

\* The reader fails before a byte is decoded.
Unreadable ==
  /\ outcome = "busy" /\ outcome' = "err"
  /\ UNCHANGED <<input, builder, built, tries>>

Accept ==
  /\ outcome = "busy" /\ builder = "fresh" /\ IsNode(input)
  /\ outcome' = "ok" /\ builder' = "built" /\ built' = NodeMeaning(input)
  /\ UNCHANGED <<input, tries>>

Reject ==
  /\ outcome = "busy" /\ builder = "fresh" /\ ~IsNode(input)
  /\ outcome' = "err" /\ builder' = "spoilt"
  /\ UNCHANGED <<input, built, tries>>

\* A builder must be reset between two calls, also after a failed one.
Refuse ==
  /\ outcome = "busy" /\ builder # "fresh" /\ outcome' = "panic"
  /\ UNCHANGED <<input, builder, built, tries>>

Forget ==
  /\ outcome # "busy" /\ outcome' = "none" /\ builder' = "fresh" /\ built' = EmptyNode
  /\ UNCHANGED <<input, tries>>

Answer == Unreadable \/ Accept \/ Reject \/ Refuse

SpecNext == (\E msg \in Inputs : Ask(msg)) \/ Answer \/ Forget

DecodeService == SpecInit /\ [][SpecNext]_specVars /\ WF_specVars(Answer)
=============================================================================
