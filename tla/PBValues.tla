------------------------------ MODULE PBValues ------------------------------
(***************************************************************************)
(* The data model of DAG-PB nodes, as the structs of ipldsch_types.go hold *)
(* it.  The Maybe of an optional field is folded into the field, which is  *)
(* Unset exactly when its m is Maybe_Absent; so is the link of a _Link     *)
(* that nobody has assigned.                                               *)
(***************************************************************************)
EXTENDS Integers, Sequences

CONSTANTS
  Hashes,  \* links (cidlink.Link values)
  Names,   \* strings
  Tsizes,  \* integers
  Chunks,  \* byte slices
  Unset    \* no value in this field

PBLink == [Hash : Hashes \cup {Unset}, Name : Names \cup {Unset},
           Tsize : Tsizes \cup {Unset}]
PBNode == [Links : Seq(PBLink), Data : Chunks \cup {Unset}]

NodeFields == {"Links", "Data"}
LinkFields == {"Hash", "Name", "Tsize"}

EmptyNode == [Links |-> <<>>, Data |-> Unset]
NewLink == [Hash |-> Unset, Name |-> Unset, Tsize |-> Unset]

\* A link that satisfies the schema: Hash is its only required field.
Complete(l) == l.Hash # Unset

ASSUME ValuesAssumption ==
  /\ Unset \notin Hashes /\ Unset \notin Names
  /\ Unset \notin Tsizes /\ Unset \notin Chunks
=============================================================================
