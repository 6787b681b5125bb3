------------------------------- MODULE Schema -------------------------------
(***************************************************************************)
(* The schema as a judgement on nodes of any implementation: which of them *)
(* conform, and what node of this package each stands for.                 *)
(*                                                                         *)
(* A node is given as its methods show it:                                 *)
(*   kind     "null", "own" for a struct of this package's own type,       *)
(*            "map", "list", "bytes", "string", "int", "link", or "other"  *)
(*            for every kind the schema does not know, Absent among them   *)
(*   entries  of a map or list, what its iterator yields: key and value,   *)
(*            the key NoKey where it is not a string or there is none      *)
(*   broken   the iterator ends with an error                              *)
(*   value    of every other kind                                          *)
(***************************************************************************)
EXTENDS PBValues

CONSTANT NoKey

KindOf == [Hash |-> "link", Name |-> "string", Tsize |-> "int", Data |-> "bytes"]

\* Every field once at most, none the struct does not have, and the required one.
IsStruct(v, required, Fits(_)) ==
  /\ v.kind = "map" /\ ~v.broken
  /\ \A i \in 1..Len(v.entries) : Fits(v.entries[i])
  /\ \A i, j \in 1..Len(v.entries) : v.entries[i].key = v.entries[j].key => i = j
  /\ \E i \in 1..Len(v.entries) : v.entries[i].key = required

IsALink(v) ==
  \/ v.kind = "own"
  \/ IsStruct(v, "Hash", LAMBDA e : e.key \in LinkFields /\ e.value.kind = KindOf[e.key])

IsAList(v) ==
  \/ v.kind = "own"
  \/ /\ v.kind = "list" /\ ~v.broken
     /\ \A i \in 1..Len(v.entries) : IsALink(v.entries[i].value)

IsANode(v) ==
  \/ v.kind = "own"
  \/ IsStruct(v, "Links", LAMBDA e : \/ e.key = "Links" /\ IsAList(e.value)
                                     \/ e.key = "Data" /\ e.value.kind = "bytes")

Field(v, k, Of(_)) ==
  IF \E i \in 1..Len(v.entries) : v.entries[i].key = k
  THEN Of(v.entries[CHOOSE i \in 1..Len(v.entries) : v.entries[i].key = k].value)
  ELSE Unset

LinkOf(v) ==
  IF v.kind = "own" THEN v.value
  ELSE [k \in LinkFields |-> Field(v, k, LAMBDA x : x.value)]

ListOf(v) ==
  IF v.kind = "own" THEN v.value
  ELSE [i \in 1..Len(v.entries) |-> LinkOf(v.entries[i].value)]

NodeOf(v) ==
  IF v.kind = "own" THEN v.value
  ELSE [Links |-> Field(v, "Links", ListOf), Data |-> Field(v, "Data", LAMBDA x : x.value)]
=============================================================================
