------------------------------ MODULE ViewSpec ------------------------------
(***************************************************************************)
(* What a map or list node promises its reader: some entries in an order;  *)
(* Length counts them, lookups find them and no other, and an iterator     *)
(* gives each of them once, in their order, and says Done with the last.   *)
(***************************************************************************)
EXTENDS Integers, FiniteSets

CONSTANT Asked  \* the keys readers look up

VARIABLES
  entries,  \* from positions to [key, value]; it never changes
  left,     \* the positions the iterator has yet to give
  answer    \* to the last call

specVars == <<entries, left, answer>>

-----------------------------------------------------------------------------
SpecInit ==
  /\ DOMAIN entries \subseteq Nat /\ IsFiniteSet(DOMAIN entries)
  /\ left = DOMAIN entries
  /\ answer = [call |-> "none"]

Give ==
  \E i \in left :
    /\ \A j \in left : i <= j
    /\ left' = left \ {i}
    /\ answer' = [call |-> "Next", entry |-> entries[i]]
    /\ UNCHANGED entries

Overread == left = {} /\ answer' = [call |-> "Next"] /\ UNCHANGED <<entries, left>>

SayDone == answer' = [call |-> "Done", is |-> left = {}] /\ UNCHANGED <<entries, left>>

Count ==
  answer' = [call |-> "Length", is |-> Cardinality(DOMAIN entries)] /\ UNCHANGED <<entries, left>>

Has(k) == \E i \in DOMAIN entries : entries[i].key = k

Find ==
  \E i \in DOMAIN entries :
    answer' = [call |-> "Lookup", key |-> entries[i].key, value |-> entries[i].value]
    /\ UNCHANGED <<entries, left>>

\* Only an index below zero may panic.
FindNone ==
  \E k \in Asked, failed \in {"error", "panic"} :
    /\ ~Has(k)
    /\ failed = "panic" => "index" \in DOMAIN k /\ k.index < 0
    /\ answer' = [call |-> "Lookup", key |-> k, failed |-> failed]
    /\ UNCHANGED <<entries, left>>

SpecNext == Give \/ Overread \/ SayDone \/ Count \/ Find \/ FindNone

Reading == SpecInit /\ [][SpecNext]_specVars /\ WF_specVars(Give)
=============================================================================
