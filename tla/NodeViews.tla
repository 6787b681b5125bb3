----------------------------- MODULE NodeViews ------------------------------
(***************************************************************************)
(* PBNode, PBLink and PBLinks as their readers see them, at the type level *)
(* (_PBNode) and at the representation level (_PBNode__Repr), where absent *)
(* fields do not appear: iterators, Length and lookups.                    *)
(***************************************************************************)
EXTENDS Schema, FiniteSets

CONSTANTS
  Views,  \* [kind, level, value] of nodes that builders have built
  Asked   \* keys readers look up: [field |-> a string] or [index |-> a number]

VARIABLES
  view,    \* the node; it never changes
  idx,     \* of the iterator: fields or rows it has passed
  end,     \* of the iterator, where there is one; else the number of fields or rows
  seen,    \* the positions it has given
  answer   \* to the last call

viewVars == <<view, idx, end, seen, answer>>

ASSUME ViewsAssumption ==
  \A v \in Views :
    /\ v.level \in {"type", "repr"}
    /\ \/ v.kind = "PBLink"  /\ v.value \in PBLink /\ Complete(v.value)
       \/ v.kind = "PBNode"  /\ v.value \in PBNode
       \/ v.kind = "PBLinks" /\ v.value \in Seq(PBLink)

ASSUME AskedAssumption == \A k \in Asked : k \in [field : STRING] \/ k \in [index : Int]

-----------------------------------------------------------------------------
\* The case of each idx in Next.
Fields(v) == IF v.kind = "PBLink" THEN <<"Hash", "Name", "Tsize">> ELSE <<"Links", "Data">>
Optional == {"Name", "Tsize", "Data"}

Size(v) == Len(IF v.kind = "PBLinks" THEN v.value ELSE Fields(v))

Key(v, i) == IF v.kind = "PBLinks" THEN [index |-> i - 1] ELSE [field |-> Fields(v)[i]]

\* Faulty: Tsize is read from Name.
ValueMixedUp(v, i) ==
  IF v.kind = "PBLinks" THEN v.value[i]
  ELSE v.value[IF Fields(v)[i] = "Tsize" THEN "Name" ELSE Fields(v)[i]]

Value(v, i) == IF v.kind = "PBLinks" THEN v.value[i] ELSE v.value[Fields(v)[i]]
Entry(v, i) == [key |-> Key(v, i), value |-> Value(v, i)]

Missing(v, i) ==
  v.kind # "PBLinks" /\ Fields(v)[i] \in Optional /\ v.value[Fields(v)[i]] = Unset

Skipped(v, i) == v.level = "repr" /\ Missing(v, i)

\* Faulty: an absent Name ends the iteration, whether or not Tsize is there.
LinkEndsAtName(l) == IF l.Name = Unset THEN 1 ELSE IF l.Tsize = Unset THEN 2 ELSE 3

\* MapIterator of the representation: trailing absent fields are cut off.
LinkEnd(l) == IF l.Tsize # Unset THEN 3 ELSE IF l.Name # Unset THEN 2 ELSE 1

\* Faulty: the struct is taken to have the fields of the other one.
NodeEndOfThree(n) == IF n.Data # Unset THEN 3 ELSE 1

NodeEnd(n) == IF n.Data # Unset THEN 2 ELSE 1

EndOf(v) ==
  CASE v.level = "repr" /\ v.kind = "PBLink" -> LinkEnd(v.value)
    [] v.level = "repr" /\ v.kind = "PBNode" -> NodeEnd(v.value)
    [] OTHER -> Size(v)

ViewInit ==
  /\ view \in Views
  /\ idx = 0 /\ end = EndOf(view) /\ seen = {}
  /\ answer = [call |-> "none"]

-----------------------------------------------------------------------------
Done == idx >= end

SayDone == answer' = [call |-> "Done", is |-> Done] /\ UNCHANGED <<view, idx, end, seen>>

\* The next field or row that shows; idx goes past those that do not also when there is
\* none.  end has no say in it.
Ahead == {i \in (idx + 1)..Size(view) : ~Skipped(view, i)}

Next ==
  \/ /\ Ahead = {}
     /\ idx' = Size(view)
     /\ answer' = [call |-> "Next"]
     /\ UNCHANGED <<view, end, seen>>
  \/ \E i \in Ahead :
       /\ \A j \in Ahead : i <= j
       /\ idx' = i
       /\ seen' = seen \cup {i}
       /\ answer' = [call |-> "Next", entry |-> Entry(view, i)]
       /\ UNCHANGED <<view, end>>

One(x) == IF x = Unset THEN 0 ELSE 1

\* Faulty: only the last field is looked at.
LinkLengthByTsize(l) == 2 + One(l.Tsize)

LinkLength(l) == 1 + One(l.Name) + One(l.Tsize)
NodeLength(n) == 1 + One(n.Data)

Length(v) ==
  CASE v.level = "repr" /\ v.kind = "PBLink" -> LinkLength(v.value)
    [] v.level = "repr" /\ v.kind = "PBNode" -> NodeLength(v.value)
    [] OTHER -> Size(v)

AskLength ==
  answer' = [call |-> "Length", is |-> Length(view)] /\ UNCHANGED <<view, idx, end, seen>>

-----------------------------------------------------------------------------
\* LookupByString of a struct.  An absent field is a value at the type level and an
\* error at the other.
LookupByString(k) ==
  LET At == {i \in 1..Size(view) : Fields(view)[i] = k.field}
  IN \/ /\ \A i \in At : Skipped(view, i)
        /\ answer' = [call |-> "Lookup", key |-> k, failed |-> "error"]
     \/ \E i \in At :
          /\ ~Skipped(view, i)
          /\ answer' = [call |-> "Lookup", key |-> k, value |-> Value(view, i)]

\* LookupByIndex of a list looks only at the upper bound before it indexes the slice.
LookupByIndex(k) ==
  \/ /\ k.index >= Size(view)
     /\ answer' = [call |-> "Lookup", key |-> k, failed |-> "error"]
  \/ /\ k.index < 0
     /\ answer' = [call |-> "Lookup", key |-> k, failed |-> "panic"]
  \/ /\ k.index \in 0..(Size(view) - 1)
     /\ answer' = [call |-> "Lookup", key |-> k, value |-> view.value[k.index + 1]]

\* The lookup of the other kind.
LookupMisused(k) == answer' = [call |-> "Lookup", key |-> k, failed |-> "error"]

IsField(k) == "field" \in DOMAIN k

Lookup(k) ==
  /\ \/ view.kind # "PBLinks" /\ IsField(k) /\ LookupByString(k)
     \/ view.kind = "PBLinks" /\ ~IsField(k) /\ LookupByIndex(k)
     \/ (view.kind = "PBLinks" <=> IsField(k)) /\ LookupMisused(k)
  /\ UNCHANGED <<view, idx, end, seen>>

Read == Next \/ SayDone \/ AskLength \/ \E k \in Asked : Lookup(k)

\* Every loop over an iterator goes on while it is not Done.
ReadOn == ~Done /\ Next

ReadSystem == ViewInit /\ [][Read]_viewVars /\ WF_viewVars(ReadOn)

-----------------------------------------------------------------------------
\* What the representation, or the type, has to show.
Shown(v) == {i \in 1..Size(v) : ~Skipped(v, i)}

\* An iterator stays within the fields or rows of its node.
ViewTypeOK ==
  /\ view \in Views
  /\ idx \in 0..Size(view)
  /\ end \in 0..Size(view)
  /\ seen \subseteq 1..Size(view)

\* Done exactly when everything has been given: the iterator's end and the skipping in
\* Next are computed apart.
DoneExactly == Done <=> seen = Shown(view)

Reader == INSTANCE ViewSpec
  WITH entries <- [i \in Shown(view) |-> Entry(view, i)],
       left <- Shown(view) \ seen

\* Iterators, Length and lookups of a view agree, and a loop over it ends.
ReadServes == Reader!Reading

-----------------------------------------------------------------------------
\* What AssignNode sees of an entry of the representation: the rows of a list are
\* views in their turn.
Leaf(k, x) == [kind |-> KindOf[k], value |-> x]
Drained(v, S, Of(_)) ==
  LET Before(i) == Cardinality({j \in S : j < i})
      At(n) == CHOOSE i \in S : Before(i) = n - 1
  IN [kind |-> IF v.kind = "PBLinks" THEN "list" ELSE "map", broken |-> FALSE,
      entries |-> [n \in 1..Cardinality(S) |-> Of(At(n))]]

Repr(kind, x) == [kind |-> kind, level |-> "repr", value |-> x]
LinkSource(l, S) ==
  LET v == Repr("PBLink", l)
  IN Drained(v, S, LAMBDA i : [key |-> Fields(v)[i], value |-> Leaf(Fields(v)[i], Value(v, i))])
ListSource(xs) ==
  LET v == Repr("PBLinks", xs)
  IN Drained(v, Shown(v), LAMBDA i : [key |-> NoKey, value |-> LinkSource(xs[i], Shown(Repr("PBLink", xs[i])))])
NodeSource(n, S) ==
  LET v == Repr("PBNode", n)
  IN Drained(v, S, LAMBDA i :
       [key |-> Fields(v)[i],
        value |-> IF Fields(v)[i] = "Links" THEN ListSource(n.Links) ELSE Leaf("Data", n.Data)])

\* A node read through its representation and assigned to a builder is the same node.
ReprCopies ==
  view.level = "repr" /\ Done =>
    CASE view.kind = "PBLink" ->
           LET s == LinkSource(view.value, seen) IN IsALink(s) /\ LinkOf(s) = view.value
      [] view.kind = "PBNode" ->
           LET s == NodeSource(view.value, seen) IN IsANode(s) /\ NodeOf(s) = view.value
      [] view.kind = "PBLinks" -> ListOf(ListSource(view.value)) = view.value
=============================================================================
