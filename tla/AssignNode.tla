----------------------------- MODULE AssignNode -----------------------------
(***************************************************************************)
(* AssignNode of a node that need not be this package's own: loops over    *)
(* its iterator that drive the assembler tree from inside, one method call *)
(* or one Next() per step.  The caller may assign into the builder, into   *)
(* the list and into a row, between calls of its own on the assemblers it  *)
(* holds.                                                                  *)
(***************************************************************************)
EXTENDS PBAssembler

CONSTANTS
  NoKey,        \* as in Schema
  Sources,      \* nodes for the builder, see Schema
  ListSources,  \* nodes for the assembler of Links
  RowSources,   \* nodes for the assembler of a row
  Direct,       \* TRUE: the caller also calls the assemblers itself
  Careless,     \* where the caller assigns more than once: a subset of
                \* {"node", "list", "row"}
  RowsPerCall   \* bound: rows one AssignNode may add

VARIABLES
  todo,    \* what the AssignNode under way has yet to do, innermost call first
  source,  \* the argument of the AssignNode under way on the builder
  failed   \* an AssignNode has failed in its loop since the last Reset, not counting
           \* those the caller is careless about

assignVars == <<vars, todo, source, failed>>

ASSUME AssignAssumption ==
  /\ NoKey \notin AnyKey
  /\ Direct \in BOOLEAN
  /\ Careless \subseteq {"node", "list", "row"}
  /\ RowsPerCall \in Nat

\* A node of kind "own" is a struct of the type of the assembler it is meant for, and
\* came out of this package's builders; meant for another it is one of its own kind.
OwnFits(at, x) ==
  /\ at = "node" => x \in PBNode /\ \A i \in 1..Len(x.Links) : Complete(x.Links[i])
  /\ at = "list" => x \in Seq(PBLink) /\ \A i \in 1..Len(x) : Complete(x[i])
  /\ at = "row"  => x \in PBLink /\ Complete(x)

\* A node of another kind holds a value of that kind.
LeafFits(v) ==
  /\ v.kind = "bytes"  => v.value \in Chunks
  /\ v.kind = "link"   => v.value \in Hashes
  /\ v.kind = "string" => v.value \in Names
  /\ v.kind = "int"    => v.value \in Tsizes

Iterates(v) ==
  /\ v = [kind |-> v.kind, entries |-> v.entries, broken |-> v.broken]
  /\ v.entries \in Seq({v.entries[i] : i \in 1..Len(v.entries)})

RowFits(v) ==
  /\ v.kind = "own" => OwnFits("row", v.value)
  /\ v.kind = "map" => Iterates(v) /\ \A i \in 1..Len(v.entries) : LeafFits(v.entries[i].value)

ListFits(v) ==
  /\ v.kind = "own"  => OwnFits("list", v.value)
  /\ v.kind = "list" => Iterates(v) /\ \A i \in 1..Len(v.entries) : RowFits(v.entries[i].value)

NodeFits(v) ==
  /\ v.kind = "own" => OwnFits("node", v.value)
  /\ v.kind = "map" => /\ Iterates(v)
                       /\ \A i \in 1..Len(v.entries) :
                            ListFits(v.entries[i].value) /\ LeafFits(v.entries[i].value)

ASSUME SourcesAssumption ==
  /\ \A v \in Sources : NodeFits(v)
  /\ \A v \in ListSources : ListFits(v)
  /\ \A v \in RowSources : RowFits(v)

-----------------------------------------------------------------------------
NoSource == [kind |-> "null"]

\* One call, or the rest of a loop: on which assembler, which method, and the node
\* it takes.
Frame(at, does, v) == [at |-> at, does |-> does, v |-> v]

KindOf == [node |-> "map", list |-> "list", row |-> "map",
           Data |-> "bytes", Hash |-> "link", Name |-> "string", Tsize |-> "int"]

\* The assembler AssembleValue has just returned.
Child(at) ==
  CASE at = "node" -> IF na.f = "Links" THEN "list" ELSE "Data"
    [] at = "list" -> "row"
    [] at = "row"  -> va.f

\* *na.m, for any of the assemblers.
M(at) ==
  LET Written(x) == IF x = Unset THEN "Absent" ELSE "Value"
  IN CASE at = "node"  -> na.m
       [] at = "list"  -> na.cm
       [] at = "row"   -> la.cm
       [] at = "Data"  -> Written(node.Data)
       [] at = "Hash"  -> va.cm
       [] at = "Name"  -> Written(Row.Name)
       [] at = "Tsize" -> Written(Row.Tsize)

\* Refused before its loop, an AssignNode has changed nothing.
Begun == Len(todo) > 1 \/ Head(todo).does # "assign"

\* Every error is returned at once by all the loops, and a panic unwinds them.
Then(more) ==
  /\ todo' = (IF res' = "ok" THEN more \o Tail(todo) ELSE <<>>)
  /\ failed' = (failed \/ (res' # "ok" /\ Begun /\ todo[Len(todo)].at \notin Careless))
  /\ source' = (IF todo' = <<>> THEN NoSource ELSE source)

Succeed == res' = "ok" /\ UNCHANGED asm

\* A struct of the assembler's own type is copied whole.
AssignOwn(at, x) ==
  \/ at = "node" /\ NodeAssignTyped(x)
  \/ at = "list" /\ LinksAssignTyped(x)
  \/ at = "row"  /\ LinkAssignTyped(x)

AssignLeaf(at, x) ==
  \/ at = "Data"  /\ DataAssignBytes(x)
  \/ at = "Hash"  /\ HashAssignLink(x)
  \/ at = "Name"  /\ NameAssignString(x)
  \/ at = "Tsize" /\ TsizeAssignInt(x)

\* AssignNode up to its loop.  BeginMap or BeginList is never called, and no loop
\* looks at m.
Assign(at, v) ==
  \/ v.kind = "null" /\ AssignNull(M(at)) /\ Then(<<>>)
  \/ v.kind = "own"  /\ AssignOwn(at, v.value) /\ Then(<<>>)
  \/ v.kind \notin {"null", "own", KindOf[at]} /\ WrongKind /\ Then(<<>>)
  \/ /\ v.kind = KindOf[at]
     /\ \/ at \in {"node", "list", "row"} /\ Succeed /\ Then(<<Frame(at, "loop", v)>>)
        \/ at \notin {"node", "list", "row"} /\ AssignLeaf(at, v.value) /\ Then(<<>>)

\* Faulty: an error of the iterator ends the loop like its end.
NextErrorMissed(v) == FALSE

NextFails(v) == v.entries = <<>> /\ v.broken

\* One turn: Next(), then the key, then the value; Finish after the last.
Turn(at, v) ==
  \/ NextFails(v) /\ Fail /\ Then(<<>>)
  \/ /\ v.entries = <<>> /\ ~NextFails(v)
     /\ \/ at = "node" /\ NodeFinish
        \/ at = "list" /\ LinksFinish
        \/ at = "row"  /\ LinkFinish
     /\ Then(<<>>)
  \/ /\ v.entries # <<>>
     /\ Succeed
     /\ Then((IF at = "list" THEN <<>>
              ELSE <<Frame(at, "AssembleKey", Head(v.entries)),
                     Frame(at, "AssignKey", Head(v.entries))>>)
             \o <<Frame(at, "AssembleValue", Head(v.entries).value),
                  Frame(at, "loop", [v EXCEPT !.entries = Tail(@)])>>)

AssembleKey(at) ==
  /\ \/ at = "node" /\ NodeAssembleKey
     \/ at = "row"  /\ LinkAssembleKey
  /\ Then(<<>>)

\* _PBNode__KeyAssembler.AssignNode and _PBLink__KeyAssembler.AssignNode.
AssignKey(at, e) ==
  /\ \/ e.key = NoKey /\ Fail
     \/ e.key # NoKey /\ at = "node" /\ NodeAssignKey(e.key)
     \/ e.key # NoKey /\ at = "row"  /\ LinkAssignKey(e.key)
  /\ Then(<<>>)

AssembleValue(at, v) ==
  /\ \/ at = "node" /\ NodeAssembleValue
     \/ at = "list" /\ LinksAssembleValue
     \/ at = "row"  /\ LinkAssembleValue
  /\ Then(<<Frame(Child(at), "assign", v)>>)

AssignStep ==
  /\ todo # <<>>
  /\ LET t == Head(todo)
     IN \/ t.does = "assign"        /\ Assign(t.at, t.v)
        \/ t.does = "loop"          /\ Turn(t.at, t.v)
        \/ t.does = "AssembleKey"   /\ AssembleKey(t.at)
        \/ t.does = "AssignKey"     /\ AssignKey(t.at, t.v)
        \/ t.does = "AssembleValue" /\ AssembleValue(t.at, t.v)

-----------------------------------------------------------------------------
(***************************************************************************)
(* The caller.  A careful one (Careless = {}) resets the builder after an  *)
(* AssignNode that failed in a loop, and assigns to an assembler it has    *)
(* called otherwise only when that is finished.  Of a finished one it      *)
(* tries everything but one thing: a map or a list where the value was     *)
(* assigned whole.                                                         *)
(***************************************************************************)
Untouched == Fresh(node, na, la, va)

Proper(at, v) ==
  \/ at \in Careless
  \/ /\ at = "node"
     /\ \/ Untouched
        \/ na.m = "Value" /\ ~(na.state = "initial" /\ v.kind = "map")
  \/ /\ at = "list"
     /\ \/ na.cm = "Absent" /\ la.state = "initial"
        \/ na.cm = "Value" /\ ~(la.state = "initial" /\ v.kind = "list")
  \/ /\ at = "row"
     /\ \/ la.cm = "Absent" /\ va.state = "initial"
        \/ la.cm = "Value" /\ ~(va.state = "initial" /\ v.kind = "map")

MayCall == todo = <<>> /\ ~failed

Begin(at, v) ==
  /\ MayCall /\ Proper(at, v)
  /\ at = "row" \/ Last + RowsPerCall <= MaxLinks
  /\ todo' = <<Frame(at, "assign", v)>>
  /\ source' = (IF at = "node" THEN v ELSE source)
  /\ UNCHANGED <<vars, failed>>

ListAssignCall == Given(na, "Links") /\ \E v \in ListSources : Begin("list", v)
RowAssignCall == RowHeld /\ \E v \in RowSources : Begin("row", v)

AssignCall ==
  \/ \E v \in Sources : Begin("node", v)
  \/ Direct /\ (ListAssignCall \/ RowAssignCall)

DirectCall ==
  /\ Direct /\ MayCall
  /\ NodeCall \/ LinksCall \/ LinkCall
  /\ UNCHANGED <<todo, source, failed>>

ResetBuilder ==
  /\ todo = <<>> /\ Reset /\ failed' = FALSE
  /\ UNCHANGED <<todo, source>>

AssignInit == Init /\ todo = <<>> /\ source = NoSource /\ failed = FALSE

AssignNext == ResetBuilder \/ AssignCall \/ DirectCall \/ AssignStep

\* AssignNode runs in its caller's goroutine: it keeps going once called.
AssignSystem == AssignInit /\ [][AssignNext]_assignVars /\ WF_assignVars(AssignStep)

-----------------------------------------------------------------------------
\* The assemblers keep their types while loops drive them, and only the five methods
\* of the seven assemblers are ever due.
AssignTypeOK ==
  /\ TypeOK
  /\ \A i \in 1..Len(todo) :
       /\ todo[i].at \in DOMAIN KindOf
       /\ todo[i].does \in {"assign", "loop", "AssembleKey", "AssignKey", "AssembleValue"}
  /\ failed \in BOOLEAN

\* Within a row the bit set tells which fields there are, also while a loop fills the
\* row that never began it as a map.
RowBitsTrue ==
  la.state = "midValue" /\ la.cm # "Value" =>
    \A k \in LinkFields :
      /\ Row[k] # Unset => k \in va.s
      /\ k \in va.s /\ ~Pending(va, k) => Row[k] # Unset

\* Until Reset, rows are only added and a field keeps the value it was first given,
\* whether the caller or a loop assigned it.
AssignedOnce ==
  [][Fresh(node', na', la', va') \/ Grown]_assignVars

\* Before and during a call the builder is as the last call left it; m is still
\* Absent while the loops run.
BuilderIs ==
  CASE na.m = "Value" -> "built"
    [] na.m # "Value" /\ (todo # <<>> \/ Untouched) -> "fresh"
    [] OTHER -> "spoilt"

Service == INSTANCE AssignSpec
  WITH outcome <- IF todo = <<>> THEN res ELSE "busy",
       builder <- BuilderIs,
       built <- IF BuilderIs = "built" THEN node ELSE EmptyNode

\* Every AssignNode returns.  A node of any implementation is taken exactly if it
\* conforms to the schema, as the node it stands for; any other is refused and cannot
\* be built; a finished builder keeps what it has.
AssignServes == Service!AssignService
=============================================================================
