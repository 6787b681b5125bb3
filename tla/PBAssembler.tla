---------------------------- MODULE PBAssembler ----------------------------
(***************************************************************************)
(* The assembler tree behind Type.PBNode.NewBuilder() and, with            *)
(* Level = "repr", behind Type.PBNode__Repr.NewBuilder(): a                *)
(* _PBNode__Assembler, inside it a _PBLinks__Assembler (ca_Links) and,     *)
(* inside that, the one _PBLink__Assembler (va) that every row of the list *)
(* is built with.  One action per method; a method may succeed ("ok"),     *)
(* return an error ("err") or panic ("panic").                             *)
(*                                                                         *)
(* The bit set s of a struct assembler is a set of field names and its     *)
(* field index f a field name.                                             *)
(***************************************************************************)
EXTENDS PBValues

CONSTANTS
  TypedNodes,  \* *_PBNode values a caller may hand to AssignNode
  TypedLinks,  \* *_PBLink values a caller may hand to AssignNode
  Level,       \* "type": _PBNode__Assembler, "repr": _PBNode__ReprAssembler
  MaxLinks     \* bound: rows a list is grown to

VARIABLES
  node,  \* w, the _PBNode under construction
  na,    \* _PBNode__Assembler: m, state, s, f and cm
  la,    \* ca_Links: whether w is non-nil, state and cm; its m is &na.cm
  va,    \* la.va: state, s, f, cm and the row ca_Hash.w points into, 0 when
         \* nil; its m is &la.cm and its w the last row
  res    \* how the last call ended

asm == <<node, na, la, va>>
vars == <<node, na, la, va, res>>

(***************************************************************************)
(* schema.Maybe as the assemblers use it.  The schema has no nullable      *)
(* field: nothing in the package stores allowNull, and Maybe_Null is       *)
(* stored only where allowNull was, so neither value is ever taken.        *)
(***************************************************************************)
Maybe == {"Absent", "Value", "midvalue"}

MaState == {"initial", "midKey", "expectValue", "midValue", "finished"}
LaState == {"initial", "midValue", "finished"}

AnyKey == NodeFields \cup LinkFields

\* Typed nodes come out of this package's own builders: they satisfy the schema.
ASSUME TypedAssumption ==
  /\ TypedNodes \subseteq PBNode
  /\ \A n \in TypedNodes : \A i \in 1..Len(n.Links) : Complete(n.Links[i])
  /\ TypedLinks \subseteq PBLink
  /\ \A l \in TypedLinks : Complete(l)
ASSUME LevelAssumption == Level \in {"type", "repr"}
ASSUME BoundAssumption == MaxLinks \in Nat

-----------------------------------------------------------------------------
\* NewBuilder and Reset: every part of the tree at its zero value.
Fresh(nodeV, naV, laV, vaV) ==
  /\ nodeV = EmptyNode
  /\ naV = [m |-> "Absent", state |-> "initial", s |-> {}, f |-> "Links", cm |-> "Absent"]
  /\ laV = [w |-> FALSE, state |-> "initial", cm |-> "Absent"]
  /\ vaV = [state |-> "initial", s |-> {}, f |-> "Hash", cm |-> "Absent", hash |-> 0]

Init == Fresh(node, na, la, va) /\ res = "ok"

Reset == Fresh(node', na', la', va') /\ res' = "ok"

\* A call refused by a panic, which the caller may recover from, or answered by
\* an error, with nothing changed.
Panic == res' = "panic" /\ UNCHANGED asm
Fail == res' = "err" /\ UNCHANGED asm

Last == Len(node.Links)
Row == node.Links[Last]

-----------------------------------------------------------------------------
(* _PBNode__Assembler *)

NodeBeginMap ==
  \/ na.m # "Absent" /\ Panic
  \/ /\ na.m = "Absent"
     /\ na' = [na EXCEPT !.m = "midvalue"]
     /\ res' = "ok"
     /\ UNCHANGED <<node, la, va>>

\* AssignNode of a *_PBNode: the whole struct is copied.
NodeAssignTyped(n) ==
  \/ na.m # "Absent" /\ Panic
  \/ /\ na.m = "Absent"
     /\ node' = n
     /\ na' = [na EXCEPT !.m = "Value"]
     /\ res' = "ok"
     /\ UNCHANGED <<la, va>>

\* Faulty: takes Data to be there as soon as it was asked for.
NodeValueAssumed ==
  \/ na.f = "Links" /\ na.cm = "Value"
  \/ na.f = "Data"

\* Whether valueFinishTidy would find the value under assembly finished.
NodeValueDone ==
  \/ na.f = "Links" /\ na.cm = "Value"
  \/ na.f = "Data" /\ node.Data # Unset

NodeReady == na.state = "initial" \/ (na.state = "midValue" /\ NodeValueDone)

\* The child the tidying lets go of: none when no value was being assembled.
NodeTidies(k) == na.state = "midValue" /\ na.f = k

NodeTidied ==
  [na EXCEPT !.state = "initial",
             !.cm = IF NodeTidies("Links") THEN "Absent" ELSE @]

\* Faulty: the list stays within reach of its old handle.
LinksKept == la

\* Only the type-level assembler clears ca_Links.w.
LinksReleased ==
  [la EXCEPT !.w = @ /\ ~(NodeTidies("Links") /\ Level = "type")]

NodeAssembleKey ==
  \/ ~NodeReady /\ Panic
  \/ /\ NodeReady
     /\ na' = [NodeTidied EXCEPT !.state = "midKey"]
     /\ la' = LinksReleased
     /\ res' = "ok"
     /\ UNCHANGED <<node, va>>

\* Faulty: does not look whether the struct has such a field.
NodeUnused(k) == k \notin na.s

\* A key of the struct that has not been used yet.
NodeFree(k) == k \in NodeFields \ na.s

\* _PBNode__KeyAssembler.AssignString.
NodeAssignKey(k) ==
  \/ na.state # "midKey" /\ Panic
  \/ na.state = "midKey" /\ ~NodeFree(k) /\ Fail
  \/ /\ na.state = "midKey"
     /\ NodeFree(k)
     /\ na' = [na EXCEPT !.state = "expectValue", !.s = @ \cup {k}, !.f = k]
     /\ res' = "ok"
     /\ UNCHANGED <<node, la, va>>

NodeAssembleEntry(k) ==
  \/ ~NodeReady /\ Panic
  \/ /\ NodeReady
     /\ ~NodeFree(k)
     /\ na' = NodeTidied
     /\ la' = LinksReleased
     /\ res' = "err"
     /\ UNCHANGED <<node, va>>
  \/ /\ NodeReady
     /\ NodeFree(k)
     /\ na' = [NodeTidied EXCEPT !.state = "midValue", !.s = @ \cup {k}, !.f = k]
     /\ la' = [LinksReleased EXCEPT !.w = @ \/ k = "Links"]
     /\ res' = "ok"
     /\ UNCHANGED <<node, va>>

NodeAssembleValue ==
  \/ na.state # "expectValue" /\ Panic
  \/ /\ na.state = "expectValue"
     /\ na' = [na EXCEPT !.state = "midValue"]
     /\ la' = [la EXCEPT !.w = @ \/ na.f = "Links"]
     /\ res' = "ok"
     /\ UNCHANGED <<node, va>>

NodeFinish ==
  \/ ~NodeReady /\ Panic
  \/ /\ NodeReady
     /\ "Links" \notin na.s
     /\ na' = NodeTidied
     /\ la' = LinksReleased
     /\ res' = "err"
     /\ UNCHANGED <<node, va>>
  \/ /\ NodeReady
     /\ "Links" \in na.s
     /\ na' = [NodeTidied EXCEPT !.state = "finished", !.m = "Value"]
     /\ la' = LinksReleased
     /\ res' = "ok"
     /\ UNCHANGED <<node, va>>

\* _Bytes__Assembler.AssignBytes through ca_Data.
DataAssignBytes(c) ==
  \/ node.Data # Unset /\ Panic
  \/ /\ node.Data = Unset
     /\ node' = [node EXCEPT !.Data = c]
     /\ res' = "ok"
     /\ UNCHANGED <<na, la, va>>

-----------------------------------------------------------------------------
(* _PBLinks__Assembler, its m being &na.cm *)

\* A row pointer held from before the slice was replaced points at no row.
Stray == -1
RowsReplaced == [va EXCEPT !.hash = IF @ = 0 THEN 0 ELSE Stray]

\* A positive size hint replaces the slice, whatever it held; through a nil w
\* that is a nil dereference, after m has been set.
LinksBeginList(hint) ==
  \/ na.cm # "Absent" /\ Panic
  \/ /\ na.cm = "Absent"
     /\ na' = [na EXCEPT !.cm = "midvalue"]
     /\ \/ /\ hint <= 0
           /\ res' = "ok"
           /\ UNCHANGED <<node, la, va>>
        \/ /\ hint > 0
           /\ la.w
           /\ node' = [node EXCEPT !.Links = <<>>]
           /\ va' = RowsReplaced
           /\ res' = "ok"
           /\ UNCHANGED la
        \/ /\ hint > 0
           /\ ~la.w
           /\ res' = "panic"
           /\ UNCHANGED <<node, la, va>>

\* AssignNode of a *_PBLinks; through a nil w the copy is a nil dereference.
LinksAssignTyped(xs) ==
  \/ (na.cm # "Absent" \/ ~la.w) /\ Panic
  \/ /\ na.cm = "Absent"
     /\ la.w
     /\ node' = [node EXCEPT !.Links = xs]
     /\ na' = [na EXCEPT !.cm = "Value"]
     /\ va' = RowsReplaced
     /\ res' = "ok"
     /\ UNCHANGED la

LinksReady == la.state = "initial" \/ (la.state = "midValue" /\ la.cm = "Value")

\* Faulty: the bit set of the row before stays.
RowBitsKept ==
  IF la.state = "midValue" THEN [va EXCEPT !.state = "initial"] ELSE va

\* valueFinishTidy clears cm and calls va.reset(), which restores state and s
\* and leaves f, cm and ca_Hash as they are.
RowReleased ==
  IF la.state = "midValue" THEN [va EXCEPT !.state = "initial", !.s = {}] ELSE va
CmReleased == IF la.state = "midValue" THEN "Absent" ELSE la.cm

LinksAssembleValue ==
  \/ (~LinksReady \/ ~la.w) /\ Panic
  \/ /\ LinksReady
     /\ la.w
     /\ Last < MaxLinks
     /\ node' = [node EXCEPT !.Links = Append(@, NewLink)]
     /\ la' = [la EXCEPT !.state = "midValue", !.cm = CmReleased]
     /\ va' = RowReleased
     /\ res' = "ok"
     /\ UNCHANGED na

LinksFinish ==
  \/ ~LinksReady /\ Panic
  \/ /\ LinksReady
     /\ la' = [la EXCEPT !.state = "finished", !.cm = CmReleased]
     /\ va' = RowReleased
     /\ na' = [na EXCEPT !.cm = "Value"]
     /\ res' = "ok"
     /\ UNCHANGED node

-----------------------------------------------------------------------------
(* _PBLink__Assembler, its m being &la.cm and its w the last row *)

LinkBeginMap ==
  \/ la.cm # "Absent" /\ Panic
  \/ /\ la.cm = "Absent"
     /\ la' = [la EXCEPT !.cm = "midvalue"]
     /\ res' = "ok"
     /\ UNCHANGED <<node, na, va>>

\* Faulty: a finished row may be assigned again.
LinkAssignTypedAgain(l) ==
  \/ la.cm = "midvalue" /\ Panic
  \/ /\ la.cm # "midvalue"
     /\ node' = [node EXCEPT !.Links[Last] = l]
     /\ la' = [la EXCEPT !.cm = "Value"]
     /\ res' = "ok"
     /\ UNCHANGED <<na, va>>

LinkAssignTyped(l) ==
  \/ la.cm # "Absent" /\ Panic
  \/ /\ la.cm = "Absent"
     /\ node' = [node EXCEPT !.Links[Last] = l]
     /\ la' = [la EXCEPT !.cm = "Value"]
     /\ res' = "ok"
     /\ UNCHANGED <<na, va>>

LinkValueDone ==
  \/ va.f = "Hash" /\ va.cm = "Value"
  \/ va.f = "Name" /\ Row.Name # Unset
  \/ va.f = "Tsize" /\ Row.Tsize # Unset

LinkReady == va.state = "initial" \/ (va.state = "midValue" /\ LinkValueDone)

LinkTidies(k) == va.state = "midValue" /\ va.f = k

\* Faulty: cm is not cleared for the next row.
LinkMaybeKept ==
  [va EXCEPT !.state = "initial",
             !.hash = IF LinkTidies("Hash") /\ Level = "type" THEN 0 ELSE @]

\* Faulty: the row stays within reach of its old Hash handle.
LinkHashKept ==
  [va EXCEPT !.state = "initial",
             !.cm = IF LinkTidies("Hash") THEN "Absent" ELSE @]

\* Only the type-level assembler clears ca_Hash.w.
LinkTidied ==
  [va EXCEPT !.state = "initial",
             !.cm = IF LinkTidies("Hash") THEN "Absent" ELSE @,
             !.hash = IF LinkTidies("Hash") /\ Level = "type" THEN 0 ELSE @]

LinkAssembleKey ==
  \/ ~LinkReady /\ Panic
  \/ /\ LinkReady
     /\ va' = [LinkTidied EXCEPT !.state = "midKey"]
     /\ res' = "ok"
     /\ UNCHANGED <<node, na, la>>

\* Faulty: does not look whether the field was assigned before.
LinkKnown(k) == k \in LinkFields

\* Faulty: does not look whether the struct has such a field.
LinkUnused(k) == k \notin va.s

LinkFree(k) == k \in LinkFields \ va.s

\* _PBLink__KeyAssembler.AssignString.
LinkAssignKey(k) ==
  \/ va.state # "midKey" /\ Panic
  \/ va.state = "midKey" /\ ~LinkFree(k) /\ Fail
  \/ /\ va.state = "midKey"
     /\ LinkFree(k)
     /\ va' = [va EXCEPT !.state = "expectValue", !.s = @ \cup {k}, !.f = k]
     /\ res' = "ok"
     /\ UNCHANGED <<node, na, la>>

LinkAssembleEntry(k) ==
  \/ ~LinkReady /\ Panic
  \/ /\ LinkReady
     /\ ~LinkFree(k)
     /\ va' = LinkTidied
     /\ res' = "err"
     /\ UNCHANGED <<node, na, la>>
  \/ /\ LinkReady
     /\ LinkFree(k)
     /\ va' = [LinkTidied EXCEPT !.state = "midValue", !.s = @ \cup {k}, !.f = k,
                                 !.hash = IF k = "Hash" THEN Last ELSE @]
     /\ res' = "ok"
     /\ UNCHANGED <<node, na, la>>

LinkAssembleValue ==
  \/ va.state # "expectValue" /\ Panic
  \/ /\ va.state = "expectValue"
     /\ va' = [va EXCEPT !.state = "midValue",
                         !.hash = IF va.f = "Hash" THEN Last ELSE @]
     /\ res' = "ok"
     /\ UNCHANGED <<node, na, la>>

LinkFinish ==
  \/ ~LinkReady /\ Panic
  \/ /\ LinkReady
     /\ "Hash" \notin va.s
     /\ va' = LinkTidied
     /\ res' = "err"
     /\ UNCHANGED <<node, na, la>>
  \/ /\ LinkReady
     /\ "Hash" \in va.s
     /\ va' = [LinkTidied EXCEPT !.state = "finished"]
     /\ la' = [la EXCEPT !.cm = "Value"]
     /\ res' = "ok"
     /\ UNCHANGED <<node, na>>

\* _Link__Assembler.AssignLink through ca_Hash: it writes where ca_Hash.w points,
\* and append may since have moved that row to another array, where the write
\* is lost.  A nil w is dereferenced before m is touched.
HashAssignLink(h) ==
  \/ (va.cm = "Value" \/ va.hash = 0) /\ Panic
  \/ /\ va.cm # "Value"
     /\ va.hash # 0
     /\ \/ va.hash \in 1..Last /\ node' = [node EXCEPT !.Links[va.hash].Hash = h]
        \/ va.hash # Last /\ UNCHANGED node
     /\ va' = [va EXCEPT !.cm = "Value"]
     /\ res' = "ok"
     /\ UNCHANGED <<na, la>>

\* _String__Assembler.AssignString and _Int__Assembler.AssignInt.
NameAssignString(n) ==
  \/ Row.Name # Unset /\ Panic
  \/ /\ Row.Name = Unset
     /\ node' = [node EXCEPT !.Links[Last].Name = n]
     /\ res' = "ok"
     /\ UNCHANGED <<na, la, va>>

TsizeAssignInt(t) ==
  \/ Row.Tsize # Unset /\ Panic
  \/ /\ Row.Tsize = Unset
     /\ node' = [node EXCEPT !.Links[Last].Tsize = t]
     /\ res' = "ok"
     /\ UNCHANGED <<na, la, va>>

\* AssignNull on an assembler whose progress is m.
AssignNull(m) ==
  \/ m = "Absent" /\ Fail
  \/ m # "Absent" /\ Panic

\* The setters of every kind but an assembler's own.
WrongKind == Fail

-----------------------------------------------------------------------------
(***************************************************************************)
(* A caller that may make any call at any time on any assembler it has     *)
(* been handed, finished or not, recovers from panics and goes on after    *)
(* errors.  It gives up two things: a handle obtained before Reset, and a  *)
(* row's assembler once its row is no longer the one being built (the row  *)
(* after it has an assembler of its own, at the same address).             *)
(***************************************************************************)

\* The value assembler of field k has been handed out.
Given(a, k) == k \in a.s /\ ~(a.state = "expectValue" /\ a.f = k)

NodeHeld == na.m = "midvalue" \/ na.state = "finished"
ListHeld == Given(na, "Links") /\ (na.cm = "midvalue" \/ la.state = "finished")
RowHeld == la.state = "midValue"
LinkHeld == RowHeld /\ (la.cm = "midvalue" \/ va.state = "finished")

NodeCall ==
  \/ NodeBeginMap
  \/ AssignNull(na.m)
  \/ WrongKind
  \/ \E n \in TypedNodes : NodeAssignTyped(n)
  \/ NodeHeld /\ NodeAssembleKey
  \/ NodeHeld /\ \E k \in AnyKey : NodeAssignKey(k) \/ NodeAssembleEntry(k)
  \/ NodeHeld /\ NodeAssembleValue
  \/ NodeHeld /\ NodeFinish
  \/ Given(na, "Data") /\ \E c \in Chunks : DataAssignBytes(c)

LinksCall ==
  \/ Given(na, "Links") /\ \E hint \in {0, 1} : LinksBeginList(hint)
  \/ Given(na, "Links") /\ AssignNull(na.cm)
  \/ Given(na, "Links") /\ \E n \in TypedNodes : LinksAssignTyped(n.Links)
  \/ ListHeld /\ LinksAssembleValue
  \/ ListHeld /\ LinksFinish

LinkCall ==
  \/ RowHeld /\ LinkBeginMap
  \/ RowHeld /\ AssignNull(la.cm)
  \/ RowHeld /\ \E l \in TypedLinks : LinkAssignTyped(l)
  \/ LinkHeld /\ LinkAssembleKey
  \/ LinkHeld /\ \E k \in AnyKey : LinkAssignKey(k) \/ LinkAssembleEntry(k)
  \/ LinkHeld /\ LinkAssembleValue
  \/ LinkHeld /\ LinkFinish
  \/ LinkHeld /\ Given(va, "Name") /\ \E n \in Names : NameAssignString(n)
  \/ LinkHeld /\ Given(va, "Tsize") /\ \E t \in Tsizes : TsizeAssignInt(t)
  \/ /\ va.hash # 0 \/ (LinkHeld /\ Given(va, "Hash"))
     /\ \E h \in Hashes : HashAssignLink(h)

Next == Reset \/ NodeCall \/ LinksCall \/ LinkCall

Spec == Init /\ [][Next]_vars

-----------------------------------------------------------------------------
\* The assemblers and the node keep their types under any calls.
TypeOK ==
  /\ node \in PBNode
  /\ na \in [m : Maybe, state : MaState, s : SUBSET NodeFields, f : NodeFields, cm : Maybe]
  /\ la \in [w : BOOLEAN, state : LaState, cm : Maybe]
  /\ va \in [state : MaState, s : SUBSET LinkFields, f : LinkFields, cm : Maybe, hash : Int]
  /\ res \in {"ok", "err", "panic"}

\* Whatever order the calls came in, a node that Build hands out has a Hash in
\* every link: the one thing Finish checks for rows it no longer sees.
FinishedComplete == na.m = "Value" => \A i \in 1..Last : Complete(node.Links[i])

\* Once Build may be called the node never changes again until Reset replaces
\* it, though callers still hold its assemblers ("cannot assign into assembler
\* that's already finished").
FinishedIsFinal == [][na.m = "Value" /\ na'.m = "Value" => node' = node]_vars

\* Nothing of the node is lost or overwritten.
Kept(old, new) == old # Unset => new = old
Grown ==
  /\ Kept(node.Data, node'.Data)
  /\ Len(node.Links) <= Len(node'.Links)
  /\ \A i \in 1..Len(node.Links) : \A k \in LinkFields :
       Kept(node.Links[i][k], node'.Links[i][k])

\* Between two Resets rows are only appended, and a field once assigned keeps its
\* value: no call order assigns through an assembler twice.
WriteOnce == [][na'.m # "Absent" => Grown]_vars

-----------------------------------------------------------------------------
\* A field is being assembled: its bit is set and its value may be missing.
Pending(a, k) == a.state \in {"expectValue", "midValue"} /\ a.f = k

\* In the map of a PBNode under construction the bit set tells the truth: Data
\* has a value exactly when its bit is set, but for the field being assembled.
NodeFieldsRecorded ==
  na.m = "midvalue" \/ na.state = "finished" =>
    /\ node.Data # Unset => "Data" \in na.s
    /\ "Data" \in na.s /\ ~Pending(na, "Data") => node.Data # Unset

\* The same in the row under construction, whose assembler is shared by all rows
\* and only partly reset between them.
RowFieldsRecorded ==
  la.cm = "midvalue" =>
    \A k \in LinkFields :
      /\ Row[k] # Unset => k \in va.s
      /\ k \in va.s /\ ~Pending(va, k) => Row[k] # Unset

-----------------------------------------------------------------------------
(* What every step of the type-level assemblers keeps, level by level. *)

NodeInv ==
  /\ na.state \notin {"initial", "finished"} => na.m = "midvalue"
  /\ na.state = "finished" => na.m = "Value"
  /\ na.state \in {"expectValue", "midValue"} => na.f \in na.s
  /\ na.m = "Absent" => na.s = {} /\ node = EmptyNode
  /\ na.m = "Value" /\ na.state = "initial" => na.s = {}
  /\ na.m = "midvalue" /\ "Links" \notin na.s => node.Links = <<>>
  /\ Pending(na, "Links") /\ na.cm = "Absent" => node.Links = <<>>
  /\ NodeFieldsRecorded

\* ca_Links points at a list only while Links is being assembled, and every row
\* but the one in progress has its Hash.
ListInv ==
  /\ la.w => na.state = "midValue" /\ na.f = "Links"
  /\ la.state = "midValue" => la.w /\ na.cm = "midvalue" /\ Last > 0
  /\ la.state # "midValue" => la.cm = "Absent"
  /\ \A i \in 1..Last :
       Complete(node.Links[i]) \/ (i = Last /\ la.state = "midValue" /\ la.cm # "Value")

\* Between two rows nothing of the shared row assembler is left but f; a row that was
\* finished as a map has a value for every key used.
RowInv ==
  /\ la.cm = "Absent" => va.state = "initial" /\ va.s = {}
  /\ la.cm = "Absent" /\ la.state = "midValue" => Row = NewLink
  /\ va.state = "finished" => la.cm = "Value" /\ \A k \in va.s : Row[k] # Unset
  /\ va.state \in {"expectValue", "midValue"} => va.f \in va.s
  /\ va.state \notin {"initial", "finished"} => la.cm = "midvalue"
  /\ va.cm = "Value" => Pending(va, "Hash") /\ va.state = "midValue" /\ Row.Hash # Unset
  /\ va.hash # 0 => Pending(va, "Hash") /\ va.state = "midValue" /\ va.hash = Last
  /\ Pending(va, "Hash") /\ va.cm # "Value" => Row.Hash = Unset
  /\ RowFieldsRecorded

\* The three levels fit together: what a caller is handed, what the bit sets
\* record, what the shared Maybe cells say and what the node holds agree.
AssemblerInv == TypeOK /\ NodeInv /\ ListInv /\ RowInv
=============================================================================
