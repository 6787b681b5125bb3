------------------------- MODULE PBAssemblerProofs -------------------------
(***************************************************************************)
(* AssemblerInv is inductive for the type-level assemblers, whatever the   *)
(* constants: one lemma per group of calls, one step per method.  The      *)
(* other theorems follow from it.                                          *)
(***************************************************************************)
EXTENDS PBAssembler, TLAPS

NaType == [m : Maybe, state : MaState, s : SUBSET NodeFields, f : NodeFields, cm : Maybe]

\* Tidying the PBNode assembler when it is ready lets go of ca_Links.
LEMMA NodeTidy ==
  ASSUME AssemblerInv, Level = "type", NodeHeld, NodeReady
  PROVE  /\ na.m = "midvalue"
         /\ la.state # "midValue"
         /\ NodeTidied \in NaType
         /\ NodeTidied.m = na.m /\ NodeTidied.state = "initial"
         /\ NodeTidied.s = na.s /\ NodeTidied.f = na.f
         /\ LinksReleased = [la EXCEPT !.w = FALSE]
         /\ "Data" \in na.s => node.Data # Unset
<1>1. na.state \in {"initial", "midValue"}
  BY DEF NodeReady
<1>2. na.m = "midvalue" /\ la.state # "midValue"
  BY <1>1 DEF NodeHeld, AssemblerInv, TypeOK, NodeInv, ListInv, NodeReady, NodeValueDone,
              Maybe, MaState, LaState
<1>3. NodeTidied \in NaType
  BY DEF AssemblerInv, TypeOK, NodeTidied, NaType, Maybe, MaState
<1>4. /\ NodeTidied.m = na.m /\ NodeTidied.state = "initial"
      /\ NodeTidied.s = na.s /\ NodeTidied.f = na.f
  BY DEF AssemblerInv, TypeOK, NodeTidied
<1>5. la.w = FALSE \/ NodeTidies("Links")
  BY <1>1 DEF NodeTidies, AssemblerInv, TypeOK, ListInv
<1>6. LinksReleased = [la EXCEPT !.w = FALSE]
  BY <1>5 DEF LinksReleased, AssemblerInv, TypeOK
<1>7. "Data" \in na.s => node.Data # Unset
  BY <1>2, <1>1 DEF AssemblerInv, NodeInv, NodeFieldsRecorded, Pending, NodeReady, NodeValueDone
<1> QED BY <1>2, <1>3, <1>4, <1>6, <1>7

\* A step of the PBNode assembler alone keeps what lies below it.
LEMMA BelowNode ==
  ASSUME AssemblerInv, UNCHANGED <<node, va>>,
         la'.state = la.state, la'.cm = la.cm,
         la'.w => na'.state = "midValue" /\ na'.f = "Links",
         la.state = "midValue" => la'.w /\ na'.cm = "midvalue"
  PROVE  ListInv' /\ RowInv'
<1>1. ListInv'
  BY DEF AssemblerInv, ListInv, Last, Complete
<1>2. RowInv'
  BY DEF AssemblerInv, RowInv, Last, Row, RowFieldsRecorded, Pending
<1> QED BY <1>1, <1>2

\* A tree nobody touches stays in step.
LEMMA StandsStill ==
  ASSUME AssemblerInv, UNCHANGED asm, res' \in {"ok", "err", "panic"}
  PROVE  AssemblerInv'
<1>1. UNCHANGED <<node, na, la, va>>
  BY DEF asm
<1>2. TypeOK'
  BY <1>1 DEF AssemblerInv, TypeOK
<1>3. NodeInv'
  BY <1>1 DEF AssemblerInv, NodeInv, NodeFieldsRecorded, Pending
<1>4. ListInv' /\ RowInv'
  BY <1>1, BelowNode DEF AssemblerInv, ListInv
<1> QED BY <1>2, <1>3, <1>4 DEF AssemblerInv

\* A refused call keeps everything.
LEMMA Refused ==
  ASSUME AssemblerInv, Panic \/ Fail
  PROVE  AssemblerInv'
BY StandsStill DEF Panic, Fail

\* The tree of a fresh builder is in step.
LEMMA ResetKeeps ==
  ASSUME Fresh(node', na', la', va'), res' = "ok"
  PROVE  AssemblerInv'
<1> USE DEF Fresh, EmptyNode
<1>1. TypeOK'
  BY DEF TypeOK, PBNode, Maybe, MaState, LaState, NodeFields, LinkFields
<1>2. NodeInv'
  BY DEF NodeInv, NodeFieldsRecorded, Pending
<1>3. ListInv' /\ RowInv'
  BY DEF ListInv, RowInv, Last, Pending, RowFieldsRecorded
<1> QED BY <1>1, <1>2, <1>3 DEF AssemblerInv

\* Every call on the PBNode assembler, or on the leaf for Data, keeps the tree in step.
LEMMA NodeCallKeeps ==
  ASSUME AssemblerInv, Level = "type", NodeCall
  PROVE  AssemblerInv'
<1>1. ASSUME NodeBeginMap PROVE AssemblerInv'
  <2>1. CASE na.m # "Absent"
    BY <1>1, <2>1, Refused DEF NodeBeginMap
  <2>2. CASE na.m = "Absent"
    <3>1. /\ na' = [na EXCEPT !.m = "midvalue"]
          /\ res' = "ok"
          /\ UNCHANGED <<node, la, va>>
      BY <1>1, <2>2 DEF NodeBeginMap
    <3>2. TypeOK'
      BY <3>1 DEF AssemblerInv, TypeOK, Maybe
    <3>3. NodeInv'
      BY <2>2, <3>1 DEF AssemblerInv, TypeOK, NodeInv, NodeFieldsRecorded, Pending, EmptyNode
    <3>4. ListInv' /\ RowInv'
      BY <3>1, BelowNode DEF AssemblerInv, TypeOK, ListInv
    <3> QED BY <3>2, <3>3, <3>4 DEF AssemblerInv
  <2> QED BY <2>1, <2>2
<1>2. ASSUME AssignNull(na.m) \/ WrongKind PROVE AssemblerInv'
  BY <1>2, Refused DEF AssignNull, WrongKind
<1>3. ASSUME NEW n \in TypedNodes, NodeAssignTyped(n) PROVE AssemblerInv'
  <2>1. CASE na.m # "Absent"
    BY <1>3, <2>1, Refused DEF NodeAssignTyped
  <2>2. CASE na.m = "Absent"
    <3>1. /\ node' = n
          /\ na' = [na EXCEPT !.m = "Value"]
          /\ res' = "ok"
          /\ UNCHANGED <<la, va>>
      BY <1>3, <2>2 DEF NodeAssignTyped
    <3>2. n \in PBNode /\ \A i \in 1..Len(n.Links) : Complete(n.Links[i])
      BY TypedAssumption
    <3>3. na.state = "initial"
      BY <2>2 DEF AssemblerInv, NodeInv
    <3>4. la.state # "midValue" /\ la.cm = "Absent" /\ ~la.w
      BY <3>3 DEF AssemblerInv, ListInv
    <3>5. TypeOK'
      BY <3>1, <3>2 DEF AssemblerInv, TypeOK, Maybe
    <3>6. NodeInv'
      BY <2>2, <3>1, <3>3 DEF AssemblerInv, TypeOK, NodeInv, NodeFieldsRecorded, Pending
    <3>7. ListInv'
      BY <3>1, <3>2, <3>4 DEF ListInv, Last
    <3>8. RowInv'
      BY <3>1, <3>4 DEF AssemblerInv, RowInv, Pending, RowFieldsRecorded
    <3> QED BY <3>5, <3>6, <3>7, <3>8 DEF AssemblerInv
  <2> QED BY <2>1, <2>2
<1>4. ASSUME NodeHeld, NodeAssembleKey PROVE AssemblerInv'
  <2>1. CASE ~NodeReady
    BY <1>4, <2>1, Refused DEF NodeAssembleKey
  <2>2. CASE NodeReady
    <3>1. /\ na' = [NodeTidied EXCEPT !.state = "midKey"]
          /\ la' = [la EXCEPT !.w = FALSE]
          /\ res' = "ok"
          /\ UNCHANGED <<node, va>>
      BY <1>4, <2>2, NodeTidy DEF NodeAssembleKey
    <3>2. TypeOK'
      BY <1>4, <2>2, <3>1, NodeTidy DEF AssemblerInv, TypeOK, NaType, MaState
    <3>3. NodeInv'
      BY <1>4, <2>2, <3>1, NodeTidy DEF AssemblerInv, NodeInv, NodeFieldsRecorded, Pending, NaType
    <3>4. ListInv' /\ RowInv'
      BY <1>4, <2>2, <3>1, NodeTidy, BelowNode DEF AssemblerInv, TypeOK
    <3> QED BY <3>2, <3>3, <3>4 DEF AssemblerInv
  <2> QED BY <2>1, <2>2
<1>5. ASSUME NEW k \in AnyKey, NodeHeld, NodeAssignKey(k) PROVE AssemblerInv'
  <2>1. CASE Panic \/ Fail
    BY <2>1, Refused
  <2>2. CASE /\ na.state = "midKey"
             /\ k \in NodeFields \ na.s
             /\ na' = [na EXCEPT !.state = "expectValue", !.s = @ \cup {k}, !.f = k]
             /\ res' = "ok"
             /\ UNCHANGED <<node, la, va>>
    <3>1. TypeOK'
      BY <2>2 DEF AssemblerInv, TypeOK, MaState
    <3>2. NodeInv'
      BY <2>2 DEF AssemblerInv, TypeOK, NodeInv, NodeFieldsRecorded, Pending, NodeFields
    <3>3. ListInv' /\ RowInv'
      BY <2>2, BelowNode DEF AssemblerInv, TypeOK, ListInv
    <3> QED BY <3>1, <3>2, <3>3 DEF AssemblerInv
  <2> QED BY <1>5, <2>1, <2>2 DEF NodeAssignKey, NodeFree
<1>6. ASSUME NEW k \in AnyKey, NodeHeld, NodeAssembleEntry(k) PROVE AssemblerInv'
  <2>1. CASE ~NodeReady
    BY <1>6, <2>1, Refused DEF NodeAssembleEntry, NodeFree
  <2>2. CASE NodeReady /\ k \notin NodeFields \ na.s
    <3>1. /\ na' = NodeTidied
          /\ la' = [la EXCEPT !.w = FALSE]
          /\ res' = "err"
          /\ UNCHANGED <<node, va>>
      BY <1>6, <2>2, NodeTidy DEF NodeAssembleEntry, NodeFree
    <3>2. TypeOK'
      BY <1>6, <2>2, <3>1, NodeTidy DEF AssemblerInv, TypeOK, NaType
    <3>3. NodeInv'
      BY <1>6, <2>2, <3>1, NodeTidy DEF AssemblerInv, NodeInv, NodeFieldsRecorded, Pending, NaType
    <3>4. ListInv' /\ RowInv'
      BY <1>6, <2>2, <3>1, NodeTidy, BelowNode DEF AssemblerInv, TypeOK
    <3> QED BY <3>2, <3>3, <3>4 DEF AssemblerInv
  <2>3. CASE NodeReady /\ k \in NodeFields \ na.s
    <3>1. /\ na' = [NodeTidied EXCEPT !.state = "midValue", !.s = @ \cup {k}, !.f = k]
          /\ la' = [la EXCEPT !.w = (k = "Links")]
          /\ res' = "ok"
          /\ UNCHANGED <<node, va>>
      BY <1>6, <2>3, NodeTidy DEF NodeAssembleEntry, NodeFree, AssemblerInv, TypeOK
    <3>2. TypeOK'
      BY <1>6, <2>3, <3>1, NodeTidy DEF AssemblerInv, TypeOK, NaType, MaState
    <3>3. NodeInv'
      BY <1>6, <2>3, <3>1, NodeTidy
         DEF AssemblerInv, NodeInv, NodeFieldsRecorded, Pending, NaType, NodeFields
    <3>4. ListInv' /\ RowInv'
      BY <1>6, <2>3, <3>1, NodeTidy, BelowNode DEF AssemblerInv, TypeOK, NaType
    <3> QED BY <3>2, <3>3, <3>4 DEF AssemblerInv
  <2> QED BY <2>1, <2>2, <2>3
<1>7. ASSUME NodeHeld, NodeAssembleValue PROVE AssemblerInv'
  <2>1. CASE na.state # "expectValue"
    BY <1>7, <2>1, Refused DEF NodeAssembleValue
  <2>2. CASE na.state = "expectValue"
    <3>1. /\ na' = [na EXCEPT !.state = "midValue"]
          /\ la' = [la EXCEPT !.w = @ \/ na.f = "Links"]
          /\ res' = "ok"
          /\ UNCHANGED <<node, va>>
      BY <1>7, <2>2 DEF NodeAssembleValue
    <3>2. TypeOK'
      BY <3>1 DEF AssemblerInv, TypeOK, MaState
    <3>3. NodeInv'
      BY <2>2, <3>1 DEF AssemblerInv, TypeOK, NodeInv, NodeFieldsRecorded, Pending
    <3>4. ListInv' /\ RowInv'
      BY <2>2, <3>1, BelowNode DEF AssemblerInv, TypeOK, ListInv
    <3> QED BY <3>2, <3>3, <3>4 DEF AssemblerInv
  <2> QED BY <2>1, <2>2
<1>8. ASSUME NodeHeld, NodeFinish PROVE AssemblerInv'
  <2>1. CASE ~NodeReady
    BY <1>8, <2>1, Refused DEF NodeFinish
  <2>2. CASE NodeReady /\ "Links" \notin na.s
    <3>1. /\ na' = NodeTidied
          /\ la' = [la EXCEPT !.w = FALSE]
          /\ res' = "err"
          /\ UNCHANGED <<node, va>>
      BY <1>8, <2>2, NodeTidy DEF NodeFinish
    <3>2. TypeOK'
      BY <1>8, <2>2, <3>1, NodeTidy DEF AssemblerInv, TypeOK, NaType
    <3>3. NodeInv'
      BY <1>8, <2>2, <3>1, NodeTidy DEF AssemblerInv, NodeInv, NodeFieldsRecorded, Pending, NaType
    <3>4. ListInv' /\ RowInv'
      BY <1>8, <2>2, <3>1, NodeTidy, BelowNode DEF AssemblerInv, TypeOK
    <3> QED BY <3>2, <3>3, <3>4 DEF AssemblerInv
  <2>3. CASE NodeReady /\ "Links" \in na.s
    <3>1. /\ na' = [NodeTidied EXCEPT !.state = "finished", !.m = "Value"]
          /\ la' = [la EXCEPT !.w = FALSE]
          /\ res' = "ok"
          /\ UNCHANGED <<node, va>>
      BY <1>8, <2>3, NodeTidy DEF NodeFinish
    <3>2. TypeOK'
      BY <1>8, <2>3, <3>1, NodeTidy DEF AssemblerInv, TypeOK, NaType, MaState, Maybe
    <3>3. NodeInv'
      BY <1>8, <2>3, <3>1, NodeTidy DEF AssemblerInv, NodeInv, NodeFieldsRecorded, Pending, NaType
    <3>4. ListInv' /\ RowInv'
      BY <1>8, <2>3, <3>1, NodeTidy, BelowNode DEF AssemblerInv, TypeOK
    <3> QED BY <3>2, <3>3, <3>4 DEF AssemblerInv
  <2> QED BY <2>1, <2>2, <2>3
<1>9. ASSUME NEW c \in Chunks, Given(na, "Data"), DataAssignBytes(c) PROVE AssemblerInv'
  <2>1. CASE node.Data # Unset
    BY <1>9, <2>1, Refused DEF DataAssignBytes
  <2>2. CASE node.Data = Unset
    <3>1. /\ node' = [node EXCEPT !.Data = c]
          /\ res' = "ok"
          /\ UNCHANGED <<na, la, va>>
      BY <1>9, <2>2 DEF DataAssignBytes
    <3>2. TypeOK'
      BY <3>1 DEF AssemblerInv, TypeOK, PBNode
    <3>3. node' \in PBNode /\ node'.Links = node.Links
      BY <3>1, <3>2 DEF AssemblerInv, TypeOK, PBNode
    <3>4. NodeInv'
      BY <1>9, <2>2, <3>1, <3>3
         DEF AssemblerInv, NodeInv, NodeFieldsRecorded, Pending, Given
    <3>5. ListInv'
      BY <3>1, <3>3 DEF AssemblerInv, ListInv, Last
    <3>6. RowInv'
      BY <3>1, <3>3 DEF AssemblerInv, RowInv, RowFieldsRecorded, Pending, Row, Last
    <3> QED BY <3>2, <3>4, <3>5, <3>6 DEF AssemblerInv
  <2> QED BY <2>1, <2>2
<1> QED
  BY <1>1, <1>2, <1>3, <1>4, <1>5, <1>6, <1>7, <1>8, <1>9 DEF NodeCall

-----------------------------------------------------------------------------
\* No row is in progress while the cell the list reports to is untouched or done.
LEMMA NoRow ==
  ASSUME AssemblerInv, na.cm # "midvalue"
  PROVE  la.state # "midValue" /\ la.cm = "Absent" /\ va.state = "initial" /\ va.s = {}
         /\ va.hash = 0 /\ va.cm # "Value"
BY DEF AssemblerInv, ListInv, RowInv

\* So does every call on the assembler of the list.
LEMMA LinksCallKeeps ==
  ASSUME AssemblerInv, Level = "type", LinksCall
  PROVE  AssemblerInv'
<1>1. ASSUME NEW hint \in {0, 1}, Given(na, "Links"), LinksBeginList(hint)
      PROVE  AssemblerInv'
  <2>1. CASE na.cm # "Absent"
    BY <1>1, <2>1, Refused DEF LinksBeginList
  <2>2. CASE na.cm = "Absent"
    <3>1. /\ na' = [na EXCEPT !.cm = "midvalue"]
          /\ UNCHANGED la
          /\ res' \in {"ok", "panic"}
          /\ \/ UNCHANGED <<node, va>>
             \/ la.w /\ node' = [node EXCEPT !.Links = <<>>] /\ va' = RowsReplaced
      BY <1>1, <2>2 DEF LinksBeginList
    <3>2. va.hash = 0 /\ la.state # "midValue" /\ la.cm = "Absent" /\ va.state = "initial"
      BY <2>2, NoRow
    <3>3. va' = va
      BY <3>1, <3>2 DEF RowsReplaced, AssemblerInv, TypeOK
    <3>4. \/ node' = node
          \/ node' = [node EXCEPT !.Links = <<>>]
      BY <3>1
    <3>5. TypeOK'
      <4>1. <<>> \in Seq(PBLink)
        OBVIOUS
      <4>2. node' \in PBNode
        BY <3>4, <4>1 DEF AssemblerInv, TypeOK, PBNode
      <4> QED BY <3>1, <3>3, <4>2 DEF AssemblerInv, TypeOK, Maybe
    <3>6. NodeInv'
      BY <1>1, <2>2, <3>1, <3>4
         DEF AssemblerInv, TypeOK, PBNode, NodeInv, NodeFieldsRecorded, Pending, Given
    <3>7. ListInv'
      <4>1. CASE node' = node
        BY <3>1, <3>2, <4>1 DEF AssemblerInv, TypeOK, ListInv, Last
      <4>2. CASE node' = [node EXCEPT !.Links = <<>>]
        BY <3>1, <3>2, <4>2 DEF AssemblerInv, TypeOK, PBNode, ListInv, Last
      <4> QED BY <3>4, <4>1, <4>2
    <3>8. RowInv'
      BY <3>1, <3>2, <3>3 DEF AssemblerInv, RowInv, Pending, RowFieldsRecorded
    <3> QED BY <3>5, <3>6, <3>7, <3>8 DEF AssemblerInv
  <2> QED BY <2>1, <2>2
<1>2. ASSUME AssignNull(na.cm) PROVE AssemblerInv'
  BY <1>2, Refused DEF AssignNull
<1>3. ASSUME NEW n \in TypedNodes, Given(na, "Links"), LinksAssignTyped(n.Links)
      PROVE  AssemblerInv'
  <2>1. CASE na.cm # "Absent" \/ ~la.w
    BY <1>3, <2>1, Refused DEF LinksAssignTyped
  <2>2. CASE na.cm = "Absent" /\ la.w
    <3>1. /\ node' = [node EXCEPT !.Links = n.Links]
          /\ na' = [na EXCEPT !.cm = "Value"]
          /\ va' = RowsReplaced
          /\ res' = "ok"
          /\ UNCHANGED la
      BY <1>3, <2>2 DEF LinksAssignTyped
    <3>2. n \in PBNode /\ \A i \in 1..Len(n.Links) : Complete(n.Links[i])
      BY TypedAssumption
    <3>3. va.hash = 0 /\ la.state # "midValue" /\ la.cm = "Absent" /\ va.state = "initial"
      BY <2>2, NoRow
    <3>4. va' = va
      BY <3>1, <3>3 DEF RowsReplaced, AssemblerInv, TypeOK
    <3>5. TypeOK'
      BY <3>1, <3>2, <3>4 DEF AssemblerInv, TypeOK, PBNode, Maybe
    <3>6. NodeInv'
      BY <1>3, <2>2, <3>1
         DEF AssemblerInv, TypeOK, PBNode, NodeInv, NodeFieldsRecorded, Pending, Given, ListInv
    <3>7. ListInv'
      BY <2>2, <3>1, <3>2, <3>3 DEF AssemblerInv, TypeOK, PBNode, ListInv, Last
    <3>8. RowInv'
      BY <3>1, <3>3, <3>4 DEF AssemblerInv, RowInv, Pending, RowFieldsRecorded
    <3> QED BY <3>5, <3>6, <3>7, <3>8 DEF AssemblerInv
  <2> QED BY <2>1, <2>2
<1>4. ASSUME ListHeld, LinksAssembleValue PROVE AssemblerInv'
  <2>1. CASE ~LinksReady \/ ~la.w
    BY <1>4, <2>1, Refused DEF LinksAssembleValue
  <2>2. CASE LinksReady /\ la.w
    <3>1. /\ node' = [node EXCEPT !.Links = Append(@, NewLink)]
          /\ la' = [la EXCEPT !.state = "midValue", !.cm = CmReleased]
          /\ va' = RowReleased
          /\ res' = "ok"
          /\ UNCHANGED na
      BY <1>4, <2>2 DEF LinksAssembleValue
    <3>2. na.cm = "midvalue"
      BY <1>4, <2>2 DEF ListHeld, LinksReady
    <3>3. CmReleased = "Absent"
      BY DEF AssemblerInv, ListInv, CmReleased
    <3>4. /\ RowReleased.state = "initial" /\ RowReleased.s = {}
          /\ RowReleased.cm = va.cm /\ RowReleased.hash = va.hash
          /\ RowReleased \in [state : MaState, s : SUBSET LinkFields, f : LinkFields,
                              cm : Maybe, hash : Int]
      BY DEF AssemblerInv, TypeOK, ListInv, RowInv, RowReleased, MaState
    <3>5. va.cm # "Value" /\ va.hash = 0
      BY <2>2 DEF LinksReady, AssemblerInv, RowInv, ListInv
    <3>6. /\ node'.Links = Append(node.Links, NewLink) /\ node'.Data = node.Data
          /\ NewLink \in PBLink /\ node.Links \in Seq(PBLink)
      BY <3>1 DEF AssemblerInv, TypeOK, PBNode, NewLink, PBLink
    <3>7. /\ node' \in PBNode
          /\ Last' = Last + 1 /\ Last \in Nat
          /\ Row' = NewLink
          /\ \A i \in 1..Last : node'.Links[i] = node.Links[i]
      <4>1. node'.Links \in Seq(PBLink)
        BY <3>6
      <4>2. node' \in PBNode
        BY <3>1, <4>1, <3>6 DEF AssemblerInv, TypeOK, PBNode
      <4>3. Len(node'.Links) = Len(node.Links) + 1 /\ Len(node.Links) \in Nat
        BY <3>6
      <4>4. \A i \in 1..Len(node.Links) : node'.Links[i] = node.Links[i]
        BY <3>6
      <4>5. node'.Links[Len(node.Links) + 1] = NewLink
        BY <3>6
      <4> QED BY <4>2, <4>3, <4>4, <4>5 DEF Last, Row
    <3>8. \A i \in 1..Last : Complete(node.Links[i])
      BY <2>2 DEF AssemblerInv, ListInv, LinksReady
    <3>9. TypeOK'
      BY <3>1, <3>3, <3>4, <3>7 DEF AssemblerInv, TypeOK, LaState, Maybe
    <3>10. NodeInv'
      BY <1>4, <3>1, <3>2, <3>6
         DEF AssemblerInv, NodeInv, NodeFieldsRecorded, Pending, ListHeld, Given
    <3>11. ListInv'
      <4>1. la' = [la EXCEPT !.state = "midValue", !.cm = "Absent"]
        BY <3>1, <3>3
      <4>2. la'.state = "midValue" /\ la'.w = la.w /\ la'.cm = "Absent"
        BY <4>1 DEF AssemblerInv, TypeOK
      <4>4. na.state = "midValue" /\ na.f = "Links" /\ na'.cm = "midvalue" /\ na' = na
        BY <2>2, <3>1, <3>2 DEF AssemblerInv, ListInv
      <4>5. Last' > 0
        BY <3>7
      <4>3. ASSUME NEW i \in 1..Last' PROVE Complete(node'.Links[i]) \/ i = Last'
        <5>1. i \in 1..Last \/ i = Last'
          BY <3>7
        <5> QED BY <5>1, <3>7, <3>8 DEF Complete
      <4> QED BY <2>2, <4>2, <4>3, <4>4, <4>5 DEF ListInv, Complete
    <3>12. RowInv'
      BY <3>1, <3>3, <3>4, <3>5, <3>7 DEF AssemblerInv, TypeOK, RowInv, Pending, RowFieldsRecorded
    <3> QED BY <3>9, <3>10, <3>11, <3>12 DEF AssemblerInv
  <2> QED BY <2>1, <2>2
<1>5. ASSUME ListHeld, LinksFinish PROVE AssemblerInv'
  <2>1. CASE ~LinksReady
    BY <1>5, <2>1, Refused DEF LinksFinish
  <2>2. CASE LinksReady
    <3>1. /\ la' = [la EXCEPT !.state = "finished", !.cm = CmReleased]
          /\ va' = RowReleased
          /\ na' = [na EXCEPT !.cm = "Value"]
          /\ res' = "ok"
          /\ UNCHANGED node
      BY <1>5, <2>2 DEF LinksFinish
    <3>2. CmReleased = "Absent"
      BY DEF AssemblerInv, ListInv, CmReleased
    <3>3. /\ RowReleased.state = "initial" /\ RowReleased.s = {}
          /\ RowReleased.cm = va.cm /\ RowReleased.hash = va.hash
          /\ RowReleased \in [state : MaState, s : SUBSET LinkFields, f : LinkFields,
                              cm : Maybe, hash : Int]
      BY DEF AssemblerInv, TypeOK, ListInv, RowInv, RowReleased, MaState
    <3>4. va.cm # "Value" /\ va.hash = 0
      BY <2>2 DEF LinksReady, AssemblerInv, RowInv, ListInv
    <3>5. \A i \in 1..Last : Complete(node.Links[i])
      BY <2>2 DEF AssemblerInv, ListInv, LinksReady
    <3>6. TypeOK'
      BY <3>1, <3>2, <3>3 DEF AssemblerInv, TypeOK, LaState, Maybe
    <3>7. NodeInv'
      BY <1>5, <3>1
         DEF AssemblerInv, TypeOK, NodeInv, NodeFieldsRecorded, Pending, ListHeld, Given
    <3>8. ListInv'
      BY <3>1, <3>2, <3>5 DEF AssemblerInv, TypeOK, ListInv, Last, Complete
    <3>9. RowInv'
      BY <3>1, <3>2, <3>3, <3>4 DEF AssemblerInv, TypeOK, RowInv, Pending, RowFieldsRecorded
    <3> QED BY <3>6, <3>7, <3>8, <3>9 DEF AssemblerInv
  <2> QED BY <2>1, <2>2
<1> QED
  BY <1>1, <1>2, <1>3, <1>4, <1>5 DEF LinksCall

-----------------------------------------------------------------------------
VaType == [state : MaState, s : SUBSET LinkFields, f : LinkFields, cm : Maybe, hash : Int]

\* While a row is in progress a step that leaves na and Data alone keeps NodeInv.
LEMMA AboveRow ==
  ASSUME AssemblerInv, la.state = "midValue", na' = na, node'.Data = node.Data
  PROVE  NodeInv'
<1>1. na.cm = "midvalue" /\ node.Links # <<>> /\ na.state = "midValue" /\ na.f = "Links"
  BY DEF AssemblerInv, ListInv, Last
<1>2. na.m = "midvalue" /\ "Links" \in na.s
  BY <1>1 DEF AssemblerInv, NodeInv
<1> QED BY <1>1, <1>2 DEF AssemblerInv, NodeInv, NodeFieldsRecorded, Pending

\* Replacing the row in progress.
LEMMA RowWrite ==
  ASSUME AssemblerInv, la.state = "midValue", NEW l \in PBLink,
         node' = [node EXCEPT !.Links = [@ EXCEPT ![Last] = l]]
  PROVE  /\ node' \in PBNode /\ node'.Data = node.Data
         /\ Last' = Last /\ Last \in Nat /\ Last > 0
         /\ Row' = l
         /\ \A i \in 1..Last : i # Last => node'.Links[i] = node.Links[i]
<1>1. node \in PBNode /\ node.Links \in Seq(PBLink) /\ Last > 0 /\ Last = Len(node.Links)
  BY DEF AssemblerInv, TypeOK, PBNode, ListInv, Last
<1>2. /\ node'.Links = [node.Links EXCEPT ![Last] = l]
      /\ node'.Data = node.Data
  BY <1>1 DEF PBNode
<1>3. node'.Links \in Seq(PBLink) /\ Len(node'.Links) = Len(node.Links)
  BY <1>1, <1>2
<1>4. node' \in PBNode
  BY <1>1, <1>3 DEF PBNode
<1>5. /\ node'.Links[Last] = l
      /\ \A i \in 1..Last : i # Last => node'.Links[i] = node.Links[i]
  BY <1>1, <1>2
<1>6. Last' = Last
  BY <1>3 DEF Last
<1> QED BY <1>1, <1>2, <1>4, <1>5, <1>6 DEF Row

\* A row in progress before and after the step: the other rows keep their Hash.
LEMMA RowStepList ==
  ASSUME AssemblerInv, la.state = "midValue", na' = na,
         la'.state = la.state, la'.w = la.w,
         Last' = Last,
         \A i \in 1..Last : i # Last => node'.Links[i] = node.Links[i],
         la'.cm # "Value" \/ Complete(Row')
  PROVE  ListInv'
<1>1. /\ la.w /\ na.cm = "midvalue" /\ Last > 0 /\ na.state = "midValue" /\ na.f = "Links"
  BY DEF AssemblerInv, ListInv
<1>2. ASSUME NEW i \in 1..Last
      PROVE  Complete(node'.Links[i]) \/ (i = Last /\ la'.cm # "Value")
  <2>1. CASE i # Last
    BY <2>1 DEF AssemblerInv, ListInv, Complete
  <2>2. CASE i = Last
    <3>1. Row' = node'.Links[i]
      BY <2>2 DEF Row
    <3> QED BY <2>2, <3>1 DEF Complete
  <2> QED BY <2>1, <2>2
<1> QED BY <1>1, <1>2 DEF ListInv, Complete

\* Tidying the row assembler when it is ready lets go of ca_Hash.
LEMMA LinkTidy ==
  ASSUME AssemblerInv, Level = "type", LinkHeld, LinkReady
  PROVE  /\ la.state = "midValue" /\ la.cm = "midvalue"
         /\ LinkTidied \in VaType
         /\ LinkTidied.state = "initial" /\ LinkTidied.s = va.s /\ LinkTidied.f = va.f
         /\ LinkTidied.cm # "Value" /\ LinkTidied.hash = 0
         /\ \A k \in LinkFields : k \in va.s <=> Row[k] # Unset
<1>1. va.state \in {"initial", "midValue"}
  BY DEF LinkReady
<1>2. la.state = "midValue" /\ la.cm = "midvalue"
  BY <1>1 DEF LinkHeld, RowHeld
<1>3. LinkTidied \in VaType
  <2>1. CASE LinkTidies("Hash")
    <3>1. LinkTidied = [va EXCEPT !.state = "initial", !.cm = "Absent", !.hash = 0]
      BY <2>1 DEF LinkTidied
    <3>2. va \in VaType /\ "initial" \in MaState /\ "Absent" \in Maybe /\ 0 \in Int
      BY DEF AssemblerInv, TypeOK, VaType, Maybe, MaState
    <3> QED BY <3>1, <3>2 DEF VaType
  <2>2. CASE ~LinkTidies("Hash")
    <3>1. LinkTidied = [va EXCEPT !.state = "initial", !.cm = @, !.hash = @]
      BY <2>2 DEF LinkTidied, LinkTidies
    <3> QED BY <3>1 DEF AssemblerInv, TypeOK, VaType, MaState
  <2> QED BY <2>1, <2>2
<1>4. LinkTidied.state = "initial" /\ LinkTidied.s = va.s /\ LinkTidied.f = va.f
  BY DEF AssemblerInv, TypeOK, LinkTidied
<1>5. LinkTidied.cm # "Value"
  BY <1>1 DEF AssemblerInv, TypeOK, RowInv, LinkTidied, LinkTidies, Pending
<1>6. LinkTidied.hash = 0
  BY <1>1 DEF AssemblerInv, TypeOK, RowInv, LinkTidied, LinkTidies, Pending
<1>7. ASSUME NEW k \in LinkFields PROVE k \in va.s <=> Row[k] # Unset
  <2>1. CASE va.state = "initial"
    BY <1>2, <2>1 DEF AssemblerInv, RowInv, RowFieldsRecorded, Pending
  <2>2. CASE va.state = "midValue"
    BY <1>2, <2>2
       DEF AssemblerInv, RowInv, RowFieldsRecorded, Pending, LinkReady, LinkValueDone, LinkFields
  <2> QED BY <1>1, <2>1, <2>2
<1> QED BY <1>2, <1>3, <1>4, <1>5, <1>6, <1>7

\* A step of the row assembler alone, the row itself untouched.
LEMMA RowOnly ==
  ASSUME AssemblerInv, la.state = "midValue", UNCHANGED <<node, na>>,
         va' \in VaType, res' \in {"ok", "err", "panic"},
         la' \in [w : BOOLEAN, state : LaState, cm : Maybe],
         la'.state = la.state, la'.w = la.w,
         la'.cm # "Value" \/ Complete(Row)
  PROVE  TypeOK' /\ NodeInv' /\ ListInv'
<1>1. TypeOK'
  BY DEF AssemblerInv, TypeOK, VaType
<1>2. Last' = Last /\ Row' = Row
  BY DEF Last, Row
<1>3. NodeInv'
  BY AboveRow
<1>4. ListInv'
  BY <1>2, RowStepList
<1> QED BY <1>1, <1>3, <1>4

\* The row in progress exists.
LEMMA RowTyped ==
  ASSUME AssemblerInv, la.state = "midValue"
  PROVE  Row \in PBLink
BY DEF AssemblerInv, TypeOK, PBNode, ListInv, Last, Row

\* Name or Tsize of the row in progress gets its value.
LEMMA LeafWrite ==
  ASSUME AssemblerInv, LinkHeld, UNCHANGED <<na, la, va>>, res' = "ok",
         NEW k \in {"Name", "Tsize"}, Given(va, k),
         NEW l \in PBLink, l[k] # Unset, \A j \in LinkFields : j # k => l[j] = Row[j],
         node' = [node EXCEPT !.Links = [@ EXCEPT ![Last] = l]]
  PROVE  AssemblerInv'
<1>1. la.state = "midValue"
  BY DEF LinkHeld, RowHeld
<1>2. /\ node' \in PBNode /\ node'.Data = node.Data
      /\ Last' = Last /\ Row' = l
      /\ \A i \in 1..Last : i # Last => node'.Links[i] = node.Links[i]
  BY <1>1, RowWrite
<1>3. TypeOK'
  BY <1>2 DEF AssemblerInv, TypeOK
<1>4. NodeInv'
  BY <1>1, <1>2, AboveRow
<1>5. l.Hash = Row.Hash
  BY DEF LinkFields
<1>6. la.cm # "Absent" /\ k \in va.s
  BY <1>1 DEF Given, AssemblerInv, RowInv
<1>7. la.cm = "Value" => Complete(Row)
  BY <1>1 DEF AssemblerInv, ListInv, Complete, Row, TypeOK, PBNode, Last
<1>8. ListInv'
  BY <1>1, <1>2, <1>5, <1>7, RowStepList DEF Complete
<1>9. RowInv'
  <2>1. RowFieldsRecorded'
    BY <1>2, <1>6 DEF AssemblerInv, RowInv, RowFieldsRecorded, Pending
  <2>2. va'.state = "finished" => la'.cm = "Value" /\ \A j \in va'.s : Row'[j] # Unset
    <3>1. va.s \subseteq LinkFields
      BY DEF AssemblerInv, TypeOK
    <3> QED BY <1>2, <3>1 DEF AssemblerInv, RowInv
  <2> QED BY <1>2, <1>5, <1>6, <2>1, <2>2 DEF AssemblerInv, RowInv, Pending
<1> QED BY <1>3, <1>4, <1>8, <1>9 DEF AssemblerInv

\* So does every call on the assembler of the row in progress or on its leaves.
LEMMA LinkCallKeeps ==
  ASSUME AssemblerInv, Level = "type", LinkCall
  PROVE  AssemblerInv'
<1>1. ASSUME RowHeld, LinkBeginMap PROVE AssemblerInv'
  <2>1. CASE la.cm # "Absent"
    BY <1>1, <2>1, Refused DEF LinkBeginMap
  <2>2. CASE la.cm = "Absent"
    <3>1. /\ la' = [la EXCEPT !.cm = "midvalue"]
          /\ res' = "ok"
          /\ UNCHANGED <<node, na, va>>
      BY <1>1, <2>2 DEF LinkBeginMap
    <3>2. la' \in [w : BOOLEAN, state : LaState, cm : Maybe] /\ la'.cm = "midvalue"
          /\ la'.state = la.state /\ la'.w = la.w /\ va' \in VaType
      BY <3>1 DEF AssemblerInv, TypeOK, Maybe, VaType
    <3>3. TypeOK' /\ NodeInv' /\ ListInv'
      BY <1>1, <3>1, <3>2, RowOnly DEF RowHeld
    <3>4. Row' = Row /\ Row = NewLink /\ va.state = "initial" /\ va.s = {}
      BY <1>1, <2>2, <3>1 DEF RowHeld, AssemblerInv, RowInv, Row, Last
    <3>5. RowInv'
      BY <3>1, <3>2, <3>4
         DEF AssemblerInv, RowInv, RowFieldsRecorded, Pending, NewLink, LinkFields
    <3> QED BY <3>3, <3>5 DEF AssemblerInv
  <2> QED BY <2>1, <2>2
<1>2. ASSUME AssignNull(la.cm) PROVE AssemblerInv'
  BY <1>2, Refused DEF AssignNull
<1>3. ASSUME NEW l \in TypedLinks, RowHeld, LinkAssignTyped(l) PROVE AssemblerInv'
  <2>1. CASE la.cm # "Absent"
    BY <1>3, <2>1, Refused DEF LinkAssignTyped
  <2>2. CASE la.cm = "Absent"
    <3>1. /\ node' = [node EXCEPT !.Links = [@ EXCEPT ![Last] = l]]
          /\ la' = [la EXCEPT !.cm = "Value"]
          /\ res' = "ok"
          /\ UNCHANGED <<na, va>>
      BY <1>3, <2>2 DEF LinkAssignTyped
    <3>2. l \in PBLink /\ Complete(l)
      BY TypedAssumption
    <3>3. /\ node' \in PBNode /\ node'.Data = node.Data
          /\ Last' = Last /\ Row' = l
          /\ \A i \in 1..Last : i # Last => node'.Links[i] = node.Links[i]
      BY <1>3, <3>1, <3>2, RowWrite DEF RowHeld
    <3>4. la' \in [w : BOOLEAN, state : LaState, cm : Maybe] /\ la'.cm = "Value"
          /\ la'.state = la.state /\ la'.w = la.w
      BY <3>1 DEF AssemblerInv, TypeOK, Maybe
    <3>5. TypeOK'
      BY <3>1, <3>3, <3>4 DEF AssemblerInv, TypeOK
    <3>6. NodeInv'
      BY <1>3, <3>1, <3>3, AboveRow DEF RowHeld
    <3>7. ListInv'
      BY <1>3, <3>1, <3>2, <3>3, <3>4, RowStepList DEF RowHeld
    <3>8. va.state = "initial" /\ va.hash = 0 /\ va.cm # "Value"
      BY <2>2 DEF AssemblerInv, RowInv
    <3>9. RowInv'
      BY <3>1, <3>4, <3>8 DEF RowInv, RowFieldsRecorded, Pending
    <3> QED BY <3>5, <3>6, <3>7, <3>9 DEF AssemblerInv
  <2> QED BY <2>1, <2>2
<1>4. ASSUME LinkHeld, LinkAssembleKey PROVE AssemblerInv'
  <2>1. CASE ~LinkReady
    BY <1>4, <2>1, Refused DEF LinkAssembleKey
  <2>2. CASE LinkReady
    <3>1. /\ va' = [LinkTidied EXCEPT !.state = "midKey"]
          /\ res' = "ok"
          /\ UNCHANGED <<node, na, la>>
      BY <1>4, <2>2 DEF LinkAssembleKey
    <3>2. /\ va' \in VaType
          /\ va'.state = "midKey" /\ va'.s = va.s /\ va'.f = va.f
          /\ va'.cm # "Value" /\ va'.hash = 0
      BY <1>4, <2>2, <3>1, LinkTidy DEF VaType, MaState
    <3>3. TypeOK' /\ NodeInv' /\ ListInv'
      BY <1>4, <2>2, <3>1, <3>2, LinkTidy, RowOnly DEF AssemblerInv, TypeOK
    <3>4. RowInv'
      BY <1>4, <2>2, <3>1, <3>2, LinkTidy DEF RowInv, RowFieldsRecorded, Pending, Row, Last
    <3> QED BY <3>3, <3>4 DEF AssemblerInv
  <2> QED BY <2>1, <2>2
<1>5. ASSUME NEW k \in AnyKey, LinkHeld, LinkAssignKey(k) PROVE AssemblerInv'
  <2>1. CASE Panic \/ Fail
    BY <2>1, Refused
  <2>2. CASE /\ va.state = "midKey"
             /\ k \in LinkFields \ va.s
             /\ va' = [va EXCEPT !.state = "expectValue", !.s = @ \cup {k}, !.f = k]
             /\ res' = "ok"
             /\ UNCHANGED <<node, na, la>>
    <3>1. /\ va' \in VaType
          /\ va'.state = "expectValue" /\ va'.s = va.s \cup {k} /\ va'.f = k
          /\ va'.cm = va.cm /\ va'.hash = va.hash
      BY <2>2 DEF AssemblerInv, TypeOK, VaType, MaState
    <3>2. la.state = "midValue" /\ la.cm = "midvalue" /\ va.cm # "Value" /\ va.hash = 0
      BY <1>5, <2>2 DEF LinkHeld, RowHeld, AssemblerInv, RowInv
    <3>3. TypeOK' /\ NodeInv' /\ ListInv'
      BY <2>2, <3>1, <3>2, RowOnly DEF AssemblerInv, TypeOK
    <3>4. \A j \in LinkFields : j \in va.s <=> Row[j] # Unset
      BY <2>2, <3>2 DEF AssemblerInv, RowInv, RowFieldsRecorded, Pending
    <3>5. RowInv'
      BY <2>2, <3>1, <3>2, <3>4
         DEF RowInv, RowFieldsRecorded, Pending, Row, Last, LinkFields
    <3> QED BY <3>3, <3>5 DEF AssemblerInv
  <2> QED BY <1>5, <2>1, <2>2 DEF LinkAssignKey, LinkFree
<1>6. ASSUME NEW k \in AnyKey, LinkHeld, LinkAssembleEntry(k) PROVE AssemblerInv'
  <2>1. CASE ~LinkReady
    BY <1>6, <2>1, Refused DEF LinkAssembleEntry, LinkFree
  <2>2. CASE LinkReady /\ k \notin LinkFields \ va.s
    <3>1. /\ va' = LinkTidied
          /\ res' = "err"
          /\ UNCHANGED <<node, na, la>>
      BY <1>6, <2>2 DEF LinkAssembleEntry, LinkFree
    <3>2. TypeOK' /\ NodeInv' /\ ListInv'
      BY <1>6, <2>2, <3>1, LinkTidy, RowOnly DEF AssemblerInv, TypeOK
    <3>3. RowInv'
      BY <1>6, <2>2, <3>1, LinkTidy DEF RowInv, RowFieldsRecorded, Pending, Row, Last
    <3> QED BY <3>2, <3>3 DEF AssemblerInv
  <2>3. CASE LinkReady /\ k \in LinkFields \ va.s
    <3>1. /\ va' = [LinkTidied EXCEPT !.state = "midValue", !.s = @ \cup {k}, !.f = k,
                                      !.hash = IF k = "Hash" THEN Last ELSE @]
          /\ res' = "ok"
          /\ UNCHANGED <<node, na, la>>
      BY <1>6, <2>3 DEF LinkAssembleEntry, LinkFree
    <3>2. Last \in Int
      BY DEF AssemblerInv, TypeOK, PBNode, Last
    <3>3. /\ va' \in VaType
          /\ va'.state = "midValue" /\ va'.s = va.s \cup {k} /\ va'.f = k
          /\ va'.cm # "Value" /\ va'.hash = IF k = "Hash" THEN Last ELSE 0
      BY <1>6, <2>3, <3>1, <3>2, LinkTidy DEF VaType, MaState
    <3>4. TypeOK' /\ NodeInv' /\ ListInv'
      BY <1>6, <2>3, <3>1, <3>3, LinkTidy, RowOnly DEF AssemblerInv, TypeOK
    <3>5. RowInv'
      BY <1>6, <2>3, <3>1, <3>3, LinkTidy
         DEF RowInv, RowFieldsRecorded, Pending, Row, Last, LinkFields
    <3> QED BY <3>4, <3>5 DEF AssemblerInv
  <2> QED BY <2>1, <2>2, <2>3
<1>7. ASSUME LinkHeld, LinkAssembleValue PROVE AssemblerInv'
  <2>1. CASE va.state # "expectValue"
    BY <1>7, <2>1, Refused DEF LinkAssembleValue
  <2>2. CASE va.state = "expectValue"
    <3>1. /\ va' = [va EXCEPT !.state = "midValue",
                              !.hash = IF va.f = "Hash" THEN Last ELSE @]
          /\ res' = "ok"
          /\ UNCHANGED <<node, na, la>>
      BY <1>7, <2>2 DEF LinkAssembleValue
    <3>2. la.state = "midValue" /\ la.cm = "midvalue" /\ va.cm # "Value" /\ va.hash = 0
      BY <1>7, <2>2 DEF LinkHeld, RowHeld, AssemblerInv, RowInv
    <3>3. Last \in Int
      BY DEF AssemblerInv, TypeOK, PBNode, Last
    <3>4. /\ va' \in VaType
          /\ va'.state = "midValue" /\ va'.s = va.s /\ va'.f = va.f
          /\ va'.cm = va.cm /\ va'.hash = IF va.f = "Hash" THEN Last ELSE 0
      BY <3>1, <3>2, <3>3 DEF AssemblerInv, TypeOK, VaType, MaState
    <3>5. TypeOK' /\ NodeInv' /\ ListInv'
      BY <3>1, <3>2, <3>4, RowOnly DEF AssemblerInv, TypeOK
    <3>6. RowInv'
      BY <2>2, <3>1, <3>2, <3>4 DEF AssemblerInv, RowInv, RowFieldsRecorded, Pending, Row, Last
    <3> QED BY <3>5, <3>6 DEF AssemblerInv
  <2> QED BY <2>1, <2>2
<1>8. ASSUME LinkHeld, LinkFinish PROVE AssemblerInv'
  <2>1. CASE ~LinkReady
    BY <1>8, <2>1, Refused DEF LinkFinish
  <2>2. CASE LinkReady /\ "Hash" \notin va.s
    <3>1. /\ va' = LinkTidied
          /\ res' = "err"
          /\ UNCHANGED <<node, na, la>>
      BY <1>8, <2>2 DEF LinkFinish
    <3>2. TypeOK' /\ NodeInv' /\ ListInv'
      BY <1>8, <2>2, <3>1, LinkTidy, RowOnly DEF AssemblerInv, TypeOK
    <3>3. RowInv'
      BY <1>8, <2>2, <3>1, LinkTidy DEF RowInv, RowFieldsRecorded, Pending, Row, Last
    <3> QED BY <3>2, <3>3 DEF AssemblerInv
  <2>3. CASE LinkReady /\ "Hash" \in va.s
    <3>1. /\ va' = [LinkTidied EXCEPT !.state = "finished"]
          /\ la' = [la EXCEPT !.cm = "Value"]
          /\ res' = "ok"
          /\ UNCHANGED <<node, na>>
      BY <1>8, <2>3 DEF LinkFinish
    <3>2. /\ va' \in VaType
          /\ va'.state = "finished" /\ va'.cm # "Value" /\ va'.hash = 0
      BY <1>8, <2>3, <3>1, LinkTidy DEF VaType, MaState
    <3>3. Complete(Row)
      BY <1>8, <2>3, LinkTidy DEF Complete, LinkFields
    <3>4. la' \in [w : BOOLEAN, state : LaState, cm : Maybe] /\ la'.cm = "Value"
          /\ la'.state = la.state /\ la'.w = la.w
      BY <3>1 DEF AssemblerInv, TypeOK, Maybe
    <3>5. TypeOK' /\ NodeInv' /\ ListInv'
      BY <1>8, <2>3, <3>1, <3>2, <3>3, <3>4, LinkTidy, RowOnly
    <3>6. \A k \in va'.s : Row'[k] # Unset
      BY <1>8, <2>3, <3>1, <3>2, LinkTidy DEF VaType, Row, Last
    <3>7. RowInv'
      BY <3>2, <3>4, <3>6 DEF RowInv, RowFieldsRecorded, Pending
    <3> QED BY <3>5, <3>7 DEF AssemblerInv
  <2> QED BY <2>1, <2>2, <2>3
<1>9. ASSUME NEW n \in Names, LinkHeld, Given(va, "Name"), NameAssignString(n)
      PROVE  AssemblerInv'
  <2>1. CASE Row.Name # Unset
    BY <1>9, <2>1, Refused DEF NameAssignString
  <2>2. CASE Row.Name = Unset
    <3>1. node' = [node EXCEPT !.Links[Last].Name = n] /\ res' = "ok" /\ UNCHANGED <<na, la, va>>
      BY <1>9, <2>2 DEF NameAssignString
    <3>2. [Row EXCEPT !.Name = n] \in PBLink
      BY <1>9, RowTyped DEF LinkHeld, RowHeld, PBLink
    <3>3. node' = [node EXCEPT !.Links = [@ EXCEPT ![Last] = [Row EXCEPT !.Name = n]]]
      BY <3>1 DEF Row
    <3> QED BY <1>9, <3>1, <3>2, <3>3, LeafWrite, ValuesAssumption, RowTyped
           DEF LinkFields, LinkHeld, RowHeld, PBLink
  <2> QED BY <2>1, <2>2
<1>10. ASSUME NEW v \in Tsizes, LinkHeld, Given(va, "Tsize"), TsizeAssignInt(v)
       PROVE  AssemblerInv'
  <2>1. CASE Row.Tsize # Unset
    BY <1>10, <2>1, Refused DEF TsizeAssignInt
  <2>2. CASE Row.Tsize = Unset
    <3>1. node' = [node EXCEPT !.Links[Last].Tsize = v] /\ res' = "ok" /\ UNCHANGED <<na, la, va>>
      BY <1>10, <2>2 DEF TsizeAssignInt
    <3>2. [Row EXCEPT !.Tsize = v] \in PBLink
      BY <1>10, RowTyped DEF LinkHeld, RowHeld, PBLink
    <3>3. node' = [node EXCEPT !.Links = [@ EXCEPT ![Last] = [Row EXCEPT !.Tsize = v]]]
      BY <3>1 DEF Row
    <3> QED BY <1>10, <3>1, <3>2, <3>3, LeafWrite, ValuesAssumption, RowTyped
           DEF LinkFields, LinkHeld, RowHeld, PBLink
  <2> QED BY <2>1, <2>2
<1>11. ASSUME NEW h \in Hashes, va.hash # 0 \/ LinkHeld, HashAssignLink(h)
       PROVE  AssemblerInv'
  <2>1. CASE va.cm = "Value" \/ va.hash = 0
    BY <1>11, <2>1, Refused DEF HashAssignLink
  <2>2. CASE va.cm # "Value" /\ va.hash # 0
    <3>1. va.hash = Last /\ va.state = "midValue" /\ va.f = "Hash" /\ la.cm = "midvalue"
          /\ la.state = "midValue"
      BY <2>2 DEF AssemblerInv, RowInv, Pending, ListInv
    <3>2. /\ node' = [node EXCEPT !.Links[Last].Hash = h]
          /\ va' = [va EXCEPT !.cm = "Value"] /\ res' = "ok" /\ UNCHANGED <<na, la>>
      BY <1>11, <2>2, <3>1 DEF HashAssignLink
    <3>3. [Row EXCEPT !.Hash = h] \in PBLink
      BY <1>11, <3>1, RowTyped DEF PBLink
    <3>4. node' = [node EXCEPT !.Links = [@ EXCEPT ![Last] = [Row EXCEPT !.Hash = h]]]
      BY <3>2 DEF Row
    <3>5. /\ node' \in PBNode /\ node'.Data = node.Data
          /\ Last' = Last /\ Row' = [Row EXCEPT !.Hash = h]
          /\ \A i \in 1..Last : i # Last => node'.Links[i] = node.Links[i]
      BY <3>1, <3>3, <3>4, RowWrite
    <3>6. /\ va' \in VaType /\ va'.state = "midValue" /\ va'.f = "Hash" /\ va'.s = va.s
          /\ va'.cm = "Value" /\ va'.hash = Last
      BY <3>1, <3>2 DEF AssemblerInv, TypeOK, VaType, Maybe
    <3>7. Row'.Hash = h /\ h # Unset /\ Row'.Name = Row.Name /\ Row'.Tsize = Row.Tsize
      BY <1>11, <3>1, <3>5, RowTyped, ValuesAssumption DEF PBLink
    <3>8. TypeOK'
      BY <3>2, <3>5, <3>6 DEF AssemblerInv, TypeOK, VaType
    <3>9. NodeInv'
      BY <3>1, <3>2, <3>5, AboveRow
    <3>10. ListInv'
      BY <3>1, <3>2, <3>5, RowStepList
    <3>11. "Hash" \in va.s
      BY <3>1, <2>2 DEF AssemblerInv, RowInv
    <3>12. RowInv'
      <4>1. \A k \in LinkFields :
              /\ Row'[k] # Unset => k \in va.s
              /\ k \in va.s /\ k # "Hash" => Row'[k] # Unset
        BY <3>1, <3>7, <3>11 DEF AssemblerInv, RowInv, RowFieldsRecorded, Pending, LinkFields
      <4>2. la'.cm = "midvalue" /\ Row'.Hash # Unset /\ va'.hash = Last'
        BY <3>1, <3>2, <3>5, <3>6, <3>7
      <4>3. RowFieldsRecorded'
        BY <3>6, <4>1 DEF RowFieldsRecorded, Pending
      <4> QED BY <3>6, <3>11, <4>2, <4>3 DEF RowInv, Pending
    <3> QED BY <3>8, <3>9, <3>10, <3>12 DEF AssemblerInv
  <2> QED BY <2>1, <2>2
<1> QED
  BY <1>1, <1>2, <1>3, <1>4, <1>5, <1>6, <1>7, <1>8, <1>9, <1>10, <1>11 DEF LinkCall

-----------------------------------------------------------------------------
(* What a step adds to the node *)

LEMMA NothingLost ==
  ASSUME AssemblerInv, node' = node
  PROVE  Grown
BY DEF Grown, Kept, AssemblerInv, TypeOK, PBNode

LEMMA RowGrows ==
  ASSUME AssemblerInv, la.state = "midValue", NEW l \in PBLink,
         node' = [node EXCEPT !.Links = [@ EXCEPT ![Last] = l]],
         \A k \in LinkFields : Kept(Row[k], l[k])
  PROVE  Grown
<1>1. /\ node'.Data = node.Data /\ Last' = Last /\ Last \in Nat /\ Last > 0 /\ Row' = l
      /\ \A i \in 1..Last : i # Last => node'.Links[i] = node.Links[i]
  BY RowWrite
<1>2. ASSUME NEW i \in 1..Last, NEW k \in LinkFields
      PROVE  Kept(node.Links[i][k], node'.Links[i][k])
  <2>1. CASE i = Last
    BY <1>1, <2>1 DEF Row
  <2>2. CASE i # Last
    BY <1>1, <2>2 DEF Kept
  <2> QED BY <2>1, <2>2
<1> QED BY <1>1, <1>2 DEF Grown, Kept, Last

LEMMA NodeCallGrows ==
  ASSUME AssemblerInv, NodeCall
  PROVE  Grown
<1>1. CASE node' = node
  BY <1>1, NothingLost
<1>2. ASSUME NEW n \in TypedNodes, NodeAssignTyped(n), node' # node PROVE Grown
  <2>1. node = EmptyNode /\ node' = n
    BY <1>2 DEF NodeAssignTyped, Panic, asm, AssemblerInv, NodeInv
  <2>2. node'.Links \in Seq(PBLink)
    BY <2>1, TypedAssumption DEF PBNode
  <2> QED BY <2>1, <2>2 DEF Grown, Kept, EmptyNode
<1>3. ASSUME NEW c \in Chunks, DataAssignBytes(c), node' # node PROVE Grown
  <2>1. node.Data = Unset /\ node' = [node EXCEPT !.Data = c]
    BY <1>3 DEF DataAssignBytes, Panic, asm
  <2>2. node \in PBNode /\ node'.Links = node.Links
    BY <2>1 DEF AssemblerInv, TypeOK, PBNode
  <2> QED BY <2>1, <2>2 DEF Grown, Kept, PBNode
<1>4. \/ node' = node
      \/ \E n \in TypedNodes : NodeAssignTyped(n)
      \/ \E c \in Chunks : DataAssignBytes(c)
  BY DEF NodeCall, Panic, Fail, asm, AssignNull, WrongKind, NodeBeginMap, NodeAssembleKey,
         NodeAssignKey, NodeAssembleEntry, NodeAssembleValue, NodeFinish
<1> QED BY <1>1, <1>2, <1>3, <1>4

LEMMA LinksCallGrows ==
  ASSUME AssemblerInv, Level = "type", LinksCall
  PROVE  Grown
<1> USE DEF AssemblerInv
<1>1. CASE node' = node
  BY <1>1, NothingLost
<1>2. la.w /\ na.cm = "Absent" => node.Links = <<>>
  BY DEF NodeInv, ListInv, Pending
<1>3. ASSUME NEW xs, node' = [node EXCEPT !.Links = xs], xs \in Seq(PBLink),
             la.w, na.cm = "Absent"
      PROVE  Grown
  <2>1. node.Links = <<>> /\ node'.Links = xs /\ node'.Data = node.Data
    BY <1>2, <1>3 DEF TypeOK, PBNode
  <2> QED BY <2>1, <1>3 DEF Grown, Kept
<1>4. ASSUME LinksAssembleValue, node' # node PROVE Grown
  <2>1. node' = [node EXCEPT !.Links = Append(@, NewLink)]
    BY <1>4 DEF LinksAssembleValue, Panic, asm
  <2>2. node.Links \in Seq(PBLink) /\ node'.Links = Append(node.Links, NewLink)
        /\ node'.Data = node.Data
    BY <2>1 DEF TypeOK, PBNode
  <2>3. NewLink \in PBLink
    BY DEF NewLink, PBLink
  <2>4. Len(node'.Links) = Len(node.Links) + 1
        /\ \A i \in 1..Len(node.Links) : node'.Links[i] = node.Links[i]
    BY <2>2, <2>3
  <2> QED BY <2>2, <2>4 DEF Grown, Kept
<1>5. ASSUME NEW hint \in {0, 1}, LinksBeginList(hint), node' # node PROVE Grown
  <2>1. la.w /\ na.cm = "Absent" /\ node' = [node EXCEPT !.Links = <<>>]
    BY <1>5 DEF LinksBeginList, Panic, asm
  <2>2. <<>> \in Seq(PBLink)
    OBVIOUS
  <2> QED BY <1>3, <2>1, <2>2
<1>6. ASSUME NEW n \in TypedNodes, LinksAssignTyped(n.Links), node' # node PROVE Grown
  <2>1. n.Links \in Seq(PBLink)
    BY TypedAssumption DEF PBNode
  <2> QED BY <1>3, <1>6, <2>1 DEF LinksAssignTyped, Panic, asm
<1>7. \/ node' = node
      \/ \E hint \in {0, 1} : LinksBeginList(hint)
      \/ \E n \in TypedNodes : LinksAssignTyped(n.Links)
      \/ LinksAssembleValue
  BY DEF LinksCall, Panic, Fail, asm, AssignNull, LinksFinish
<1> QED BY <1>1, <1>4, <1>5, <1>6, <1>7

LEMMA LinkCallGrows ==
  ASSUME AssemblerInv, LinkCall
  PROVE  Grown
<1> USE DEF AssemblerInv
<1>1. CASE node' = node
  BY <1>1, NothingLost
<1>2. ASSUME NEW l \in TypedLinks, RowHeld, LinkAssignTyped(l), node' # node PROVE Grown
  <2>1. /\ la.cm = "Absent" /\ la.state = "midValue"
        /\ node' = [node EXCEPT !.Links = [@ EXCEPT ![Last] = l]]
    BY <1>2 DEF LinkAssignTyped, Panic, asm, RowHeld
  <2>2. Row = NewLink
    BY <2>1 DEF RowInv
  <2>3. \A k \in LinkFields : Kept(Row[k], l[k])
    BY <2>2 DEF NewLink, Kept, LinkFields
  <2> QED BY <2>1, <2>3, RowGrows, TypedAssumption
<1>3. ASSUME NEW f \in LinkFields, NEW l \in PBLink, la.state = "midValue", Row[f] = Unset,
             l = [Row EXCEPT ![f] = l[f]],
             node' = [node EXCEPT !.Links = [@ EXCEPT ![Last] = l]]
      PROVE  Grown
  <2>1. Row \in PBLink
    BY <1>3, RowTyped
  <2>2. \A k \in LinkFields : Kept(Row[k], l[k])
    BY <1>3, <2>1 DEF Kept, PBLink, LinkFields
  <2> QED BY <1>3, <2>2, RowGrows
<1>4. ASSUME NEW n \in Names, LinkHeld, NameAssignString(n), node' # node PROVE Grown
  <2> DEFINE l == [Row EXCEPT !.Name = n]
  <2>1. /\ la.state = "midValue" /\ Row.Name = Unset
        /\ node' = [node EXCEPT !.Links = [@ EXCEPT ![Last] = l]]
    BY <1>4 DEF NameAssignString, Panic, asm, LinkHeld, RowHeld, Row
  <2>2. Row \in PBLink
    BY <2>1, RowTyped
  <2>3. l \in PBLink /\ l = [Row EXCEPT !["Name"] = l["Name"]]
    BY <2>2 DEF PBLink
  <2> QED BY <1>3, <2>1, <2>3 DEF LinkFields
<1>5. ASSUME NEW t \in Tsizes, LinkHeld, TsizeAssignInt(t), node' # node PROVE Grown
  <2> DEFINE l == [Row EXCEPT !.Tsize = t]
  <2>1. /\ la.state = "midValue" /\ Row.Tsize = Unset
        /\ node' = [node EXCEPT !.Links = [@ EXCEPT ![Last] = l]]
    BY <1>5 DEF TsizeAssignInt, Panic, asm, LinkHeld, RowHeld, Row
  <2>2. Row \in PBLink
    BY <2>1, RowTyped
  <2>3. l \in PBLink /\ l = [Row EXCEPT !["Tsize"] = l["Tsize"]]
    BY <2>2 DEF PBLink
  <2> QED BY <1>3, <2>1, <2>3 DEF LinkFields
<1>6. ASSUME NEW h \in Hashes, HashAssignLink(h), node' # node PROVE Grown
  <2> DEFINE l == [Row EXCEPT !.Hash = h]
  <2>1. /\ va.hash # 0 /\ va.cm # "Value" /\ va.hash \in 1..Last
        /\ node' = [node EXCEPT !.Links[va.hash].Hash = h]
    BY <1>6 DEF HashAssignLink, Panic, asm
  <2>2. /\ Pending(va, "Hash") /\ va.state = "midValue" /\ va.hash = Last /\ Row.Hash = Unset
    BY <2>1 DEF RowInv
  <2>3. la.cm = "midvalue" /\ la.state = "midValue"
    BY <2>2 DEF RowInv, ListInv
  <2>4. node' = [node EXCEPT !.Links = [@ EXCEPT ![Last] = l]]
    BY <2>1, <2>2 DEF Row
  <2>5. Row \in PBLink
    BY <2>3, RowTyped
  <2>6. l \in PBLink /\ l = [Row EXCEPT !["Hash"] = l["Hash"]]
    BY <2>5 DEF PBLink
  <2> QED BY <1>3, <2>2, <2>3, <2>4, <2>6 DEF LinkFields
<1>7. \/ node' = node
      \/ \E l \in TypedLinks : RowHeld /\ LinkAssignTyped(l)
      \/ \E n \in Names : LinkHeld /\ NameAssignString(n)
      \/ \E t \in Tsizes : LinkHeld /\ TsizeAssignInt(t)
      \/ \E h \in Hashes : HashAssignLink(h)
  BY DEF LinkCall, Panic, Fail, asm, AssignNull, LinkBeginMap, LinkAssembleKey, LinkAssignKey,
         LinkAssembleEntry, LinkAssembleValue, LinkFinish
<1> QED BY <1>1, <1>2, <1>4, <1>5, <1>6, <1>7

-----------------------------------------------------------------------------
(* What holds at either level *)

\* A write to a row, whether there is one or not.
LEMMA RowTypeKept ==
  ASSUME node \in PBNode, NEW i, NEW l, i \in 1..Last => l \in PBLink,
         node' = [node EXCEPT !.Links = [@ EXCEPT ![i] = l]]
  PROVE  node' \in PBNode
<1>1. node.Links \in Seq(PBLink)
  BY DEF PBNode
<1>2. [node.Links EXCEPT ![i] = l] \in Seq(PBLink)
  <2>1. CASE i \in 1..Last
    BY <1>1, <2>1 DEF Last
  <2>2. CASE i \notin 1..Last
    <3>1. [node.Links EXCEPT ![i] = l] = node.Links
      BY <1>1, <2>2 DEF Last
    <3> QED BY <1>1, <3>1
  <2> QED BY <2>1, <2>2
<1> QED BY <1>2 DEF PBNode

LEMMA NodeTypeKept ==
  ASSUME TypeOK, [Next]_vars
  PROVE  node' \in PBNode
<1>1. node \in PBNode /\ node.Links \in Seq(PBLink) /\ node.Data \in Chunks \cup {Unset}
  BY DEF TypeOK, PBNode
<1>2. CASE node' = node
  BY <1>1, <1>2
<1>3. CASE Reset
  BY <1>3 DEF Reset, Fresh, EmptyNode, PBNode
<1>4. ASSUME NEW n \in TypedNodes, NodeAssignTyped(n) \/ LinksAssignTyped(n.Links)
      PROVE  node' \in PBNode
  BY <1>1, <1>4, TypedAssumption DEF NodeAssignTyped, LinksAssignTyped, Panic, asm, PBNode
<1>5. ASSUME NEW c \in Chunks, DataAssignBytes(c) PROVE node' \in PBNode
  BY <1>1, <1>5 DEF DataAssignBytes, Panic, asm, PBNode
<1>6. ASSUME NEW hint \in {0, 1}, LinksBeginList(hint) PROVE node' \in PBNode
  <2>1. node' = node \/ node' = [node EXCEPT !.Links = <<>>]
    BY <1>6 DEF LinksBeginList, Panic, asm
  <2>2. <<>> \in Seq(PBLink)
    OBVIOUS
  <2> QED BY <1>1, <2>1, <2>2 DEF PBNode
<1>7. ASSUME LinksAssembleValue PROVE node' \in PBNode
  <2>1. NewLink \in PBLink
    BY DEF NewLink, PBLink
  <2>2. node' = node \/ node' = [node EXCEPT !.Links = Append(@, NewLink)]
    BY <1>7 DEF LinksAssembleValue, Panic, asm
  <2>3. Append(node.Links, NewLink) \in Seq(PBLink)
    BY <1>1, <2>1
  <2> QED BY <1>1, <2>2, <2>3 DEF PBNode
<1>8. ASSUME NEW l \in TypedLinks, LinkAssignTyped(l) PROVE node' \in PBNode
  <2>1. node' = node \/ node' = [node EXCEPT !.Links = [@ EXCEPT ![Last] = l]]
    BY <1>8 DEF LinkAssignTyped, Panic, asm
  <2> QED BY <1>1, <2>1, RowTypeKept, TypedAssumption
<1>9. ASSUME NEW i \in 1..Last PROVE node.Links[i] \in PBLink
  BY <1>1 DEF Last
<1>10. ASSUME NEW h \in Hashes, HashAssignLink(h) PROVE node' \in PBNode
  <2> DEFINE l == [node.Links[va.hash] EXCEPT !.Hash = h]
  <2>1. \/ node' = node
        \/ /\ va.hash \in 1..Last
           /\ node' = [node EXCEPT !.Links = [@ EXCEPT ![va.hash] = l]]
    BY <1>10 DEF HashAssignLink, Panic, asm
  <2>2. va.hash \in 1..Last => l \in PBLink
    BY <1>9 DEF PBLink
  <2> HIDE DEF l
  <2> QED BY <1>1, <2>1, <2>2, RowTypeKept
<1>11. ASSUME NEW n \in Names, NameAssignString(n) PROVE node' \in PBNode
  <2> DEFINE l == [node.Links[Last] EXCEPT !.Name = n]
  <2>1. node' = node \/ node' = [node EXCEPT !.Links = [@ EXCEPT ![Last] = l]]
    BY <1>11 DEF NameAssignString, Panic, asm
  <2>2. Last \in 1..Last => l \in PBLink
    BY <1>9 DEF PBLink
  <2> HIDE DEF l
  <2> QED BY <1>1, <2>1, <2>2, RowTypeKept
<1>12. ASSUME NEW t \in Tsizes, TsizeAssignInt(t) PROVE node' \in PBNode
  <2> DEFINE l == [node.Links[Last] EXCEPT !.Tsize = t]
  <2>1. node' = node \/ node' = [node EXCEPT !.Links = [@ EXCEPT ![Last] = l]]
    BY <1>12 DEF TsizeAssignInt, Panic, asm
  <2>2. Last \in 1..Last => l \in PBLink
    BY <1>9 DEF PBLink
  <2> HIDE DEF l
  <2> QED BY <1>1, <2>1, <2>2, RowTypeKept
<1>13. \/ node' = node \/ Reset \/ LinksAssembleValue
       \/ \E n \in TypedNodes : NodeAssignTyped(n) \/ LinksAssignTyped(n.Links)
       \/ \E c \in Chunks : DataAssignBytes(c)
       \/ \E hint \in {0, 1} : LinksBeginList(hint)
       \/ \E l \in TypedLinks : LinkAssignTyped(l)
       \/ \E h \in Hashes : HashAssignLink(h)
       \/ \E n \in Names : NameAssignString(n)
       \/ \E t \in Tsizes : TsizeAssignInt(t)
  <2>1. CASE NodeCall
    BY <2>1 DEF NodeCall, Panic, Fail, asm, AssignNull, WrongKind, NodeBeginMap, NodeAssembleKey,
                NodeAssignKey, NodeAssembleEntry, NodeAssembleValue, NodeFinish
  <2>2. CASE LinksCall
    BY <2>2 DEF LinksCall, Panic, Fail, asm, AssignNull, LinksFinish
  <2>3. CASE LinkCall
    BY <2>3 DEF LinkCall, Panic, Fail, asm, AssignNull, LinkBeginMap, LinkAssembleKey,
                LinkAssignKey, LinkAssembleEntry, LinkAssembleValue, LinkFinish
  <2> QED BY <2>1, <2>2, <2>3 DEF Next, vars
<1> QED BY <1>2, <1>3, <1>4, <1>5, <1>6, <1>7, <1>8, <1>10, <1>11, <1>12, <1>13

LEMMA NodeCallTypes ==
  ASSUME TypeOK, NodeCall
  PROVE  /\ na' \in NaType /\ la' \in [w : BOOLEAN, state : LaState, cm : Maybe]
         /\ va' = va /\ res' \in {"ok", "err", "panic"}
<1> DEFINE LaType == [w : BOOLEAN, state : LaState, cm : Maybe]
           Typed == na' \in NaType /\ la' \in LaType /\ va' = va /\ res' \in {"ok", "err", "panic"}
<1> USE DEF TypeOK, NaType, Maybe, MaState
<1>1. ASSUME Panic \/ Fail PROVE Typed
  BY <1>1 DEF Panic, Fail, asm
<1>2. NodeTidied \in NaType /\ LinksReleased \in LaType
  BY DEF NodeTidied, LinksReleased
<1>3. ASSUME NodeBeginMap PROVE Typed
  BY <1>1, <1>3 DEF NodeBeginMap
<1>4. ASSUME NEW n \in TypedNodes, NodeAssignTyped(n) PROVE Typed
  BY <1>1, <1>4 DEF NodeAssignTyped
<1>5. ASSUME NodeAssembleKey PROVE Typed
  BY <1>1, <1>2, <1>5 DEF NodeAssembleKey
<1>6. ASSUME NEW k \in AnyKey, NodeAssignKey(k) PROVE Typed
  <2>1. CASE res' # "ok"
    BY <1>1, <1>6, <2>1 DEF NodeAssignKey
  <2>2. CASE res' = "ok"
    <3>1. /\ k \in NodeFields /\ UNCHANGED <<la, va>>
          /\ na' = [na EXCEPT !.state = "expectValue", !.s = @ \cup {k}, !.f = k]
      BY <1>6, <2>2 DEF NodeAssignKey, NodeFree, Panic, Fail
    <3> QED BY <2>2, <3>1
  <2> QED BY <2>1, <2>2
<1>7. ASSUME NEW k \in AnyKey, NodeAssembleEntry(k) PROVE Typed
  <2>1. CASE res' # "ok"
    BY <1>1, <1>2, <1>7, <2>1 DEF NodeAssembleEntry
  <2>2. CASE res' = "ok"
    <3>1. /\ k \in NodeFields /\ va' = va
          /\ na' = [NodeTidied EXCEPT !.state = "midValue", !.s = @ \cup {k}, !.f = k]
          /\ la' = [LinksReleased EXCEPT !.w = @ \/ k = "Links"]
      BY <1>7, <2>2 DEF NodeAssembleEntry, NodeFree, Panic
    <3>2. na' \in NaType
      <4> HIDE DEF NodeTidied
      <4> QED BY <1>2, <3>1
    <3>3. la' \in LaType
      BY <1>2, <3>1
    <3> QED BY <2>2, <3>1, <3>2, <3>3
  <2> QED BY <2>1, <2>2
<1>8. ASSUME NodeAssembleValue PROVE Typed
  BY <1>1, <1>8 DEF NodeAssembleValue
<1>9. ASSUME NodeFinish PROVE Typed
  BY <1>1, <1>2, <1>9 DEF NodeFinish
<1>10. ASSUME NEW c \in Chunks, DataAssignBytes(c) PROVE Typed
  BY <1>1, <1>10 DEF DataAssignBytes
<1> HIDE DEF Typed
<1>11. Typed
  BY <1>1, <1>3, <1>4, <1>5, <1>6, <1>7, <1>8, <1>9, <1>10 DEF NodeCall, AssignNull, WrongKind
<1> QED BY <1>11 DEF Typed

LEMMA LinksCallTypes ==
  ASSUME TypeOK, LinksCall
  PROVE  /\ na' \in NaType /\ la' \in [w : BOOLEAN, state : LaState, cm : Maybe]
         /\ va' \in VaType /\ res' \in {"ok", "err", "panic"}
<1> DEFINE LaType == [w : BOOLEAN, state : LaState, cm : Maybe]
           Typed == /\ na' \in NaType /\ la' \in LaType /\ va' \in VaType
                    /\ res' \in {"ok", "err", "panic"}
<1> USE DEF TypeOK, NaType, VaType, Maybe, MaState, LaState
<1>1. ASSUME Panic \/ Fail PROVE Typed
  BY <1>1 DEF Panic, Fail, asm
<1>2. RowsReplaced \in VaType /\ RowReleased \in VaType /\ CmReleased \in Maybe
  <2>1. RowsReplaced \in VaType
    <3>1. CASE va.hash = 0
      BY <3>1 DEF RowsReplaced
    <3>2. CASE va.hash # 0
      <4>1. -1 \in Int
        OBVIOUS
      <4>2. RowsReplaced = [va EXCEPT !.hash = -1]
        BY <3>2 DEF RowsReplaced, Stray
      <4> QED BY <4>1, <4>2
    <3> QED BY <3>1, <3>2
  <2>2. RowReleased \in VaType
    BY DEF RowReleased
  <2>3. CmReleased \in Maybe
    BY DEF CmReleased
  <2> QED BY <2>1, <2>2, <2>3
<1>3. ASSUME NEW hint \in {0, 1}, LinksBeginList(hint) PROVE Typed
  BY <1>1, <1>2, <1>3 DEF LinksBeginList
<1>4. ASSUME NEW n \in TypedNodes, LinksAssignTyped(n.Links) PROVE Typed
  BY <1>1, <1>2, <1>4 DEF LinksAssignTyped
<1>5. ASSUME LinksAssembleValue PROVE Typed
  BY <1>1, <1>2, <1>5 DEF LinksAssembleValue
<1>6. ASSUME LinksFinish PROVE Typed
  BY <1>1, <1>2, <1>6 DEF LinksFinish
<1> HIDE DEF Typed
<1>7. Typed
  BY <1>1, <1>3, <1>4, <1>5, <1>6 DEF LinksCall, AssignNull
<1> QED BY <1>7 DEF Typed

LEMMA LinkCallTypes ==
  ASSUME TypeOK, LinkCall
  PROVE  /\ na' = na /\ la' \in [w : BOOLEAN, state : LaState, cm : Maybe]
         /\ va' \in VaType /\ res' \in {"ok", "err", "panic"}
<1> DEFINE LaType == [w : BOOLEAN, state : LaState, cm : Maybe]
           Typed == na' = na /\ la' \in LaType /\ va' \in VaType /\ res' \in {"ok", "err", "panic"}
<1> USE DEF TypeOK, VaType, Maybe, MaState
<1>1. ASSUME Panic \/ Fail PROVE Typed
  BY <1>1 DEF Panic, Fail, asm
<1>2. LinkTidied \in VaType
  <2>1. LinkTidied = [va EXCEPT !.state = "initial", !.cm = LinkTidied.cm, !.hash = LinkTidied.hash]
    BY DEF LinkTidied
  <2>2. LinkTidied.cm \in Maybe /\ LinkTidied.hash \in Int
    BY DEF LinkTidied
  <2> HIDE DEF LinkTidied
  <2> QED BY <2>1, <2>2
<1>3. Last \in Int
  BY DEF Last, PBNode
<1>4. ASSUME LinkBeginMap PROVE Typed
  BY <1>1, <1>4 DEF LinkBeginMap
<1>5. ASSUME NEW l \in TypedLinks, LinkAssignTyped(l) PROVE Typed
  BY <1>1, <1>5 DEF LinkAssignTyped
<1>6. ASSUME LinkAssembleKey PROVE Typed
  BY <1>1, <1>2, <1>6 DEF LinkAssembleKey
<1>7. ASSUME NEW k \in AnyKey, LinkAssignKey(k) PROVE Typed
  <2>1. CASE res' # "ok"
    BY <1>1, <1>7, <2>1 DEF LinkAssignKey
  <2>2. CASE res' = "ok"
    <3>1. /\ k \in LinkFields /\ UNCHANGED <<na, la>>
          /\ va' = [va EXCEPT !.state = "expectValue", !.s = @ \cup {k}, !.f = k]
      BY <1>7, <2>2 DEF LinkAssignKey, LinkFree, Panic, Fail
    <3> QED BY <2>2, <3>1
  <2> QED BY <2>1, <2>2
<1>8. ASSUME NEW k \in AnyKey, LinkAssembleEntry(k) PROVE Typed
  <2>1. CASE res' # "ok"
    BY <1>1, <1>2, <1>8, <2>1 DEF LinkAssembleEntry
  <2>2. CASE res' = "ok"
    <3>1. /\ k \in LinkFields /\ na' = na /\ la' = la
          /\ va' = [LinkTidied EXCEPT !.state = "midValue", !.s = @ \cup {k}, !.f = k,
                                      !.hash = IF k = "Hash" THEN Last ELSE @]
      BY <1>8, <2>2 DEF LinkAssembleEntry, LinkFree, Panic
    <3>2. va' \in VaType
      <4> HIDE DEF LinkTidied
      <4> QED BY <1>2, <1>3, <3>1
    <3> QED BY <2>2, <3>1, <3>2
  <2> QED BY <2>1, <2>2
<1>9. ASSUME LinkAssembleValue PROVE Typed
  BY <1>1, <1>3, <1>9 DEF LinkAssembleValue
<1>10. ASSUME LinkFinish PROVE Typed
  BY <1>1, <1>2, <1>10 DEF LinkFinish
<1>11. ASSUME NEW h \in Hashes, HashAssignLink(h) PROVE Typed
  BY <1>1, <1>11 DEF HashAssignLink
<1>12. ASSUME NEW n \in Names, NameAssignString(n) PROVE Typed
  BY <1>1, <1>12 DEF NameAssignString
<1>13. ASSUME NEW t \in Tsizes, TsizeAssignInt(t) PROVE Typed
  BY <1>1, <1>13 DEF TsizeAssignInt
<1> HIDE DEF Typed
<1>14. Typed
  BY <1>1, <1>4, <1>5, <1>6, <1>7, <1>8, <1>9, <1>10, <1>11, <1>12, <1>13
     DEF LinkCall, AssignNull
<1> QED BY <1>14 DEF Typed

LEMMA TypeKept ==
  ASSUME TypeOK, [Next]_vars
  PROVE  TypeOK'
<1>1. CASE Reset
  BY <1>1, NodeTypeKept
     DEF Reset, Fresh, TypeOK, Maybe, MaState, LaState, NodeFields, LinkFields
<1>2. CASE UNCHANGED vars
  BY <1>2 DEF vars, TypeOK
<1>3. CASE NodeCall
  BY <1>3, NodeCallTypes, NodeTypeKept DEF TypeOK, NaType
<1>4. CASE LinksCall
  BY <1>4, LinksCallTypes, NodeTypeKept DEF TypeOK, NaType, VaType
<1>5. CASE LinkCall
  BY <1>5, LinkCallTypes, NodeTypeKept DEF TypeOK, VaType
<1> QED BY <1>1, <1>2, <1>3, <1>4, <1>5 DEF Next

\* What NodeInv says of Data.
DataInv ==
  /\ na.state \notin {"initial", "finished"} => na.m = "midvalue"
  /\ na.state = "finished" => na.m = "Value"
  /\ na.m = "Absent" => na.s = {} /\ node.Data = Unset
  /\ na.m = "Value" /\ na.state = "initial" => na.s = {}
  /\ NodeFieldsRecorded

LEMMA DataKept ==
  ASSUME TypeOK, DataInv, [Next]_vars
  PROVE  DataInv'
<1> USE DEF TypeOK, DataInv, NodeFieldsRecorded, Pending, Maybe, MaState, PBNode
<1>1. CASE Reset \/ UNCHANGED vars
  BY <1>1 DEF Reset, Fresh, EmptyNode, vars
<1>2. CASE LinksCall \/ LinkCall
  <2>1. /\ na'.m = na.m /\ na'.state = na.state /\ na'.s = na.s /\ na'.f = na.f
        /\ node'.Data = node.Data
    BY <1>2
       DEF LinksCall, Panic, Fail, asm, AssignNull, LinksBeginList, LinksAssignTyped,
           LinksAssembleValue, LinksFinish, LinkCall, LinkBeginMap, LinkAssignTyped,
           LinkAssembleKey, LinkAssignKey, LinkAssembleEntry, LinkAssembleValue, LinkFinish,
           HashAssignLink, NameAssignString, TsizeAssignInt
  <2> QED BY <2>1
<1>3. CASE NodeCall
  <2>1. ASSUME Panic \/ Fail PROVE DataInv'
    BY <2>1 DEF Panic, Fail, asm
  <2>2. ASSUME NEW c \in Chunks, Given(na, "Data"), DataAssignBytes(c) PROVE DataInv'
    BY <2>1, <2>2, ValuesAssumption DEF DataAssignBytes, Given
  <2>3. ASSUME NodeHeld, NodeReady
        PROVE  na.m = "midvalue" /\ ("Data" \in na.s => node.Data # Unset)
    BY <2>3 DEF NodeHeld, NodeReady, NodeValueDone
  <2>4. ASSUME NodeHeld, NodeReady, node' = node, na'.s = na.s,
               \/ na'.m = na.m /\ na'.state \in {"initial", "midKey"}
               \/ na'.m = "Value" /\ na'.state = "finished"
        PROVE  DataInv'
    BY <2>3, <2>4
  <2>5. ASSUME NodeHeld, NodeAssembleKey \/ NodeFinish PROVE DataInv'
    BY <2>1, <2>4, <2>5 DEF NodeAssembleKey, NodeFinish, NodeTidied
  <2>6. ASSUME NodeHeld, NEW k \in NodeFields, na.m = "midvalue", k \notin na.s,
               "Data" \in na.s => node.Data # Unset,
               node' = node, na'.m = na.m, na'.state \in {"expectValue", "midValue"},
               na'.s = na.s \cup {k}, na'.f = k
        PROVE  DataInv'
    BY <2>6 DEF NodeFields
  <2>7. ASSUME NodeHeld, NEW k \in AnyKey, NodeAssembleEntry(k) PROVE DataInv'
    <3>1. CASE res' # "ok"
      BY <2>1, <2>4, <2>7, <3>1 DEF NodeAssembleEntry, NodeTidied
    <3>2. CASE res' = "ok"
      <4>1. /\ NodeReady /\ k \in NodeFields /\ k \notin na.s /\ node' = node
            /\ na' = [NodeTidied EXCEPT !.state = "midValue", !.s = @ \cup {k}, !.f = k]
        BY <2>7, <3>2 DEF NodeAssembleEntry, NodeFree, Panic
      <4>2. na'.m = na.m /\ na'.state = "midValue" /\ na'.s = na.s \cup {k} /\ na'.f = k
        BY <4>1 DEF NodeTidied
      <4> QED BY <2>3, <2>6, <2>7, <4>1, <4>2
    <3> QED BY <3>1, <3>2
  <2>8. ASSUME NodeHeld, NEW k \in AnyKey, NodeAssignKey(k) PROVE DataInv'
    <3>1. CASE na.state = "midKey" /\ NodeFree(k)
      <4>1. /\ na.m = "midvalue" /\ k \in NodeFields /\ k \notin na.s /\ node' = node
            /\ "Data" \in na.s => node.Data # Unset
            /\ na'.m = na.m /\ na'.state = "expectValue" /\ na'.s = na.s \cup {k} /\ na'.f = k
        BY <2>8, <3>1 DEF NodeAssignKey, NodeFree, Panic, Fail
      <4> QED BY <2>6, <2>8, <4>1
    <3>2. CASE ~(na.state = "midKey" /\ NodeFree(k))
      BY <2>1, <2>8, <3>2 DEF NodeAssignKey
    <3> QED BY <3>1, <3>2
  <2>9. ASSUME NodeBeginMap \/ (NodeHeld /\ NodeAssembleValue) PROVE DataInv'
    BY <2>1, <2>9 DEF NodeBeginMap, NodeAssembleValue
  <2>10. ASSUME NEW n \in TypedNodes, NodeAssignTyped(n) PROVE DataInv'
    BY <2>1, <2>10 DEF NodeAssignTyped
  <2> QED
    BY <1>3, <2>1, <2>2, <2>5, <2>7, <2>8, <2>9, <2>10 DEF NodeCall, AssignNull, WrongKind
<1> QED BY <1>1, <1>2, <1>3 DEF Next

\* No call reaches into a node that may be built.
LEMMA BuiltStays ==
  ASSUME AssemblerInv, NodeCall \/ LinksCall \/ LinkCall, na.m = "Value"
  PROVE  node' = node
<1>1. na.state \in {"initial", "finished"} /\ ~la.w /\ la.state # "midValue" /\ la.cm = "Absent"
  BY DEF AssemblerInv, NodeInv, ListInv
<1>2. va.hash = 0
  BY <1>1 DEF AssemblerInv, RowInv
<1>3. "Data" \in na.s => node.Data # Unset
  BY <1>1 DEF AssemblerInv, NodeInv, NodeFieldsRecorded, Pending
<1>4. CASE NodeCall
  BY <1>3, <1>4
     DEF NodeCall, Panic, Fail, asm, Given, AssignNull, WrongKind, NodeBeginMap, NodeAssignTyped,
         NodeAssembleKey, NodeAssignKey, NodeAssembleEntry, NodeAssembleValue, NodeFinish,
         DataAssignBytes
<1>5. CASE LinksCall
  BY <1>1, <1>5
     DEF LinksCall, Panic, Fail, asm, AssignNull, LinksBeginList, LinksAssignTyped,
         LinksAssembleValue, LinksFinish
<1>6. CASE LinkCall
  BY <1>1, <1>2, <1>6
     DEF LinkCall, Panic, Fail, asm, RowHeld, LinkHeld, HashAssignLink
<1> QED BY <1>4, <1>5, <1>6

-----------------------------------------------------------------------------
(* Theorems *)

\* The assemblers of Type.PBNode never get out of step, whatever calls are made
\* on them in whatever order.
THEOREM Consistent == Level = "type" => (Spec => []AssemblerInv)
<1> SUFFICES ASSUME Level = "type" PROVE Spec => []AssemblerInv
  OBVIOUS
<1>1. Init => AssemblerInv
  <2> SUFFICES ASSUME Init PROVE AssemblerInv
    OBVIOUS
  <2> USE DEF Init, Fresh, EmptyNode
  <2>1. TypeOK
    BY DEF TypeOK, PBNode, Maybe, MaState, LaState, NodeFields, LinkFields
  <2>2. NodeInv
    BY DEF NodeInv, NodeFieldsRecorded, Pending
  <2>3. ListInv /\ RowInv
    BY DEF ListInv, RowInv, Last, Pending, RowFieldsRecorded
  <2> QED BY <2>1, <2>2, <2>3 DEF AssemblerInv
<1>2. AssemblerInv /\ [Next]_vars => AssemblerInv'
  <2> SUFFICES ASSUME AssemblerInv, [Next]_vars PROVE AssemblerInv'
    OBVIOUS
  <2>1. CASE Reset
    BY <2>1, ResetKeeps DEF Reset
  <2>2. CASE NodeCall
    BY <2>2, NodeCallKeeps
  <2>3. CASE LinksCall
    BY <2>3, LinksCallKeeps
  <2>4. CASE LinkCall
    BY <2>4, LinkCallKeeps
  <2>5. CASE UNCHANGED vars
    <3>1. TypeOK' /\ NodeInv'
      BY <2>5 DEF vars, AssemblerInv, TypeOK, NodeInv, NodeFieldsRecorded, Pending
    <3>2. ListInv' /\ RowInv'
      BY <2>5, BelowNode DEF vars, AssemblerInv, ListInv
    <3> QED BY <3>1, <3>2 DEF AssemblerInv
  <2> QED BY <2>1, <2>2, <2>3, <2>4, <2>5 DEF Next
<1> QED BY <1>1, <1>2, PTL DEF Spec

\* The variables of the assembler tree keep their types, at either level.
THEOREM TypeCorrect == Spec => []TypeOK
<1>1. Init => TypeOK
  BY DEF Init, Fresh, EmptyNode, TypeOK, PBNode, Maybe, MaState, LaState, NodeFields, LinkFields
<1>2. TypeOK /\ [Next]_vars => TypeOK'
  BY TypeKept
<1> QED BY <1>1, <1>2, PTL DEF Spec

\* The bit set of the PBNode assembler never lies about Data, not even at the
\* representation level, where old handles stay connected.
THEOREM NodeRecorded == Spec => []NodeFieldsRecorded
<1> DEFINE Inv == TypeOK /\ DataInv
<1>1. Init => Inv
  BY DEF Init, Fresh, EmptyNode, TypeOK, PBNode, Maybe, MaState, LaState, NodeFields, LinkFields,
         DataInv, NodeFieldsRecorded, Pending
<1>2. Inv /\ [Next]_vars => Inv'
  BY TypeKept, DataKept
<1>3. Inv => NodeFieldsRecorded
  BY DEF DataInv
<1> QED BY <1>1, <1>2, <1>3, PTL DEF Spec

\* A node that may be built has a Hash in every link.
THEOREM BuiltComplete == Level = "type" => (Spec => []FinishedComplete)
<1>1. AssemblerInv => FinishedComplete
  BY DEF AssemblerInv, NodeInv, ListInv, FinishedComplete
<1> QED BY <1>1, Consistent, PTL

\* The bit set of the shared row assembler never lies about the row in progress.
THEOREM RowsRecorded == Level = "type" => (Spec => []RowFieldsRecorded)
<1>1. AssemblerInv => RowFieldsRecorded
  BY DEF AssemblerInv, RowInv
<1> QED BY <1>1, Consistent, PTL

\* Until Reset no call takes back or overwrites what an earlier one assigned.
THEOREM WrittenOnce == Level = "type" => (Spec => WriteOnce)
<1> SUFFICES ASSUME Level = "type" PROVE Spec => WriteOnce
  OBVIOUS
<1>1. AssemblerInv /\ [Next]_vars => [na'.m # "Absent" => Grown]_vars
  <2> SUFFICES ASSUME AssemblerInv, Next, na'.m # "Absent" PROVE Grown
    OBVIOUS
  <2>1. CASE Reset
    BY <2>1 DEF Reset, Fresh
  <2>2. CASE NodeCall
    BY <2>2, NodeCallGrows
  <2>3. CASE LinksCall
    BY <2>3, LinksCallGrows
  <2>4. CASE LinkCall
    BY <2>4, LinkCallGrows
  <2> QED BY <2>1, <2>2, <2>3, <2>4 DEF Next
<1> QED BY <1>1, Consistent, PTL DEF Spec, WriteOnce

\* A finished node is immutable until Reset.
THEOREM BuiltFinal == Level = "type" => (Spec => FinishedIsFinal)
<1> SUFFICES ASSUME Level = "type" PROVE Spec => FinishedIsFinal
  OBVIOUS
<1>1. AssemblerInv /\ [Next]_vars => [na.m = "Value" /\ na'.m = "Value" => node' = node]_vars
  <2> SUFFICES ASSUME AssemblerInv, Next, na.m = "Value", na'.m = "Value" PROVE node' = node
    OBVIOUS
  <2>1. CASE Reset
    BY <2>1 DEF Reset, Fresh
  <2>2. CASE NodeCall \/ LinksCall \/ LinkCall
    BY <2>2, BuiltStays
  <2> QED BY <2>1, <2>2 DEF Next
<1> QED BY <1>1, Consistent, PTL DEF Spec, FinishedIsFinal
=============================================================================
