-------------------------- MODULE BuildersProofs --------------------------
(***************************************************************************)
(* The builders of the other types keep AssignInv: they start the tree in  *)
(* a state it allows, and then make calls, and AssignNodes, the tree       *)
(* allows there.  RootInv adds that what lies above the root stands still, *)
(* that no loop runs there, and what Build may return after a failure.     *)
(***************************************************************************)
EXTENDS Builders, AssignNodeProofs

\* The parts above the root are where NewBuilder has put them.
Standing ==
  /\ root \in Roots
  /\ na.m = "midvalue" /\ na.state = "midValue"
  /\ root = "Data" => na.s = {"Data"} /\ na.f = "Data" /\ ~la.w
  /\ root # "Data" => na.s = {"Links"} /\ na.f = "Links" /\ la.w
  /\ root \notin InNode => la.state = "midValue" /\ Last = 1
  /\ root \in LinkFields =>
       la.cm = "midvalue" /\ va.state = "midValue" /\ va.s = {root} /\ va.f = root
  /\ root = "Hash" => va.hash = 1

\* The assemblers the loops of a builder may reach.
Reach ==
  CASE root = "PBLinks" -> {"list", "row"} \cup LinkFields
    [] root = "PBLink" -> {"row"} \cup LinkFields
    [] OTHER -> {}
Below == \A i \in 1..Len(todo) : todo[i].at \in Reach

RootInv == AssignInv /\ Standing /\ Below /\ (failed => BuiltConforms)

-----------------------------------------------------------------------------
\* A builder, new or reset, stands in the tree as if all above it had been called for.
LEMMA RootedConsistent ==
  /\ root \in Roots /\ Rooted(root, node, na, la, va) /\ res = "ok"
  /\ todo = <<>> /\ failed = FALSE
  => RootInv
<1> SUFFICES ASSUME root \in Roots, Rooted(root, node, na, la, va), res = "ok",
                    todo = <<>>, failed = FALSE
             PROVE  RootInv
  OBVIOUS
<1> USE DEF Rooted, Roots, InNode, LinkFields
<1>1. /\ node.Links = IF root \in InNode THEN <<>> ELSE <<NewLink>>
      /\ node.Data = Unset /\ node \in PBNode
  <2>1. NewLink \in PBLink
    BY DEF NewLink, PBLink
  <2> QED BY <2>1 DEF PBNode
<1>2. Last = IF root \in InNode THEN 0 ELSE 1
  BY <1>1 DEF Last
<1>3. root \notin InNode => Row = NewLink
  BY <1>1, <1>2 DEF Row
<1>4. TypeOK
  <2>1. na \in [m : Maybe, state : MaState, s : SUBSET NodeFields, f : NodeFields, cm : Maybe]
    BY DEF Maybe, MaState, NodeFields
  <2>2. la \in [w : BOOLEAN, state : LaState, cm : Maybe]
    BY DEF LaState, Maybe
  <2>3. va \in [state : MaState, s : SUBSET LinkFields, f : LinkFields, cm : Maybe, hash : Int]
    BY DEF Maybe, MaState
  <2> QED BY <1>1, <2>1, <2>2, <2>3 DEF TypeOK
<1>5. NodeInv
  BY <1>1 DEF NodeInv, NodeFieldsRecorded, Pending
<1>6. ListInv
  <2>1. la.w => na.state = "midValue" /\ na.f = "Links"
    OBVIOUS
  <2>2. la.state = "midValue" => la.w /\ na.cm = "midvalue" /\ Last > 0
    <3>1. CASE root \in InNode
      BY <3>1
    <3>2. CASE root \notin InNode
      <4>1. Last = 1 /\ na.cm = "midvalue" /\ la.w
        BY <1>2, <3>2
      <4> QED BY <4>1
    <3> QED BY <3>1, <3>2
  <2>3. la.state # "midValue" => la.cm = "Absent"
    OBVIOUS
  <2>4. ASSUME NEW i \in 1..Last PROVE i = Last /\ la.state = "midValue" /\ la.cm # "Value"
    <3>1. root \notin InNode /\ Last = 1
      BY <1>2
    <3> QED BY <3>1
  <2> QED BY <2>1, <2>2, <2>3, <2>4 DEF ListInv
<1>7. RowInv
  <2>1. CASE root \in LinkFields
    BY <1>2, <1>3, <2>1 DEF RowInv, RowFieldsRecorded, Pending, NewLink
  <2>2. CASE root \notin LinkFields
    BY <1>2, <1>3, <2>2 DEF RowInv, RowFieldsRecorded, Pending, NewLink
  <2> QED BY <2>1, <2>2
<1>8. Standing
  BY <1>2 DEF Standing
<1>9. Below
  BY DEF Below
<1>10. Pristine
  BY DEF Pristine, Given
<1>11. AssignInv
  BY <1>4, <1>5, <1>6, <1>7, <1>10, AtRest DEF AssemblerInv
<1> QED BY <1>8, <1>9, <1>11 DEF RootInv

-----------------------------------------------------------------------------
(* What lies above the root stands still. *)

\* The calls of a list and of a row, whoever makes them.
ListDoes ==
  \/ AssignNull(na.cm) \/ LinksAssembleValue \/ LinksFinish
  \/ \E hint : LinksBeginList(hint)
  \/ \E xs : LinksAssignTyped(xs)
RowDoes ==
  \/ LinkBeginMap \/ AssignNull(la.cm) \/ LinkAssembleKey \/ LinkAssembleValue \/ LinkFinish
  \/ \E l : LinkAssignTyped(l)
  \/ \E k : LinkAssignKey(k)
  \/ \E k : LinkAssembleEntry(k)
  \/ \E h : HashAssignLink(h)
  \/ \E n : NameAssignString(n)
  \/ \E t : TsizeAssignInt(t)

LEMMA ListMoves ==
  ASSUME TypeOK, ListDoes
  PROVE  na'.m = na.m /\ na'.state = na.state /\ na'.s = na.s /\ na'.f = na.f /\ la'.w = la.w
BY DEF ListDoes, Panic, Fail, asm, AssignNull, LinksBeginList, LinksAssignTyped,
       LinksAssembleValue, LinksFinish, TypeOK

LEMMA RowMoves ==
  ASSUME TypeOK, RowDoes
  PROVE  UNCHANGED na /\ la'.w = la.w /\ la'.state = la.state /\ Last' = Last
<1>1. UNCHANGED na /\ la'.w = la.w /\ la'.state = la.state
  BY DEF RowDoes, Panic, Fail, asm, AssignNull, LinkBeginMap, LinkAssignTyped,
         LinkAssembleKey, LinkAssignKey, LinkAssembleEntry, LinkAssembleValue, LinkFinish,
         NameAssignString, TsizeAssignInt, HashAssignLink, TypeOK
<1>2. \/ node' = node
      \/ \E l : node' = [node EXCEPT !.Links[Last] = l]
      \/ \E n : node' = [node EXCEPT !.Links[Last].Name = n]
      \/ \E t : node' = [node EXCEPT !.Links[Last].Tsize = t]
      \/ \E h : node' = [node EXCEPT !.Links[va.hash].Hash = h]
  BY DEF RowDoes, Panic, Fail, asm, AssignNull, LinkBeginMap, LinkAssignTyped,
         LinkAssembleKey, LinkAssignKey, LinkAssembleEntry, LinkAssembleValue, LinkFinish,
         NameAssignString, TsizeAssignInt, HashAssignLink
<1>3. node.Links \in Seq(PBLink) /\ node = [Links |-> node.Links, Data |-> node.Data]
  BY DEF TypeOK, PBNode
<1>4. ASSUME NEW i, NEW l, node' = [node EXCEPT !.Links = [@ EXCEPT ![i] = l]]
      PROVE  Len(node'.Links) = Len(node.Links)
  <2>1. node'.Links = [node.Links EXCEPT ![i] = l]
    BY <1>3, <1>4
  <2> QED BY <1>3, <2>1
<1>5. Len(node'.Links) = Len(node.Links)
  <2>1. ASSUME NEW l, node' = [node EXCEPT !.Links[Last] = l]
        PROVE  Len(node'.Links) = Len(node.Links)
    BY <1>4, <2>1
  <2>2. ASSUME NEW n, node' = [node EXCEPT !.Links[Last].Name = n]
        PROVE  Len(node'.Links) = Len(node.Links)
    BY <1>4, <2>2
  <2>3. ASSUME NEW t, node' = [node EXCEPT !.Links[Last].Tsize = t]
        PROVE  Len(node'.Links) = Len(node.Links)
    BY <1>4, <2>3
  <2>4. ASSUME NEW h, node' = [node EXCEPT !.Links[va.hash].Hash = h]
        PROVE  Len(node'.Links) = Len(node.Links)
    BY <1>4, <2>4
  <2> QED BY <1>2, <2>1, <2>2, <2>3, <2>4
<1> QED BY <1>1, <1>5 DEF Last

LEMMA AboveStands ==
  ASSUME TypeOK, Standing, UNCHANGED root,
         \/ UNCHANGED asm
         \/ root = "PBLinks" /\ (ListDoes \/ RowDoes)
         \/ root = "PBLink" /\ RowDoes
  PROVE  Standing'
<1> USE DEF Standing, InNode, LinkFields, Roots
<1>1. CASE UNCHANGED asm
  BY <1>1 DEF asm, Last
<1>2. CASE root = "PBLinks" /\ ListDoes
  BY <1>2, ListMoves
<1>3. CASE root \in {"PBLinks", "PBLink"} /\ RowDoes
  BY <1>3, RowMoves
<1> QED BY <1>1, <1>2, <1>3

\* A leaf changes nothing but the cell it writes to.
LEMMA LeafStands ==
  ASSUME AssemblerInv, Standing, UNCHANGED root, LeafCall
  PROVE  Standing'
<1> USE DEF Standing, InNode, LinkFields, Roots
<1>1. CASE root = "Data"
  BY <1>1 DEF LeafCall, DataAssignBytes, Panic, asm
<1>2. CASE root \in LinkFields
  <2>1. RowDoes
    BY <1>2 DEF LeafCall, RowDoes
  <2>2. UNCHANGED na /\ la'.w = la.w /\ la'.state = la.state /\ Last' = Last
    BY <2>1, RowMoves DEF AssemblerInv
  <2>3. /\ la'.cm = la.cm /\ va'.state = va.state /\ va'.s = va.s /\ va'.f = va.f
        /\ va'.hash = va.hash
    BY <1>2 DEF LeafCall, HashAssignLink, NameAssignString, TsizeAssignInt, Panic, asm,
                AssemblerInv, TypeOK
  <2> QED BY <1>2, <2>2, <2>3
<1> QED BY <1>1, <1>2 DEF LeafCall

-----------------------------------------------------------------------------
(* A step of an AssignNode. *)

\* It is a call of the list, of the row or of a leaf, or it changes no assembler.
LEMMA StepDoes ==
  ASSUME AssignStep, NEW t, t = Head(todo), t.at \in {"list", "row"} \cup LinkFields
  PROVE  \/ Panic \/ Fail \/ Succeed
         \/ t.at = "list" /\ t.does = "assign" /\ \E x : LinksAssignTyped(x)
         \/ t.at = "list" /\ t.does # "assign" /\ (LinksAssembleValue \/ LinksFinish)
         \/ t.at = "row" /\ t.does = "assign" /\ \E x : LinkAssignTyped(x)
         \/ /\ t.at = "row" /\ t.does # "assign"
            /\ LinkAssembleKey \/ LinkAssembleValue \/ LinkFinish \/ \E k : LinkAssignKey(k)
         \/ /\ t.at \in LinkFields /\ t.does = "assign"
            /\ \/ \E h : HashAssignLink(h)
               \/ \E n : NameAssignString(n)
               \/ \E i : TsizeAssignInt(i)
<1>1. \/ t.does = "assign"        /\ Assign(t.at, t.v)
      \/ t.does = "loop"          /\ Turn(t.at, t.v)
      \/ t.does = "AssembleKey"   /\ AssembleKey(t.at)
      \/ t.does = "AssignKey"     /\ AssignKey(t.at, t.v)
      \/ t.does = "AssembleValue" /\ AssembleValue(t.at, t.v)
  BY DEF AssignStep
<1>2. CASE t.does = "assign" /\ Assign(t.at, t.v)
  <2>1. \/ Panic \/ Fail \/ Succeed
        \/ AssignOwn(t.at, t.v.value)
        \/ t.at \in LinkFields /\ AssignLeaf(t.at, t.v.value)
    BY <1>2 DEF Assign, AssignNull, WrongKind
  <2> QED BY <1>2, <2>1 DEF AssignOwn, AssignLeaf, LinkFields
<1>3. CASE t.does = "loop" /\ Turn(t.at, t.v)
  BY <1>3 DEF Turn, LinkFields
<1>4. CASE t.does = "AssembleKey" /\ AssembleKey(t.at)
  BY <1>4 DEF AssembleKey, LinkFields
<1>5. CASE t.does = "AssignKey" /\ AssignKey(t.at, t.v)
  BY <1>5 DEF AssignKey, LinkFields
<1>6. CASE t.does = "AssembleValue" /\ AssembleValue(t.at, t.v)
  BY <1>6 DEF AssembleValue, LinkFields
<1> QED BY <1>1, <1>2, <1>3, <1>4, <1>5, <1>6

\* It puts off calls of the assembler it is on, and one of its child.
LEMMA StepFrames ==
  ASSUME AssignStep, Stack(todo), NEW i \in 1..Len(todo')
  PROVE  \/ \E j \in 1..Len(todo) : todo'[i].at = todo[j].at
         \/ Head(todo).does = "AssembleValue" /\ todo'[i].at = Child(Head(todo).at)
<1>1. PICK t : t = Head(todo)
  OBVIOUS
<1> DEFINE Near(x) == x.at = t.at \/ (t.does = "AssembleValue" /\ x.at = Child(t.at))
<1>2. \E more, T : /\ Then(more) /\ more \in Seq(T)
                   /\ \A j \in 1..Len(more) : Near(more[j])
  <2>1. ASSUME Then(<<>>) PROVE <1>2
    <3>1. <<>> \in Seq({}) /\ \A j \in 1..Len(<<>>) : FALSE
      OBVIOUS
    <3> QED BY <2>1, <3>1
  <2>2. ASSUME NEW f, Then(<<f>>), Near(f) PROVE <1>2
    <3>1. <<f>> \in Seq({f}) /\ \A j \in 1..Len(<<f>>) : <<f>>[j] = f
      OBVIOUS
    <3> QED BY <2>2, <3>1
  <2>3. ASSUME t.does = "assign", Assign(t.at, t.v) PROVE <1>2
    <3>1. Then(<<>>) \/ Then(<<Frame(t.at, "loop", t.v)>>)
      BY <2>3 DEF Assign
    <3>2. PICK f : f = Frame(t.at, "loop", t.v)
      OBVIOUS
    <3>3. f.at = t.at
      BY <3>2 DEF Frame
    <3> QED BY <2>1, <2>2, <3>1, <3>2, <3>3
  <2>4. ASSUME t.does = "loop", Turn(t.at, t.v) PROVE <1>2
    <3>1. PICK a, b, c, d :
            /\ a = Frame(t.at, "AssembleKey", Head(t.v.entries))
            /\ b = Frame(t.at, "AssignKey", Head(t.v.entries))
            /\ c = Frame(t.at, "AssembleValue", Head(t.v.entries).value)
            /\ d = Frame(t.at, "loop", [t.v EXCEPT !.entries = Tail(@)])
      OBVIOUS
    <3>2. PICK more : more = TurnCalls(t.at, a, b, c, d)
      OBVIOUS
    <3>3. Then(<<>>) \/ Then(more)
      BY <2>4, <3>1, <3>2 DEF Turn, TurnCalls
    <3>4. a.at = t.at /\ b.at = t.at /\ c.at = t.at /\ d.at = t.at
      BY <3>1 DEF Frame
    <3>5. /\ more \in Seq({a, b, c, d})
          /\ \/ Len(more) = 2 /\ more[1] = c /\ more[2] = d
             \/ Len(more) = 4 /\ more[1] = a /\ more[2] = b /\ more[3] = c /\ more[4] = d
      BY <3>2, TurnCallsAre
    <3>6. \A j \in 1..Len(more) : more[j].at = t.at
      BY <3>4, <3>5
    <3> QED BY <2>1, <3>3, <3>5, <3>6
  <2>5. ASSUME AssembleKey(t.at) \/ AssignKey(t.at, t.v) PROVE <1>2
    <3>1. Then(<<>>)
      BY <2>5 DEF AssembleKey, AssignKey
    <3> QED BY <2>1, <3>1
  <2>6. ASSUME t.does = "AssembleValue", AssembleValue(t.at, t.v) PROVE <1>2
    <3>1. PICK f : f = Frame(Child(t.at), "assign", t.v)
      OBVIOUS
    <3>2. Then(<<f>>) /\ f.at = Child(t.at)
      BY <2>6, <3>1 DEF AssembleValue, Frame
    <3> QED BY <2>2, <2>6, <3>2
  <2> QED BY <1>1, <2>3, <2>4, <2>5, <2>6 DEF AssignStep
<1>3. PICK more, T : /\ Then(more) /\ more \in Seq(T)
                     /\ \A j \in 1..Len(more) : Near(more[j])
  BY <1>2
<1>4. CASE res' # "ok"
  BY <1>3, <1>4 DEF Then
<1>5. CASE res' = "ok"
  <2> DEFINE S == {todo[j] : j \in 1..Len(todo)}
  <2>1. todo \in Seq(S) /\ todo # <<>>
    BY DEF Stack, AssignStep
  <2> HIDE DEF S
  <2>2. todo' = more \o Tail(todo)
    BY <1>3, <1>5 DEF Then
  <2>3. /\ \A j \in 1..Len(more) : todo'[j] = more[j]
        /\ \A j \in 2..Len(todo) : todo'[Len(more) + j - 1] = todo[j]
        /\ i \in 1..Len(more) \/ (i - Len(more) + 1 \in 2..Len(todo) /\ i > Len(more))
    BY <1>3, <2>1, <2>2, Pushed
  <2>4. CASE i \in 1..Len(more)
    <3>1. 1 \in 1..Len(todo) /\ todo[1] = t
      BY <1>1, <2>1
    <3> QED BY <1>1, <1>3, <2>3, <2>4, <3>1
  <2>5. CASE i \notin 1..Len(more)
    <3>1. PICK j : j = i - Len(more) + 1
      OBVIOUS
    <3>2. j \in 2..Len(todo) /\ Len(more) + j - 1 = i /\ j \in 1..Len(todo)
      BY <1>3, <2>1, <2>3, <2>5, <3>1
    <3> QED BY <2>3, <3>2
  <2> QED BY <2>4, <2>5
<1> QED BY <1>4, <1>5

\* What is due next.
LEMMA Due ==
  ASSUME RootInv, todo # <<>>, NEW t, t = Head(todo)
  PROVE  /\ ~failed /\ FrameFits(t) /\ t.at \in Reach
         /\ t.does # "assign" => RunsIn(todo, t.at)
         /\ t.does = "assign" => ReadyFor(t)
         /\ root \in {"PBLinks", "PBLink"}
<1>1. ~failed /\ Stack(todo) /\ Ready
  BY DEF RootInv, AssignInv
<1>2. t.at \in Reach
  <2>1. PICK S : todo \in Seq(S)
    BY <1>1 DEF Stack
  <2>2. 1 \in 1..Len(todo) /\ t = todo[1]
    BY <2>1
  <2> QED BY <2>2 DEF RootInv, Below
<1> QED BY <1>1, <1>2, StackHead DEF Ready, Reach

\* A loop goes no higher than it began.
LEMMA StaysBelow ==
  ASSUME RootInv, AssignStep, UNCHANGED root
  PROVE  Below'
<1> SUFFICES ASSUME NEW i \in 1..Len(todo') PROVE todo'[i].at \in Reach
  BY DEF Below, Reach
<1>1. PICK t : t = Head(todo)
  OBVIOUS
<1>2. Stack(todo) /\ TypeOK /\ todo # <<>>
  BY DEF RootInv, AssignInv, AssignStep
<1>3. CASE \E j \in 1..Len(todo) : todo'[i].at = todo[j].at
  BY <1>3 DEF RootInv, Below
<1>4. CASE t.does = "AssembleValue" /\ todo'[i].at = Child(t.at)
  <2>1. FrameFits(t) /\ t.at \in Reach /\ root \in {"PBLinks", "PBLink"}
    BY <1>1, <1>2, Due
  <2>2. t.at \in {"node", "list", "row"}
    BY <1>4, <2>1 DEF FrameFits
  <2>3. va.f \in LinkFields
    BY <1>2 DEF TypeOK
  <2> QED BY <1>4, <2>1, <2>2, <2>3 DEF Reach, Child, LinkFields
<1> QED BY <1>1, <1>2, <1>3, <1>4, StepFrames

LEMMA StepStands ==
  ASSUME RootInv, AssignStep, UNCHANGED root
  PROVE  Standing'
<1>1. PICK t : t = Head(todo)
  OBVIOUS
<1>2. todo # <<>> /\ TypeOK /\ Standing
  BY DEF AssignStep, RootInv, AssignInv
<1>3. /\ root \in {"PBLinks", "PBLink"} /\ t.at \in {"list", "row"} \cup LinkFields
      /\ t.at = "list" => root = "PBLinks"
  BY <1>1, <1>2, Due DEF Reach, LinkFields
<1>4. \/ UNCHANGED asm
      \/ t.at = "list" /\ ListDoes
      \/ RowDoes
  <2>1. Panic \/ Fail \/ Succeed => UNCHANGED asm
    BY DEF Panic, Fail, Succeed
  <2> QED BY <1>1, <1>3, <2>1, StepDoes DEF ListDoes, RowDoes
<1> QED BY <1>2, <1>3, <1>4, AboveStands

-----------------------------------------------------------------------------
(* What may be built. *)

LEMMA Conforming ==
  ASSUME AssignInv, ~failed, Standing, Below
  PROVE  BuiltConforms
<1> SUFFICES ASSUME RootM = "Value" PROVE BuiltConforms
  BY DEF BuiltConforms
<1>1. TypeOK /\ Hat!AssemblerInv
  BY DEF AssignInv
<1>2. /\ naHat.cm = Raised(na.cm, ListRuns) /\ laHat.cm = Raised(la.cm, RowRuns)
      /\ laHat.state = la.state
  BY <1>1, HatFields
<1>3. \A i \in 1..Last :
        Complete(node.Links[i]) \/ (i = Last /\ la.state = "midValue" /\ laHat.cm # "Value")
  BY <1>1, <1>2 DEF Hat!AssemblerInv, Hat!ListInv, Hat!Complete, Complete, Hat!Last, Last
<1> USE DEF Standing, BuiltConforms, RootM, M, RootW, Roots, InNode, LinkFields
<1>4. CASE root = "PBLinks"
  <2>1. naHat.cm # "midvalue"
    BY <1>2, <1>4 DEF Raised
  <2>2. la.state # "midValue"
    BY <1>1, <1>2, <2>1 DEF Hat!AssemblerInv, Hat!ListInv
  <2> QED BY <1>3, <1>4, <2>2
<1>5. CASE root = "PBLink"
  <2>1. laHat.cm = "Value"
    BY <1>2, <1>5 DEF Raised
  <2>2. Complete(node.Links[Last])
    BY <1>3, <1>5, <2>1
  <2> QED BY <1>5, <2>2 DEF Row
<1>6. CASE root = "Hash"
  <2>1. va.cm = "Value" => Row.Hash # Unset
    BY <1>1 DEF Hat!AssemblerInv, Hat!RowInv, Hat!Row, Row, Hat!Last, Last
  <2> QED BY <1>6, <2>1
<1>7. CASE root \in {"Name", "Tsize", "Data"}
  BY <1>7
<1> QED BY <1>4, <1>5, <1>6, <1>7

\* A call of a list or a link refuses once that is done, by whatever assembler a caller
\* still holds; so does a leaf.
LEMMA CallRefuses ==
  ASSUME RootInv, Level = "type", RootCall, RootM = "Value"
  PROVE  RootM' = "Value" /\ RootW' = RootW
<1>1. todo = <<>> /\ ~failed /\ TypeOK /\ Standing /\ UNCHANGED root
  BY DEF RootCall, MayCall, RootInv, AssignInv
<1>2. AssemblerInv
  BY <1>1, CallerSees DEF RootInv, AssignInv
<1> USE DEF AssemblerInv, Standing, RootM, M, RootW, Roots, InNode, LinkFields
<1>3. CASE WrongKind \/ LeafAssignNull
  BY <1>1, <1>3 DEF WrongKind, LeafAssignNull, AssignNull, Panic, Fail, asm, Row, Last
<1>4. CASE LeafCall
  BY <1>1, <1>4 DEF LeafCall, HashAssignLink, NameAssignString, TsizeAssignInt,
                    DataAssignBytes, Panic, asm, Row, Last
<1>5. CASE root = "PBLinks" /\ (LinksCall \/ LinkCall)
  <2>1. na.cm = "Value" /\ la.state # "midValue" /\ la.cm = "Absent"
    BY <1>2, <1>5 DEF ListInv
  <2>2. va.hash = 0
    BY <1>2, <2>1 DEF RowInv
  <2>3. CASE LinksCall
    BY <1>1, <1>5, <2>1, <2>3
       DEF LinksCall, ListHeld, Panic, Fail, asm, AssignNull, LinksBeginList,
           LinksAssignTyped, LinksAssembleValue, LinksFinish, LinksReady
  <2>4. CASE LinkCall
    BY <1>1, <1>5, <2>1, <2>2, <2>4
       DEF LinkCall, LinkHeld, RowHeld, Panic, asm, HashAssignLink
  <2> QED BY <1>5, <2>3, <2>4
<1>6. CASE root = "PBLink" /\ LinkCall
  <2>1. la.cm = "Value" /\ va.hash = 0
    BY <1>2, <1>6 DEF RowInv
  <2>2. LinkHeld => va.state = "finished" /\ ~LinkReady
    BY <2>1 DEF LinkHeld, LinkReady
  <2>3. ASSUME NEW k \in {"Name", "Tsize"}, LinkHeld, Given(va, k) PROVE Row[k] # Unset
    BY <1>2, <2>2, <2>3 DEF Given, RowInv
  <2>4. UNCHANGED <<node, la>>
    BY <1>6, <2>1, <2>2, <2>3
       DEF LinkCall, Panic, Fail, asm, AssignNull, LinkBeginMap, LinkAssignTyped, LinkAssembleKey,
           LinkAssignKey, LinkAssembleEntry, LinkAssembleValue, LinkFinish, HashAssignLink,
           NameAssignString, TsizeAssignInt
  <2> QED BY <1>1, <1>6, <2>4 DEF Row, Last
<1> QED BY <1>3, <1>4, <1>5, <1>6 DEF RootCall

\* So does every call of a loop.
LEMMA StepRefuses ==
  ASSUME RootInv, AssignStep, RootM = "Value"
  PROVE  UNCHANGED asm
<1>1. PICK t : t = Head(todo)
  OBVIOUS
<1>2. todo # <<>>
  BY DEF AssignStep
<1>3. /\ ~failed /\ FrameFits(t) /\ t.at \in Reach /\ root \in {"PBLinks", "PBLink"}
      /\ t.does # "assign" => RunsIn(todo, t.at)
      /\ t.does = "assign" => ReadyFor(t)
  BY <1>1, <1>2, Due
<1>4. TypeOK /\ Hat!AssemblerInv /\ Running
  BY <1>3 DEF RootInv, AssignInv
<1>5. Panic \/ Fail \/ Succeed => UNCHANGED asm
  BY DEF Panic, Fail, Succeed
<1>6. t.at \in {"list", "row"} \cup LinkFields
  BY <1>3 DEF Reach
<1>7. CASE root = "PBLinks"
  <2>1. na.cm = "Value"
    BY <1>7 DEF RootM, M
  <2>2. la.state # "midValue"
    <3>1. laHat.state = la.state /\ naHat.cm = "Value"
      BY <1>4, <2>1, HatFields DEF Raised
    <3> QED BY <1>4, <3>1 DEF Hat!AssemblerInv, Hat!ListInv
  <2>3. t.at = "list"
    BY <1>3, <1>4, <1>6, <2>2 DEF ReadyFor, Running, RowRuns, FrameFits, LinkFields
  <2>4. t.does # "assign" => la.state = "finished"
    BY <1>3, <1>4, <2>1, <2>3 DEF Running, ListRuns
  <2> QED BY <1>1, <1>5, <1>6, <2>1, <2>3, <2>4, StepDoes
          DEF LinksAssignTyped, LinksAssembleValue, LinksFinish, LinksReady, Panic, LinkFields
<1>8. CASE root = "PBLink"
  <2>1. la.cm = "Value"
    BY <1>8 DEF RootM, M
  <2>2. t.at = "row"
    BY <1>3, <1>4, <1>6, <1>8, <2>1 DEF ReadyFor, Running, FrameFits, LinkFields, Reach
  <2>3. t.does # "assign" => va.state = "finished"
    BY <1>3, <1>4, <2>1, <2>2 DEF Running, RowRuns
  <2> QED BY <1>1, <1>5, <1>6, <2>1, <2>2, <2>3, StepDoes
          DEF LinkAssignTyped, LinkAssembleKey, LinkAssembleValue, LinkFinish, LinkAssignKey,
              LinkReady, Panic, Fail, LinkFields
<1> QED BY <1>3, <1>7, <1>8

LEMMA Still ==
  ASSUME UNCHANGED <<asm, root>>
  PROVE  RootM' = RootM /\ RootW' = RootW /\ (BuiltConforms => BuiltConforms')
<1>1. RootM' = RootM /\ RootW' = RootW
  BY DEF asm, RootM, M, RootW, Row, Last
<1> QED BY <1>1 DEF BuiltConforms, asm, Row, Last, Complete
-----------------------------------------------------------------------------
(* Every step of a builder keeps RootInv. *)

\* A call of a builder is a call the whole tree has an action for.
LEMMA RootCallKeeps ==
  ASSUME RootInv, Level = "type", RootCall
  PROVE  RootInv'
<1>1. /\ todo = <<>> /\ ~failed /\ MayCall /\ UNCHANGED <<todo, failed, root>>
      /\ AssignInv /\ TypeOK /\ Standing
  BY DEF RootCall, MayCall, RootInv, AssignInv
<1>2. AssemblerInv
  BY <1>1, CallerSees DEF AssignInv
<1> SUFFICES AssignInv' /\ Standing'
  <2>1. Below'
    BY <1>1 DEF Below
  <2> QED BY <1>1, <2>1 DEF RootInv
<1>3. CASE WrongKind \/ LeafAssignNull
  <2>1. UNCHANGED asm /\ res' \in {"ok", "err", "panic"}
    BY <1>3 DEF WrongKind, LeafAssignNull, AssignNull, Panic, Fail
  <2> QED BY <1>1, <2>1, AboveStands, Unmoved DEF asm
<1>4. CASE LeafCall
  <2>1. CASE root = "Data"
    <3>1. Given(na, "Data")
      BY <1>1, <2>1 DEF Given, Standing
    <3>2. \E c \in Chunks : DataAssignBytes(c)
      BY <1>4, <2>1 DEF LeafCall, LinkFields
    <3>3. NodeCall
      BY <3>1, <3>2 DEF NodeCall
    <3> QED BY <1>1, <1>2, <1>4, <3>3, CallKeeps, LeafStands
  <2>2. CASE root \in LinkFields
    <3>1. LinkHeld /\ Given(va, root)
      BY <1>1, <2>2 DEF LinkHeld, RowHeld, Given, Standing, InNode, LinkFields
    <3>2. \/ root = "Hash"  /\ \E h \in Hashes : HashAssignLink(h)
          \/ root = "Name"  /\ \E n \in Names : NameAssignString(n)
          \/ root = "Tsize" /\ \E t \in Tsizes : TsizeAssignInt(t)
      BY <1>4, <2>2 DEF LeafCall, LinkFields
    <3>3. LinkCall
      BY <3>1, <3>2 DEF LinkCall
    <3> QED BY <1>1, <1>2, <1>4, <3>3, CallKeeps, LeafStands
  <2> QED BY <1>4, <2>1, <2>2 DEF LeafCall, LinkFields
<1>5. CASE root = "PBLinks" /\ LinksCall
  <2>1. ListDoes
    BY <1>5 DEF LinksCall, ListDoes
  <2> QED BY <1>1, <1>5, <2>1, CallKeeps, AboveStands
<1>6. CASE root \in {"PBLinks", "PBLink"} /\ LinkCall
  <2>1. RowDoes
    BY <1>6 DEF LinkCall, RowDoes
  <2> QED BY <1>1, <1>6, <2>1, CallKeeps, AboveStands
<1> QED BY <1>3, <1>4, <1>5, <1>6 DEF RootCall

LEMMA RootAssignKeeps ==
  ASSUME RootInv, Level = "type", Careless = {}, RootAssign
  PROVE  RootInv' /\ UNCHANGED vars
<1>1. PICK at, v : /\ Begin(at, v) /\ at \in Reach
                   /\ \/ at = "list" /\ v \in ListSources /\ Given(na, "Links")
                      \/ at = "row"  /\ v \in RowSources /\ RowHeld
  BY DEF RootAssign, ListAssignCall, RowAssignCall, Reach
<1>2. AssignInv' /\ UNCHANGED vars
  BY <1>1, BeginKeeps DEF RootInv
<1>3. UNCHANGED root /\ ~failed' /\ todo' = <<Frame(at, "assign", v)>>
  BY <1>1 DEF RootAssign, Begin, MayCall
<1>4. Standing'
  BY <1>2, <1>3, AboveStands DEF vars, asm, RootInv, AssignInv
<1>5. Below'
  <2>1. \A i \in 1..Len(todo') : todo'[i].at = at
    BY <1>3 DEF Frame
  <2> QED BY <1>1, <1>3, <2>1 DEF Below, Reach
<1> QED BY <1>2, <1>3, <1>4, <1>5 DEF RootInv

LEMMA RootStepKeeps ==
  ASSUME RootInv, Level = "type", Careless = {}, RootStep
  PROVE  RootInv'
<1>1. AssignInv /\ ~failed /\ AssignStep /\ UNCHANGED root
  BY DEF RootStep, AssignStep, RootInv, AssignInv
<1>2. AssignInv' /\ Standing' /\ Below'
  BY <1>1, StepKeeps, StepStands, StaysBelow
<1>3. ASSUME failed' PROVE BuiltConforms'
  <2>1. BuiltConforms
    BY <1>1, Conforming DEF RootInv
  <2>2. res' # "ok"
    <3>1. PICK more : Then(more)
      BY <1>1 DEF AssignStep, Assign, Turn, AssembleKey, AssignKey, AssembleValue
    <3> QED BY <1>1, <1>3, <3>1 DEF Then
  <2>3. \/ UNCHANGED asm
        \/ IsLoop(Head(todo), "node")
        \/ va' = LinkTidied /\ UNCHANGED <<node, na, la>>
    BY <1>1, <2>2, StepFails
  <2>4. root \in {"PBLinks", "PBLink"} /\ ~IsLoop(Head(todo), "node")
    BY <1>1, Due DEF AssignStep, IsLoop, Reach, LinkFields
  <2>5. UNCHANGED <<node, na, la>>
    BY <2>3, <2>4 DEF asm
  <2> QED BY <1>1, <2>1, <2>4, <2>5 DEF BuiltConforms, RootM, M, Row, Last, Complete
<1> QED BY <1>2, <1>3 DEF RootInv

LEMMA RootNextKeeps ==
  ASSUME RootInv, Level = "type", Careless = {}, [RootNext]_rootVars
  PROVE  RootInv'
<1>1. CASE RootReset
  <2>1. /\ Rooted(root', node', na', la', va') /\ res' = "ok" /\ root' \in Roots
        /\ todo' = <<>> /\ failed' = FALSE
    BY <1>1 DEF RootReset, RootInv, Standing
  <2>2. (/\ root \in Roots /\ Rooted(root, node, na, la, va) /\ res = "ok"
         /\ todo = <<>> /\ failed = FALSE
         => RootInv)'
    BY RootedConsistent, PTL
  <2> QED BY <2>1, <2>2
<1>2. CASE Build \/ UNCHANGED rootVars
  <2>1. UNCHANGED <<asm, root, todo, failed>> /\ res' \in {"ok", "err", "panic"}
    BY <1>2 DEF Build, Panic, rootVars, assignVars, vars, asm, RootInv, AssignInv, TypeOK
  <2>2. AssignInv'
    BY <2>1, Unmoved DEF RootInv, asm
  <2>3. Standing'
    BY <2>1, AboveStands DEF RootInv, AssignInv
  <2>4. Below'
    BY <2>1 DEF RootInv, Below, Reach
  <2>5. failed' => BuiltConforms'
    BY <2>1, Still DEF RootInv
  <2> QED BY <2>2, <2>3, <2>4, <2>5 DEF RootInv
<1>3. CASE RootCall
  BY <1>3, RootCallKeeps
<1>4. CASE RootAssign
  BY <1>4, RootAssignKeeps
<1>5. CASE RootStep
  BY <1>5, RootStepKeeps
<1> QED BY <1>1, <1>2, <1>3, <1>4, <1>5 DEF RootNext

-----------------------------------------------------------------------------
(* The theorems, of the type-level builders and of a careful caller.       *)

\* The assemblers of a builder of any type never get out of step, under calls and under
\* the loops of an AssignNode.
THEOREM RootConsistent ==
  Level = "type" /\ Careless = {} => (RootSpec => []RootInv)
<1> SUFFICES ASSUME Level = "type" /\ Careless = {} PROVE RootSpec => []RootInv
  OBVIOUS
<1>1. RootInit => RootInv
  BY RootedConsistent DEF RootInit
<1>2. RootInv /\ [RootNext]_rootVars => RootInv'
  BY RootNextKeeps
<1> QED BY <1>1, <1>2, PTL DEF RootSpec

\* What Build may return satisfies the schema of the builder's type, also after an
\* AssignNode that failed in its loop: in a list every link has its Hash, in a link Hash
\* is set, and a leaf has its value.
THEOREM BuildsConforming ==
  Level = "type" /\ Careless = {} => (RootSpec => []BuiltConforms)
<1>1. RootInv => BuiltConforms
  BY Conforming DEF RootInv
<1> QED BY <1>1, RootConsistent, PTL

\* What Build has handed out, a pointer into the builder, stays as it was until Reset,
\* whatever is called, and whatever is assigned to what is finished.
THEOREM BuildsFinal ==
  Level = "type" /\ Careless = {} => (RootSpec => []HandedOutStays)
<1> SUFFICES ASSUME Level = "type" /\ Careless = {} PROVE RootSpec => []HandedOutStays
  OBVIOUS
<1>1. RootInit => HandedOutStays
  BY DEF RootInit, HandedOutStays
<1>2. RootInv /\ HandedOutStays /\ [RootNext]_rootVars => HandedOutStays'
  <2> SUFFICES ASSUME RootInv, HandedOutStays, [RootNext]_rootVars, built' # Unset
               PROVE  RootM' = "Value" /\ RootW' = built'
    BY DEF HandedOutStays
  <2>1. CASE RootReset
    BY <2>1 DEF RootReset
  <2>2. CASE Build \/ UNCHANGED rootVars
    <3>1. UNCHANGED <<asm, root>>
      BY <2>2 DEF Build, Panic, rootVars, assignVars, vars, asm
    <3> QED BY <2>2, <3>1, Still DEF Build, Panic, rootVars, HandedOutStays
  <2>3. CASE RootCall
    BY <2>3, CallRefuses DEF RootCall, HandedOutStays
  <2>4. CASE RootAssign
    <3>1. UNCHANGED <<asm, root, built>>
      BY <2>4, RootAssignKeeps DEF RootAssign, vars, asm
    <3> QED BY <3>1, Still DEF HandedOutStays
  <2>5. CASE RootStep
    <3>1. UNCHANGED <<asm, root, built>>
      BY <2>5, StepRefuses DEF RootStep, HandedOutStays
    <3> QED BY <3>1, Still DEF HandedOutStays
  <2> QED BY <2>1, <2>2, <2>3, <2>4, <2>5 DEF RootNext
<1> QED BY <1>1, <1>2, RootConsistent, PTL DEF RootSpec

\* Every variable keeps its type; what Build hands out has the type of the builder.
THEOREM RootTypeCorrect ==
  Level = "type" /\ Careless = {} => (RootSpec => []RootTypeOK)
<1>1. RootInv /\ HandedOutStays => RootTypeOK
  <2> SUFFICES ASSUME RootInv, HandedOutStays PROVE RootTypeOK
    OBVIOUS
  <2>1. AssignTypeOK /\ TypeOK /\ root \in Roots
    BY AssignShows DEF RootInv, Standing, AssignInv
  <2> SUFFICES ASSUME built # Unset
               PROVE  built \in CASE root = "PBLinks" -> Seq(PBLink)
                                  [] root = "PBLink" -> PBLink
                                  [] root = "Hash" -> Hashes
                                  [] root = "Name" -> Names
                                  [] root = "Tsize" -> Tsizes
                                  [] root = "Data" -> Chunks
    BY <2>1 DEF RootTypeOK
  <2>2. RootM = "Value" /\ RootW = built
    BY DEF HandedOutStays
  <2>3. CASE root \in InNode
    BY <2>1, <2>2, <2>3 DEF TypeOK, PBNode, RootW, InNode
  <2>4. CASE root \notin InNode
    <3>1. Row \in PBLink
      BY <2>1, <2>4 DEF RootInv, Standing, TypeOK, PBNode, Row, Last
    <3> QED BY <2>1, <2>2, <2>4, <3>1 DEF PBLink, RootW, Roots, InNode
  <2> QED BY <2>3, <2>4
<1> QED BY <1>1, RootConsistent, BuildsFinal, PTL
=============================================================================
