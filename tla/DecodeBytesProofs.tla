------------------------- MODULE DecodeBytesProofs -------------------------
(***************************************************************************)
(* The decoder as a caller of the assemblers, at either level: Outline is  *)
(* inductive, so every call it makes is one PBAssembler allows and is      *)
(* answered without an error, and what it accepts is complete.  With       *)
(* ReadsOn, which says how far the message has got, it implements          *)
(* DecodeSpec.                                                             *)
(***************************************************************************)
EXTENDS DecodeBytes, PBAssemblerProofs, DagPBProofs

-----------------------------------------------------------------------------
(* Calls on the assembler of the node. *)

LEMMA BeginMapOpens ==
  ASSUME TypeOK, Whole, NodeBeginMap
  PROVE  \/ na.m # "Absent" /\ res' = "panic" /\ UNCHANGED asm
         \/ res' = "ok" /\ NodeOpen({})'
<1>1. CASE na.m # "Absent"
  BY <1>1 DEF NodeBeginMap, Panic
<1>2. CASE na.m = "Absent"
  BY <1>2 DEF NodeBeginMap, Whole, Fresh, EmptyNode, TypeOK, NodeOpen, NodeIn, NoList, NoRowOpen,
              RowsComplete, Last, NodeReady
<1> QED BY <1>1, <1>2

LEMMA KeyAsked ==
  ASSUME TypeOK, NEW S, NodeOpen(S), NodeAssembleKey
  PROVE  res' = "ok" /\ NodeKeyed(S)'
<1>1. /\ na' = [NodeTidied EXCEPT !.state = "midKey"] /\ la' = LinksReleased
      /\ res' = "ok" /\ UNCHANGED <<node, va>>
  BY DEF NodeOpen, NodeAssembleKey
<1>2. /\ na'.m = na.m /\ na'.s = na.s /\ na'.state = "midKey"
      /\ na'.cm = "Absent" \/ na'.cm = na.cm
      /\ la'.state = la.state /\ la'.cm = la.cm
  BY <1>1 DEF NodeTidied, LinksReleased, TypeOK
<1> QED BY <1>1, <1>2 DEF NodeOpen, NodeKeyed, NodeIn, NoList, NoRowOpen, RowsComplete,
         Last, Complete

LEMMA KeyTaken ==
  ASSUME TypeOK, NEW S, NEW k \in NodeFields, k \notin S, NodeKeyed(S), NodeAssignKey(k)
  PROVE  res' = "ok" /\ NodeExpects(S, k)'
BY DEF NodeKeyed, NodeAssignKey, NodeFree, NodeExpects, TypeOK, NodeIn, NoList, NoRowOpen,
       RowsComplete,
         Last, Complete

LEMMA ValueAsked ==
  ASSUME TypeOK, NEW S, NEW k, NodeExpects(S, k), NodeAssembleValue
  PROVE  res' = "ok" /\ NodeTakes(S, k)'
<1>1. /\ na' = [na EXCEPT !.state = "midValue"] /\ la' = [la EXCEPT !.w = @ \/ na.f = "Links"]
      /\ res' = "ok" /\ UNCHANGED <<node, va>>
  BY DEF NodeExpects, NodeAssembleValue
<1>2. /\ na'.m = na.m /\ na'.s = na.s /\ na'.state = "midValue" /\ na'.f = na.f /\ na'.cm = na.cm
      /\ la'.state = la.state /\ la'.cm = la.cm
      /\ na.f = "Links" => la'.w
  BY <1>1 DEF TypeOK
<1> QED BY <1>1, <1>2 DEF NodeExpects, NodeTakes, NodeIn, NoList, NoRowOpen, RowsComplete,
         Last, Complete

LEMMA DataTaken ==
  ASSUME TypeOK, NEW S, "Data" \notin S, NEW c \in Chunks, NodeTakes(S, "Data"), DataAssignBytes(c)
  PROVE  res' = "ok" /\ NodeOpen(S \cup {"Data"})'
<1>1. res' = "ok" /\ node' = [node EXCEPT !.Data = c] /\ UNCHANGED <<na, la, va>>
  BY DEF NodeTakes, NodeIn, DataAssignBytes
<1>2. node'.Links = node.Links /\ node'.Data = c /\ c # Unset
  BY <1>1, ValuesAssumption DEF TypeOK, PBNode
<1> QED BY <1>1, <1>2
        DEF NodeTakes, NodeOpen, NodeIn, NoList, NoRowOpen, RowsComplete, Last, Complete,
            NodeReady, NodeValueDone

LEMMA ListBegun ==
  ASSUME TypeOK, NEW S, "Links" \notin S, NodeTakes(S, "Links"), LinksBeginList(0)
  PROVE  res' = "ok" /\ ListOpen(S \cup {"Links"})'
<1>1. na' = [na EXCEPT !.cm = "midvalue"] /\ res' = "ok" /\ UNCHANGED <<node, la, va>>
  BY DEF NodeTakes, NodeIn, NoList, LinksBeginList
<1> QED BY <1>1 DEF NodeTakes, NodeIn, NoList, NoRowOpen, ListOpen, ListIn, LinksReady,
         RowsComplete, Last, Complete, TypeOK

LEMMA NodeEnds ==
  ASSUME TypeOK, NEW S, "Links" \in S, NodeOpen(S), NodeFinish
  PROVE  res' = "ok" /\ na'.m = "Value" /\ RowsComplete'
<1>1. na' = [NodeTidied EXCEPT !.state = "finished", !.m = "Value"] /\ res' = "ok" /\ node' = node
  BY DEF NodeOpen, NodeFinish
<1> QED BY <1>1 DEF NodeTidied, NodeOpen, NodeIn, RowsComplete, Last, Complete, TypeOK

-----------------------------------------------------------------------------
(* Calls on the assembler of the list. *)

LEMMA RowAdded ==
  ASSUME TypeOK, NEW S, ListOpen(S), LinksAssembleValue
  PROVE  res' = "ok" /\ RowNew(S)'
<1>1. /\ node' = [node EXCEPT !.Links = Append(@, NewLink)]
      /\ la' = [la EXCEPT !.state = "midValue", !.cm = CmReleased]
      /\ va' = RowReleased /\ res' = "ok" /\ na' = na
  BY DEF ListOpen, ListIn, LinksAssembleValue
<1>2. node \in PBNode /\ node.Links \in Seq(PBLink) /\ NewLink \in PBLink
  BY DEF TypeOK, PBNode, PBLink, NewLink
<1>3. node'.Links = Append(node.Links, NewLink) /\ node'.Data = node.Data
  BY <1>1, <1>2 DEF PBNode
<1>4. /\ Last' = Last + 1 /\ Last \in Nat /\ Row' = NewLink
      /\ \A i \in 1..Last : node'.Links[i] = node.Links[i]
  BY <1>2, <1>3 DEF Last, Row
<1>5. la'.w /\ la'.state = "midValue" /\ la'.cm = "Absent"
  BY <1>1 DEF ListOpen, ListIn, LinksReady, NoRowOpen, CmReleased, TypeOK
<1>6. va'.state = "initial" /\ va'.s = {} /\ va'.cm # "Value"
  BY <1>1 DEF ListOpen, LinksReady, NoRowOpen, RowReleased, TypeOK
<1>7. \A i \in 1..(Last' - 1) : Complete(node'.Links[i])
  BY <1>4 DEF ListOpen, RowsComplete, Complete
<1>8. ListIn(S)'
  BY <1>1, <1>3, <1>5 DEF ListOpen, ListIn
<1>9. RowIn(S)'
  BY <1>4, <1>5, <1>7, <1>8 DEF RowIn
<1> QED BY <1>1, <1>4, <1>5, <1>6, <1>9 DEF RowNew, NoRowOpen

LEMMA ListEnds ==
  ASSUME TypeOK, NEW S, ListOpen(S), LinksFinish
  PROVE  res' = "ok" /\ NodeOpen(S)'
<1>1. na' = [na EXCEPT !.cm = "Value"] /\ res' = "ok" /\ node' = node
  BY DEF ListOpen, LinksFinish
<1> QED BY <1>1 DEF ListOpen, ListIn, NodeOpen, NodeIn, NodeReady, NodeValueDone, RowsComplete,
         Last, Complete, TypeOK

-----------------------------------------------------------------------------
(* Calls on the assembler of the row. *)

LEMMA RowBegun ==
  ASSUME TypeOK, NEW S, RowNew(S), LinkBeginMap
  PROVE  res' = "ok" /\ RowOpen(S, {})'
<1>1. la' = [la EXCEPT !.cm = "midvalue"] /\ res' = "ok" /\ UNCHANGED <<node, na, va>>
  BY DEF RowNew, NoRowOpen, LinkBeginMap
<1> QED BY <1>1 DEF RowNew, RowIn, ListIn, NoRowOpen, RowOpen, RowHas, LinkReady, Row, Last,
         NewLink, Complete, LinkFields, TypeOK

LEMMA RowHasKept ==
  ASSUME NEW S, NEW T, RowHas(S, T), UNCHANGED <<node, na, la>>
  PROVE  RowHas(S, T)'
BY DEF RowHas, RowIn, ListIn, Row, Last, Complete

LEMMA RowKeyAsked ==
  ASSUME TypeOK, NEW S, NEW T, RowOpen(S, T), LinkAssembleKey
  PROVE  res' = "ok" /\ RowKeyed(S, T)'
<1>1. va' = [LinkTidied EXCEPT !.state = "midKey"] /\ res' = "ok" /\ UNCHANGED <<node, na, la>>
  BY DEF RowOpen, LinkAssembleKey
<1>2. va'.state = "midKey" /\ va'.s = va.s /\ va'.cm # "Value"
  BY <1>1 DEF RowOpen, LinkTidied, LinkTidies, TypeOK
<1> QED BY <1>1, <1>2, RowHasKept DEF RowOpen, RowKeyed

LEMMA RowKeyTaken ==
  ASSUME TypeOK, NEW S, NEW T, NEW k \in LinkFields, k \notin T, RowKeyed(S, T), LinkAssignKey(k)
  PROVE  res' = "ok" /\ RowExpects(S, T, k)'
<1>1. /\ va' = [va EXCEPT !.state = "expectValue", !.s = @ \cup {k}, !.f = k]
      /\ res' = "ok" /\ UNCHANGED <<node, na, la>>
  BY DEF RowKeyed, LinkAssignKey, LinkFree
<1> QED BY <1>1, RowHasKept DEF RowKeyed, RowExpects, TypeOK

LEMMA RowValueAsked ==
  ASSUME TypeOK, NEW S, NEW T, NEW k, RowExpects(S, T, k), LinkAssembleValue
  PROVE  res' = "ok" /\ RowTakes(S, T, k)'
<1>1. /\ va' = [va EXCEPT !.state = "midValue", !.hash = IF va.f = "Hash" THEN Last ELSE @]
      /\ res' = "ok" /\ UNCHANGED <<node, na, la>>
  BY DEF RowExpects, LinkAssembleValue
<1> QED BY <1>1, RowHasKept DEF RowExpects, RowTakes, Last, TypeOK

\* The field k of the last row gets its value.
LEMMA RowFilled ==
  ASSUME TypeOK, NEW S, NEW T, NEW k \in LinkFields, RowHas(S, T), UNCHANGED <<na, la>>,
         NEW l \in PBLink, l[k] # Unset, \A j \in LinkFields : j # k => l[j] = Row[j],
         node' = [node EXCEPT !.Links = [@ EXCEPT ![Last] = l]]
  PROVE  RowHas(S, T \cup {k})'
<1>1. /\ node \in PBNode /\ node.Links \in Seq(PBLink)
      /\ Last = Len(node.Links) /\ Last \in Nat /\ Last > 0
  BY DEF TypeOK, PBNode, Last, RowHas, RowIn
<1>2. node'.Links = [node.Links EXCEPT ![Last] = l] /\ node'.Data = node.Data
  BY <1>1 DEF PBNode
<1>3. Last' = Last /\ node'.Links[Last] = l
  BY <1>1, <1>2 DEF Last
<1>4. Row' = l
  BY <1>3 DEF Row
<1>5. \A i \in 1..(Last - 1) : node'.Links[i] = node.Links[i]
  BY <1>1, <1>2
<1>6. RowIn(S)'
  BY <1>2, <1>3, <1>5 DEF RowHas, RowIn, ListIn, Complete
<1> QED BY <1>4, <1>6 DEF RowHas

LEMMA RowThere ==
  ASSUME TypeOK, NEW S, NEW T, RowHas(S, T)
  PROVE  Row \in PBLink /\ Last \in Nat /\ Last \in 1..Last
BY DEF TypeOK, PBNode, Last, Row, RowHas, RowIn

LEMMA HashTaken ==
  ASSUME TypeOK, NEW S, NEW T, "Hash" \notin T, RowTakes(S, T, "Hash"),
         NEW h \in Hashes, HashAssignLink(h)
  PROVE  res' = "ok" /\ RowOpen(S, T \cup {"Hash"})'
<1>1. Row \in PBLink /\ Last \in Nat /\ Last \in 1..Last
  BY RowThere DEF RowTakes
<1>2. /\ node' = [node EXCEPT !.Links[Last].Hash = h]
      /\ va' = [va EXCEPT !.cm = "Value"] /\ res' = "ok" /\ UNCHANGED <<na, la>>
  BY <1>1 DEF RowTakes, HashAssignLink
<1> DEFINE l == [Row EXCEPT !.Hash = h]
<1>3. l \in PBLink /\ l.Hash # Unset /\ \A j \in LinkFields : j # "Hash" => l[j] = Row[j]
  BY <1>1, ValuesAssumption DEF PBLink, LinkFields
<1>4. node' = [node EXCEPT !.Links = [@ EXCEPT ![Last] = l]]
  BY <1>2 DEF Row
<1>5. RowHas(S, T \cup {"Hash"})'
  BY <1>2, <1>3, <1>4, RowFilled DEF RowTakes, LinkFields
<1> QED BY <1>2, <1>5 DEF RowTakes, RowOpen, LinkReady, LinkValueDone, TypeOK

LEMMA NameTaken ==
  ASSUME TypeOK, NEW S, NEW T, "Name" \notin T, RowTakes(S, T, "Name"),
         NEW n \in Names, NameAssignString(n)
  PROVE  res' = "ok" /\ RowOpen(S, T \cup {"Name"})'
<1>1. Row \in PBLink /\ Last \in Nat /\ Last \in 1..Last
  BY RowThere DEF RowTakes
<1>2. /\ node' = [node EXCEPT !.Links[Last].Name = n]
      /\ res' = "ok" /\ UNCHANGED <<na, la, va>>
  BY <1>1 DEF RowTakes, RowHas, LinkFields, NameAssignString
<1> DEFINE l == [Row EXCEPT !.Name = n]
<1>3. l \in PBLink /\ l.Name # Unset /\ \A j \in LinkFields : j # "Name" => l[j] = Row[j]
  BY <1>1, ValuesAssumption DEF PBLink, LinkFields
<1>4. node' = [node EXCEPT !.Links = [@ EXCEPT ![Last] = l]]
  BY <1>2 DEF Row
<1>5. RowHas(S, T \cup {"Name"})'
  BY <1>2, <1>3, <1>4, RowFilled DEF RowTakes, LinkFields
<1>6. Row'.Name # Unset
  BY <1>5 DEF RowHas, LinkFields
<1> QED BY <1>2, <1>5, <1>6 DEF RowTakes, RowOpen, LinkReady, LinkValueDone

LEMMA TsizeTaken ==
  ASSUME TypeOK, NEW S, NEW T, "Tsize" \notin T, RowTakes(S, T, "Tsize"),
         NEW t \in Tsizes, TsizeAssignInt(t)
  PROVE  res' = "ok" /\ RowOpen(S, T \cup {"Tsize"})'
<1>1. Row \in PBLink /\ Last \in Nat /\ Last \in 1..Last
  BY RowThere DEF RowTakes
<1>2. /\ node' = [node EXCEPT !.Links[Last].Tsize = t]
      /\ res' = "ok" /\ UNCHANGED <<na, la, va>>
  BY <1>1 DEF RowTakes, RowHas, LinkFields, TsizeAssignInt
<1> DEFINE l == [Row EXCEPT !.Tsize = t]
<1>3. l \in PBLink /\ l.Tsize # Unset /\ \A j \in LinkFields : j # "Tsize" => l[j] = Row[j]
  BY <1>1, ValuesAssumption DEF PBLink, LinkFields
<1>4. node' = [node EXCEPT !.Links = [@ EXCEPT ![Last] = l]]
  BY <1>2 DEF Row
<1>5. RowHas(S, T \cup {"Tsize"})'
  BY <1>2, <1>3, <1>4, RowFilled DEF RowTakes, LinkFields
<1>6. Row'.Tsize # Unset
  BY <1>5 DEF RowHas, LinkFields
<1> QED BY <1>2, <1>5, <1>6 DEF RowTakes, RowOpen, LinkReady, LinkValueDone

LEMMA RowEnds ==
  ASSUME TypeOK, NEW S, NEW T, "Hash" \in T, RowOpen(S, T), LinkFinish
  PROVE  res' = "ok" /\ ListOpen(S)'
<1>1. /\ va' = [LinkTidied EXCEPT !.state = "finished"] /\ la' = [la EXCEPT !.cm = "Value"]
      /\ res' = "ok" /\ UNCHANGED <<node, na>>
  BY DEF RowOpen, LinkFinish
<1>2. va'.cm # "Value"
  BY <1>1 DEF RowOpen, LinkTidied, LinkTidies, TypeOK
<1>3. la'.w = la.w /\ la'.state = la.state /\ la'.cm = "Value"
  BY <1>1 DEF TypeOK
<1>4. ListIn(S)'
  BY <1>1, <1>3 DEF RowOpen, RowHas, RowIn, ListIn
<1>5. RowsComplete
  BY RowThere DEF RowOpen, RowHas, RowIn, RowsComplete, Row, Complete, LinkFields
<1>6. RowsComplete'
  BY <1>1, <1>5 DEF RowsComplete,
         Last, Complete
<1>7. la'.state = "midValue"
  BY <1>3 DEF RowOpen, RowHas, RowIn
<1> QED BY <1>1, <1>2, <1>3, <1>4, <1>6, <1>7 DEF ListOpen, LinksReady

-----------------------------------------------------------------------------
(* The sequences of calls. *)

LEMMA Joined ==
  ASSUME NEW A, NEW s \in Seq(A), NEW t \in Seq(A), NEW u \in Seq(A), Len(u) = Len(s) + Len(t),
         \A i \in 1..Len(s) : u[i] = s[i], \A i \in 1..Len(t) : u[Len(s) + i] = t[i]
  PROVE  s \o t = u
<1>1. s \o t \in Seq(A) /\ Len(s \o t) = Len(u)
  BY ConcatProperties
<1>2. ASSUME NEW i \in 1..Len(s \o t) PROVE (s \o t)[i] = u[i]
  <2>1. CASE i <= Len(s)
    BY <2>1, <1>1, ConcatProperties
  <2>2. CASE i > Len(s)
    <3>1. i - Len(s) \in 1..Len(t)
      BY <2>2, <1>1
    <3> QED BY <2>2, <3>1, <1>1, ConcatProperties
  <2> QED BY <2>1, <2>2, <1>1
<1> QED BY <1>1, <1>2, SeqEqual

\* The calls that are made outside the rows.
NodeCalls ==
  {"ma.AssembleKey", "Data", "Links", "ma.AssembleValue", "AssignBytes", "BeginList",
   "links.AssembleValue", "BeginMap", "links.Finish", "ma.Finish"}

LEMMA DataAfterLinks ==
  FinishLinks \o SetData
    = <<"links.Finish", "ma.AssembleKey", "Data", "ma.AssembleValue", "AssignBytes">>
<1> DEFINE s == <<"links.Finish">>
           t == <<"ma.AssembleKey", "Data", "ma.AssembleValue", "AssignBytes">>
           u == <<"links.Finish", "ma.AssembleKey", "Data", "ma.AssembleValue", "AssignBytes">>
<1>1. /\ s \in Seq(NodeCalls) /\ t \in Seq(NodeCalls) /\ u \in Seq(NodeCalls)
      /\ Len(s) = 1 /\ Len(t) = 4 /\ Len(u) = 5
  BY DEF NodeCalls
<1>2. (\A i \in 1..1 : u[i] = s[i]) /\ (\A i \in 1..4 : u[1 + i] = t[i])
  OBVIOUS
<1> HIDE DEF s, t, u
<1>3. /\ Len(u) = Len(s) + Len(t)
      /\ \A i \in 1..Len(s) : u[i] = s[i]
      /\ \A i \in 1..Len(t) : u[Len(s) + i] = t[i]
  BY <1>1, <1>2
<1>4. s \o t = u
  BY <1>1, <1>3, Joined, Zenon
<1> QED BY <1>4 DEF s, t, u, FinishLinks, SetData

LEMMA FirstLink ==
  BeginLinks \o BeginLink
    = <<"ma.AssembleKey", "Links", "ma.AssembleValue", "BeginList",
        "links.AssembleValue", "BeginMap">>
<1> DEFINE s == <<"ma.AssembleKey", "Links", "ma.AssembleValue", "BeginList">>
           t == <<"links.AssembleValue", "BeginMap">>
           u == <<"ma.AssembleKey", "Links", "ma.AssembleValue", "BeginList",
                  "links.AssembleValue", "BeginMap">>
<1>1. /\ s \in Seq(NodeCalls) /\ t \in Seq(NodeCalls) /\ u \in Seq(NodeCalls)
      /\ Len(s) = 4 /\ Len(t) = 2 /\ Len(u) = 6
  BY DEF NodeCalls
<1>2. (\A i \in 1..4 : u[i] = s[i]) /\ (\A i \in 1..2 : u[4 + i] = t[i])
  OBVIOUS
<1> HIDE DEF s, t, u
<1>3. /\ Len(u) = Len(s) + Len(t)
      /\ \A i \in 1..Len(s) : u[i] = s[i]
      /\ \A i \in 1..Len(t) : u[Len(s) + i] = t[i]
  BY <1>1, <1>2
<1>4. s \o t = u
  BY <1>1, <1>3, Joined, Zenon
<1> QED BY <1>4 DEF s, t, u, BeginLinks, BeginLink

LEMMA LinksThenFinish ==
  FinishLinks \o <<"ma.Finish">> = <<"links.Finish", "ma.Finish">>
<1> DEFINE s == <<"links.Finish">>
           t == <<"ma.Finish">>
           u == <<"links.Finish", "ma.Finish">>
<1>1. /\ s \in Seq(NodeCalls) /\ t \in Seq(NodeCalls) /\ u \in Seq(NodeCalls)
      /\ Len(s) = 1 /\ Len(t) = 1 /\ Len(u) = 2
  BY DEF NodeCalls
<1>2. (\A i \in 1..1 : u[i] = s[i]) /\ (\A i \in 1..1 : u[1 + i] = t[i])
  OBVIOUS
<1> HIDE DEF s, t, u
<1>3. /\ Len(u) = Len(s) + Len(t)
      /\ \A i \in 1..Len(s) : u[i] = s[i]
      /\ \A i \in 1..Len(t) : u[Len(s) + i] = t[i]
  BY <1>1, <1>2
<1>4. s \o t = u
  BY <1>1, <1>3, Joined, Zenon
<1> QED BY <1>4 DEF s, t, u, FinishLinks

LEMMA NoLinks ==
  (BeginLinks \o FinishLinks) \o <<"ma.Finish">>
    = <<"ma.AssembleKey", "Links", "ma.AssembleValue", "BeginList",
        "links.Finish", "ma.Finish">>
<1>1. BeginLinks \o FinishLinks
      = <<"ma.AssembleKey", "Links", "ma.AssembleValue", "BeginList", "links.Finish">>
  <2> DEFINE s == <<"ma.AssembleKey", "Links", "ma.AssembleValue", "BeginList">>
             t == <<"links.Finish">>
             u == <<"ma.AssembleKey", "Links", "ma.AssembleValue", "BeginList", "links.Finish">>
  <2>1. /\ s \in Seq(NodeCalls) /\ t \in Seq(NodeCalls) /\ u \in Seq(NodeCalls)
        /\ Len(s) = 4 /\ Len(t) = 1 /\ Len(u) = 5
    BY DEF NodeCalls
  <2>2. (\A i \in 1..4 : u[i] = s[i]) /\ (\A i \in 1..1 : u[4 + i] = t[i])
    OBVIOUS
  <2> HIDE DEF s, t, u
  <2>3. /\ Len(u) = Len(s) + Len(t)
        /\ \A i \in 1..Len(s) : u[i] = s[i]
        /\ \A i \in 1..Len(t) : u[Len(s) + i] = t[i]
    BY <2>1, <2>2
  <2>4. s \o t = u
    BY <2>1, <2>3, Joined, Zenon
  <2> QED BY <2>4 DEF s, t, u, BeginLinks, FinishLinks
<1>2. <<"ma.AssembleKey", "Links", "ma.AssembleValue", "BeginList", "links.Finish">>
        \o <<"ma.Finish">>
      = <<"ma.AssembleKey", "Links", "ma.AssembleValue", "BeginList", "links.Finish", "ma.Finish">>
  <2> DEFINE s == <<"ma.AssembleKey", "Links", "ma.AssembleValue", "BeginList", "links.Finish">>
             t == <<"ma.Finish">>
             u == <<"ma.AssembleKey", "Links", "ma.AssembleValue", "BeginList",
                    "links.Finish", "ma.Finish">>
  <2>1. /\ s \in Seq(NodeCalls) /\ t \in Seq(NodeCalls) /\ u \in Seq(NodeCalls)
        /\ Len(s) = 5 /\ Len(t) = 1 /\ Len(u) = 6
    BY DEF NodeCalls
  <2>2. (\A i \in 1..5 : u[i] = s[i]) /\ (\A i \in 1..1 : u[5 + i] = t[i])
    OBVIOUS
  <2> HIDE DEF s, t, u
  <2>3. /\ Len(u) = Len(s) + Len(t)
        /\ \A i \in 1..Len(s) : u[i] = s[i]
        /\ \A i \in 1..Len(t) : u[Len(s) + i] = t[i]
    BY <2>1, <2>2
  <2>4. s \o t = u
    BY <2>1, <2>3, Joined, Zenon
  <2> QED BY <2>4 DEF s, t, u
<1> QED BY <1>1, <1>2

-----------------------------------------------------------------------------
(* One call after the other. *)

Allowed == NodeCall \/ LinksCall \/ LinkCall

\* The first of the calls due is made, and if it succeeds the others remain.
LEMMA CallOnce ==
  ASSUME Call
  PROVE  /\ Make(Head(calls))
         /\ res' = "ok" => calls' = Tail(calls) /\ UNCHANGED <<flow, outcome>>
BY DEF Call

LEMMA DataCalls ==
  ASSUME TypeOK, NEW S, "Data" \notin S, field.chunk \in Chunks, AtData(S), Call
  PROVE  /\ res' = "ok" /\ Allowed
         /\ calls' = Tail(calls)
         /\ AtData(S)' \/ (calls' = <<>> /\ NodeOpen(S \cup {"Data"})')
<1>1. CASE calls = <<"links.Finish", "ma.AssembleKey", "Data", "ma.AssembleValue", "AssignBytes">>
           /\ ListOpen(S)
  <2>1. Tail(calls) = SetData
    BY <1>1 DEF SetData
  <2>2. LinksFinish
    BY <1>1, CallOnce DEF Make
  <2>3. res' = "ok" /\ NodeOpen(S)'
    BY <1>1, <2>2, ListEnds
  <2>4. Allowed
    BY <1>1, <2>2 DEF Allowed, LinksCall, ListHeld, Given, ListOpen, ListIn
  <2> QED BY <2>1, <2>3, <2>4, CallOnce DEF AtData
<1>2. CASE calls = SetData /\ NodeOpen(S)
  <2>1. Head(calls) = "ma.AssembleKey"
        /\ Tail(calls) = <<"Data", "ma.AssembleValue", "AssignBytes">>
    BY <1>2 DEF SetData
  <2>2. NodeAssembleKey
    BY <2>1, CallOnce DEF Make
  <2>3. res' = "ok" /\ NodeKeyed(S)'
    BY <1>2, <2>2, KeyAsked
  <2>4. Allowed
    BY <1>2, <2>2 DEF Allowed, NodeCall, NodeHeld, NodeOpen, NodeIn
  <2> QED BY <2>1, <2>3, <2>4, CallOnce DEF AtData
<1>3. CASE calls = <<"Data", "ma.AssembleValue", "AssignBytes">> /\ NodeKeyed(S)
  <2>1. Head(calls) = "Data" /\ Tail(calls) = <<"ma.AssembleValue", "AssignBytes">>
    BY <1>3
  <2>2. NodeAssignKey("Data")
    BY <2>1, CallOnce DEF Make
  <2>3. res' = "ok" /\ NodeExpects(S, "Data")'
    BY <1>3, <2>2, KeyTaken DEF NodeFields
  <2>4. Allowed
    BY <1>3, <2>2 DEF Allowed, NodeCall, NodeHeld, NodeKeyed, NodeIn, AnyKey, NodeFields
  <2> QED BY <2>1, <2>3, <2>4, CallOnce DEF AtData
<1>4. CASE calls = <<"ma.AssembleValue", "AssignBytes">> /\ NodeExpects(S, "Data")
  <2>1. Head(calls) = "ma.AssembleValue" /\ Tail(calls) = <<"AssignBytes">>
    BY <1>4
  <2>2. NodeAssembleValue
    BY <2>1, CallOnce DEF Make
  <2>3. res' = "ok" /\ NodeTakes(S, "Data")'
    BY <1>4, <2>2, ValueAsked
  <2>4. Allowed
    BY <1>4, <2>2 DEF Allowed, NodeCall, NodeHeld, NodeExpects, NodeIn
  <2> QED BY <2>1, <2>3, <2>4, CallOnce DEF AtData
<1>5. CASE calls = <<"AssignBytes">> /\ NodeTakes(S, "Data")
  <2>1. Head(calls) = "AssignBytes" /\ Tail(calls) = <<>>
    BY <1>5
  <2>2. DataAssignBytes(field.chunk)
    BY <2>1, CallOnce DEF Make
  <2>3. res' = "ok" /\ NodeOpen(S \cup {"Data"})'
    BY <1>5, <2>2, DataTaken
  <2>4. Allowed
    BY <1>5, <2>2 DEF Allowed, NodeCall, Given, NodeTakes
  <2> QED BY <2>1, <2>3, <2>4, CallOnce
<1> QED BY <1>1, <1>2, <1>3, <1>4, <1>5 DEF AtData

LEMMA LinksCalls ==
  ASSUME TypeOK, NEW S, NEW c, NEW d, AtLinks(S, c, d), calls # <<c, d>>, Call
  PROVE  res' = "ok" /\ Allowed /\ calls' = Tail(calls) /\ AtLinks(S, c, d)'
<1> USE DEF AtLinks
<1>1. CASE calls = <<"ma.AssembleKey", "Links", "ma.AssembleValue", "BeginList", c, d>>
           /\ NodeOpen(S) /\ "Links" \notin S
  <2>1. Head(calls) = "ma.AssembleKey"
        /\ Tail(calls) = <<"Links", "ma.AssembleValue", "BeginList", c, d>>
    BY <1>1
  <2>2. NodeAssembleKey
    BY <2>1, CallOnce DEF Make
  <2>3. res' = "ok" /\ NodeKeyed(S)'
    BY <1>1, <2>2, KeyAsked
  <2>4. Allowed
    BY <1>1, <2>2 DEF Allowed, NodeCall, NodeHeld, NodeOpen, NodeIn
  <2> QED BY <1>1, <2>1, <2>3, <2>4, CallOnce
<1>2. CASE calls = <<"Links", "ma.AssembleValue", "BeginList", c, d>>
           /\ NodeKeyed(S) /\ "Links" \notin S
  <2>1. Head(calls) = "Links" /\ Tail(calls) = <<"ma.AssembleValue", "BeginList", c, d>>
    BY <1>2
  <2>2. NodeAssignKey("Links")
    BY <2>1, CallOnce DEF Make
  <2>3. res' = "ok" /\ NodeExpects(S, "Links")'
    BY <1>2, <2>2, KeyTaken DEF NodeFields
  <2>4. Allowed
    BY <1>2, <2>2 DEF Allowed, NodeCall, NodeHeld, NodeKeyed, NodeIn, AnyKey, NodeFields
  <2> QED BY <1>2, <2>1, <2>3, <2>4, CallOnce
<1>3. CASE calls = <<"ma.AssembleValue", "BeginList", c, d>>
           /\ NodeExpects(S, "Links") /\ "Links" \notin S
  <2>1. Head(calls) = "ma.AssembleValue" /\ Tail(calls) = <<"BeginList", c, d>>
    BY <1>3
  <2>2. NodeAssembleValue
    BY <2>1, CallOnce DEF Make
  <2>3. res' = "ok" /\ NodeTakes(S, "Links")'
    BY <1>3, <2>2, ValueAsked
  <2>4. Allowed
    BY <1>3, <2>2 DEF Allowed, NodeCall, NodeHeld, NodeExpects, NodeIn
  <2> QED BY <1>3, <2>1, <2>3, <2>4, CallOnce
<1>4. CASE calls = <<"BeginList", c, d>> /\ NodeTakes(S, "Links") /\ "Links" \notin S
  <2>1. Head(calls) = "BeginList" /\ Tail(calls) = <<c, d>>
    BY <1>4
  <2>2. LinksBeginList(0)
    BY <2>1, CallOnce DEF Make
  <2>3. res' = "ok" /\ ListOpen(S \cup {"Links"})'
    BY <1>4, <2>2, ListBegun
  <2>4. Allowed
    BY <1>4, <2>2 DEF Allowed, LinksCall, Given, NodeTakes
  <2> QED BY <1>4, <2>1, <2>3, <2>4, CallOnce
<1> QED BY <1>1, <1>2, <1>3, <1>4

LEMMA FieldCalls ==
  ASSUME TypeOK, NEW S, NEW T, NEW k \in LinkFields, NEW assign, k \notin T,
         \/ k = "Hash" /\ assign = "AssignLink" /\ CidOf[lfield.raw] \in Hashes
         \/ k = "Name" /\ assign = "AssignString" /\ lfield.name \in Names
         \/ k = "Tsize" /\ assign = "AssignInt" /\ TsizeOf[lfield.varint] \in Tsizes,
         AtField(S, T, k, assign), Call
  PROVE  /\ res' = "ok" /\ Allowed
         /\ calls' = Tail(calls)
         /\ AtField(S, T, k, assign)' \/ (calls' = <<>> /\ RowOpen(S, T \cup {k})')
<1>1. CASE calls = SetField(k, assign) /\ RowOpen(S, T)
  <2>1. Head(calls) = "link.AssembleKey" /\ Tail(calls) = <<k, "link.AssembleValue", assign>>
    BY <1>1 DEF SetField
  <2>2. LinkAssembleKey
    BY <2>1, CallOnce DEF Make
  <2>3. res' = "ok" /\ RowKeyed(S, T)'
    BY <1>1, <2>2, RowKeyAsked
  <2>4. Allowed
    BY <1>1, <2>2 DEF Allowed, LinkCall, LinkHeld, RowHeld, RowOpen, RowHas, RowIn
  <2> QED BY <2>1, <2>3, <2>4, CallOnce DEF AtField
<1>2. CASE calls = <<k, "link.AssembleValue", assign>> /\ RowKeyed(S, T)
  <2>1. Head(calls) = k /\ Tail(calls) = <<"link.AssembleValue", assign>>
    BY <1>2
  <2>2. LinkAssignKey(k)
    BY <2>1, CallOnce DEF Make, LinkFields
  <2>3. res' = "ok" /\ RowExpects(S, T, k)'
    BY <1>2, <2>2, RowKeyTaken
  <2>4. Allowed
    BY <1>2, <2>2 DEF Allowed, LinkCall, LinkHeld, RowHeld, RowKeyed, RowHas, RowIn, AnyKey
  <2> QED BY <2>1, <2>3, <2>4, CallOnce DEF AtField
<1>3. CASE calls = <<"link.AssembleValue", assign>> /\ RowExpects(S, T, k)
  <2>1. Head(calls) = "link.AssembleValue" /\ Tail(calls) = <<assign>>
    BY <1>3
  <2>2. LinkAssembleValue
    BY <2>1, CallOnce DEF Make
  <2>3. res' = "ok" /\ RowTakes(S, T, k)'
    BY <1>3, <2>2, RowValueAsked
  <2>4. Allowed
    BY <1>3, <2>2 DEF Allowed, LinkCall, LinkHeld, RowHeld, RowExpects, RowHas, RowIn
  <2> QED BY <2>1, <2>3, <2>4, CallOnce DEF AtField
<1>4. CASE calls = <<assign>> /\ RowTakes(S, T, k)
  <2>1. Head(calls) = assign /\ Tail(calls) = <<>>
    BY <1>4
  <2>2. LinkHeld /\ k \in va.s /\ Given(va, k)
    BY <1>4 DEF LinkHeld, RowHeld, RowTakes, RowHas, RowIn, Given
  <2>3. /\ k = "Hash" => HashAssignLink(CidOf[lfield.raw])
        /\ k = "Name" => NameAssignString(lfield.name)
        /\ k = "Tsize" => TsizeAssignInt(TsizeOf[lfield.varint])
    BY <2>1, CallOnce DEF Make
  <2>4. res' = "ok" /\ RowOpen(S, T \cup {k})'
    BY <1>4, <2>3, HashTaken, NameTaken, TsizeTaken DEF LinkFields
  <2>5. Allowed
    BY <2>2, <2>3 DEF Allowed, LinkCall, LinkFields
  <2> QED BY <2>1, <2>4, <2>5, CallOnce
<1> QED BY <1>1, <1>2, <1>3, <1>4 DEF AtField

\* A call of the decoder is allowed, and it succeeds if BeginMap did.
LEMMA CallKeeps ==
  ASSUME DecodeTypeOK, Outline, Call
  PROVE  Outline' /\ Allowed /\ (Head(calls) # "na.BeginMap" => res' = "ok")
<1>0. TypeOK /\ calls # <<>>
  BY DEF DecodeTypeOK, Call
<1>1. CASE pc = "node" /\ calls = <<"na.BeginMap">> /\ Whole /\ have = {} /\ ~links
  <2>1. NodeBeginMap
    BY <1>1, CallOnce DEF Make
  <2>2. Allowed
    BY <2>1 DEF Allowed, NodeCall
  <2>3. CASE res' = "panic" /\ UNCHANGED asm
    <3>1. pc' = "idle" /\ calls' = <<>> /\ have' = {} /\ ~links'
      BY <2>3 DEF Call, Return
    <3>2. Whole'
      BY <1>1, <2>3 DEF asm, Whole, Fresh, FinishedComplete, Last, Complete
    <3> QED BY <1>1, <2>2, <3>1, <3>2 DEF Outline
  <2>4. CASE res' = "ok" /\ NodeOpen({})'
    <3>1. calls' = <<>> /\ UNCHANGED <<flow, outcome>>
      BY <1>1, <2>4, CallOnce
    <3>2. AtNode'
      BY <1>1, <2>4, <3>1 DEF flow, AtNode
    <3> QED BY <1>1, <2>2, <2>4, <3>1, <3>2 DEF flow, Outline
  <2> QED BY <1>0, <1>1, <2>1, <2>3, <2>4, BeginMapOpens
<1>2. CASE /\ pc = "node" /\ calls = <<"curLink.Finish">> /\ links
           /\ RowOpen(have, lhave) /\ "Hash" \in lhave
  <2>1. PICK S, T : S = have /\ T = lhave
    OBVIOUS
  <2>2. LinkFinish
    BY <1>2, CallOnce DEF Make
  <2>3. res' = "ok" /\ ListOpen(S)'
    BY <1>0, <1>2, <2>1, <2>2, RowEnds
  <2>4. Allowed
    BY <1>2, <2>2 DEF Allowed, LinkCall, LinkHeld, RowHeld, RowOpen, RowHas, RowIn
  <2>5. calls' = <<>> /\ UNCHANGED <<flow, outcome>>
    BY <1>2, <2>3, CallOnce
  <2>6. AtNode'
    BY <1>2, <2>1, <2>3, <2>5 DEF flow, AtNode
  <2> QED BY <1>2, <2>3, <2>4, <2>5, <2>6 DEF flow, Outline
<1>3. CASE /\ pc = "node" /\ "Data" \in have /\ ~links /\ field.chunk \in Chunks
           /\ AtData(have \ {"Data"})
  <2>1. PICK S : S = have \ {"Data"}
    OBVIOUS
  <2>2. /\ res' = "ok" /\ Allowed /\ calls' = Tail(calls)
        /\ AtData(S)' \/ (calls' = <<>> /\ NodeOpen(S \cup {"Data"})')
    BY <1>0, <1>3, <2>1, DataCalls
  <2>3. UNCHANGED <<flow, outcome>>
    BY <2>2, CallOnce
  <2>4. S \cup {"Data"} = have /\ have' = have
    BY <1>3, <2>1, <2>3 DEF flow
  <2>5. CASE AtData(S)'
    <3>1. AtData(have \ {"Data"})'
      BY <2>1, <2>4, <2>5
    <3> QED BY <1>3, <2>2, <2>3, <3>1 DEF flow, Outline, AtNode
  <2>6. CASE calls' = <<>> /\ NodeOpen(S \cup {"Data"})'
    BY <1>3, <2>2, <2>3, <2>4, <2>6 DEF flow, Outline, AtNode
  <2> QED BY <2>2, <2>5, <2>6
<1>4. CASE pc = "link" /\ AtLink
  <2>1. PICK S : S = have \cup {"Links"}
    OBVIOUS
  <2>2. CASE lhave = {} /\ AtLinks(have, "links.AssembleValue", "BeginMap")
    <3>1. PICK R : R = have
      OBVIOUS
    <3>2. CASE calls = <<"links.AssembleValue", "BeginMap">>
      <4>1. Head(calls) = "links.AssembleValue" /\ Tail(calls) = <<"BeginMap">>
        BY <3>2
      <4>2. LinksAssembleValue
        BY <4>1, CallOnce DEF Make
      <4>3. ListOpen(S)
        BY <2>1, <2>2, <3>2 DEF AtLinks
      <4>4. res' = "ok" /\ RowNew(S)'
        BY <1>0, <4>2, <4>3, RowAdded
      <4>5. Allowed
        BY <4>2, <4>3 DEF Allowed, LinksCall, ListHeld, Given, ListOpen, ListIn
      <4>6. calls' = <<"BeginMap">> /\ UNCHANGED <<flow, outcome>>
        BY <4>1, <4>4, CallOnce
      <4>7. RowNew(have \cup {"Links"})'
        BY <2>1, <4>4, <4>6 DEF flow
      <4> QED BY <1>4, <2>2, <4>4, <4>5, <4>6, <4>7 DEF flow, Outline, AtLink
    <3>3. CASE calls # <<"links.AssembleValue", "BeginMap">>
      <4>1. /\ res' = "ok" /\ Allowed /\ calls' = Tail(calls)
            /\ AtLinks(R, "links.AssembleValue", "BeginMap")'
        BY <1>0, <2>2, <3>1, <3>3, LinksCalls
      <4>2. UNCHANGED <<flow, outcome>>
        BY <4>1, CallOnce
      <4>3. AtLinks(have, "links.AssembleValue", "BeginMap")'
        BY <3>1, <4>1, <4>2 DEF flow
      <4> QED BY <1>4, <2>2, <4>1, <4>2, <4>3 DEF flow, Outline, AtLink
    <3> QED BY <3>2, <3>3
  <2>3. CASE lhave = {} /\ calls = <<"BeginMap">> /\ RowNew(S)
    <3>1. LinkBeginMap
      BY <2>3, CallOnce DEF Make
    <3>2. res' = "ok" /\ RowOpen(S, {})'
      BY <1>0, <2>3, <3>1, RowBegun
    <3>3. Allowed
      BY <2>3, <3>1 DEF Allowed, LinkCall, RowHeld, RowNew, RowIn
    <3>4. calls' = <<>> /\ UNCHANGED <<flow, outcome>>
      BY <2>3, <3>2, CallOnce
    <3>5. RowOpen(have \cup {"Links"}, lhave)'
      BY <2>1, <2>3, <3>2, <3>4 DEF flow
    <3> QED BY <1>4, <2>3, <3>2, <3>3, <3>4, <3>5 DEF flow, Outline, AtLink
  <2>4. CASE /\ "Hash" \in lhave /\ AtField(S, lhave \ {"Hash"}, "Hash", "AssignLink")
              /\ CidOf[lfield.raw] \in Hashes
    <3>1. PICK T : T = lhave \ {"Hash"}
      OBVIOUS
    <3>2. /\ res' = "ok" /\ Allowed /\ calls' = Tail(calls)
          /\ AtField(S, T, "Hash", "AssignLink")' \/ (calls' = <<>> /\ RowOpen(S, T \cup {"Hash"})')
      BY <1>0, <2>4, <3>1, FieldCalls DEF LinkFields
    <3>3. UNCHANGED <<flow, outcome>>
      BY <3>2, CallOnce
    <3>4. /\ T \cup {"Hash"} = lhave /\ lhave' = lhave /\ have' = have
          /\ lfield' = lfield /\ pc' = pc /\ links' = links
      BY <2>4, <3>1, <3>3 DEF flow
    <3>5. CASE AtField(S, T, "Hash", "AssignLink")'
      <4>1. AtField(have \cup {"Links"}, lhave \ {"Hash"}, "Hash", "AssignLink")'
        BY <2>1, <3>1, <3>4, <3>5
      <4> QED BY <1>4, <2>4, <3>2, <3>4, <4>1 DEF Outline, AtLink
    <3>6. CASE calls' = <<>> /\ RowOpen(S, T \cup {"Hash"})'
      <4>1. RowOpen(have \cup {"Links"}, lhave)'
        BY <2>1, <3>4, <3>6
      <4> QED BY <1>4, <3>2, <3>4, <3>6, <4>1 DEF Outline, AtLink
    <3> QED BY <3>2, <3>5, <3>6
  <2>5. CASE /\ "Name" \in lhave /\ AtField(S, lhave \ {"Name"}, "Name", "AssignString")
              /\ lfield.name \in Names
    <3>1. PICK T : T = lhave \ {"Name"}
      OBVIOUS
    <3>2. /\ res' = "ok" /\ Allowed /\ calls' = Tail(calls)
          /\ \/ AtField(S, T, "Name", "AssignString")'
             \/ calls' = <<>> /\ RowOpen(S, T \cup {"Name"})'
      BY <1>0, <2>5, <3>1, FieldCalls DEF LinkFields
    <3>3. UNCHANGED <<flow, outcome>>
      BY <3>2, CallOnce
    <3>4. /\ T \cup {"Name"} = lhave /\ lhave' = lhave /\ have' = have
          /\ lfield' = lfield /\ pc' = pc /\ links' = links
      BY <2>5, <3>1, <3>3 DEF flow
    <3>5. CASE AtField(S, T, "Name", "AssignString")'
      <4>1. AtField(have \cup {"Links"}, lhave \ {"Name"}, "Name", "AssignString")'
        BY <2>1, <3>1, <3>4, <3>5
      <4> QED BY <1>4, <2>5, <3>2, <3>4, <4>1 DEF Outline, AtLink
    <3>6. CASE calls' = <<>> /\ RowOpen(S, T \cup {"Name"})'
      <4>1. RowOpen(have \cup {"Links"}, lhave)'
        BY <2>1, <3>4, <3>6
      <4> QED BY <1>4, <3>2, <3>4, <3>6, <4>1 DEF Outline, AtLink
    <3> QED BY <3>2, <3>5, <3>6
  <2>6. CASE /\ "Tsize" \in lhave /\ AtField(S, lhave \ {"Tsize"}, "Tsize", "AssignInt")
              /\ TsizeOf[lfield.varint] \in Tsizes
    <3>1. PICK T : T = lhave \ {"Tsize"}
      OBVIOUS
    <3>2. /\ res' = "ok" /\ Allowed /\ calls' = Tail(calls)
          /\ \/ AtField(S, T, "Tsize", "AssignInt")'
             \/ calls' = <<>> /\ RowOpen(S, T \cup {"Tsize"})'
      BY <1>0, <2>6, <3>1, FieldCalls DEF LinkFields
    <3>3. UNCHANGED <<flow, outcome>>
      BY <3>2, CallOnce
    <3>4. /\ T \cup {"Tsize"} = lhave /\ lhave' = lhave /\ have' = have
          /\ lfield' = lfield /\ pc' = pc /\ links' = links
      BY <2>6, <3>1, <3>3 DEF flow
    <3>5. CASE AtField(S, T, "Tsize", "AssignInt")'
      <4>1. AtField(have \cup {"Links"}, lhave \ {"Tsize"}, "Tsize", "AssignInt")'
        BY <2>1, <3>1, <3>4, <3>5
      <4> QED BY <1>4, <2>6, <3>2, <3>4, <4>1 DEF Outline, AtLink
    <3>6. CASE calls' = <<>> /\ RowOpen(S, T \cup {"Tsize"})'
      <4>1. RowOpen(have \cup {"Links"}, lhave)'
        BY <2>1, <3>4, <3>6
      <4> QED BY <1>4, <3>2, <3>4, <3>6, <4>1 DEF Outline, AtLink
    <3> QED BY <3>2, <3>5, <3>6
  <2> QED BY <1>0, <1>4, <2>1, <2>2, <2>3, <2>4, <2>5, <2>6 DEF AtLink
<1>5. CASE pc = "return" /\ AtLinks(have, "links.Finish", "ma.Finish")
  <2>1. PICK S : S = have
    OBVIOUS
  <2>2. CASE calls = <<"links.Finish", "ma.Finish">>
    <3>1. Head(calls) = "links.Finish" /\ Tail(calls) = <<"ma.Finish">>
      BY <2>2
    <3>2. LinksFinish
      BY <3>1, CallOnce DEF Make
    <3>3. ListOpen(S \cup {"Links"})
      BY <1>5, <2>1, <2>2 DEF AtLinks
    <3>4. res' = "ok" /\ NodeOpen(S \cup {"Links"})'
      BY <1>0, <3>2, <3>3, ListEnds
    <3>5. Allowed
      BY <3>2, <3>3 DEF Allowed, LinksCall, ListHeld, Given, ListOpen, ListIn
    <3>6. calls' = <<"ma.Finish">> /\ UNCHANGED <<flow, outcome>>
      BY <3>1, <3>4, CallOnce
    <3>7. NodeOpen(have \cup {"Links"})'
      BY <2>1, <3>4, <3>6 DEF flow
    <3> QED BY <1>5, <3>4, <3>5, <3>6, <3>7 DEF flow, Outline, AtReturn
  <2>3. CASE calls # <<"links.Finish", "ma.Finish">>
    <3>1. res' = "ok" /\ Allowed /\ calls' = Tail(calls) /\ AtLinks(S, "links.Finish", "ma.Finish")'
      BY <1>0, <1>5, <2>1, <2>3, LinksCalls
    <3>2. UNCHANGED <<flow, outcome>>
      BY <3>1, CallOnce
    <3>3. AtLinks(have, "links.Finish", "ma.Finish")'
      BY <2>1, <3>1, <3>2 DEF flow
    <3> QED BY <1>5, <3>1, <3>2, <3>3 DEF flow, Outline, AtReturn
  <2> QED BY <2>2, <2>3
<1>6. CASE pc = "return" /\ calls = <<"ma.Finish">> /\ NodeOpen(have \cup {"Links"})
  <2>1. PICK S : S = have \cup {"Links"}
    OBVIOUS
  <2>2. NodeFinish
    BY <1>6, CallOnce DEF Make
  <2>3. res' = "ok" /\ na'.m = "Value" /\ RowsComplete'
    BY <1>0, <1>6, <2>1, <2>2, NodeEnds
  <2>4. Allowed
    BY <1>6, <2>2 DEF Allowed, NodeCall, NodeHeld, NodeOpen, NodeIn
  <2>5. calls' = <<>> /\ UNCHANGED <<flow, outcome>>
    BY <1>6, <2>3, CallOnce
  <2> QED BY <1>6, <2>3, <2>4, <2>5 DEF flow, Outline, AtReturn
<1> QED BY <1>0, <1>1, <1>2, <1>3, <1>4, <1>5, <1>6 DEF Outline, AtNode, AtReturn

-----------------------------------------------------------------------------
(* Steps of the loops, between the calls. *)

LEMMA NodeLoop ==
  ASSUME Outline, At("node")
  PROVE  /\ na.m = "midvalue"
         /\ \/ links /\ ListOpen(have)
            \/ ~links /\ NodeOpen(have)
<1>1. AtNode /\ calls = <<>>
  BY DEF Outline, At
<1>2. ~AtData(have \ {"Data"})
  BY <1>1 DEF AtData, SetData
<1> QED BY <1>1, <1>2 DEF AtNode, ListOpen, ListIn, NodeOpen, NodeIn

LEMMA LinkLoop ==
  ASSUME Outline, At("link")
  PROVE  na.m = "midvalue" /\ links /\ RowOpen(have \cup {"Links"}, lhave)
<1>1. AtLink /\ calls = <<>>
  BY DEF Outline, At
<1>2. ~AtLinks(have, "links.AssembleValue", "BeginMap")
  BY <1>1 DEF AtLinks
<1>3. \A k, assign : ~AtField(have \cup {"Links"}, lhave \ {k}, k, assign)
  BY <1>1 DEF AtField, SetField
<1>4. links /\ RowOpen(have \cup {"Links"}, lhave)
  BY <1>1, <1>2, <1>3 DEF AtLink
<1> QED BY <1>4 DEF RowOpen, RowHas, RowIn, ListIn

LEMMA ReturnLoop ==
  ASSUME Outline, At("return")
  PROVE  na.m = "Value" /\ RowsComplete
<1>1. AtReturn /\ calls = <<>>
  BY DEF Outline, At
<1>2. ~AtLinks(have, "links.Finish", "ma.Finish")
  BY <1>1 DEF AtLinks
<1> QED BY <1>1, <1>2 DEF AtReturn

\* A decode that returns leaves a builder that cannot be begun or is complete.
LEMMA ReturnKeeps ==
  ASSUME na.m = "midvalue" \/ (na.m = "Value" /\ RowsComplete), UNCHANGED vars,
         NEW how, Return(how)
  PROVE  Outline'
<1>1. pc' = "idle" /\ calls' = <<>> /\ have' = {} /\ ~links' /\ UNCHANGED <<node, na>>
  BY DEF Return, vars
<1>2. Whole'
  BY <1>1 DEF Whole, FinishedComplete, RowsComplete, Last, Complete
<1> QED BY <1>1, <1>2 DEF Outline

LEMMA NodeInKept ==
  ASSUME UNCHANGED vars, NEW S
  PROVE  (NodeOpen(S) => NodeOpen(S)') /\ (ListOpen(S) => ListOpen(S)')
<1> USE DEF vars
<1>1. (NodeReady => NodeReady') /\ (NoRowOpen => NoRowOpen') /\ (NoList => NoList')
      /\ (RowsComplete => RowsComplete') /\ (LinksReady => LinksReady')
  BY DEF NodeReady, NodeValueDone, NoRowOpen, NoList, RowsComplete, Last, Complete, LinksReady
<1> QED BY <1>1 DEF NodeOpen, NodeIn, ListOpen, ListIn, NoRowOpen

LEMMA RowInKept ==
  ASSUME UNCHANGED vars, NEW S, NEW T
  PROVE  RowOpen(S, T) => RowOpen(S, T)'
<1>1. RowHas(S, T) => RowHas(S, T)'
  BY RowHasKept DEF vars
<1>2. LinkReady => LinkReady'
  BY DEF LinkReady, LinkValueDone, Row, Last, vars
<1> QED BY <1>1, <1>2 DEF RowOpen, vars

LEMMA DataFieldKeeps ==
  ASSUME DecodeTypeOK, Outline, DataField
  PROVE  Outline'
<1>1. At("node") /\ rest # <<>> /\ "Data" \notin have /\ UNCHANGED vars
      /\ pc' = pc /\ have' = have \cup {"Data"} /\ links' = FALSE
      /\ calls' = (IF links THEN FinishLinks ELSE <<>>) \o SetData
  BY DEF DataField, Malformed
<1>2. field'.chunk \in Chunks
  <2>1. Head(rest) \in NodeField
    BY <1>1 DEF DecodeTypeOK
  <2> QED BY <2>1 DEF DataField, Malformed, NodeField
<1>3. PICK S : S = have
  OBVIOUS
<1>4. have' \ {"Data"} = S /\ pc' = "node" /\ "Data" \in have'
  BY <1>1, <1>3 DEF At
<1>5. AtData(S)'
  <2>1. CASE links
    <3>1. calls' = <<"links.Finish", "ma.AssembleKey", "Data", "ma.AssembleValue", "AssignBytes">>
      BY <1>1, <2>1, DataAfterLinks
    <3>2. ListOpen(S)'
      BY <1>1, <1>3, <2>1, NodeLoop, NodeInKept
    <3> QED BY <3>1, <3>2 DEF AtData
  <2>2. CASE ~links
    <3>1. calls' = SetData
      BY <1>1, <2>2 DEF SetData
    <3>2. NodeOpen(S)'
      BY <1>1, <1>3, <2>2, NodeLoop, NodeInKept
    <3> QED BY <3>1, <3>2 DEF AtData
  <2> QED BY <2>1, <2>2
<1>6. AtData(have \ {"Data"})'
  BY <1>4, <1>5
<1> QED BY <1>1, <1>2, <1>4, <1>6 DEF Outline, AtNode

LEMMA LinksFieldKeeps ==
  ASSUME DecodeTypeOK, Outline, LinksField
  PROVE  Outline'
<1>1. At("node") /\ UNCHANGED vars /\ (links \/ "Links" \notin have)
      /\ pc' = "link" /\ have' = have /\ links' = TRUE /\ lhave' = {}
      /\ calls' = (IF links THEN <<>> ELSE BeginLinks) \o BeginLink
  BY DEF LinksField, Malformed
<1>2. PICK S : S = have
  OBVIOUS
<1>3. AtLinks(S, "links.AssembleValue", "BeginMap")'
  <2>1. CASE links
    <3>1. calls' = <<"links.AssembleValue", "BeginMap">>
      BY <1>1, <2>1 DEF BeginLink
    <3>2. ListOpen(S)' /\ S \cup {"Links"} = S
      BY <1>1, <1>2, <2>1, NodeLoop, NodeInKept DEF ListOpen, ListIn
    <3> QED BY <3>1, <3>2 DEF AtLinks
  <2>2. CASE ~links
    <3>1. calls' = <<"ma.AssembleKey", "Links", "ma.AssembleValue", "BeginList",
                     "links.AssembleValue", "BeginMap">>
      BY <1>1, <2>2, FirstLink
    <3>2. NodeOpen(S)' /\ "Links" \notin S
      BY <1>1, <1>2, <2>2, NodeLoop, NodeInKept
    <3> QED BY <3>1, <3>2 DEF AtLinks
  <2> QED BY <2>1, <2>2
<1>4. AtLinks(have, "links.AssembleValue", "BeginMap")'
  BY <1>1, <1>2, <1>3
<1> QED BY <1>1, <1>4 DEF Outline, AtLink

LEMMA EndOfMessageKeeps ==
  ASSUME DecodeTypeOK, Outline, EndOfMessage
  PROVE  Outline'
<1>1. At("node") /\ UNCHANGED vars /\ pc' = "return" /\ have' = have /\ calls' = ClosingCalls
  BY DEF EndOfMessage
<1>2. PICK S : S = have
  OBVIOUS
<1>3. CASE links
  <2>1. calls' = <<"links.Finish", "ma.Finish">>
    <3>1. ClosingCalls = (<<>> \o FinishLinks) \o <<"ma.Finish">>
      BY <1>3 DEF ClosingCalls
    <3>2. <<>> \o FinishLinks = FinishLinks
      BY DEF FinishLinks
    <3> QED BY <1>1, <3>1, <3>2, LinksThenFinish
  <2>2. ListOpen(S)' /\ S \cup {"Links"} = S
    BY <1>1, <1>2, <1>3, NodeLoop, NodeInKept DEF ListOpen, ListIn
  <2>3. AtLinks(S, "links.Finish", "ma.Finish")'
    BY <2>1, <2>2 DEF AtLinks
  <2>4. AtLinks(have, "links.Finish", "ma.Finish")'
    BY <1>1, <1>2, <2>3
  <2> QED BY <1>1, <2>4 DEF Outline, AtReturn
<1>4. CASE ~links /\ "Links" \in have
  <2>1. calls' = <<"ma.Finish">>
    <3>1. ClosingCalls = (<<>> \o <<>>) \o <<"ma.Finish">>
      BY <1>4 DEF ClosingCalls
    <3>2. <<>> \o <<>> = <<>>
      OBVIOUS
    <3> QED BY <1>1, <3>1, <3>2
  <2>2. NodeOpen(S)' /\ S \cup {"Links"} = S
    BY <1>1, <1>2, <1>4, NodeLoop, NodeInKept
  <2>3. NodeOpen(have \cup {"Links"})'
    BY <1>1, <1>2, <2>2
  <2> QED BY <1>1, <2>1, <2>3 DEF Outline, AtReturn
<1>5. CASE ~links /\ "Links" \notin have
  <2>1. calls' = <<"ma.AssembleKey", "Links", "ma.AssembleValue", "BeginList",
                   "links.Finish", "ma.Finish">>
    <3>1. ClosingCalls = (BeginLinks \o FinishLinks) \o <<"ma.Finish">>
      BY <1>5 DEF ClosingCalls
    <3> QED BY <1>1, <3>1, NoLinks
  <2>2. NodeOpen(S)' /\ "Links" \notin S
    BY <1>1, <1>2, <1>5, NodeLoop, NodeInKept
  <2>3. AtLinks(S, "links.Finish", "ma.Finish")'
    BY <2>1, <2>2 DEF AtLinks
  <2>4. AtLinks(have, "links.Finish", "ma.Finish")'
    BY <1>1, <1>2, <2>3
  <2> QED BY <1>1, <2>4 DEF Outline, AtReturn
<1> QED BY <1>3, <1>4, <1>5

\* What protowire and go-cid make of a field that is not malformed has the type its
\* number calls for; the conversion to int64 is total.
LEMMA FieldValues ==
  ASSUME NEW f \in LinkField, ~LinkMalformed(f)
  PROVE  /\ f.num = 1 => CidOf[f.raw] \in Hashes
         /\ f.num = 2 => f.name \in Names
         /\ f.num = 3 => TsizeOf[f.varint] \in Tsizes
BY WellFormedValues DEF LinkMalformed, WellFormed

LEMMA LinkFieldKeeps ==
  ASSUME DecodeTypeOK, Outline, NEW num, NEW k, NEW assign, NextLinkField(num, k, assign),
         \/ num = 1 /\ k = "Hash" /\ assign = "AssignLink"
         \/ num = 2 /\ k = "Name" /\ assign = "AssignString"
         \/ num = 3 /\ k = "Tsize" /\ assign = "AssignInt"
  PROVE  Outline'
<1>1. /\ At("link") /\ lrest # <<>> /\ ~LinkMalformed(Head(lrest)) /\ Head(lrest).num = num
      /\ UNCHANGED vars /\ pc' = pc /\ have' = have /\ links' = links
      /\ lfield' = Head(lrest) /\ lhave' = lhave \cup {k} /\ calls' = SetField(k, assign)
  BY DEF NextLinkField
<1>2. k \notin lhave
  BY <1>1 DEF LinkMalformed
<1>3. PICK S, T : S = have \cup {"Links"} /\ T = lhave
  OBVIOUS
<1>4. RowOpen(S, T)'
  BY <1>1, <1>3, LinkLoop, RowInKept
<1>5. AtField(S, T, k, assign)'
  BY <1>1, <1>4 DEF AtField, SetField
<1>6. lhave' \ {k} = T /\ k \in lhave' /\ have' \cup {"Links"} = S
  BY <1>1, <1>2, <1>3
<1>7. AtField(have \cup {"Links"}, lhave \ {k}, k, assign)'
  BY <1>5, <1>6
<1>8. /\ num = 1 => CidOf'[lfield'.raw] \in Hashes
      /\ num = 2 => lfield'.name \in Names
      /\ num = 3 => TsizeOf'[lfield'.varint] \in Tsizes
  <2>1. Head(lrest) \in LinkField
    BY <1>1 DEF DecodeTypeOK
  <2> QED BY <1>1, <2>1, FieldValues DEF TsizeOf
<1>9. links' /\ pc' = "link"
  BY <1>1, LinkLoop DEF At
<1> QED BY <1>6, <1>7, <1>8, <1>9 DEF Outline, AtLink

LEMMA EndOfLinkKeeps ==
  ASSUME DecodeTypeOK, Outline, EndOfLink
  PROVE  Outline'
<1>1. At("link") /\ UNCHANGED vars
  BY DEF EndOfLink
<1>2. CASE Return("err")
  BY <1>1, <1>2, LinkLoop, ReturnKeeps
<1>3. CASE /\ "Hash" \in lhave /\ calls' = <<"curLink.Finish">> /\ have' = have \cup {"Links"}
           /\ pc' = "node" /\ links' = links /\ lhave' = lhave
  <2>1. PICK S, T : S = have \cup {"Links"} /\ T = lhave
    OBVIOUS
  <2>2. RowOpen(S, T)' /\ links
    BY <1>1, <2>1, LinkLoop, RowInKept
  <2>3. RowOpen(have, lhave)'
    BY <1>3, <2>1, <2>2
  <2> QED BY <1>3, <2>2, <2>3 DEF Outline, AtNode
<1> QED BY <1>2, <1>3 DEF EndOfLink

-----------------------------------------------------------------------------
(* Every step *)

LEMMA NothingDone ==
  ASSUME Outline, UNCHANGED decodeVars
  PROVE  Outline'
<1> USE DEF decodeVars, flow, vars
<1>1. ASSUME NEW S PROVE /\ NodeKeyed(S) => NodeKeyed(S)'
                         /\ ListIn(S) => ListIn(S)'
                         /\ RowNew(S) => RowNew(S)'
                         /\ \A k : NodeExpects(S, k) => NodeExpects(S, k)'
                         /\ \A k : NodeTakes(S, k) => NodeTakes(S, k)'
  BY DEF NodeKeyed, NodeExpects, NodeTakes, NodeIn, NoList, NoRowOpen, RowsComplete, ListIn,
         RowNew, RowIn, Row, Last, Complete
<1>2. ASSUME NEW S, NEW T
      PROVE  /\ RowKeyed(S, T) => RowKeyed(S, T)'
             /\ \A k : RowExpects(S, T, k) => RowExpects(S, T, k)'
             /\ \A k : RowTakes(S, T, k) => RowTakes(S, T, k)'
  <2>1. RowHas(S, T) => RowHas(S, T)'
    BY RowHasKept
  <2> QED BY <2>1 DEF RowKeyed, RowExpects, RowTakes, Last
<1>3. \A S, T : RowOpen(S, T) => RowOpen(S, T)'
  BY RowInKept
<1>4. \A S : (NodeOpen(S) => NodeOpen(S)') /\ (ListOpen(S) => ListOpen(S)')
  BY NodeInKept
<1>5. \A S, c, d : AtLinks(S, c, d) => AtLinks(S, c, d)'
  BY <1>1, <1>4 DEF AtLinks
<1>6. \A S, T, k, assign : AtField(S, T, k, assign) => AtField(S, T, k, assign)'
  BY <1>2, <1>3 DEF AtField
<1>7. \A S : AtData(S) => AtData(S)'
  BY <1>1, <1>4 DEF AtData
<1>8. (Whole => Whole') /\ (RowsComplete => RowsComplete')
  BY DEF Whole, Fresh, FinishedComplete, RowsComplete, Last, Complete
<1>9. CASE pc \in {"idle", "read"} /\ calls = <<>> /\ have = {} /\ ~links /\ Whole
  BY <1>8, <1>9 DEF Outline
<1>10. CASE pc = "node" /\ AtNode
  BY <1>3, <1>4, <1>7, <1>8, <1>10 DEF Outline, AtNode
<1>11. CASE pc = "link" /\ AtLink
  BY <1>1, <1>3, <1>5, <1>6, <1>11 DEF Outline, AtLink
<1>12. CASE pc = "return" /\ AtReturn
  BY <1>4, <1>5, <1>8, <1>12 DEF Outline, AtReturn
<1> QED BY <1>9, <1>10, <1>11, <1>12 DEF Outline

\* Every step of the decode keeps the outline, and is one that callers may take.
LEMMA StepKeeps ==
  ASSUME DecodeTypeOK, Outline, [DecodeNext]_decodeVars
  PROVE  [Next]_vars /\ Outline'
<1>1. ASSUME NEW msg, Decode(msg) PROVE UNCHANGED vars /\ Outline'
  <2>1. Whole /\ UNCHANGED <<vars, have, links, calls>> /\ pc' = "read"
        /\ calls = <<>> /\ have = {} /\ ~links
    BY <1>1 DEF Decode, Outline
  <2>2. Whole'
    BY <2>1 DEF vars, Whole, Fresh, FinishedComplete, Last, Complete
  <2> QED BY <2>1, <2>2 DEF Outline
<1>2. ASSUME ResetBuilder PROVE Reset /\ Outline'
  <2>1. Reset /\ pc' = "idle" /\ calls' = <<>> /\ have' = {} /\ ~links'
    BY <1>2 DEF ResetBuilder, Outline, flow
  <2>2. Whole'
    BY <2>1 DEF Reset, Whole, Fresh, FinishedComplete
  <2> QED BY <2>1, <2>2 DEF Outline
<1>3. ASSUME ReadFails \/ ReadAll PROVE UNCHANGED vars /\ Outline'
  <2>1. Whole /\ UNCHANGED vars /\ have = {} /\ ~links
    BY <1>3 DEF ReadFails, ReadAll, Outline
  <2>2. Whole'
    BY <2>1 DEF vars, Whole, Fresh, FinishedComplete, Last, Complete
  <2>3. CASE ReadFails
    BY <2>1, <2>2, <2>3 DEF ReadFails, Return, Outline
  <2>4. CASE ReadAll
    BY <2>1, <2>2, <2>4 DEF ReadAll, Outline, AtNode
  <2> QED BY <1>3, <2>1, <2>3, <2>4
<1>4. ASSUME Call PROVE Allowed /\ Outline'
  BY <1>4, CallKeeps
<1>5. ASSUME RejectField PROVE UNCHANGED vars /\ Outline'
  BY <1>5, NodeLoop, ReturnKeeps DEF RejectField
<1>6. ASSUME RejectLinkField PROVE UNCHANGED vars /\ Outline'
  BY <1>6, LinkLoop, ReturnKeeps DEF RejectLinkField
<1>7. ASSUME Done PROVE UNCHANGED vars /\ Outline'
  BY <1>7, ReturnLoop, ReturnKeeps DEF Done
<1>8. ASSUME DataField PROVE UNCHANGED vars /\ Outline'
  BY <1>8, DataFieldKeeps DEF DataField
<1>9. ASSUME LinksField PROVE UNCHANGED vars /\ Outline'
  BY <1>9, LinksFieldKeeps DEF LinksField
<1>10. ASSUME EndOfMessage PROVE UNCHANGED vars /\ Outline'
  BY <1>10, EndOfMessageKeeps DEF EndOfMessage
<1>11. ASSUME EndOfLink PROVE UNCHANGED vars /\ Outline'
  BY <1>11, EndOfLinkKeeps DEF EndOfLink
<1>12. ASSUME \/ NextLinkField(1, "Hash", "AssignLink")
              \/ NextLinkField(2, "Name", "AssignString")
              \/ NextLinkField(3, "Tsize", "AssignInt")
       PROVE  UNCHANGED vars /\ Outline'
  <2>1. UNCHANGED vars
    BY <1>12 DEF NextLinkField
  <2> QED BY <1>12, <2>1, LinkFieldKeeps
<1>13. ASSUME UNCHANGED decodeVars PROVE UNCHANGED vars /\ Outline'
  BY <1>13, NothingDone DEF decodeVars
<1>14. CASE DecodeStep
  BY <1>3, <1>4, <1>5, <1>6, <1>7, <1>8, <1>9, <1>10, <1>11, <1>12, <1>14
     DEF DecodeStep, Next, Allowed
<1>15. CASE \E msg \in (IF tries = 0 THEN Inputs ELSE Later) : Decode(msg)
  BY <1>1, <1>15
<1>16. CASE ResetBuilder
  BY <1>2, <1>16 DEF Next
<1> QED BY <1>13, <1>14, <1>15, <1>16 DEF DecodeNext

LEMMA NoFieldTyped == NoField \in NodeField /\ NoLinkField \in LinkField
<1>1. <<>> \in Seq(LinkField)
  OBVIOUS
<1>2. 0 \in 0..MaxUint64
  BY WireAssumption DEF MaxUint64
<1> QED BY <1>1, <1>2 DEF NoField, NodeField, NoLinkField, LinkField, NodeFieldOf, LinkFieldOf

LEMMA FlowTypesKept ==
  ASSUME DecodeTypeOK, TypeOK', [DecodeNext]_decodeVars
  PROVE  DecodeTypeOK'
<1> USE DEF DecodeTypeOK
<1>1. ASSUME NEW how \in {"ok", "err", "panic"}, Return(how) PROVE DecodeTypeOK'
  <2>1. /\ input' = input /\ rest' = <<>> /\ lrest' = <<>> /\ have' = {} /\ lhave' = {}
        /\ links' = FALSE /\ pc' = "idle" /\ outcome' = how /\ tries' = tries
    BY <1>1 DEF Return
  <2>2. field' \in NodeField /\ lfield' \in LinkField
    BY <1>1, NoFieldTyped DEF Return
  <2>3. rest' \in Seq(NodeField) /\ lrest' \in Seq(LinkField) /\ input' \in Seq(NodeField)
    BY <2>1
  <2>4. have' \subseteq NodeFields /\ lhave' \subseteq LinkFields /\ links' \in BOOLEAN
    BY <2>1
  <2>5. /\ pc' \in {"idle", "read", "node", "link", "return"} /\ tries' \in 0..MaxCalls
        /\ outcome' \in {"none", "busy", "ok", "err", "panic"}
    BY <2>1
  <2> QED BY <2>2, <2>3, <2>4, <2>5
<1>2. ASSUME NEW msg \in Inputs \cup Later, Decode(msg) PROVE DecodeTypeOK'
  <2>1. msg \in Seq(NodeField)
    BY DecodeAssumption
  <2>2. tries + 1 \in 0..MaxCalls
    BY <1>2, DecodeAssumption DEF Decode
  <2> QED BY <1>2, <2>1, <2>2 DEF Decode, flow
<1>3. ASSUME ResetBuilder PROVE DecodeTypeOK'
  BY <1>3 DEF ResetBuilder, flow
<1>4. ASSUME ReadAll \/ EndOfMessage PROVE DecodeTypeOK'
  BY <1>4 DEF ReadAll, EndOfMessage
<1>5. ASSUME Call PROVE DecodeTypeOK'
  <2>1. CASE UNCHANGED <<flow, outcome>>
    BY <2>1 DEF flow
  <2>2. CASE res' # "ok" /\ Return(res')
    BY <1>1, <2>2 DEF TypeOK
  <2> QED BY <1>5, <2>1, <2>2 DEF Call
<1>6. ASSUME ReadFails \/ RejectField \/ RejectLinkField \/ Done PROVE DecodeTypeOK'
  BY <1>1, <1>6 DEF ReadFails, RejectField, RejectLinkField, Done
<1>7. ASSUME DataField \/ LinksField PROVE DecodeTypeOK'
  <2>1. Head(rest) \in NodeField /\ Tail(rest) \in Seq(NodeField)
    BY <1>7 DEF DataField, LinksField
  <2>2. Head(rest).link \in Seq(LinkField)
    BY <2>1 DEF NodeField
  <2> QED BY <1>7, <2>1, <2>2 DEF DataField, LinksField, NodeFields
<1>8. ASSUME NEW num, NEW k \in LinkFields, NEW assign, NextLinkField(num, k, assign)
      PROVE  DecodeTypeOK'
  <2>1. Head(lrest) \in LinkField /\ Tail(lrest) \in Seq(LinkField)
    BY <1>8 DEF NextLinkField
  <2> QED BY <1>8, <2>1 DEF NextLinkField
<1>9. ASSUME EndOfLink PROVE DecodeTypeOK'
  <2>1. CASE Return("err")
    BY <1>1, <2>1
  <2>2. CASE ~Return("err")
    BY <1>9, <2>2 DEF EndOfLink, NodeFields
  <2> QED BY <2>1, <2>2
<1>10. CASE UNCHANGED decodeVars
  BY <1>10 DEF decodeVars, flow
<1>11. CASE DecodeStep
  BY <1>4, <1>5, <1>6, <1>7, <1>8, <1>9, <1>11 DEF DecodeStep, LinkFields
<1>12. CASE \E msg \in (IF tries = 0 THEN Inputs ELSE Later) : Decode(msg)
  <2>1. PICK msg \in Inputs \cup Later : Decode(msg)
    BY <1>12
  <2> QED BY <1>2, <2>1
<1> QED BY <1>3, <1>10, <1>11, <1>12 DEF DecodeNext

LEMMA StepRight ==
  ASSUME DecodeTypeOK, Outline, [DecodeNext]_decodeVars
  PROVE  [Next]_vars /\ DecodeTypeOK' /\ Outline'
<1>1. [Next]_vars /\ Outline'
  BY StepKeeps
<1>2. TypeOK'
  BY <1>1, TypeKept DEF DecodeTypeOK
<1> QED BY <1>1, <1>2, FlowTypesKept

LEMMA StartRight ==
  ASSUME DecodeInit
  PROVE  DecodeTypeOK /\ Outline
<1> USE DEF DecodeInit, Init, Fresh, EmptyNode
<1>1. TypeOK
  BY DEF TypeOK, PBNode, Maybe, MaState, LaState, NodeFields, LinkFields
<1>2. <<>> \in Seq(NodeField) /\ <<>> \in Seq(LinkField) /\ tries \in 0..MaxCalls
  BY DecodeAssumption
<1>3. DecodeTypeOK
  BY <1>1, <1>2, NoFieldTyped DEF DecodeTypeOK
<1>4. Outline
  BY DEF Outline, Whole, FinishedComplete
<1> QED BY <1>3, <1>4

-----------------------------------------------------------------------------
(* Reading on *)

LEMMA Advance ==
  ASSUME NEW A, NEW s \in Seq(A), NEW r \in Seq(A), IsLeft(r, s)
  PROVE  LET n == Len(s) - Len(r)
         IN /\ n \in 0..Len(s)
            /\ r = <<>> => SubSeq(s, 1, n) = s
            /\ r # <<>> =>
                 /\ n < Len(s) /\ n + 1 = Len(s) - Len(Tail(r)) /\ Head(r) = s[n + 1]
                 /\ Tail(r) \in Seq(A) /\ Head(r) \in A /\ IsLeft(Tail(r), s)
                 /\ SubSeq(s, 1, n + 1) = Append(SubSeq(s, 1, n), Head(r))
<1> DEFINE n == Len(s) - Len(r)
<1>1. n \in 0..Len(s) /\ Len(r) \in Nat /\ Len(s) \in Nat
  BY DEF IsLeft
<1>2. ASSUME r = <<>> PROVE SubSeq(s, 1, n) = s
  <2>1. n = Len(s)
    BY <1>2
  <2> QED BY <2>1, WholePrefix
<1>3. ASSUME r # <<>>
      PROVE  /\ n < Len(s) /\ n + 1 = Len(s) - Len(Tail(r)) /\ Head(r) = s[n + 1]
             /\ Tail(r) \in Seq(A) /\ Head(r) \in A /\ IsLeft(Tail(r), s)
             /\ SubSeq(s, 1, n + 1) = Append(SubSeq(s, 1, n), Head(r))
  <2>1. /\ Tail(r) \in Seq(A) /\ Head(r) \in A /\ Len(Tail(r)) = Len(r) - 1 /\ Len(r) > 0
        /\ Head(r) = r[1] /\ \A i \in 1..Len(Tail(r)) : Tail(r)[i] = r[i + 1]
    BY <1>1, <1>3
  <2>2. n + 1 \in 1..(Len(s) + 1) /\ Len(s) \in n..Len(s)
    BY <1>1
  <2>3. \A i \in 1..Len(r) : r[i] = s[n + i]
    <3>1. r = SubSeq(s, n + 1, Len(s))
      BY DEF IsLeft
    <3> QED BY <1>1, <3>1, SubSeqProperties
  <2>4. Head(r) = s[n + 1]
    BY <1>1, <2>1, <2>3
  <2>5. n < Len(s) /\ n + 1 = Len(s) - Len(Tail(r))
    BY <1>1, <2>1
  <2>6. SubSeq(s, 1, n + 1) = Append(SubSeq(s, 1, n), Head(r))
    BY <1>1, <2>4, <2>5, PrefixGrows
  <2>7. Tail(r) = SubSeq(s, n + 2, Len(s))
    <3>1. /\ SubSeq(s, n + 2, Len(s)) \in Seq(A) /\ Len(SubSeq(s, n + 2, Len(s))) = Len(r) - 1
          /\ \A i \in 1..(Len(r) - 1) : SubSeq(s, n + 2, Len(s))[i] = s[n + 1 + i]
      BY <1>1, <2>1, <2>5, SubSeqProperties
    <3>2. \A i \in 1..(Len(r) - 1) : Tail(r)[i] = s[n + 1 + i]
      <4> SUFFICES ASSUME NEW i \in 1..(Len(r) - 1) PROVE Tail(r)[i] = s[n + 1 + i]
        OBVIOUS
      <4>1. i + 1 \in 1..Len(r) /\ n + (i + 1) = n + 1 + i
        BY <1>1
      <4> QED BY <2>1, <2>3, <4>1
    <3> QED BY <2>1, <3>1, <3>2, SeqEqual
  <2>8. IsLeft(Tail(r), s)
    <3>1. Len(s) - Len(Tail(r)) + 1 = n + 2 /\ Len(Tail(r)) <= Len(s)
      BY <1>1, <2>1
    <3> QED BY <2>7, <3>1 DEF IsLeft
  <2> QED BY <2>1, <2>4, <2>5, <2>6, <2>8
<1> QED BY <1>1, <1>2, <1>3

LEMMA AllLeft ==
  ASSUME NEW A, NEW s \in Seq(A)
  PROVE  IsLeft(s, s) /\ SubSeq(s, 1, Len(s) - Len(s)) = <<>>
<1>1. Len(s) \in Nat /\ Len(s) - Len(s) = 0 /\ Len(s) - Len(s) + 1 = 1
  OBVIOUS
<1>2. SubSeq(s, 1, Len(s)) = s
  BY WholePrefix
<1>3. SubSeq(s, 1, 0) = <<>>
  <2>1. SubSeq(s, 1, 0) \in Seq(A) /\ Len(SubSeq(s, 1, 0)) = 0
    BY <1>1, PrefixTyped
  <2> QED BY <2>1, EmptySeq
<1> QED BY <1>1, <1>2, <1>3 DEF IsLeft

\* The last field taken is set apart from the ones before it.
LEMMA LastTaken ==
  ASSUME NEW A, NEW s \in Seq(A), NEW r \in Seq(A), IsLeft(r, s),
         SubSeq(s, 1, Len(s) - Len(r)) # <<>>
  PROVE  LET t == SubSeq(s, 1, Len(s) - Len(r))
             b == SubSeq(s, 1, Len(s) - Len(r) - 1)
         IN /\ t \in Seq(A) /\ b \in Seq(A) /\ t[Len(t)] \in A
            /\ t = Append(b, t[Len(t)]) /\ Len(t) = Len(b) + 1
            /\ Len(t) = Len(s) - Len(r) /\ t[Len(t)] = s[Len(t)] /\ Len(t) \in 1..Len(s)
            /\ b = SubSeq(s, 1, Len(t) - 1)
<1> DEFINE n == Len(s) - Len(r)
           t == SubSeq(s, 1, n)
           b == SubSeq(s, 1, n - 1)
<1>1. n \in 0..Len(s)
  BY Advance
<1>2. t \in Seq(A) /\ Len(t) = n /\ \A i \in 1..n : t[i] = s[i]
  BY <1>1, PrefixTyped
<1>3. n # 0
  BY <1>2, EmptySeq
<1>4. n - 1 \in 0..Len(s) /\ n - 1 < Len(s) /\ (n - 1) + 1 = n /\ n \in 1..n
  BY <1>1, <1>3
<1>5. b \in Seq(A) /\ Len(b) = n - 1
  BY <1>4, PrefixTyped
<1>6. SubSeq(s, 1, (n - 1) + 1) = Append(b, s[(n - 1) + 1])
  BY <1>4, PrefixGrows
<1>7. t = Append(b, t[n]) /\ t[n] = s[n]
  BY <1>2, <1>4, <1>6
<1>11. b = SubSeq(s, 1, n - 1) /\ Len(t) = Len(s) - Len(r)
  BY <1>2
<1> HIDE DEF t, b, n
<1>8. SubSeq(s, 1, Len(t) - 1) = b /\ t[Len(t)] = t[n] /\ s[Len(t)] = s[n]
  BY <1>2, <1>11
<1>9. Len(t) \in 1..Len(s) /\ Len(t) = Len(b) + 1 
  BY <1>1, <1>2, <1>3, <1>4, <1>5
<1>10. t[n] \in A
  <2>1. n \in 1..Len(s)
    BY <1>1, <1>4
  <2> QED BY <1>7, <2>1
<1> QED BY <1>2, <1>5, <1>7, <1>8, <1>9, <1>10, <1>11 DEF t, b, n

-----------------------------------------------------------------------------
(* The calls due *)

CallNames ==
  {"na.BeginMap", "ma.AssembleKey", "Data", "Links", "ma.AssembleValue", "AssignBytes",
   "BeginList", "ma.Finish", "links.AssembleValue", "links.Finish", "BeginMap",
   "link.AssembleKey", "Hash", "Name", "Tsize", "link.AssembleValue", "AssignLink",
   "AssignString", "AssignInt", "curLink.Finish"}

\* No BeginMap of the builder, and nothing delivered but by the last call due or by
\* the one before BeginMap of a row.
Tame ==
  /\ calls \in Seq(CallNames) /\ ~Owed("na.BeginMap")
  /\ calls # <<>> =>
       /\ Head(calls) \in {"AssignBytes", "AssignLink", "AssignString", "AssignInt"}
            => calls = <<Head(calls)>>
       /\ Head(calls) = "links.AssembleValue" => calls = <<"links.AssembleValue", "BeginMap">>

LEMMA TameData ==
  ASSUME NEW S, AtData(S)
  PROVE  /\ Tame
         /\ calls # <<>> /\ Head(calls) = "AssignBytes" => NodeTakes(S, "Data")
         /\ calls # <<>> => Head(calls) \notin {"links.AssembleValue", "AssignLink", "AssignString", "AssignInt"}
<1> USE DEF Tame, Owed, CallNames
<1>1. CASE calls = <<"links.Finish", "ma.AssembleKey", "Data", "ma.AssembleValue", "AssignBytes">>
  BY <1>1
<1>2. CASE calls = SetData
  BY <1>2 DEF SetData
<1>3. CASE calls = <<"Data", "ma.AssembleValue", "AssignBytes">>
  BY <1>3
<1>4. CASE calls = <<"ma.AssembleValue", "AssignBytes">>
  BY <1>4
<1>5. CASE calls = <<"AssignBytes">> /\ NodeTakes(S, "Data")
  BY <1>5
<1> QED BY <1>1, <1>2, <1>3, <1>4, <1>5 DEF AtData

LEMMA TameLinks ==
  ASSUME NEW S, NEW c, NEW d, AtLinks(S, c, d),
         \/ c = "links.AssembleValue" /\ d = "BeginMap"
         \/ c = "links.Finish" /\ d = "ma.Finish"
  PROVE  /\ Tame
         /\ calls # <<>> /\ Head(calls) = "links.AssembleValue"
              => c = "links.AssembleValue" /\ ListOpen(S \cup {"Links"})
         /\ calls # <<>> => Head(calls) \notin {"AssignBytes", "AssignLink", "AssignString", "AssignInt"}
<1> USE DEF Tame, Owed, CallNames
<1>0. /\ c \in CallNames /\ d \in CallNames /\ c # "na.BeginMap" /\ d # "na.BeginMap"
      /\ c \notin {"AssignBytes", "AssignLink", "AssignString", "AssignInt"}
      /\ c = "links.AssembleValue" => d = "BeginMap"
  OBVIOUS
<1>1. CASE calls = <<"ma.AssembleKey", "Links", "ma.AssembleValue", "BeginList", c, d>>
  BY <1>0, <1>1
<1>2. CASE calls = <<"Links", "ma.AssembleValue", "BeginList", c, d>>
  BY <1>0, <1>2
<1>3. CASE calls = <<"ma.AssembleValue", "BeginList", c, d>>
  BY <1>0, <1>3
<1>4. CASE calls = <<"BeginList", c, d>>
  BY <1>0, <1>4
<1>5. CASE calls = <<c, d>> /\ ListOpen(S \cup {"Links"})
  <2>1. calls \in Seq(CallNames) /\ Head(calls) = c /\ ~Owed("na.BeginMap")
    BY <1>0, <1>5
  <2> QED BY <1>0, <1>5, <2>1
<1> QED BY <1>1, <1>2, <1>3, <1>4, <1>5 DEF AtLinks

LEMMA Listed ==
  ASSUME NEW A, NEW w \in A, NEW x \in A, NEW y \in A, NEW z \in A, NEW cs,
         cs = <<w, x, y, z>> \/ cs = <<x, y, z>> \/ cs = <<y, z>> \/ cs = <<z>>
  PROVE  /\ cs \in Seq(A) /\ cs # <<>>
         /\ \A i \in 1..Len(cs) : cs[i] \in {w, x, y, z}
         /\ Head(cs) \in {w, x, y} \/ (Head(cs) = z /\ cs = <<z>>)
<1>1. CASE cs = <<w, x, y, z>>
  <2>1. cs \in Seq(A) /\ Len(cs) = 4 /\ cs # <<>> /\ Head(cs) = w
        /\ cs[1] = w /\ cs[2] = x /\ cs[3] = y /\ cs[4] = z
    BY <1>1
  <2> QED BY <2>1
<1>2. CASE cs = <<x, y, z>>
  <2>1. cs \in Seq(A) /\ Len(cs) = 3 /\ cs # <<>> /\ Head(cs) = x
        /\ cs[1] = x /\ cs[2] = y /\ cs[3] = z
    BY <1>2
  <2>2. \A i \in 1..3 : cs[i] \in {w, x, y, z}
    BY <2>1
  <2> QED BY <2>1, <2>2
<1>3. CASE cs = <<y, z>>
  <2>1. cs \in Seq(A) /\ Len(cs) = 2 /\ cs # <<>> /\ Head(cs) = y
        /\ cs[1] = y /\ cs[2] = z
    BY <1>3
  <2> QED BY <2>1
<1>4. CASE cs = <<z>>
  <2>1. cs \in Seq(A) /\ Len(cs) = 1 /\ cs # <<>> /\ Head(cs) = z
        /\ cs[1] = z
    BY <1>4
  <2> QED BY <1>4, <2>1
<1> QED BY <1>1, <1>2, <1>3, <1>4

LEMMA TameField ==
  ASSUME NEW S, NEW T, NEW k, NEW assign, AtField(S, T, k, assign),
         \/ k = "Hash" /\ assign = "AssignLink"
         \/ k = "Name" /\ assign = "AssignString"
         \/ k = "Tsize" /\ assign = "AssignInt"
  PROVE  /\ Tame
         /\ calls # <<>> /\ Head(calls) \in {"AssignLink", "AssignString", "AssignInt"}
              => Head(calls) = assign /\ RowTakes(S, T, k)
         /\ calls # <<>> => Head(calls) \notin {"AssignBytes", "links.AssembleValue"}
<1> DEFINE w == "link.AssembleKey"
           y == "link.AssembleValue"
<1>1. \/ calls = <<w, k, y, assign>> \/ calls = <<k, y, assign>>
      \/ calls = <<y, assign>> \/ calls = <<assign>>
  BY DEF AtField, SetField
<1>2. w \in CallNames /\ k \in CallNames /\ y \in CallNames /\ assign \in CallNames
  BY DEF CallNames
<1>3. /\ w \notin {"na.BeginMap", "AssignBytes", "AssignLink", "AssignString", "AssignInt", "links.AssembleValue"}
      /\ k \notin {"na.BeginMap", "AssignBytes", "AssignLink", "AssignString", "AssignInt", "links.AssembleValue"}
      /\ y \notin {"na.BeginMap", "AssignBytes", "AssignLink", "AssignString", "AssignInt", "links.AssembleValue"}
      /\ assign \notin {"na.BeginMap", "AssignBytes", "links.AssembleValue"}
  OBVIOUS
<1>4. calls = <<assign>> => RowTakes(S, T, k)
  <2>1. calls = <<assign>> => Len(calls) = 1
    OBVIOUS
  <2> QED BY <2>1 DEF AtField, SetField
<1> HIDE DEF w, y
<1>5. /\ calls \in Seq(CallNames) /\ \A i \in 1..Len(calls) : calls[i] \in {w, k, y, assign}
      /\ calls # <<>>
      /\ Head(calls) \in {w, k, y} \/ (Head(calls) = assign /\ calls = <<assign>>)
  BY <1>1, <1>2, Listed
<1>6. ~Owed("na.BeginMap")
  BY <1>3, <1>5 DEF Owed
<1>7. CASE Head(calls) \in {w, k, y}
  BY <1>3, <1>5, <1>6, <1>7, Zenon DEF Tame
<1>8. CASE Head(calls) = assign /\ calls = <<assign>>
  <2>1. calls = <<Head(calls)>> /\ Head(calls) # "links.AssembleValue" /\ Head(calls) # "AssignBytes"
    BY <1>3, <1>8
  <2> QED BY <1>4, <1>5, <1>6, <1>8, <2>1 DEF Tame
<1> QED BY <1>5, <1>7, <1>8

LEMMA Shapes ==
  ASSUME Outline
  PROVE  \/ /\ calls = <<"na.BeginMap">> /\ pc = "node"
            /\ Whole /\ have = {} /\ ~links
         \/ /\ Tame
            /\ calls # <<>> /\ Head(calls) = "AssignBytes"
                 => pc = "node" /\ NodeTakes(have \ {"Data"}, "Data")
            /\ calls # <<>> /\ Head(calls) = "links.AssembleValue"
                 => pc = "link" /\ lhave = {} /\ ListOpen(have \cup {"Links"})
            /\ calls # <<>> /\ Head(calls) = "AssignLink"
                 => pc = "link" /\ RowTakes(have \cup {"Links"}, lhave \ {"Hash"}, "Hash")
            /\ calls # <<>> /\ Head(calls) = "AssignString"
                 => pc = "link" /\ RowTakes(have \cup {"Links"}, lhave \ {"Name"}, "Name")
            /\ calls # <<>> /\ Head(calls) = "AssignInt"
                 => pc = "link" /\ RowTakes(have \cup {"Links"}, lhave \ {"Tsize"}, "Tsize")
<1>1. ASSUME calls = <<>> PROVE Tame
  BY <1>1 DEF Tame, Owed
<1>2. ASSUME NEW c \in {"curLink.Finish", "BeginMap", "ma.Finish"}, calls = <<c>>
      PROVE  /\ Tame /\ Head(calls) = c
             /\ c \notin {"AssignBytes", "links.AssembleValue", "AssignLink", "AssignString",
                          "AssignInt"}
  <2>1. c \in CallNames /\ c # "na.BeginMap"
        /\ c \notin {"AssignBytes", "links.AssembleValue", "AssignLink", "AssignString",
                          "AssignInt"}
    BY DEF CallNames
  <2>2. calls \in Seq(CallNames) /\ Len(calls) = 1 /\ calls[1] = c /\ Head(calls) = c
    BY <1>2, <2>1
  <2> QED BY <2>1, <2>2 DEF Tame, Owed
<1>3. CASE pc = "node" /\ AtNode
  <2>1. CASE calls = <<"na.BeginMap">> /\ Whole /\ have = {} /\ ~links
    BY <1>3, <2>1
  <2>2. CASE calls = <<>>
    BY <1>1, <2>2
  <2>3. CASE calls = <<"curLink.Finish">>
    BY <1>2, <2>3
  <2>4. CASE AtData(have \ {"Data"})
    BY <1>3, <2>4, TameData
  <2> QED BY <1>3, <2>1, <2>2, <2>3, <2>4 DEF AtNode
<1>4. CASE pc = "link" /\ AtLink
  <2>1. CASE lhave = {} /\ AtLinks(have, "links.AssembleValue", "BeginMap")
    BY <1>4, <2>1, TameLinks
  <2>2. CASE calls = <<"BeginMap">>
    BY <1>2, <2>2
  <2>3. CASE calls = <<>>
    BY <1>1, <2>3
  <2>4. CASE AtField(have \cup {"Links"}, lhave \ {"Hash"}, "Hash", "AssignLink")
    BY <1>4, <2>4, TameField
  <2>5. CASE AtField(have \cup {"Links"}, lhave \ {"Name"}, "Name", "AssignString")
    BY <1>4, <2>5, TameField
  <2>6. CASE AtField(have \cup {"Links"}, lhave \ {"Tsize"}, "Tsize", "AssignInt")
    BY <1>4, <2>6, TameField
  <2> QED BY <1>4, <2>1, <2>2, <2>3, <2>4, <2>5, <2>6 DEF AtLink
<1>5. CASE pc = "return" /\ AtReturn
  <2>1. CASE AtLinks(have, "links.Finish", "ma.Finish")
    BY <2>1, TameLinks
  <2>2. CASE calls = <<"ma.Finish">>
    BY <1>2, <2>2
  <2>3. CASE calls = <<>>
    BY <1>1, <2>3
  <2> QED BY <1>5, <2>1, <2>2, <2>3 DEF AtReturn
<1> QED BY <1>1, <1>3, <1>4, <1>5 DEF Outline

LEMMA OwedRest ==
  ASSUME NEW A, calls \in Seq(A), calls # <<>>, calls' = Tail(calls), NEW c
  PROVE  (Owed(c)' => Owed(c)) /\ (Owed(c) /\ Head(calls) # c => Owed(c)')
<1>1. PICK s : s = calls
  OBVIOUS
<1>2. /\ s \in Seq(A) /\ Len(s) \in Nat /\ Len(s) > 0 /\ Len(Tail(s)) = Len(s) - 1
      /\ Head(s) = s[1] /\ \A i \in 1..Len(Tail(s)) : Tail(s)[i] = s[i + 1]
  BY <1>1
<1>3. ASSUME NEW i \in 1..Len(Tail(s)), Tail(s)[i] = c PROVE \E j \in 1..Len(s) : s[j] = c
  BY <1>2, <1>3
<1>4. ASSUME NEW j \in 1..Len(s), s[j] = c, s[1] # c
      PROVE  \E i \in 1..Len(Tail(s)) : Tail(s)[i] = c
  <2>1. j - 1 \in 1..Len(Tail(s)) /\ (j - 1) + 1 = j
    BY <1>2, <1>4
  <2> QED BY <1>2, <1>4, <2>1
<1> QED BY <1>1, <1>2, <1>3, <1>4 DEF Owed

\* The calls that deliver something.
Delivers == {"AssignBytes", "links.AssembleValue", "AssignLink", "AssignString", "AssignInt"}

LEMMA NothingDelivered ==
  ASSUME NEW c, c \notin Delivers, Make(c)
  PROVE  node' = node
BY DEF Delivers, Make, NodeBeginMap, NodeAssembleKey, NodeAssignKey, NodeAssembleValue,
       LinksBeginList, NodeFinish, LinksFinish, LinkBeginMap, LinkAssembleKey, LinkAssignKey,
       LinkAssembleValue, LinkFinish, Panic, Fail, asm

-----------------------------------------------------------------------------
(* What a reader of a message knows *)

LEMMA MessageFacts ==
  ASSUME DecodeTypeOK, MessageRead
  PROVE  /\ Taken \in Seq(NodeField) /\ Framed(Taken) /\ Once(Taken, 1)
         /\ \A num : Has(Taken, num) => num \in {1, 2}
         /\ Taken # <<>> =>
              /\ Before \in Seq(NodeField) /\ field \in NodeField /\ Framed(Before)
              /\ Taken = Append(Before, field) /\ Len(Taken) \in 1..Len(input)
              /\ field = input[Len(Taken)] /\ Before = SubSeq(input, 1, Len(Taken) - 1)
              /\ field.num \in {1, 2} /\ field.wt = BytesType /\ ~field.short
              /\ field = Taken[Len(Taken)]
<1>1. input \in Seq(NodeField) /\ rest \in Seq(NodeField) /\ IsLeft(rest, input)
  BY DEF DecodeTypeOK, MessageRead
<1>2. Taken \in Seq(NodeField) /\ Framed(Taken)
  <2>1. Len(input) - Len(rest) \in 0..Len(input)
    BY <1>1, Advance
  <2> QED BY <1>1, <2>1, PrefixTyped DEF Taken, MessageRead
<1>3. Once(Taken, 1)
  BY <1>2, FramedOnce
<1>4. \A num : Has(Taken, num) => num \in {1, 2}
  BY <1>2 DEF Has, Framed
<1>5. ASSUME Taken # <<>>
      PROVE  /\ Before \in Seq(NodeField) /\ field \in NodeField
             /\ Taken = Append(Before, field) /\ Len(Taken) \in 1..Len(input)
             /\ field = input[Len(Taken)] /\ Before = SubSeq(input, 1, Len(Taken) - 1)
             /\ field = Taken[Len(Taken)] /\ Len(Taken) \in 1..Len(Taken)
  <2>1. field = Taken[Len(Taken)]
    BY <1>5 DEF MessageRead
  <2>2. SubSeq(input, 1, Len(input) - Len(rest)) # <<>>
    BY <1>5 DEF Taken
  <2> DEFINE t == SubSeq(input, 1, Len(input) - Len(rest))
             b == SubSeq(input, 1, Len(input) - Len(rest) - 1)
  <2>3. /\ t \in Seq(NodeField) /\ b \in Seq(NodeField) /\ t[Len(t)] \in NodeField
        /\ t = Append(b, t[Len(t)]) /\ t[Len(t)] = input[Len(t)] /\ Len(t) \in 1..Len(input)
        /\ b = SubSeq(input, 1, Len(t) - 1)
    BY <1>1, <2>2, LastTaken
  <2>4. t = Taken /\ b = Before
    BY DEF Taken, Before
  <2> HIDE DEF t, b
  <2>5. Len(t) \in 1..Len(t)
    BY <1>1, <2>3
  <2> QED BY <2>1, <2>3, <2>4, <2>5
<1>6. ASSUME Taken # <<>> PROVE Framed(Before)
  BY <1>2, <1>5, <1>6, FramedBefore
<1>7. ASSUME Taken # <<>>
      PROVE  field.num \in {1, 2} /\ field.wt = BytesType /\ ~field.short
  BY <1>2, <1>5, <1>7 DEF Framed
<1> QED BY <1>2, <1>3, <1>4, <1>5, <1>6, <1>7

LEMMA LinkFacts ==
  ASSUME DecodeTypeOK, LinkRead
  PROVE  /\ field.link \in Seq(LinkField) /\ LinkTaken \in Seq(LinkField)
         /\ \A num : Has(LinkTaken, num) => num \in {1, 2, 3}
         /\ LinkTaken # <<>> =>
              /\ LinkBefore \in Seq(LinkField) /\ lfield \in LinkField /\ WellFormed(lfield)
              /\ LinkTaken = Append(LinkBefore, lfield)
<1>1. field.link \in Seq(LinkField) /\ lrest \in Seq(LinkField) /\ IsLeft(lrest, field.link)
  BY DEF DecodeTypeOK, NodeField, LinkRead
<1>2. LinkTaken \in Seq(LinkField)
  <2>1. Len(field.link) - Len(lrest) \in 0..Len(field.link)
    BY <1>1, Advance
  <2> QED BY <1>1, <2>1, PrefixTyped DEF LinkTaken
<1>3. \A num : Has(LinkTaken, num) => num \in {1, 2, 3}
  BY DEF LinkRead, LinkFramed, WellFormed, Has
<1>4. ASSUME LinkTaken # <<>>
      PROVE  /\ LinkBefore \in Seq(LinkField) /\ lfield \in LinkField
             /\ LinkTaken = Append(LinkBefore, lfield)
             /\ lfield = LinkTaken[Len(LinkTaken)] /\ Len(LinkTaken) \in 1..Len(LinkTaken)
  <2>1. lfield = LinkTaken[Len(LinkTaken)]
    BY <1>4 DEF LinkRead
  <2> DEFINE t == SubSeq(field.link, 1, Len(field.link) - Len(lrest))
             b == SubSeq(field.link, 1, Len(field.link) - Len(lrest) - 1)
  <2>2. t # <<>>
    BY <1>4 DEF LinkTaken
  <2>3. /\ t \in Seq(LinkField) /\ b \in Seq(LinkField) /\ t[Len(t)] \in LinkField
        /\ t = Append(b, t[Len(t)]) /\ Len(t) \in 1..Len(field.link)
    BY <1>1, <2>2, LastTaken
  <2>4. t = LinkTaken /\ b = LinkBefore
    BY DEF LinkTaken, LinkBefore
  <2> HIDE DEF t, b
  <2>5. Len(t) \in 1..Len(t)
    BY <1>1, <2>3
  <2> QED BY <2>1, <2>3, <2>4, <2>5
<1>5. ASSUME LinkTaken # <<>> PROVE WellFormed(lfield)
  BY <1>4, <1>5 DEF LinkRead, LinkFramed
<1> QED BY <1>1, <1>2, <1>3, <1>4, <1>5

\* The node, with fs for the fields of the link in hand.
LEMMA WithLink ==
  ASSUME DecodeTypeOK, MessageRead, Taken # <<>>, field.num = 2, IsNode(Before),
         NEW f \in NodeField, f.num = 2, f.wt = BytesType, f.short = FALSE, LinkFramed(f.link)
  PROVE  /\ NodeMeaning(Before) \in PBNode
         /\ LinkMeaning(f.link) \in PBLink
         /\ NodeMeaning(Append(Before, f)) \in PBNode
         /\ NodeMeaning(Append(Before, f)).Data = NodeMeaning(Before).Data
         /\ NodeMeaning(Append(Before, f)).Links
              = Append(NodeMeaning(Before).Links, LinkMeaning(f.link))
<1>1. /\ Before \in Seq(NodeField) /\ field \in NodeField /\ Framed(Append(Before, field))
      /\ field.num = f.num /\ field.wt = f.wt /\ field.short = f.short
  <2>1. field.short \in BOOLEAN
    BY DEF DecodeTypeOK, NodeField
  <2> QED BY <2>1, MessageFacts
<1>2. Framed(Append(Before, f))
  BY <1>1, FramedAlike
<1>3. NodeMeaning(Before) \in PBNode /\ NodeMeaning(Before).Links \in Seq(PBLink)
      /\ NodeMeaning(Before).Data \in Chunks \cup {Unset}
  <2>1. NodeMeaning(Before) \in PBNode
    BY <1>1, NodeTyped
  <2> QED BY <2>1 DEF PBNode
<1>4. f.link \in Seq(LinkField)
  BY DEF NodeField
<1>5. LinkMeaning(f.link) \in PBLink
  BY <1>4, LinkMeaningTyped
<1>6. /\ NodeMeaning(Append(Before, f)).Data = NodeMeaning(Before).Data
      /\ NodeMeaning(Append(Before, f)).Links
              = Append(NodeMeaning(Before).Links, LinkMeaning(f.link))
  BY <1>1, <1>2, <1>3, <1>5, LinksMeaning
<1>7. NodeMeaning(Append(Before, f)) \in PBNode
  <2>1. Append(NodeMeaning(Before).Links, LinkMeaning(f.link)) \in Seq(PBLink)
    BY <1>3, <1>5
  <2>2. NodeMeaning(Append(Before, f)) = [Links |-> NodeMeaning(Append(Before, f)).Links, Data |-> NodeMeaning(Append(Before, f)).Data]
    BY DEF NodeMeaning
  <2> HIDE DEF NodeMeaning
  <2> QED BY <1>3, <1>6, <2>1, <2>2 DEF PBNode
<1> QED BY <1>3, <1>5, <1>6, <1>7

-----------------------------------------------------------------------------
(* The calls deliver what was read *)

\* Reading stands still while calls are made.
LEMMA ReadingStill ==
  ASSUME UNCHANGED flow
  PROVE  /\ Taken' = Taken /\ Before' = Before /\ LinkTaken' = LinkTaken
         /\ LinkBefore' = LinkBefore
         /\ MessageRead => MessageRead'
         /\ LinkRead => LinkRead'
<1>1. /\ Taken' = Taken /\ Before' = Before /\ LinkTaken' = LinkTaken /\ LinkBefore' = LinkBefore
      /\ Accepted' = Accepted
  BY DEF flow, Taken, Before, LinkTaken, LinkBefore, Accepted
<1>2. /\ Framed(Taken)' <=> Framed(Taken)
      /\ IsNode(Accepted)' <=> IsNode(Accepted)
      /\ LinkFramed(LinkTaken)' <=> LinkFramed(LinkTaken)
      /\ \A num : (Has(Taken, num)' <=> Has(Taken, num))
                  /\ (Has(Accepted, num)' <=> Has(Accepted, num))
                  /\ (Has(LinkTaken, num)' <=> Has(LinkTaken, num))
  BY <1>1 DEF Framed, IsNode, IsLink, LinkFramed, Canonical, WellFormed, Has, BytesType, VarintType
<1>3. (IsLeft(rest, input)' <=> IsLeft(rest, input))
      /\ (IsLeft(lrest, field.link)' <=> IsLeft(lrest, field.link))
  BY DEF IsLeft, flow
<1>4. MessageRead => MessageRead'
  BY <1>1, <1>2, <1>3 DEF flow, MessageRead
<1>5. LinkRead => LinkRead'
  BY <1>1, <1>2, <1>3 DEF flow, LinkRead
<1> QED BY <1>1, <1>4, <1>5

LEMMA NoneOwed ==
  ASSUME calls = <<>>
  PROVE  \A c : ~Owed(c)
BY DEF Owed

LEMMA OtherDelivered ==
  ASSUME UNCHANGED flow, Tame, Call, res' = "ok", Head(calls) \notin Delivers,
         node = NodeMeaning(Delivered)
  PROVE  node' = NodeMeaning(Delivered')
<1>1. calls # <<>> /\ calls' = Tail(calls) /\ calls \in Seq(CallNames) /\ Make(Head(calls))
  BY DEF Call, Tame
<1>2. \A c \in Delivers : Owed(c)' <=> Owed(c)
  BY <1>1, OwedRest
<1>3. Delivered' = Delivered
  <2>1. pc' = pc
    BY DEF flow
  <2>2. LinkDelivered' = LinkDelivered
    BY <1>2, ReadingStill DEF LinkDelivered, Delivers
  <2>3. EncLink(LinkDelivered)' = EncLink(LinkDelivered)
    BY <2>2 DEF EncLink, NodeFieldOf, BytesType
  <2> QED BY <1>2, <2>1, <2>3, ReadingStill DEF Delivered, Delivers
<1>4. node' = node
  BY <1>1, NothingDelivered
<1> QED BY <1>3, <1>4

LEMMA DataDelivered ==
  ASSUME DecodeTypeOK, TypeOK', UNCHANGED flow, MessageRead, pc = "node",
         calls = <<"AssignBytes">>, calls' = <<>>, node = NodeMeaning(Delivered),
         DataAssignBytes(field.chunk), res' = "ok", Taken # <<>>, field.num = 1
  PROVE  node' = NodeMeaning(Delivered')
<1>1. Delivered = Before
  BY DEF Delivered, Owed
<1>2. Delivered' = Taken
  <2>1. \A c : ~Owed(c)'
    BY DEF Owed
  <2> QED BY <2>1, ReadingStill DEF Delivered, flow
<1>3. node' = [node EXCEPT !.Data = field.chunk] /\ node \in PBNode /\ node' \in PBNode
  BY DEF DataAssignBytes, Panic, DecodeTypeOK, TypeOK
<1>4. node'.Data = field.chunk /\ node'.Links = node.Links
  BY <1>3 DEF PBNode
<1>5. /\ Before \in Seq(NodeField) /\ field \in NodeField /\ Framed(Append(Before, field))
      /\ Taken = Append(Before, field)
  BY MessageFacts
<1>6. /\ NodeMeaning(Taken).Data = field.chunk
      /\ NodeMeaning(Taken).Links = NodeMeaning(Before).Links
  BY <1>5, DataMeaning
<1>7. NodeMeaning(Taken) \in PBNode
  <2>1. NodeMeaning(Taken) = [Links |-> NodeMeaning(Taken).Links, Data |-> NodeMeaning(Taken).Data]
    BY DEF NodeMeaning
  <2>2. NodeMeaning(Taken).Links = node'.Links /\ NodeMeaning(Taken).Data = node'.Data
    BY <1>1, <1>4, <1>6
  <2> QED BY <1>3, <2>1, <2>2 DEF PBNode
<1> QED BY <1>1, <1>2, <1>3, <1>4, <1>6, <1>7, SameNode

LEMMA RowDelivered ==
  ASSUME DecodeTypeOK, TypeOK', UNCHANGED flow, MessageRead, LinkRead, pc = "link",
         IsNode(Before), lhave = {},
         calls = <<"links.AssembleValue", "BeginMap">>, calls' = <<"BeginMap">>,
         node = NodeMeaning(Delivered), LinksAssembleValue, res' = "ok"
  PROVE  node' = NodeMeaning(Delivered')
<1>1. Delivered = Before
  BY DEF Delivered, Owed
<1>2. LinkTaken = <<>>
  <2>1. ~Has(LinkTaken, 1) /\ ~Has(LinkTaken, 2) /\ ~Has(LinkTaken, 3)
    BY DEF LinkRead
  <2>2. \A i \in 1..Len(LinkTaken) : LinkTaken[i].num \in {1, 2, 3}
    BY DEF LinkRead, LinkFramed, WellFormed
  <2>3. LinkTaken \in Seq(LinkField)
    BY LinkFacts
  <2> QED BY <2>1, <2>2, <2>3, EmptySeq DEF Has
<1>3. Delivered' = Append(Before, EncLink(<<>>))
  <2>1. \A c \in Delivers : ~Owed(c)'
    BY DEF Owed, Delivers
  <2>2. LinkDelivered' = <<>>
    BY <1>2, <2>1, ReadingStill DEF LinkDelivered, Delivers
  <2>3. EncLink(LinkDelivered)' = EncLink(<<>>)
    BY <2>2 DEF EncLink, NodeFieldOf, BytesType
  <2> QED BY <2>1, <2>3, ReadingStill DEF Delivered, Delivers, flow
<1>4. node' = [node EXCEPT !.Links = Append(@, NewLink)] /\ node \in PBNode /\ node' \in PBNode
  BY DEF LinksAssembleValue, Panic, DecodeTypeOK, TypeOK
<1>5. node'.Data = node.Data /\ node'.Links = Append(node.Links, NewLink)
  BY <1>4 DEF PBNode
<1>6. <<>> \in Seq(LinkField) /\ LinkFramed(<<>>) /\ LinkMeaning(<<>>) = NewLink
  BY EmptyLink
<1>7. /\ NodeMeaning(Append(Before, EncLink(<<>>))) \in PBNode
      /\ NodeMeaning(Append(Before, EncLink(<<>>))).Data = NodeMeaning(Before).Data
      /\ NodeMeaning(Append(Before, EncLink(<<>>))).Links
           = Append(NodeMeaning(Before).Links, NewLink)
  BY <1>6, EncLinkTyped, WithLink DEF LinkRead
<1> QED BY <1>1, <1>3, <1>4, <1>5, <1>7, SameNode

LEMMA FieldDelivered ==
  ASSUME DecodeTypeOK, TypeOK', UNCHANGED flow, MessageRead, LinkRead, pc = "link",
         IsNode(Before), LinkTaken # <<>>,
         NEW c \in {"AssignLink", "AssignString", "AssignInt"}, calls = <<c>>, calls' = <<>>,
         node = NodeMeaning(Delivered), Last > 0, LinkFramed(LinkBefore),
         NEW l \in PBLink, node' = [node EXCEPT !.Links = [@ EXCEPT ![Last] = l]],
         /\ l.Hash = IF lfield.num = 1 THEN CidOf[lfield.raw] ELSE Row.Hash
         /\ l.Name = IF lfield.num = 2 THEN lfield.name ELSE Row.Name
         /\ l.Tsize = IF lfield.num = 3 THEN TsizeOf[lfield.varint] ELSE Row.Tsize
  PROVE  node' = NodeMeaning(Delivered')
<1>1. /\ LinkTaken \in Seq(LinkField) /\ LinkBefore \in Seq(LinkField) /\ lfield \in LinkField
      /\ LinkTaken = Append(LinkBefore, lfield) /\ LinkFramed(LinkTaken)
  BY LinkFacts DEF LinkRead
<1>2. Delivered = Append(Before, EncLink(LinkBefore))
  <2>1. Owed(c) /\ ~Owed("AssignBytes") /\ ~Owed("links.AssembleValue")
    BY DEF Owed
  <2>2. LinkDelivered = LinkBefore
    BY <2>1 DEF LinkDelivered
  <2> QED BY <2>1, <2>2 DEF Delivered
<1>3. Delivered' = Append(Before, EncLink(LinkTaken))
  <2>1. \A d : ~Owed(d)'
    BY DEF Owed
  <2>2. LinkDelivered' = LinkTaken
    BY <2>1, ReadingStill DEF LinkDelivered
  <2>3. EncLink(LinkDelivered)' = EncLink(LinkTaken)
    BY <2>2 DEF EncLink, NodeFieldOf, BytesType
  <2> QED BY <2>1, <2>3, ReadingStill DEF Delivered, flow
<1> DEFINE m == NodeMeaning(Append(Before, EncLink(LinkBefore)))
           n == NodeMeaning(Append(Before, EncLink(LinkTaken)))
           xs == NodeMeaning(Before).Links
           k == LinkMeaning(LinkBefore)
           k2 == LinkMeaning(LinkTaken)
<1>4. /\ m \in PBNode /\ n \in PBNode /\ xs \in Seq(PBLink) /\ k \in PBLink /\ k2 \in PBLink
      /\ m.Data = n.Data /\ m.Links = Append(xs, k) /\ n.Links = Append(xs, k2)
  <2>1. NodeMeaning(Before) \in PBNode /\ k \in PBLink
        /\ m \in PBNode /\ m.Data = NodeMeaning(Before).Data /\ m.Links = Append(xs, k)
    BY <1>1, EncLinkTyped, WithLink DEF LinkRead
  <2>2. n \in PBNode /\ n.Data = NodeMeaning(Before).Data /\ n.Links = Append(xs, k2)
        /\ k2 \in PBLink
    BY <1>1, EncLinkTyped, WithLink DEF LinkRead
  <2>3. xs \in Seq(PBLink)
    BY <2>1 DEF PBNode
  <2> QED BY <2>1, <2>2, <2>3
<1>5. /\ k2.Hash = IF lfield.num = 1 THEN CidOf[lfield.raw] ELSE k.Hash
      /\ k2.Name = IF lfield.num = 2 THEN lfield.name ELSE k.Name
      /\ k2.Tsize = IF lfield.num = 3 THEN TsizeOf[lfield.varint] ELSE k.Tsize
  BY <1>1, LinkMeaningGrows
<1>6. node = m /\ node \in PBNode /\ node' \in PBNode
  BY <1>2 DEF DecodeTypeOK, TypeOK
<1> HIDE DEF m, n, xs, k, k2
<1>7. Len(xs) \in Nat /\ Last = Len(xs) + 1 /\ Row = k
  BY <1>4, <1>6 DEF Last, Row
<1>8. l = k2
  BY <1>4, <1>5, <1>7, SameLink
<1>9. node'.Data = node.Data /\ node'.Links = [node.Links EXCEPT ![Last] = l]
  BY <1>6 DEF PBNode
<1>10. node'.Links = Append(xs, k2)
  <2> DEFINE ys == [Append(xs, k) EXCEPT ![Len(xs) + 1] = k2]
             zs == Append(xs, k2)
  <2>1. node'.Links = ys
    BY <1>4, <1>6, <1>7, <1>8, <1>9
  <2> DEFINE ws == Append(xs, k)
             n1 == Len(xs) + 1
  <2>2. /\ ws \in Seq(PBLink) /\ Len(ws) = n1 /\ zs \in Seq(PBLink) /\ Len(zs) = n1
        /\ \A i \in 1..Len(xs) : ws[i] = xs[i]
        /\ \A i \in 1..Len(xs) : zs[i] = xs[i]
        /\ zs[n1] = k2 /\ n1 \in Nat /\ n1 \in 1..n1 /\ Len(xs) \in Nat
    BY <1>4, <1>7, Appended1
  <2>5. ys = [ws EXCEPT ![n1] = k2]
    OBVIOUS
  <2> HIDE DEF ys, zs, ws
  <2>6. ys \in Seq(PBLink) /\ Len(ys) = n1
    BY <1>4, <2>2, <2>5
  <2>3. \A i \in 1..n1 : ys[i] = zs[i]
    <3> SUFFICES ASSUME NEW i \in 1..n1 PROVE ys[i] = zs[i]
      OBVIOUS
    <3>1. i \in 1..Len(ws) /\ (i = n1 \/ i \in 1..Len(xs))
      BY <2>2
    <3>2. CASE i = n1
      BY <2>2, <2>5, <3>1, <3>2
    <3>3. CASE i # n1
      BY <2>2, <2>5, <3>1, <3>3
    <3> QED BY <3>2, <3>3
  <2> HIDE DEF ys, zs
  <2>4. ys = zs
    BY <2>2, <2>3, <2>6, SeqEqual
  <2> QED BY <2>1, <2>4 DEF zs
<1>11. node' = n
  BY <1>4, <1>6, <1>9, <1>10, SameNode
<1> QED BY <1>3, <1>11 DEF n

LEMMA LinkBeforeFramed ==
  ASSUME DecodeTypeOK, LinkRead, LinkTaken # <<>>
  PROVE  LinkFramed(LinkBefore)
<1> DEFINE b == LinkBefore
           gs == Append(b, lfield)
<1>1. b \in Seq(LinkField) /\ lfield \in LinkField /\ LinkFramed(gs)
  BY LinkFacts DEF LinkRead
<1>2. /\ Len(gs) = Len(b) + 1 /\ Len(b) \in Nat /\ \A i \in 1..Len(b) : gs[i] = b[i]
  BY <1>1, Appended1
<1> HIDE DEF b, gs
<1>3. \A i \in 1..Len(b) : i \in 1..Len(gs)
  BY <1>2
<1>4. LinkFramed(b)
  BY <1>1, <1>2, <1>3 DEF LinkFramed, Canonical
<1> QED BY <1>4 DEF b

LEMMA CallReads ==
  ASSUME DecodeTypeOK, TypeOK', Outline, ReadsOn, pc \in {"node", "link", "return"},
         Call, res' = "ok"
  PROVE  ReadsOn'
<1>1. /\ UNCHANGED flow /\ calls # <<>> /\ calls' = Tail(calls) /\ Make(Head(calls))
      /\ MessageRead /\ (pc = "link" => LinkRead) /\ Owing
  BY CallOnce DEF Call, ReadsOn
<1>2. MessageRead' /\ (pc' = "link" => LinkRead') /\ pc' = pc
  BY <1>1, ReadingStill DEF flow
<1>3. pc = "link" => IsNode(Before)
  BY <1>1 DEF MessageRead, Accepted
<1>4. CASE calls = <<"na.BeginMap">> /\ pc = "node" /\ Whole /\ have = {} /\ ~links
  <2>1. calls' = <<>>
    BY <1>1, <1>4
  <2>2. Owing'
    BY <2>1 DEF Owing, Owed
  <2>3. NodeBeginMap
    BY <1>1, <1>4 DEF Make
  <2>4. node' = EmptyNode
    BY <1>4, <2>3 DEF NodeBeginMap, Panic, Whole, Fresh
  <2>5. Taken = <<>>
    <3>1. ~Has(Taken, 1) /\ ~Has(Taken, 2)
      BY <1>1, <1>4 DEF MessageRead, Accepted
    <3>2. Taken \in Seq(NodeField) /\ Framed(Taken)
      BY <1>1, MessageFacts
    <3> QED BY <3>1, <3>2, EmptySeq DEF Has, Framed
  <2>6. Delivered' = <<>>
    BY <1>1, <1>4, <2>1, <2>5, ReadingStill DEF Delivered, Owed, flow
  <2>7. node' = NodeMeaning(Delivered')
    BY <2>4, <2>6, EmptyMessage
  <2> QED BY <1>2, <2>2, <2>7 DEF ReadsOn
<1>5. CASE /\ Tame
           /\ calls # <<>> /\ Head(calls) = "AssignBytes"
                => pc = "node" /\ NodeTakes(have \ {"Data"}, "Data")
           /\ calls # <<>> /\ Head(calls) = "links.AssembleValue"
                => pc = "link" /\ lhave = {} /\ ListOpen(have \cup {"Links"})
           /\ calls # <<>> /\ Head(calls) = "AssignLink"
                => pc = "link" /\ RowTakes(have \cup {"Links"}, lhave \ {"Hash"}, "Hash")
           /\ calls # <<>> /\ Head(calls) = "AssignString"
                => pc = "link" /\ RowTakes(have \cup {"Links"}, lhave \ {"Name"}, "Name")
           /\ calls # <<>> /\ Head(calls) = "AssignInt"
                => pc = "link" /\ RowTakes(have \cup {"Links"}, lhave \ {"Tsize"}, "Tsize")
  <2>1. node = NodeMeaning(Delivered) /\ calls \in Seq(CallNames) /\ ~Owed("na.BeginMap")
    BY <1>5 DEF ReadsOn, Tame
  <2>2. Owing'
    <3>1. \A c : Owed(c)' => Owed(c)
      BY <1>1, <2>1, OwedRest
    <3> QED BY <1>1, <3>1, ReadingStill DEF Owing, flow
  <2>3. CASE Head(calls) \notin Delivers
    BY <1>1, <1>2, <1>5, <2>1, <2>2, <2>3, OtherDelivered DEF ReadsOn
  <2>4. CASE Head(calls) = "AssignBytes"
    <3>1. calls = <<"AssignBytes">> /\ calls' = <<>> /\ pc = "node"
      BY <1>1, <1>5, <2>4 DEF Tame
    <3>2. DataAssignBytes(field.chunk)
      BY <1>1, <2>4 DEF Make
    <3>3. Taken # <<>> /\ field.num = 1
      BY <1>1, <3>1 DEF Owing, Owed
    <3>4. node' = NodeMeaning(Delivered')
      BY <1>1, <2>1, <3>1, <3>2, <3>3, DataDelivered
    <3> QED BY <1>2, <2>2, <3>4 DEF ReadsOn
  <2>5. CASE Head(calls) = "links.AssembleValue"
    <3>1. calls = <<"links.AssembleValue", "BeginMap">> /\ pc = "link" /\ lhave = {}
      BY <1>1, <1>5, <2>5 DEF Tame
    <3>2. calls' = <<"BeginMap">>
      BY <1>1, <3>1
    <3>3. LinksAssembleValue
      BY <1>1, <2>5 DEF Make
    <3>4. node' = NodeMeaning(Delivered')
      BY <1>1, <1>3, <2>1, <3>1, <3>2, <3>3, RowDelivered
    <3> QED BY <1>2, <2>2, <3>4 DEF ReadsOn
  <2>6. CASE Head(calls) = "AssignLink"
    <3>1. calls = <<"AssignLink">> /\ calls' = <<>> /\ pc = "link"
          /\ RowTakes(have \cup {"Links"}, lhave \ {"Hash"}, "Hash")
      BY <1>1, <1>5, <2>6 DEF Tame
    <3>2. HashAssignLink(CidOf[lfield.raw])
      BY <1>1, <2>6 DEF Make
    <3>3. LinkTaken # <<>> /\ lfield.num = 1
      BY <1>1, <3>1 DEF Owing, Owed
    <3>4. Row \in PBLink /\ Last \in Nat /\ Last \in 1..Last
      BY <3>1, RowThere DEF RowTakes, DecodeTypeOK
    <3>5. node' = [node EXCEPT !.Links[Last].Hash = CidOf[lfield.raw]]
      BY <3>1, <3>2, <3>4 DEF RowTakes, HashAssignLink
    <3> DEFINE l == [Row EXCEPT !.Hash = CidOf[lfield.raw]]
    <3>6. CidOf[lfield.raw] \in Hashes
      BY <1>1, <3>1, <3>3, LinkFacts, WellFormedValues
    <3>7. l \in PBLink /\ l.Hash = CidOf[lfield.raw] /\ l.Name = Row.Name /\ l.Tsize = Row.Tsize
      BY <3>4, <3>6 DEF PBLink
    <3>8. node' = [node EXCEPT !.Links = [@ EXCEPT ![Last] = l]]
      BY <3>5 DEF Row
    <3> HIDE DEF l
    <3>9. node' = NodeMeaning(Delivered')
      BY <1>1, <1>3, <2>1, <3>1, <3>3, <3>4, <3>7, <3>8, LinkBeforeFramed, FieldDelivered
    <3> QED BY <1>2, <2>2, <3>9 DEF ReadsOn
  <2>7. CASE Head(calls) = "AssignString"
    <3>1. calls = <<"AssignString">> /\ calls' = <<>> /\ pc = "link"
          /\ RowTakes(have \cup {"Links"}, lhave \ {"Name"}, "Name")
      BY <1>1, <1>5, <2>7 DEF Tame
    <3>2. NameAssignString(lfield.name)
      BY <1>1, <2>7 DEF Make
    <3>3. LinkTaken # <<>> /\ lfield.num = 2
      BY <1>1, <3>1 DEF Owing, Owed
    <3>4. Row \in PBLink /\ Last \in Nat /\ Last \in 1..Last
      BY <3>1, RowThere DEF RowTakes, DecodeTypeOK
    <3>5. node' = [node EXCEPT !.Links[Last].Name = lfield.name]
      BY <3>1, <3>2, <3>4 DEF RowTakes, RowHas, LinkFields, NameAssignString, Panic
    <3> DEFINE l == [Row EXCEPT !.Name = lfield.name]
    <3>6. lfield.name \in Names
      BY <1>1, <3>1, <3>3, LinkFacts, WellFormedValues
    <3>7. l \in PBLink /\ l.Hash = Row.Hash /\ l.Name = lfield.name /\ l.Tsize = Row.Tsize
      BY <3>4, <3>6 DEF PBLink
    <3>8. node' = [node EXCEPT !.Links = [@ EXCEPT ![Last] = l]]
      BY <3>5 DEF Row
    <3> HIDE DEF l
    <3>9. node' = NodeMeaning(Delivered')
      BY <1>1, <1>3, <2>1, <3>1, <3>3, <3>4, <3>7, <3>8, LinkBeforeFramed, FieldDelivered
    <3> QED BY <1>2, <2>2, <3>9 DEF ReadsOn
  <2>8. CASE Head(calls) = "AssignInt"
    <3>1. calls = <<"AssignInt">> /\ calls' = <<>> /\ pc = "link"
          /\ RowTakes(have \cup {"Links"}, lhave \ {"Tsize"}, "Tsize")
      BY <1>1, <1>5, <2>8 DEF Tame
    <3>2. TsizeAssignInt(TsizeOf[lfield.varint])
      BY <1>1, <2>8 DEF Make
    <3>3. LinkTaken # <<>> /\ lfield.num = 3
      BY <1>1, <3>1 DEF Owing, Owed
    <3>4. Row \in PBLink /\ Last \in Nat /\ Last \in 1..Last
      BY <3>1, RowThere DEF RowTakes, DecodeTypeOK
    <3>5. node' = [node EXCEPT !.Links[Last].Tsize = TsizeOf[lfield.varint]]
      BY <3>1, <3>2, <3>4 DEF RowTakes, RowHas, LinkFields, TsizeAssignInt, Panic
    <3> DEFINE l == [Row EXCEPT !.Tsize = TsizeOf[lfield.varint]]
    <3>6. TsizeOf[lfield.varint] \in Tsizes
      BY <1>1, <3>1, <3>3, LinkFacts, WellFormedValues
    <3>7. /\ l \in PBLink /\ l.Hash = Row.Hash /\ l.Name = Row.Name
          /\ l.Tsize = TsizeOf[lfield.varint]
      BY <3>4, <3>6 DEF PBLink
    <3>8. node' = [node EXCEPT !.Links = [@ EXCEPT ![Last] = l]]
      BY <3>5 DEF Row
    <3> HIDE DEF l
    <3>9. node' = NodeMeaning(Delivered')
      BY <1>1, <1>3, <2>1, <3>1, <3>3, <3>4, <3>7, <3>8, LinkBeforeFramed, FieldDelivered
    <3> QED BY <1>2, <2>2, <3>9 DEF ReadsOn
  <2> QED BY <2>3, <2>4, <2>5, <2>6, <2>7, <2>8 DEF Delivers
<1> QED BY <1>4, <1>5, Shapes

-----------------------------------------------------------------------------
(* The fields are read *)

\* The same of the next state, whatever has been read by then.
LEMMA Afterwards ==
  ASSUME NEW t, NEW a, NEW lt, Taken' = t, Accepted' = a, LinkTaken' = lt
  PROVE  /\ Framed(Taken)' <=> Framed(t)
         /\ IsNode(Accepted)' <=> IsNode(a)
         /\ LinkFramed(LinkTaken)' <=> LinkFramed(lt)
         /\ \A num : /\ Has(Taken, num)' <=> Has(t, num)
                     /\ Has(Accepted, num)' <=> Has(a, num)
                     /\ Has(LinkTaken, num)' <=> Has(lt, num)
BY DEF Framed, IsNode, IsLink, LinkFramed, Canonical, WellFormed, Has, BytesType, VarintType

LEMMA FieldRead ==
  ASSUME DecodeTypeOK, MessageRead, rest # <<>>,
         input' = input, rest' = Tail(rest), field' = Head(rest)
  PROVE  /\ Head(rest) \in NodeField /\ Taken \in Seq(NodeField)
         /\ Taken' = Append(Taken, Head(rest)) /\ Taken' # <<>> /\ Before' = Taken
         /\ IsLeft(rest, input)' /\ field' = (Taken[Len(Taken)])'
<1> DEFINE n == Len(input) - Len(rest)
<1>1. input \in Seq(NodeField) /\ rest \in Seq(NodeField) /\ IsLeft(rest, input)
  BY DEF DecodeTypeOK, MessageRead
<1>2. /\ n \in 0..Len(input) /\ n < Len(input) /\ n + 1 = Len(input) - Len(Tail(rest))
      /\ Head(rest) = input[n + 1]
      /\ Tail(rest) \in Seq(NodeField) /\ Head(rest) \in NodeField /\ IsLeft(Tail(rest), input)
      /\ SubSeq(input, 1, n + 1) = Append(SubSeq(input, 1, n), Head(rest))
  BY <1>1, Advance
<1>3. SubSeq(input, 1, n) \in Seq(NodeField) /\ Len(SubSeq(input, 1, n)) = n
  BY <1>1, <1>2, PrefixTyped
<1>4. Taken = SubSeq(input, 1, n) /\ Taken' = SubSeq(input, 1, n + 1)
  BY <1>2 DEF Taken
<1>5. Before' = SubSeq(input, 1, (n + 1) - 1) /\ (n + 1) - 1 = n
  BY <1>2 DEF Before
<1> HIDE DEF n
<1>6. IsLeft(rest, input)'
  BY <1>2 DEF IsLeft
<1>7. Taken' = Append(Taken, Head(rest)) /\ Taken \in Seq(NodeField) /\ Len(Taken) = n
  BY <1>2, <1>3, <1>4
<1>8. /\ Len(Append(Taken, Head(rest))) = Len(Taken) + 1 /\ Len(Taken) \in Nat
      /\ Append(Taken, Head(rest))[Len(Taken) + 1] = Head(rest)
  BY <1>2, <1>7, Appended1
<1>9. field' = Taken'[Len(Taken')] /\ Taken' # <<>>
  <2>1. Len(Taken') # 0
    BY <1>7, <1>8
  <2> QED BY <1>7, <1>8, <2>1
<1> QED BY <1>2, <1>4, <1>5, <1>6, <1>7, <1>9

LEMMA FieldFits ==
  ASSUME DecodeTypeOK, MessageRead, pc = "node", rest # <<>>, ~Malformed(Head(rest)),
         Head(rest) \in NodeField
  PROVE  Framed(Append(Taken, Head(rest)))
<1> DEFINE f == Head(rest)
<1>1. Taken \in Seq(NodeField) /\ Framed(Taken)
  BY MessageFacts
<1>2. f.num \in {1, 2} /\ f.wt = BytesType /\ ~f.short
  BY DEF Malformed
<1>3. f.num = 1 => ~Has(Taken, 1)
  BY DEF Malformed, MessageRead
<1>4. ASSUME f.num = 2, Has(Taken, 2) PROVE Taken[Len(Taken)].num = 2
  BY <1>4 DEF Malformed, MessageRead, Accepted
<1> HIDE DEF f
<1>5. Framed(Append(Taken, f))
  BY <1>1, <1>2, <1>3, <1>4, FramedGrows DEF f
<1> QED BY <1>5 DEF f

-----------------------------------------------------------------------------
(* The calls that each field asks for *)

LEMMA CallsOfData ==
  LET cs == (IF links THEN FinishLinks ELSE <<>>) \o SetData
  IN \/ cs = <<"links.Finish", "ma.AssembleKey", "Data", "ma.AssembleValue", "AssignBytes">>
     \/ cs = <<"ma.AssembleKey", "Data", "ma.AssembleValue", "AssignBytes">>
<1>1. FinishLinks \o SetData
      = <<"links.Finish", "ma.AssembleKey", "Data", "ma.AssembleValue", "AssignBytes">>
  BY DataAfterLinks
<1>2. <<>> \o SetData = <<"ma.AssembleKey", "Data", "ma.AssembleValue", "AssignBytes">>
  BY DEF SetData
<1> QED BY <1>1, <1>2, Zenon

LEMMA CallsOfLinks ==
  LET cs == (IF links THEN <<>> ELSE BeginLinks) \o BeginLink
  IN \/ cs = <<"ma.AssembleKey", "Links", "ma.AssembleValue", "BeginList",
               "links.AssembleValue", "BeginMap">>
     \/ cs = <<"links.AssembleValue", "BeginMap">>
<1>1. BeginLinks \o BeginLink
      = <<"ma.AssembleKey", "Links", "ma.AssembleValue", "BeginList",
          "links.AssembleValue", "BeginMap">>
  BY FirstLink
<1>2. <<>> \o BeginLink = <<"links.AssembleValue", "BeginMap">>
  BY DEF BeginLink
<1> QED BY <1>1, <1>2, Zenon

LEMMA CallsOfEnd ==
  \/ links /\ ClosingCalls = <<"links.Finish", "ma.Finish">>
  \/ ~links /\ "Links" \in have /\ ClosingCalls = <<"ma.Finish">>
  \/ /\ ~links /\ "Links" \notin have
     /\ ClosingCalls = <<"ma.AssembleKey", "Links", "ma.AssembleValue", "BeginList",
                         "links.Finish", "ma.Finish">>
<1>1. CASE links
  <2>1. ClosingCalls = (<<>> \o FinishLinks) \o <<"ma.Finish">>
    BY <1>1 DEF ClosingCalls
  <2>2. <<>> \o FinishLinks = FinishLinks
    BY DEF FinishLinks
  <2> QED BY <1>1, <2>1, <2>2, LinksThenFinish
<1>2. CASE ~links /\ "Links" \in have
  <2>1. ClosingCalls = (<<>> \o <<>>) \o <<"ma.Finish">>
    BY <1>2 DEF ClosingCalls
  <2>2. <<>> \o <<>> = <<>>
    OBVIOUS
  <2> QED BY <1>2, <2>1, <2>2
<1>3. CASE ~links /\ "Links" \notin have
  <2>1. ClosingCalls = (BeginLinks \o FinishLinks) \o <<"ma.Finish">>
    BY <1>3 DEF ClosingCalls
  <2> QED BY <1>3, <2>1, NoLinks
<1> QED BY <1>1, <1>2, <1>3

-----------------------------------------------------------------------------
(* Each step reads on *)

LEMMA ReadAllReads ==
  ASSUME DecodeTypeOK, Outline, ReadAll
  PROVE  ReadsOn'
<1>1. pc' = "node" /\ rest' = input /\ input' = input /\ have' = {} /\ links' = FALSE
      /\ calls' = <<"na.BeginMap">>
  BY DEF ReadAll, Outline, DecodeTypeOK
<1>2. Taken' = <<>> /\ IsLeft(rest, input)'
  <2>1. SubSeq(input, 1, Len(input) - Len(input)) = <<>> /\ IsLeft(input, input)
    BY AllLeft DEF DecodeTypeOK
  <2> QED BY <1>1, <2>1 DEF Taken, IsLeft
<1>3. Accepted' = <<>>
  BY <1>1, <1>2 DEF Accepted
<1>4. /\ Framed(Taken)' /\ IsNode(Accepted)'
      /\ \A num : ~Has(Taken, num)' /\ ~Has(Accepted, num)'
  <2>1. \A num : ~Has(<<>>, num)
    BY EmptyLink
  <2>2. PICK lt : lt = LinkTaken'
    OBVIOUS
  <2> QED BY <1>2, <1>3, <2>1, <2>2, Afterwards, EmptyMessage
<1>5. MessageRead'
  BY <1>1, <1>2, <1>4 DEF MessageRead
<1>6. Owed("na.BeginMap")' /\ Owing'
  BY <1>1 DEF Owed, Owing
<1> QED BY <1>1, <1>5, <1>6 DEF ReadsOn

LEMMA DataFieldReads ==
  ASSUME DecodeTypeOK, ReadsOn, DataField
  PROVE  ReadsOn'
<1> DEFINE f == Head(rest)
<1>1. /\ pc = "node" /\ calls = <<>> /\ rest # <<>> /\ ~Malformed(f) /\ f.num = 1
      /\ input' = input /\ rest' = Tail(rest) /\ field' = f /\ links' = FALSE /\ pc' = "node"
      /\ have' = have \cup {"Data"} /\ node' = node
      /\ calls' = (IF links THEN FinishLinks ELSE <<>>) \o SetData
  BY DEF DataField, At, vars, asm
<1>2. MessageRead /\ node = NodeMeaning(Taken) /\ IsNode(Taken)
  <2>1. \A c : ~Owed(c)
    BY <1>1, NoneOwed
  <2>2. Delivered = Taken
    BY <1>1, <2>1 DEF Delivered
  <2> QED BY <1>1, <2>1, <2>2 DEF ReadsOn, MessageRead, Accepted
<1>3. /\ f \in NodeField /\ Taken \in Seq(NodeField) /\ Taken' = Append(Taken, f)
      /\ Taken' # <<>> /\ Before' = Taken
      /\ IsLeft(rest, input)' /\ field' = (Taken[Len(Taken)])'
  BY <1>1, <1>2, FieldRead
<1>4. Framed(Append(Taken, f)) /\ IsNode(Append(Taken, f))
  BY <1>1, <1>2, <1>3, FieldFits, NodeGrows
<1>5. Accepted' = Append(Taken, f)
  BY <1>1, <1>3 DEF Accepted
<1>6. PICK lt : lt = LinkTaken'
  OBVIOUS
<1>7. /\ Framed(Taken)' /\ IsNode(Accepted)'
      /\ \A num : /\ Has(Taken, num)' <=> Has(Append(Taken, f), num)
                  /\ Has(Accepted, num)' <=> Has(Append(Taken, f), num)
  BY <1>3, <1>4, <1>5, <1>6, Afterwards
<1> HIDE DEF f
<1>8. \A num : Has(Append(Taken, f), num) <=> Has(Taken, num) \/ f.num = num
  BY <1>3, HasGrows
<1>9. ("Data" \in have' <=> Has(Taken, 1)') /\ ("Links" \in have' <=> Has(Accepted, 2)')
  BY <1>1, <1>2, <1>7, <1>8 DEF MessageRead, Accepted
<1>10. MessageRead'
  <2>1. links' <=> Taken' # <<>> /\ field'.num = 2
    BY <1>1
  <2> QED BY <1>1, <1>3, <1>7, <1>9, <2>1 DEF MessageRead
<1>11. calls' = <<"links.Finish", "ma.AssembleKey", "Data", "ma.AssembleValue", "AssignBytes">>
       \/ calls' = <<"ma.AssembleKey", "Data", "ma.AssembleValue", "AssignBytes">>
  BY <1>1, CallsOfData
<1>12. Owed("AssignBytes")' /\ ~Owed("AssignLink")' /\ ~Owed("AssignString")' /\ ~Owed("AssignInt")'
  <2>1. CASE calls' = <<"links.Finish", "ma.AssembleKey", "Data", "ma.AssembleValue", "AssignBytes">>
    <3>1. Len(calls') = 5 /\ calls'[5] = "AssignBytes" /\ 5 \in 1..Len(calls')
      BY <2>1
    <3> QED BY <2>1, <3>1 DEF Owed
  <2>2. CASE calls' = <<"ma.AssembleKey", "Data", "ma.AssembleValue", "AssignBytes">>
    <3>1. Len(calls') = 4 /\ calls'[4] = "AssignBytes" /\ 4 \in 1..Len(calls')
      BY <2>2
    <3> QED BY <2>2, <3>1 DEF Owed
  <2> QED BY <1>11, <2>1, <2>2
<1>13. Delivered' = Taken
  BY <1>3, <1>12 DEF Delivered
<1>14. Owing'
  BY <1>1, <1>3, <1>12 DEF Owing
<1> QED BY <1>1, <1>2, <1>10, <1>13, <1>14 DEF ReadsOn

LEMMA LinksFieldReads ==
  ASSUME DecodeTypeOK, ReadsOn, LinksField
  PROVE  ReadsOn'
<1> DEFINE f == Head(rest)
<1>1. /\ pc = "node" /\ calls = <<>> /\ rest # <<>> /\ ~Malformed(f) /\ f.num = 2
      /\ input' = input /\ rest' = Tail(rest) /\ field' = f /\ links' = TRUE /\ pc' = "link"
      /\ have' = have /\ node' = node /\ lrest' = f.link /\ lhave' = {}
      /\ calls' = (IF links THEN <<>> ELSE BeginLinks) \o BeginLink
  BY DEF LinksField, At, vars, asm
<1>2. MessageRead /\ node = NodeMeaning(Taken) /\ IsNode(Taken)
  <2>1. \A c : ~Owed(c)
    BY <1>1, NoneOwed
  <2>2. Delivered = Taken
    BY <1>1, <2>1 DEF Delivered
  <2> QED BY <1>1, <2>1, <2>2 DEF ReadsOn, MessageRead, Accepted
<1>3. /\ f \in NodeField /\ Taken \in Seq(NodeField) /\ Taken' = Append(Taken, f)
      /\ Taken' # <<>> /\ Before' = Taken
      /\ IsLeft(rest, input)' /\ field' = (Taken[Len(Taken)])'
  BY <1>1, <1>2, FieldRead
<1>4. Framed(Append(Taken, f))
  BY <1>1, <1>2, <1>3, FieldFits
<1>5. Accepted' = Taken
  BY <1>1, <1>3 DEF Accepted
<1>6. LinkTaken' = <<>> /\ IsLeft(lrest, field.link)'
  <2>1. f.link \in Seq(LinkField)
    BY <1>3 DEF NodeField
  <2>2. SubSeq(f.link, 1, Len(f.link) - Len(f.link)) = <<>> /\ IsLeft(f.link, f.link)
    BY <2>1, AllLeft
  <2> QED BY <1>1, <2>2 DEF LinkTaken, IsLeft
<1>7. /\ Framed(Taken)' /\ IsNode(Accepted)' /\ LinkFramed(LinkTaken)'
      /\ \A num : /\ Has(Taken, num)' <=> Has(Append(Taken, f), num)
                  /\ Has(Accepted, num)' <=> Has(Taken, num)
                  /\ ~Has(LinkTaken, num)'
  <2>1. LinkFramed(<<>>) /\ \A num : ~Has(<<>>, num)
    BY EmptyLink
  <2>2. PICK t : t = Taken
    OBVIOUS
  <2>3. /\ Framed(Taken)' <=> Framed(Append(t, f))
        /\ IsNode(Accepted)' <=> IsNode(t)
        /\ LinkFramed(LinkTaken)' <=> LinkFramed(<<>>)
        /\ \A num : /\ Has(Taken, num)' <=> Has(Append(t, f), num)
                    /\ Has(Accepted, num)' <=> Has(t, num)
                    /\ Has(LinkTaken, num)' <=> Has(<<>>, num)
    BY <1>3, <1>5, <1>6, <2>2, Afterwards
  <2> QED BY <1>2, <1>4, <2>1, <2>2, <2>3
<1> HIDE DEF f
<1>8. \A num : Has(Append(Taken, f), num) <=> Has(Taken, num) \/ f.num = num
  BY <1>3, HasGrows
<1>9. ("Data" \in have' <=> Has(Taken, 1)') /\ ("Links" \in have' <=> Has(Accepted, 2)')
  BY <1>1, <1>2, <1>7, <1>8 DEF MessageRead, Accepted
<1>10. MessageRead'
  <2>1. links' <=> Taken' # <<>> /\ field'.num = 2
    BY <1>1, <1>3
  <2> QED BY <1>1, <1>3, <1>7, <1>9, <2>1 DEF MessageRead
<1>11. LinkRead'
  BY <1>1, <1>3, <1>6, <1>7 DEF LinkRead
<1>12. calls' = <<"ma.AssembleKey", "Links", "ma.AssembleValue", "BeginList",
                  "links.AssembleValue", "BeginMap">>
       \/ calls' = <<"links.AssembleValue", "BeginMap">>
  BY <1>1, CallsOfLinks
<1>13. /\ Owed("links.AssembleValue")' /\ ~Owed("AssignBytes")'
       /\ ~Owed("AssignLink")' /\ ~Owed("AssignString")' /\ ~Owed("AssignInt")'
  BY <1>12 DEF Owed
<1>14. Delivered' = Taken
  BY <1>3, <1>13 DEF Delivered
<1>15. Owing'
  BY <1>13 DEF Owing
<1> QED BY <1>1, <1>2, <1>10, <1>11, <1>14, <1>15 DEF ReadsOn

LEMMA EndOfMessageReads ==
  ASSUME DecodeTypeOK, ReadsOn, EndOfMessage
  PROVE  ReadsOn'
<1>1. /\ pc = "node" /\ calls = <<>> /\ rest = <<>> /\ UNCHANGED <<input, rest, field, have, links>>
      /\ pc' = "return" /\ node' = node /\ calls' = ClosingCalls
  BY DEF EndOfMessage, At, vars, asm
<1>2. MessageRead /\ node = NodeMeaning(Taken)
  <2>1. \A c : ~Owed(c)
    BY <1>1, NoneOwed
  <2>2. Delivered = Taken
    BY <1>1, <2>1 DEF Delivered
  <2> QED BY <1>1, <2>1, <2>2 DEF ReadsOn
<1>3. Taken' = Taken /\ Accepted' = Accepted /\ IsLeft(rest, input)' = IsLeft(rest, input)
  BY <1>1 DEF Taken, Accepted, IsLeft
<1>4. /\ Framed(Taken)' <=> Framed(Taken)
      /\ IsNode(Accepted)' <=> IsNode(Accepted)
      /\ \A num : /\ Has(Taken, num)' <=> Has(Taken, num)
                  /\ Has(Accepted, num)' <=> Has(Accepted, num)
  <2>1. PICK t, a, lt : t = Taken /\ a = Accepted /\ lt = LinkTaken'
    OBVIOUS
  <2> QED BY <1>3, <2>1, Afterwards
<1>5. MessageRead'
  BY <1>1, <1>2, <1>3, <1>4 DEF MessageRead
<1>6. /\ ~Owed("AssignBytes")' /\ ~Owed("AssignLink")' /\ ~Owed("AssignString")'
      /\ ~Owed("AssignInt")' /\ ~Owed("links.AssembleValue")'
  <2>1. \/ calls' = <<"ma.AssembleKey", "Links", "ma.AssembleValue", "BeginList",
                      "links.Finish", "ma.Finish">>
        \/ calls' = <<"links.Finish", "ma.Finish">>
        \/ calls' = <<"ma.Finish">>
    BY <1>1, CallsOfEnd
  <2> QED BY <2>1 DEF Owed
<1>7. Delivered' = Taken
  BY <1>1, <1>3, <1>6 DEF Delivered
<1>8. Owing'
  BY <1>6 DEF Owing
<1> QED BY <1>1, <1>2, <1>5, <1>7, <1>8 DEF ReadsOn

LEMMA LinkFieldRead ==
  ASSUME DecodeTypeOK, LinkRead, lrest # <<>>, field' = field,
         lrest' = Tail(lrest), lfield' = Head(lrest)
  PROVE  /\ Head(lrest) \in LinkField /\ LinkTaken \in Seq(LinkField)
         /\ LinkTaken' = Append(LinkTaken, Head(lrest)) /\ LinkTaken' # <<>>
         /\ LinkBefore' = LinkTaken
         /\ IsLeft(lrest, field.link)' /\ lfield' = (LinkTaken[Len(LinkTaken)])'
<1> DEFINE s == field.link
           n == Len(s) - Len(lrest)
<1>1. s \in Seq(LinkField) /\ lrest \in Seq(LinkField) /\ IsLeft(lrest, s)
  BY LinkFacts DEF DecodeTypeOK, LinkRead
<1>2. /\ n \in 0..Len(s) /\ n < Len(s) /\ n + 1 = Len(s) - Len(Tail(lrest))
      /\ Head(lrest) = s[n + 1]
      /\ Tail(lrest) \in Seq(LinkField) /\ Head(lrest) \in LinkField /\ IsLeft(Tail(lrest), s)
      /\ SubSeq(s, 1, n + 1) = Append(SubSeq(s, 1, n), Head(lrest))
  <2> HIDE DEF s
  <2> QED BY <1>1, Advance
<1>3. SubSeq(s, 1, n) \in Seq(LinkField) /\ Len(SubSeq(s, 1, n)) = n
  <2> HIDE DEF s
  <2> QED BY <1>1, <1>2, PrefixTyped
<1>4. LinkTaken = SubSeq(s, 1, n) /\ LinkTaken' = SubSeq(s, 1, n + 1)
  BY <1>2 DEF LinkTaken
<1>5. LinkBefore' = SubSeq(s, 1, (n + 1) - 1) /\ (n + 1) - 1 = n
  BY <1>2 DEF LinkBefore
<1>6. IsLeft(lrest, field.link)'
  BY <1>2 DEF IsLeft
<1> HIDE DEF n, s
<1>7. LinkTaken' = Append(LinkTaken, Head(lrest)) /\ LinkTaken \in Seq(LinkField) /\ Len(LinkTaken) = n
  BY <1>2, <1>3, <1>4
<1>8. /\ Len(Append(LinkTaken, Head(lrest))) = Len(LinkTaken) + 1 /\ Len(LinkTaken) \in Nat
      /\ Append(LinkTaken, Head(lrest))[Len(LinkTaken) + 1] = Head(lrest)
  BY <1>2, <1>7, Appended1
<1>9. lfield' = LinkTaken'[Len(LinkTaken')] /\ LinkTaken' # <<>>
  <2>1. Len(LinkTaken') # 0
    BY <1>7, <1>8
  <2> QED BY <1>7, <1>8, <2>1
<1> QED BY <1>2, <1>4, <1>5, <1>6, <1>7, <1>9 DEF s

LEMMA LinkFieldFits ==
  ASSUME DecodeTypeOK, LinkRead, lrest # <<>>, ~LinkMalformed(Head(lrest)),
         Head(lrest) \in LinkField
  PROVE  LinkFramed(Append(LinkTaken, Head(lrest)))
<1> DEFINE f == Head(lrest)
<1>1. LinkTaken \in Seq(LinkField) /\ LinkFramed(LinkTaken)
      /\ \A num : Has(LinkTaken, num) => num \in {1, 2, 3}
  BY LinkFacts DEF LinkRead
<1>2. f.num \in {1, 2, 3} /\ ~f.short
  BY DEF LinkMalformed
<1>3. WellFormed(f)
  BY <1>2 DEF LinkMalformed, WellFormed
<1>4. /\ f.num = 1 => ~Has(LinkTaken, 1) /\ ~Has(LinkTaken, 2) /\ ~Has(LinkTaken, 3)
      /\ f.num = 2 => ~Has(LinkTaken, 2) /\ ~Has(LinkTaken, 3)
      /\ f.num = 3 => ~Has(LinkTaken, 3)
  BY DEF LinkMalformed, LinkRead
<1> HIDE DEF f
<1>5. \A i \in 1..Len(LinkTaken) : LinkTaken[i].num < f.num
  <2> SUFFICES ASSUME NEW i \in 1..Len(LinkTaken) PROVE LinkTaken[i].num < f.num
    OBVIOUS
  <2>1. Has(LinkTaken, LinkTaken[i].num)
    BY DEF Has
  <2>2. LinkTaken[i].num \in {1, 2, 3}
    BY <1>1, <2>1
  <2> QED BY <1>2, <1>4, <2>1, <2>2
<1>6. f \in LinkField
  BY DEF f
<1>7. LinkFramed(Append(LinkTaken, f))
  BY <1>1, <1>3, <1>5, <1>6, LinkFramedGrows
<1> QED BY <1>7 DEF f

LEMMA NextLinkFieldReads ==
  ASSUME DecodeTypeOK, ReadsOn, NEW num, NEW k, NEW assign, NextLinkField(num, k, assign),
         \/ num = 1 /\ k = "Hash" /\ assign = "AssignLink"
         \/ num = 2 /\ k = "Name" /\ assign = "AssignString"
         \/ num = 3 /\ k = "Tsize" /\ assign = "AssignInt"
  PROVE  ReadsOn'
<1> DEFINE f == Head(lrest)
<1>1. /\ pc = "link" /\ calls = <<>> /\ lrest # <<>> /\ ~LinkMalformed(f) /\ f.num = num
      /\ UNCHANGED <<input, rest, have, links, pc, field, node>>
      /\ lrest' = Tail(lrest) /\ lfield' = f /\ lhave' = lhave \cup {k}
      /\ calls' = SetField(k, assign)
  BY DEF NextLinkField, At, vars, asm
<1>2. MessageRead /\ LinkRead /\ node = NodeMeaning(Append(Before, EncLink(LinkTaken)))
  <2>1. \A c : ~Owed(c)
    BY <1>1, NoneOwed
  <2>2. LinkDelivered = LinkTaken
    BY <2>1 DEF LinkDelivered
  <2>3. Delivered = Append(Before, EncLink(LinkTaken))
    BY <1>1, <2>1, <2>2 DEF Delivered
  <2> QED BY <1>1, <2>1, <2>3 DEF ReadsOn
<1>3. /\ f \in LinkField /\ LinkTaken \in Seq(LinkField) /\ LinkTaken' = Append(LinkTaken, f)
      /\ LinkTaken' # <<>> /\ LinkBefore' = LinkTaken
      /\ IsLeft(lrest, field.link)' /\ lfield' = (LinkTaken[Len(LinkTaken)])'
  BY <1>1, <1>2, LinkFieldRead
<1>4. LinkFramed(Append(LinkTaken, f))
  BY <1>1, <1>2, <1>3, LinkFieldFits
<1>5. Taken' = Taken /\ Before' = Before /\ Accepted' = Accepted
      /\ IsLeft(rest, input)' = IsLeft(rest, input)
  BY <1>1 DEF Taken, Before, Accepted, IsLeft
<1>6. /\ Framed(Taken)' <=> Framed(Taken)
      /\ IsNode(Accepted)' <=> IsNode(Accepted)
      /\ LinkFramed(LinkTaken)'
      /\ \A n : /\ Has(Taken, n)' <=> Has(Taken, n)
                /\ Has(Accepted, n)' <=> Has(Accepted, n)
                /\ Has(LinkTaken, n)' <=> Has(Append(LinkTaken, f), n)
  <2>1. PICK t, a, lt : t = Taken /\ a = Accepted /\ lt = LinkTaken
    OBVIOUS
  <2>2. LinkTaken' = Append(lt, f) /\ Taken' = t /\ Accepted' = a
    BY <1>3, <1>5, <2>1
  <2>3. /\ Framed(Taken)' <=> Framed(t)
        /\ IsNode(Accepted)' <=> IsNode(a)
        /\ LinkFramed(LinkTaken)' <=> LinkFramed(Append(lt, f))
        /\ \A n : /\ Has(Taken, n)' <=> Has(t, n)
                  /\ Has(Accepted, n)' <=> Has(a, n)
                  /\ Has(LinkTaken, n)' <=> Has(Append(lt, f), n)
    BY <2>2, Afterwards
  <2> QED BY <1>4, <2>1, <2>3
<1>7. MessageRead'
  BY <1>1, <1>2, <1>5, <1>6 DEF MessageRead
<1> HIDE DEF f
<1>8. \A n : Has(Append(LinkTaken, f), n) <=> Has(LinkTaken, n) \/ f.num = n
  BY <1>3, HasGrows
<1>9. /\ "Hash" \in lhave' <=> Has(LinkTaken, 1)'
      /\ "Name" \in lhave' <=> Has(LinkTaken, 2)'
      /\ "Tsize" \in lhave' <=> Has(LinkTaken, 3)'
  <2>1. /\ "Hash" \in lhave <=> Has(LinkTaken, 1)
        /\ "Name" \in lhave <=> Has(LinkTaken, 2)
        /\ "Tsize" \in lhave <=> Has(LinkTaken, 3)
    BY <1>2 DEF LinkRead
  <2>2. /\ Has(LinkTaken, 1)' <=> Has(LinkTaken, 1) \/ num = 1
        /\ Has(LinkTaken, 2)' <=> Has(LinkTaken, 2) \/ num = 2
        /\ Has(LinkTaken, 3)' <=> Has(LinkTaken, 3) \/ num = 3
    BY <1>1, <1>6, <1>8
  <2>3. /\ "Hash" \in lhave' <=> "Hash" \in lhave \/ num = 1
        /\ "Name" \in lhave' <=> "Name" \in lhave \/ num = 2
        /\ "Tsize" \in lhave' <=> "Tsize" \in lhave \/ num = 3
    BY <1>1
  <2> QED BY <2>1, <2>2, <2>3
<1>10. LinkRead'
  BY <1>1, <1>2, <1>3, <1>5, <1>6, <1>9 DEF LinkRead
<1>11. /\ Owed(assign)' /\ ~Owed("AssignBytes")' /\ ~Owed("links.AssembleValue")'
       /\ ~Owed("na.BeginMap")'
       /\ \A c \in {"AssignLink", "AssignString", "AssignInt"} : Owed(c)' => c = assign
  <2>1. /\ Len(calls') = 4 /\ calls'[1] = "link.AssembleKey" /\ calls'[2] = k
        /\ calls'[3] = "link.AssembleValue" /\ calls'[4] = assign
    BY <1>1 DEF SetField
  <2>2. \A i \in 1..4 : calls'[i] \in {"link.AssembleKey", k, "link.AssembleValue", assign}
    BY <2>1
  <2> QED BY <2>1, <2>2 DEF Owed
<1>12. Delivered' = Append(Before, EncLink(LinkTaken))
  <2>1. LinkDelivered' = LinkTaken
    BY <1>3, <1>11 DEF LinkDelivered
  <2>2. EncLink(LinkDelivered)' = EncLink(LinkTaken)
    BY <2>1 DEF EncLink, NodeFieldOf, BytesType
  <2> QED BY <1>1, <1>5, <1>11, <2>2 DEF Delivered
<1>13. Owing'
  BY <1>1, <1>3, <1>11 DEF Owing
<1> QED BY <1>1, <1>2, <1>7, <1>10, <1>12, <1>13 DEF ReadsOn

\* The whole of the link in hand has been read.
LEMMA LinkWhole ==
  ASSUME DecodeTypeOK, LinkRead, lrest = <<>>
  PROVE  LinkTaken = field.link
<1> DEFINE s == field.link
<1>1. s \in Seq(LinkField) /\ lrest \in Seq(LinkField) /\ IsLeft(lrest, s)
  BY LinkFacts DEF DecodeTypeOK, LinkRead
<1> HIDE DEF s
<1>2. SubSeq(s, 1, Len(s) - Len(lrest)) = s
  BY <1>1, Advance
<1> QED BY <1>2 DEF s, LinkTaken

LEMMA EndOfLinkReads ==
  ASSUME DecodeTypeOK, ReadsOn, EndOfLink, "Hash" \in lhave
  PROVE  ReadsOn'
<1>1. /\ pc = "link" /\ calls = <<>> /\ lrest = <<>> /\ pc' = "node"
      /\ UNCHANGED <<input, rest, links, lrest, field, node>>
      /\ have' = have \cup {"Links"} /\ calls' = <<"curLink.Finish">>
  BY DEF EndOfLink, At, vars, asm
<1>2. /\ MessageRead /\ LinkRead /\ LinkTaken = field.link
      /\ node = NodeMeaning(Append(Before, EncLink(field.link)))
  <2>1. \A c : ~Owed(c)
    BY <1>1, NoneOwed
  <2>2. MessageRead /\ LinkRead /\ LinkTaken = field.link
    BY <1>1, LinkWhole DEF ReadsOn
  <2>3. LinkDelivered = field.link
    BY <2>1, <2>2 DEF LinkDelivered
  <2>4. Delivered = Append(Before, EncLink(field.link))
    BY <1>1, <2>1, <2>3 DEF Delivered
  <2> QED BY <1>1, <2>1, <2>2, <2>4 DEF ReadsOn
<1>3. /\ Taken # <<>> /\ field.num = 2 /\ IsLink(field.link)
      /\ field \in NodeField /\ Before \in Seq(NodeField) /\ Taken = Append(Before, field)
      /\ field.wt = BytesType /\ field.short = FALSE /\ Framed(Taken) /\ IsNode(Before)
      /\ field.link \in Seq(LinkField) /\ LinkFramed(field.link)
  <2>1. field.short \in BOOLEAN /\ field.link \in Seq(LinkField)
    BY DEF DecodeTypeOK, NodeField
  <2>2. LinkFramed(field.link) /\ Has(field.link, 1) /\ Taken # <<>> /\ field.num = 2
    BY <1>2 DEF LinkRead
  <2>3. IsNode(Before)
    BY <1>1, <1>2 DEF MessageRead, Accepted
  <2> QED BY <1>2, <2>1, <2>2, <2>3, MessageFacts DEF IsLink
<1>4. IsNode(Taken)
  BY <1>3, NodeGrows
<1>5. Taken' = Taken /\ Accepted' = Taken /\ IsLeft(rest, input)' = IsLeft(rest, input)
  BY <1>1 DEF Taken, Accepted, IsLeft
<1>6. /\ Framed(Taken)' /\ IsNode(Accepted)'
      /\ \A n : /\ Has(Taken, n)' <=> Has(Taken, n)
                /\ Has(Accepted, n)' <=> Has(Taken, n)
  <2>1. PICK t, lt : t = Taken /\ lt = LinkTaken'
    OBVIOUS
  <2>2. /\ Framed(Taken)' <=> Framed(t)
        /\ IsNode(Accepted)' <=> IsNode(t)
        /\ \A n : /\ Has(Taken, n)' <=> Has(t, n)
                  /\ Has(Accepted, n)' <=> Has(t, n)
    BY <1>5, <2>1, Afterwards
  <2> QED BY <1>3, <1>4, <2>1, <2>2
<1>7. Has(Taken, 2)
  BY <1>3, HasGrows
<1>8. MessageRead'
  BY <1>1, <1>2, <1>5, <1>6, <1>7 DEF MessageRead
<1>9. Owing' /\ ~Owed("AssignBytes")' /\ ~Owed("links.AssembleValue")'
  BY <1>1 DEF Owing, Owed
<1>10. Delivered' = Taken
  BY <1>1, <1>5, <1>9 DEF Delivered
<1>11. node = NodeMeaning(Taken)
  <2> DEFINE g == EncLink(field.link)
             m == NodeMeaning(Append(Before, g))
             n == NodeMeaning(Append(Before, field))
  <2>1. /\ g \in NodeField /\ g.num = 2 /\ g.wt = BytesType /\ g.short = FALSE
        /\ g.link = field.link
    BY <1>3, EncLinkTyped
  <2> HIDE DEF g
  <2>2. /\ m \in PBNode /\ m.Data = NodeMeaning(Before).Data
        /\ m.Links = Append(NodeMeaning(Before).Links, LinkMeaning(field.link))
    <3>1. LinkFramed(g.link)
      BY <1>3, <2>1
    <3>2. /\ m \in PBNode /\ m.Data = NodeMeaning(Before).Data
          /\ m.Links = Append(NodeMeaning(Before).Links, LinkMeaning(g.link))
      BY <1>2, <1>3, <2>1, <3>1, WithLink
    <3> QED BY <2>1, <3>2
  <2>3. /\ n \in PBNode /\ n.Data = NodeMeaning(Before).Data
        /\ n.Links = Append(NodeMeaning(Before).Links, LinkMeaning(field.link))
    BY <1>2, <1>3, WithLink
  <2>4. node = m
    BY <1>2 DEF g
  <2> HIDE DEF m, n
  <2>5. m = n
    BY <2>2, <2>3, SameNode
  <2> QED BY <1>3, <2>4, <2>5 DEF n
<1> QED BY <1>1, <1>8, <1>9, <1>10, <1>11 DEF ReadsOn

-----------------------------------------------------------------------------
(* What the loops refuse is not DAG-PB *)

LEMMA NextTaken ==
  ASSUME NEW A, NEW s \in Seq(A), NEW r \in Seq(A), IsLeft(r, s), r # <<>>
  PROVE  LET t == SubSeq(s, 1, Len(s) - Len(r))
         IN /\ Len(t) \in Nat /\ Len(t) + 1 \in 1..Len(s) /\ Head(r) = s[Len(t) + 1]
            /\ t = SubSeq(s, 1, (Len(t) + 1) - 1)
            /\ \A i \in 1..Len(t) : t[i] = s[i]
<1> DEFINE n == Len(s) - Len(r)
           t == SubSeq(s, 1, n)
<1>1. n \in 0..Len(s) /\ n < Len(s) /\ Head(r) = s[n + 1]
  BY Advance
<1>2. Len(t) = n /\ \A i \in 1..n : t[i] = s[i]
  BY <1>1, PrefixTyped
<1>3. n + 1 \in 1..Len(s) /\ (n + 1) - 1 = n
  BY <1>1
<1>4. t = SubSeq(s, 1, n)
  OBVIOUS
<1> HIDE DEF n, t
<1> QED BY <1>1, <1>2, <1>3, <1>4 DEF n, t

LEMMA FieldRefused ==
  ASSUME DecodeTypeOK, MessageRead, pc = "node", rest # <<>>, Malformed(Head(rest))
  PROVE  ~IsNode(input)
<1> DEFINE f == Head(rest)
           n == Len(Taken) + 1
<1> SUFFICES ASSUME Framed(input) PROVE ~Malformed(f)
  BY DEF IsNode
<1>1. input \in Seq(NodeField) /\ rest \in Seq(NodeField) /\ IsLeft(rest, input)
  BY DEF DecodeTypeOK, MessageRead
<1>2. /\ Len(Taken) \in Nat /\ n \in 1..Len(input) /\ f = input[n]
      /\ Taken = SubSeq(input, 1, n - 1)
  BY <1>1, NextTaken DEF Taken
<1>3. n - 1 = Len(Taken)
  BY <1>2
<1> HIDE DEF f, n
<1>4. /\ f.num \in {1, 2} /\ f.wt = BytesType /\ ~f.short
      /\ f.num = 1 => ~Has(Taken, 1)
      /\ f.num = 2 /\ Has(Taken, 2) => input[n - 1].num = 2
  BY <1>1, <1>2, FramedNever
<1>5. f.num = 1 => "Data" \notin have
  BY <1>4 DEF MessageRead
<1>6. ASSUME f.num = 2, "Links" \in have PROVE links
  <2>1. Has(Taken, 2) /\ Taken # <<>>
    <3>1. Has(Taken, 2)
      BY <1>6 DEF MessageRead, Accepted
    <3> QED BY <3>1 DEF Has
  <2>2. field = input[Len(Taken)]
    BY <2>1, MessageFacts
  <2> QED BY <1>3, <1>4, <1>6, <2>1, <2>2 DEF MessageRead
<1> QED BY <1>4, <1>5, <1>6 DEF Malformed

LEMMA LinkFieldRefused ==
  ASSUME DecodeTypeOK, LinkRead, lrest # <<>>, LinkMalformed(Head(lrest))
  PROVE  ~IsLink(field.link)
<1> DEFINE s == field.link
           f == Head(lrest)
           t == LinkTaken
           n == Len(t) + 1
<1> SUFFICES ASSUME LinkFramed(s) PROVE ~LinkMalformed(f)
  BY DEF IsLink
<1>1. s \in Seq(LinkField) /\ lrest \in Seq(LinkField) /\ IsLeft(lrest, s)
      /\ t = SubSeq(s, 1, Len(s) - Len(lrest))
  BY LinkFacts DEF DecodeTypeOK, LinkRead, LinkTaken
<1>2. /\ "Hash" \in lhave <=> Has(t, 1)
      /\ "Name" \in lhave <=> Has(t, 2)
      /\ "Tsize" \in lhave <=> Has(t, 3)
      /\ lhave \subseteq {"Hash", "Name", "Tsize"}
  BY DEF LinkRead, DecodeTypeOK, LinkFields
<1> HIDE DEF s
<1>3. /\ Len(t) \in Nat /\ n \in 1..Len(s) /\ f = s[n] /\ \A i \in 1..Len(t) : t[i] = s[i]
  BY <1>1, NextTaken
<1> HIDE DEF f, t, n
<1>4. WellFormed(f) /\ f.num \in {1, 2, 3}
  BY <1>3 DEF LinkFramed, WellFormed
<1>5. \A num \in {1, 2, 3} : Has(t, num) => num < f.num
  <2> SUFFICES ASSUME NEW i \in 1..Len(t) PROVE t[i].num < f.num
    BY DEF Has
  <2>1. i \in 1..Len(s) /\ i < n /\ t[i] = s[i]
    BY <1>3 DEF n
  <2> QED BY <1>3, <2>1 DEF LinkFramed, Canonical
<1>6. /\ f.num = 1 => lhave = {}
      /\ f.num = 2 => lhave \cap {"Name", "Tsize"} = {}
      /\ f.num = 3 => "Tsize" \notin lhave
  BY <1>2, <1>5
<1> QED BY <1>4, <1>6 DEF WellFormed, LinkMalformed

LEMMA LinkRefused ==
  ASSUME DecodeTypeOK, MessageRead, LinkRead, ~IsLink(field.link)
  PROVE  ~IsNode(input)
<1>1. Len(Taken) \in 1..Len(input) /\ field = input[Len(Taken)] /\ field.num = 2
  BY MessageFacts DEF LinkRead
<1> QED BY <1>1 DEF IsNode

LEMMA MessageAccepted ==
  ASSUME DecodeTypeOK, ReadsOn, At("return")
  PROVE  IsNode(input) /\ node = NodeMeaning(input)
<1>1. pc = "return" /\ calls = <<>> /\ MessageRead /\ rest = <<>>
  BY DEF At, ReadsOn, MessageRead
<1>2. \A c : ~Owed(c)
  BY <1>1, NoneOwed
<1>3. Taken = input
  BY <1>1, Advance DEF DecodeTypeOK, MessageRead, Taken
<1>4. Delivered = input /\ Accepted = input
  BY <1>1, <1>2, <1>3 DEF Delivered, Accepted
<1> QED BY <1>1, <1>2, <1>4 DEF ReadsOn, MessageRead

-----------------------------------------------------------------------------
(* Every step of the decoder *)

\* The caller waits exactly while a decode runs.
Waits == pc = "idle" <=> outcome # "busy"

Decoding == DecodeTypeOK /\ Outline /\ ReadsOn /\ Waits

LEMMA Unmoved ==
  ASSUME ReadsOn, UNCHANGED decodeVars
  PROVE  ReadsOn'
<1>1. UNCHANGED flow /\ calls' = calls /\ node' = node /\ pc' = pc
  BY DEF decodeVars, vars, asm, flow
<1>2. \A c : Owed(c)' <=> Owed(c)
  BY <1>1 DEF Owed
<1>3. Delivered' = Delivered
  <2>1. LinkDelivered' = LinkDelivered
    BY <1>1, <1>2, ReadingStill DEF LinkDelivered
  <2>2. EncLink(LinkDelivered)' = EncLink(LinkDelivered)
    BY <2>1 DEF EncLink, NodeFieldOf, BytesType
  <2> QED BY <1>1, <1>2, <2>2, ReadingStill DEF Delivered
<1>4. Owing => Owing'
  BY <1>1, <1>2, ReadingStill DEF Owing, flow
<1> QED BY <1>1, <1>2, <1>3, <1>4, ReadingStill DEF ReadsOn

LEMMA StepReads ==
  ASSUME Decoding, [DecodeNext]_decodeVars
  PROVE  Decoding'
<1>1. DecodeTypeOK /\ Outline /\ ReadsOn /\ Waits
  BY DEF Decoding
<1>2. DecodeTypeOK' /\ Outline' /\ TypeOK'
  BY <1>1, StepRight DEF DecodeTypeOK
<1> SUFFICES ReadsOn' /\ Waits'
  BY <1>2 DEF Decoding
<1>3. ASSUME NEW how \in {"ok", "err", "panic"}, Return(how) PROVE ReadsOn' /\ Waits'
  BY <1>3 DEF Return, ReadsOn, Waits
<1>4. CASE UNCHANGED decodeVars
  BY <1>1, <1>4, Unmoved DEF Waits, decodeVars, flow
<1>5. CASE \E msg \in (IF tries = 0 THEN Inputs ELSE Later) : Decode(msg)
  BY <1>5 DEF Decode, ReadsOn, Waits
<1>6. CASE ResetBuilder
  BY <1>1, <1>6 DEF ResetBuilder, ReadsOn, Waits, flow
<1>7. CASE ReadFails
  BY <1>3, <1>7 DEF ReadFails
<1>8. CASE ReadAll
  BY <1>1, <1>8, ReadAllReads DEF ReadAll, Waits
<1>9. CASE Call
  <2>1. CASE res' = "ok"
    <3>1. UNCHANGED <<flow, outcome>> /\ calls # <<>>
      BY <1>9, <2>1, CallOnce DEF Call
    <3>2. pc \in {"node", "link", "return"}
      BY <1>1, <3>1 DEF Outline
    <3> QED BY <1>1, <1>2, <1>9, <2>1, <3>1, <3>2, CallReads DEF Waits, flow
  <2>2. CASE res' # "ok"
    <3>1. res' \in {"ok", "err", "panic"}
      BY <1>2 DEF TypeOK
    <3>2. Return(res')
      BY <1>9, <2>2 DEF Call
    <3> QED BY <2>2, <3>1, <3>2 DEF Return, ReadsOn, Waits
  <2> QED BY <2>1, <2>2
<1>10. CASE RejectField
  BY <1>3, <1>10 DEF RejectField
<1>11. CASE DataField
  BY <1>1, <1>11, DataFieldReads DEF DataField, Waits
<1>12. CASE LinksField
  BY <1>1, <1>12, LinksFieldReads DEF LinksField, Waits, At
<1>13. CASE EndOfMessage
  BY <1>1, <1>13, EndOfMessageReads DEF EndOfMessage, Waits, At
<1>14. CASE Done
  BY <1>3, <1>14 DEF Done
<1>15. CASE RejectLinkField
  BY <1>3, <1>15 DEF RejectLinkField
<1>16. CASE EndOfLink
  <2>1. CASE "Hash" \in lhave
    BY <1>1, <1>16, <2>1, EndOfLinkReads DEF EndOfLink, Waits, At
  <2>2. CASE "Hash" \notin lhave
    BY <1>3, <1>16, <2>2 DEF EndOfLink
  <2> QED BY <2>1, <2>2
<1>17. ASSUME NEW num, NEW k, NEW assign, NextLinkField(num, k, assign),
              \/ num = 1 /\ k = "Hash" /\ assign = "AssignLink"
              \/ num = 2 /\ k = "Name" /\ assign = "AssignString"
              \/ num = 3 /\ k = "Tsize" /\ assign = "AssignInt"
       PROVE  ReadsOn' /\ Waits'
  BY <1>1, <1>17, NextLinkFieldReads DEF NextLinkField, Waits
<1>18. CASE \/ NextLinkField(1, "Hash", "AssignLink")
            \/ NextLinkField(2, "Name", "AssignString")
            \/ NextLinkField(3, "Tsize", "AssignInt")
  BY <1>17, <1>18
<1> QED
  BY <1>4, <1>5, <1>6, <1>7, <1>8, <1>9, <1>10, <1>11, <1>12, <1>13, <1>14, <1>15, <1>16, <1>18
     DEF DecodeNext, DecodeStep

LEMMA StartReads ==
  ASSUME DecodeInit
  PROVE  Decoding
BY StartRight DEF DecodeInit, Decoding, ReadsOn, Waits


-----------------------------------------------------------------------------
(* The decoder implements what its callers rely on *)

LEMMA SameFormat ==
  /\ Service!IsNode(input) <=> IsNode(input)
  /\ Service!NodeMeaning(input) = NodeMeaning(input)
  /\ Service!EmptyNode = EmptyNode
BY DEF Service!IsNode, Service!Framed, Service!IsLink, Service!LinkFramed, Service!Canonical,
       Service!WellFormed, Service!Has, Service!BytesType, Service!VarintType,
       Service!NodeMeaning, Service!LinkMeaning, Service!Numbered, Service!TsizeOf,
       Service!MaxUint64, Service!EmptyNode,
       IsNode, Framed, IsLink, LinkFramed, Canonical, WellFormed, Has, BytesType, VarintType,
       NodeMeaning, LinkMeaning, Numbered, TsizeOf, MaxUint64, EmptyNode

BuiltIs == IF BuilderIs = "built" THEN node ELSE EmptyNode

\* Past BeginMap the builder counts as it was before the call: fresh.
LEMMA InLoop ==
  ASSUME pc \in {"node", "link", "return"}, calls = <<>> \/ Head(calls) # "na.BeginMap"
  PROVE  BuilderIs = "fresh"
BY DEF BuilderIs

LEMMA OutsideLoop ==
  ASSUME pc \in {"idle", "read"} \/ (calls # <<>> /\ Head(calls) = "na.BeginMap")
  PROVE  BuilderIs = CASE na.m = "Absent" -> "fresh" [] na.m = "midvalue" -> "spoilt"
                       [] OTHER -> "built"
BY DEF BuilderIs

\* What the abstract specification sees of a step inside a call.
Inside == BuilderIs' = BuilderIs /\ BuiltIs' = BuiltIs /\ UNCHANGED <<input, outcome, tries>>

LEMMA StaysInside ==
  ASSUME BuilderIs = "fresh", BuilderIs' = "fresh", UNCHANGED <<input, outcome, tries>>
  PROVE  Inside
BY DEF Inside, BuiltIs, EmptyNode

LEMMA InsideStutters ==
  ASSUME Inside
  PROVE  UNCHANGED Service!specVars
BY DEF Inside, BuiltIs, Service!specVars

LEMMA CallInside ==
  ASSUME Decoding, Call, Head(calls) # "na.BeginMap"
  PROVE  Inside
<1>1. DecodeTypeOK /\ Outline /\ calls # <<>>
  BY DEF Decoding, Call
<1>2. res' = "ok"
  BY <1>1, CallKeeps
<1>3. UNCHANGED <<flow, outcome>> /\ calls' = Tail(calls)
  BY <1>2, CallOnce
<1>4. Tame
  BY <1>1, Shapes
<1>5. calls' = <<>> \/ Head(calls') # "na.BeginMap"
  <2>1. calls \in Seq(CallNames) /\ ~Owed("na.BeginMap")
    BY <1>4 DEF Tame
  <2>2. ~Owed("na.BeginMap")'
    BY <1>1, <1>3, <2>1, OwedRest
  <2>3. calls' \in Seq(CallNames)
    BY <1>1, <1>3, <2>1
  <2> QED BY <2>2, <2>3 DEF Owed
<1>6. pc \in {"node", "link", "return"}
  BY <1>1 DEF Outline
<1>7. BuilderIs = "fresh"
  BY <1>1, <1>6, InLoop
<1>8. BuilderIs' = "fresh"
  BY <1>3, <1>5, <1>6 DEF BuilderIs, flow
<1> QED BY <1>3, <1>7, <1>8, StaysInside DEF flow

LEMMA BeginMapMaps ==
  ASSUME Decoding, Call, Head(calls) = "na.BeginMap"
  PROVE  Inside \/ Service!Refuse
<1>1. DecodeTypeOK /\ Outline /\ calls # <<>> /\ Waits /\ Make("na.BeginMap") /\ TypeOK
  BY DEF Decoding, Call, DecodeTypeOK
<1>2. calls = <<"na.BeginMap">> /\ pc = "node" /\ Whole
  <2>1. Tame => calls \in Seq(CallNames) /\ ~Owed("na.BeginMap")
    BY DEF Tame
  <2>2. Tame => FALSE
    BY <1>1, <2>1 DEF Owed
  <2> QED BY <1>1, <2>2, Shapes
<1>3. NodeBeginMap
  BY <1>1 DEF Make
<1>4. BuilderIs = CASE na.m = "Absent" -> "fresh" [] na.m = "midvalue" -> "spoilt"
                    [] OTHER -> "built"
  BY <1>1, OutsideLoop
<1>5. CASE na.m # "Absent"
  <2>1. res' = "panic" /\ UNCHANGED asm
    BY <1>3, <1>5 DEF NodeBeginMap, Panic
  <2>2. Return("panic")
    BY <2>1 DEF Call
  <2>3. BuilderIs' = BuilderIs
    BY <1>4, <2>1, <2>2 DEF BuilderIs, Return, asm
  <2>4. BuilderIs # "fresh"
    BY <1>4, <1>5
  <2>5. BuiltIs' = BuiltIs /\ outcome = "busy"
    BY <1>1, <1>2, <2>1, <2>3 DEF BuiltIs, asm, Waits
  <2> QED BY <2>2, <2>3, <2>4, <2>5 DEF Service!Refuse, Return, BuiltIs
<1>6. CASE na.m = "Absent"
  <2>1. res' = "ok"
    BY <1>3, <1>6 DEF NodeBeginMap, Panic
  <2>2. UNCHANGED <<flow, outcome>> /\ calls' = <<>>
    BY <1>2, <2>1, CallOnce
  <2>3. BuilderIs = "fresh" /\ BuilderIs' = "fresh"
    BY <1>2, <1>4, <1>6, <2>2 DEF BuilderIs, flow
  <2> QED BY <2>2, <2>3, StaysInside DEF flow
<1> QED BY <1>5, <1>6

\* A decode that ends with an error past BeginMap.
LEMMA RejectMaps ==
  ASSUME Decoding, pc \in {"node", "link"}, calls = <<>>, ~IsNode(input), Return("err"),
         UNCHANGED vars
  PROVE  Service!Reject
<1>1. outcome = "busy" /\ na.m = "midvalue"
  BY NodeLoop, LinkLoop DEF Decoding, Waits, At
<1>2. BuilderIs = "fresh"
  BY InLoop
<1>3. BuilderIs' = "spoilt" /\ UNCHANGED <<input, tries>> /\ outcome' = "err"
  BY <1>1 DEF BuilderIs, Return, vars, asm
<1>4. BuiltIs' = EmptyNode /\ BuiltIs = EmptyNode
  BY <1>2, <1>3 DEF BuiltIs, EmptyNode
<1> QED BY <1>1, <1>2, <1>3, <1>4, SameFormat DEF Service!Reject, BuiltIs

LEMMA DoneMaps ==
  ASSUME Decoding, Done
  PROVE  Service!Accept
<1>1. outcome = "busy" /\ na.m = "Value" /\ pc = "return" /\ calls = <<>>
  BY ReturnLoop DEF Decoding, Waits, At, Done
<1>2. IsNode(input) /\ node = NodeMeaning(input)
  BY MessageAccepted DEF Decoding, Done
<1>3. BuilderIs = "fresh"
  BY <1>1, InLoop
<1>4. BuilderIs' = "built" /\ UNCHANGED <<input, tries, node>> /\ outcome' = "ok"
  BY <1>1 DEF BuilderIs, Done, Return, vars, asm
<1>5. BuiltIs' = NodeMeaning(input)
  BY <1>2, <1>4 DEF BuiltIs
<1> QED BY <1>1, <1>2, <1>3, <1>4, <1>5, SameFormat DEF Service!Accept, BuiltIs

LEMMA StepServes ==
  ASSUME Decoding, [DecodeNext]_decodeVars
  PROVE  [Service!SpecNext]_Service!specVars
<1>1. DecodeTypeOK /\ Outline /\ ReadsOn /\ Waits
  BY DEF Decoding
<1>2. CASE UNCHANGED decodeVars
  BY <1>2 DEF Inside, BuiltIs, BuilderIs, decodeVars, flow, vars, asm, Service!specVars
<1>3. ASSUME NEW msg \in (IF tries = 0 THEN Inputs ELSE Later), Decode(msg)
      PROVE  Service!SpecNext
  <2>1. msg \in Inputs \cup Later
    BY <1>3
  <2>2. BuilderIs' = BuilderIs /\ BuiltIs' = BuiltIs
    BY <1>3 DEF Decode, BuilderIs, BuiltIs, vars, asm
  <2>3. Service!Ask(msg)
    BY <1>1, <1>3, <2>2 DEF Decode, Service!Ask, Waits, BuiltIs
  <2> QED BY <2>1, <2>3 DEF Service!SpecNext
<1>4. CASE ResetBuilder
  <2>1. na'.m = "Absent" /\ outcome # "busy" /\ pc' = "idle" /\ outcome' = "none"
        /\ UNCHANGED <<input, tries>>
    BY <1>1, <1>4 DEF ResetBuilder, Reset, Fresh, Waits, flow
  <2>2. BuilderIs' = "fresh"
    BY <2>1 DEF BuilderIs
  <2>3. BuiltIs' = EmptyNode
    BY <2>2 DEF BuiltIs, EmptyNode
  <2>4. Service!Forget
    BY <2>1, <2>2, <2>3, SameFormat DEF Service!Forget, BuiltIs
  <2> QED BY <2>4 DEF Service!SpecNext
<1>5. CASE ReadFails
  <2>1. BuilderIs' = BuilderIs /\ BuiltIs' = BuiltIs
    BY <1>5 DEF ReadFails, Return, BuilderIs, BuiltIs, vars, asm
  <2>2. Service!Unreadable
    BY <1>1, <1>5, <2>1 DEF ReadFails, Return, Waits, Service!Unreadable, BuiltIs
  <2> QED BY <2>2 DEF Service!SpecNext, Service!Answer
<1>6. CASE ReadAll
  <2>1. BuilderIs' = BuilderIs /\ BuiltIs' = BuiltIs
    BY <1>6 DEF ReadAll, BuilderIs, BuiltIs, vars, asm
  <2>2. Inside
    BY <1>6, <2>1 DEF ReadAll, Inside
  <2> QED BY <2>2, InsideStutters
<1>7. CASE Call
  <2>1. Inside \/ Service!Refuse
    BY <1>7, CallInside, BeginMapMaps
  <2> QED BY <2>1, InsideStutters DEF Service!SpecNext, Service!Answer
<1>8. CASE RejectField
  <2>1. /\ MessageRead /\ pc = "node" /\ calls = <<>> /\ Return("err") /\ UNCHANGED vars
        /\ ~IsNode(input)
    BY <1>1, <1>8, FieldRefused DEF RejectField, At, ReadsOn
  <2>2. Service!Reject
    BY <2>1, RejectMaps
  <2> QED BY <2>2 DEF Service!SpecNext, Service!Answer
<1>9. CASE RejectLinkField
  <2>1. MessageRead /\ LinkRead /\ pc = "link" /\ calls = <<>> /\ Return("err") /\ UNCHANGED vars
    BY <1>1, <1>9 DEF RejectLinkField, At, ReadsOn
  <2>2. ~IsNode(input)
    BY <1>1, <1>9, <2>1, LinkFieldRefused, LinkRefused DEF RejectLinkField
  <2>3. Service!Reject
    BY <2>1, <2>2, RejectMaps
  <2> QED BY <2>3 DEF Service!SpecNext, Service!Answer
<1>10. CASE EndOfLink /\ "Hash" \notin lhave
  <2>1. /\ MessageRead /\ LinkRead /\ pc = "link" /\ calls = <<>> /\ lrest = <<>>
        /\ Return("err") /\ UNCHANGED vars
    BY <1>1, <1>10 DEF EndOfLink, At, ReadsOn
  <2>2. ~IsLink(field.link)
    BY <1>1, <1>10, <2>1, LinkWhole DEF LinkRead, IsLink
  <2>3. Service!Reject
    BY <1>1, <2>1, <2>2, LinkRefused, RejectMaps
  <2> QED BY <2>3 DEF Service!SpecNext, Service!Answer
<1>11. CASE Done
  BY <1>11, DoneMaps DEF Service!SpecNext, Service!Answer
<1>12. ASSUME calls = <<>>, pc \in {"node", "link"}, pc' \in {"node", "link", "return"},
              calls' # <<>>, Head(calls') # "na.BeginMap", UNCHANGED <<input, outcome, tries>>
       PROVE  UNCHANGED Service!specVars
  <2>1. BuilderIs = "fresh" /\ BuilderIs' = "fresh"
    BY <1>12 DEF BuilderIs
  <2>2. Inside
    BY <1>12, <2>1, StaysInside
  <2> QED BY <2>2, InsideStutters
<1>13. CASE DataField
  <2>1. calls' # <<>> /\ Head(calls') # "na.BeginMap"
    <3>1. calls' = (IF links THEN FinishLinks ELSE <<>>) \o SetData
      BY <1>13 DEF DataField
    <3>2. calls' = <<"links.Finish", "ma.AssembleKey", "Data", "ma.AssembleValue", "AssignBytes">>
          \/ calls' = <<"ma.AssembleKey", "Data", "ma.AssembleValue", "AssignBytes">>
      BY <3>1, CallsOfData
    <3> QED BY <3>2
  <2>2. calls = <<>> /\ pc = "node" /\ pc' = "node" /\ UNCHANGED <<input, outcome, tries>>
    BY <1>13 DEF DataField, At
  <2> QED BY <1>12, <2>1, <2>2
<1>14. CASE LinksField
  <2>1. calls' # <<>> /\ Head(calls') # "na.BeginMap"
    <3>1. calls' = (IF links THEN <<>> ELSE BeginLinks) \o BeginLink
      BY <1>14 DEF LinksField
    <3>2. calls' = <<"ma.AssembleKey", "Links", "ma.AssembleValue", "BeginList",
                     "links.AssembleValue", "BeginMap">>
          \/ calls' = <<"links.AssembleValue", "BeginMap">>
      BY <3>1, CallsOfLinks
    <3> QED BY <3>2
  <2>2. calls = <<>> /\ pc = "node" /\ pc' = "link" /\ UNCHANGED <<input, outcome, tries>>
    BY <1>14 DEF LinksField, At
  <2> QED BY <1>12, <2>1, <2>2
<1>15. CASE EndOfMessage
  <2>1. calls' # <<>> /\ Head(calls') # "na.BeginMap"
    BY <1>15, CallsOfEnd DEF EndOfMessage
  <2>2. calls = <<>> /\ pc = "node" /\ pc' = "return" /\ UNCHANGED <<input, outcome, tries>>
    BY <1>15 DEF EndOfMessage, At
  <2> QED BY <1>12, <2>1, <2>2
<1>16. CASE EndOfLink /\ "Hash" \in lhave
  <2>1. calls' # <<>> /\ Head(calls') # "na.BeginMap"
    BY <1>16 DEF EndOfLink
  <2>2. calls = <<>> /\ pc = "link" /\ pc' = "node" /\ UNCHANGED <<input, outcome, tries>>
    BY <1>16 DEF EndOfLink, At
  <2> QED BY <1>12, <2>1, <2>2
<1>17. ASSUME NEW num, NEW k, NEW assign, NextLinkField(num, k, assign)
       PROVE  UNCHANGED Service!specVars
  <2>1. calls' # <<>> /\ Head(calls') # "na.BeginMap"
    <3>1. calls' = <<"link.AssembleKey", k, "link.AssembleValue", assign>>
      BY <1>17 DEF NextLinkField, SetField
    <3> QED BY <3>1
  <2>2. calls = <<>> /\ pc = "link" /\ pc' = "link" /\ UNCHANGED <<input, outcome, tries>>
    BY <1>17 DEF NextLinkField, At
  <2> QED BY <1>12, <2>1, <2>2
<1> QED
  BY <1>2, <1>3, <1>4, <1>5, <1>6, <1>7, <1>8, <1>9, <1>10, <1>11, <1>13, <1>14, <1>15, <1>16,
     <1>17
     DEF DecodeNext, DecodeStep


-----------------------------------------------------------------------------
(* Theorems, for any messages, any number of decodes and both builders. *)

\* Between two steps of DecodeBytes and unmarshalLink the assemblers are always where
\* the next call needs them, and haveData, haveLinks, links and curLink tell the truth
\* about the node: a second decode into a builder changes nothing of this.
THEOREM Outlined == DecodeSystem => [](DecodeTypeOK /\ Outline)
<1>1. DecodeInit => DecodeTypeOK /\ Outline
  BY StartRight
<1>2. DecodeTypeOK /\ Outline /\ [DecodeNext]_decodeVars => (DecodeTypeOK /\ Outline)'
  BY StepRight
<1> QED BY <1>1, <1>2, PTL DEF DecodeSystem

\* The variables of the decoder and of the assemblers it drives keep their types.
THEOREM DecodeTyped == DecodeSystem => []DecodeTypeOK
BY Outlined, PTL

\* What the decoder does to a builder is something callers of the builder may do: it
\* never calls an assembler that it was not given or has already finished.
THEOREM DecoderIsACaller == DecodeSystem => IsACaller
<1>1. DecodeInit => Init
  BY DEF DecodeInit
<1>2. DecodeTypeOK /\ Outline /\ [DecodeNext]_decodeVars => [Next]_vars
  BY StepKeeps
<1> QED BY <1>1, <1>2, Outlined, PTL DEF DecodeSystem, IsACaller, Spec

\* Once BeginMap has been accepted no assembler refuses a call of the decoder: all that
\* the schema forbids is rejected by the decoder's own checks before it gets there.
THEOREM DecoderNeverRefused == DecodeSystem => NeverRefused
<1>1. DecodeTypeOK /\ Outline /\ [DecodeNext]_decodeVars
        => [calls # <<>> /\ Head(calls) # "na.BeginMap" => res' = "ok"]_decodeVars
  <2> SUFFICES ASSUME DecodeTypeOK, Outline, DecodeNext, calls # <<>>, Head(calls) # "na.BeginMap"
               PROVE  res' = "ok"
    OBVIOUS
  <2>1. pc \notin {"idle", "read"}
    BY DEF Outline
  <2>2. Call
    BY <2>1
       DEF DecodeNext, Decode, ResetBuilder, DecodeStep, ReadFails, ReadAll, At, RejectField,
           DataField, LinksField, EndOfMessage, Done, RejectLinkField, EndOfLink, NextLinkField
  <2> QED BY <2>2, CallKeeps
<1> QED BY <1>1, Outlined, PTL DEF DecodeSystem, NeverRefused

\* A node that a decode leaves behind has a Hash in every link, at the representation
\* level too, where other callers can get out a node that has not.
THEOREM DecodedComplete == DecodeSystem => []FinishedComplete
<1>1. Outline => FinishedComplete
  BY DEF Outline, AtNode, AtLink, AtReturn, AtData, AtLinks, AtField, Whole, FinishedComplete,
         RowsComplete, NodeOpen, NodeKeyed, NodeExpects, NodeTakes, NodeIn, ListOpen, ListIn,
         RowNew, RowOpen, RowKeyed, RowExpects, RowTakes, RowHas, RowIn
<1> QED BY <1>1, Outlined, PTL

\* A later decode, which finds the builder used and panics, leaves the node of the
\* earlier one as it was.
THEOREM DecodedFinal == DecodeSystem => FinishedIsFinal
<1>1. DecodeTypeOK /\ Outline /\ [DecodeNext]_decodeVars
        => [na.m = "Value" /\ na'.m = "Value" => node' = node]_vars
  <2> SUFFICES ASSUME DecodeTypeOK, Outline, DecodeNext, na.m = "Value", na'.m = "Value"
               PROVE  node' = node
    BY DEF decodeVars
  <2>1. calls = <<>> \/ calls = <<"na.BeginMap">>
    BY DEF Outline, AtNode, AtLink, AtReturn, AtData, AtLinks, AtField,
           NodeOpen, NodeKeyed, NodeExpects, NodeTakes, NodeIn, ListOpen, ListIn,
           RowNew, RowOpen, RowKeyed, RowExpects, RowTakes, RowHas, RowIn
  <2>2. CASE Call
    <3>1. Head(calls) = "na.BeginMap"
      BY <2>1, <2>2 DEF Call
    <3>2. NodeBeginMap
      BY <2>2, <3>1 DEF Call, Make
    <3> QED BY <3>2 DEF NodeBeginMap, Panic, asm
  <2>3. CASE ResetBuilder
    BY <2>3 DEF ResetBuilder, Reset, Fresh
  <2>4. CASE ~Call /\ ~ResetBuilder
    BY <2>4
       DEF DecodeNext, Decode, DecodeStep, ReadFails, ReadAll, RejectField, DataField, LinksField,
           EndOfMessage, Done, RejectLinkField, EndOfLink, NextLinkField, vars
  <2> QED BY <2>2, <2>3, <2>4
<1> QED BY <1>1, Outlined, PTL DEF DecodeSystem, FinishedIsFinal

\* At every step of Decode what has been read of the message could be the beginning of
\* a DAG-PB message, haveData, haveLinks and the flags of unmarshalLink tell which fields
\* it had, and the node under construction is what it denotes.
THEOREM DecodeReadsOn == DecodeSystem => []ReadsOn
<1>1. DecodeInit => Decoding
  BY StartReads
<1>2. Decoding /\ [DecodeNext]_decodeVars => Decoding'
  BY StepReads
<1>3. Decoding => ReadsOn
  BY DEF Decoding
<1> QED BY <1>1, <1>2, <1>3, PTL DEF DecodeSystem

\* Decode promises no less than DecodeSpec says: seen from outside, every step of the
\* loops is an answer, or nothing.  It accepts exactly the messages that are DAG-PB, with
\* the node they denote, and rejects every other.
THEOREM DecodeImplements ==
  DecodeSystem => Service!SpecInit /\ [][Service!SpecNext]_Service!specVars
<1>1. DecodeInit => Service!SpecInit
  BY SameFormat DEF DecodeInit, Init, Fresh, Service!SpecInit, BuilderIs, EmptyNode
<1>2. DecodeInit => Decoding
  BY StartReads
<1>3. Decoding /\ [DecodeNext]_decodeVars => Decoding'
  BY StepReads
<1>4. Decoding /\ [DecodeNext]_decodeVars => [Service!SpecNext]_Service!specVars
  BY StepServes
<1> QED BY <1>1, <1>2, <1>3, <1>4, PTL DEF DecodeSystem
=============================================================================
