---------------------------- MODULE DecodeBytes ----------------------------
(***************************************************************************)
(* Decode, DecodeBytes and unmarshalLink driving the builder they are      *)
(* given: one assembler call or one consumed field per step.  The caller   *)
(* decodes into the same builder up to MaxCalls times, with or without a   *)
(* Reset in between.                                                       *)
(***************************************************************************)
EXTENDS PBAssembler, DagPB

CONSTANTS
  Inputs,    \* messages the caller decodes first
  Later,     \* messages it decodes into a builder already used
  MaxCalls   \* bound: calls of Decode

VARIABLES
  input,     \* src
  rest,      \* remaining, in DecodeBytes
  have,      \* haveData and haveLinks
  links,     \* links # nil: the list assembler is open
  lrest,     \* remaining, in unmarshalLink
  lhave,     \* haveHash, haveName and haveTsize
  pc,        \* "idle", "read", or the loop being run: "node", "link", "return"
  calls,     \* assembler calls to make before pc's next step
  field,     \* the field they take their argument from
  lfield,    \* the same inside a link
  outcome,   \* "none", "busy", or how the last call of Decode ended
  tries

flow == <<input, rest, have, links, lrest, lhave, pc, field, lfield, tries>>
decodeVars == <<vars, flow, calls, outcome>>

ASSUME DecodeAssumption ==
  /\ Inputs \cup Later \subseteq Seq(NodeField)
  /\ MaxCalls \in Nat

-----------------------------------------------------------------------------
\* The assembler calls, by the name of the variable they are made on.
Make(c) ==
  \/ c = "na.BeginMap"         /\ NodeBeginMap
  \/ c = "ma.AssembleKey"      /\ NodeAssembleKey
  \/ c = "Data"                /\ NodeAssignKey("Data")
  \/ c = "Links"               /\ NodeAssignKey("Links")
  \/ c = "ma.AssembleValue"    /\ NodeAssembleValue
  \/ c = "AssignBytes"         /\ DataAssignBytes(field.chunk)
  \/ c = "BeginList"           /\ LinksBeginList(0)
  \/ c = "ma.Finish"           /\ NodeFinish
  \/ c = "links.AssembleValue" /\ LinksAssembleValue
  \/ c = "links.Finish"        /\ LinksFinish
  \/ c = "BeginMap"            /\ LinkBeginMap
  \/ c = "link.AssembleKey"    /\ LinkAssembleKey
  \/ c = "Hash"                /\ LinkAssignKey("Hash")
  \/ c = "Name"                /\ LinkAssignKey("Name")
  \/ c = "Tsize"               /\ LinkAssignKey("Tsize")
  \/ c = "link.AssembleValue"  /\ LinkAssembleValue
  \/ c = "AssignLink"          /\ HashAssignLink(CidOf[lfield.raw])
  \/ c = "AssignString"        /\ NameAssignString(lfield.name)
  \/ c = "AssignInt"           /\ TsizeAssignInt(TsizeOf[lfield.varint])
  \/ c = "curLink.Finish"      /\ LinkFinish

\* Faulty: the map of a link is not begun.
BeginLinkless == <<"links.AssembleValue">>

BeginLinks == <<"ma.AssembleKey", "Links", "ma.AssembleValue", "BeginList">>
SetData == <<"ma.AssembleKey", "Data", "ma.AssembleValue", "AssignBytes">>
BeginLink == <<"links.AssembleValue", "BeginMap">>
FinishLinks == <<"links.Finish">>
SetField(k, assign) == <<"link.AssembleKey", k, "link.AssembleValue", assign>>

-----------------------------------------------------------------------------
(* The caller *)

Decode(msg) ==
  /\ pc = "idle" /\ tries < MaxCalls
  /\ input' = msg /\ pc' = "read" /\ outcome' = "busy" /\ tries' = tries + 1
  /\ UNCHANGED <<vars, rest, have, links, lrest, lhave, calls, field, lfield>>

ResetBuilder ==
  /\ pc = "idle" /\ outcome # "none"
  /\ Reset
  /\ outcome' = "none"
  /\ UNCHANGED <<flow, calls>>

-----------------------------------------------------------------------------
(* Decode *)

Return(how) ==
  /\ pc' = "idle" /\ outcome' = how /\ calls' = <<>>
  /\ rest' = <<>> /\ have' = {} /\ links' = FALSE /\ lrest' = <<>> /\ lhave' = {}
  /\ field' = NoField /\ lfield' = NoLinkField
  /\ UNCHANGED <<input, tries>>

ReadFails == pc = "read" /\ Return("err") /\ UNCHANGED vars

\* A source with a Bytes method is taken as it is, any other is read to its end.
ReadAll ==
  /\ pc = "read"
  /\ rest' = input /\ pc' = "node" /\ calls' = <<"na.BeginMap">>
  /\ UNCHANGED <<vars, input, have, links, lrest, lhave, field, lfield, outcome, tries>>

\* The next assembler call; an error or a panic ends the decode where it stands.
Call ==
  /\ calls # <<>>
  /\ Make(Head(calls))
  /\ \/ res' = "ok" /\ calls' = Tail(calls) /\ UNCHANGED <<flow, outcome>>
     \/ res' # "ok" /\ Return(res')

-----------------------------------------------------------------------------
(* DecodeBytes *)

At(loop) == pc = loop /\ calls = <<>>

\* Faulty: a second Data section goes unnoticed.
MalformedButTwice(f) ==
  \/ f.num \notin {1, 2} \/ f.wt # BytesType \/ f.short
  \/ f.num = 2 /\ ~links /\ "Links" \in have

Malformed(f) ==
  \/ f.num \notin {1, 2} \/ f.wt # BytesType \/ f.short
  \/ f.num = 1 /\ "Data" \in have
  \/ f.num = 2 /\ ~links /\ "Links" \in have

RejectField ==
  /\ At("node") /\ rest # <<>> /\ Malformed(Head(rest))
  /\ Return("err") /\ UNCHANGED vars

DataField ==
  /\ At("node") /\ rest # <<>> /\ ~Malformed(Head(rest)) /\ Head(rest).num = 1
  /\ rest' = Tail(rest) /\ field' = Head(rest)
  /\ calls' = (IF links THEN FinishLinks ELSE <<>>) \o SetData
  /\ links' = FALSE
  /\ have' = have \cup {"Data"}
  /\ UNCHANGED <<vars, input, lrest, lhave, pc, lfield, outcome, tries>>

LinksField ==
  /\ At("node") /\ rest # <<>> /\ ~Malformed(Head(rest)) /\ Head(rest).num = 2
  /\ rest' = Tail(rest) /\ field' = Head(rest)
  /\ calls' = (IF links THEN <<>> ELSE BeginLinks) \o BeginLink
  /\ links' = TRUE
  /\ pc' = "link" /\ lrest' = Head(rest).link /\ lhave' = {}
  /\ UNCHANGED <<vars, input, have, lfield, outcome, tries>>

\* Faulty: a message without links leaves the node without the field.
ClosingCallsBare == (IF links THEN FinishLinks ELSE <<>>) \o <<"ma.Finish">>

\* A Links field is added when the message had none.
ClosingCalls ==
  (IF links \/ "Links" \in have THEN <<>> ELSE BeginLinks)
  \o (IF links \/ "Links" \notin have THEN FinishLinks ELSE <<>>)
  \o <<"ma.Finish">>

EndOfMessage ==
  /\ At("node") /\ rest = <<>>
  /\ calls' = ClosingCalls
  /\ pc' = "return"
  /\ UNCHANGED <<vars, input, rest, have, links, lrest, lhave, field, lfield, outcome, tries>>

Done == At("return") /\ Return("ok") /\ UNCHANGED vars

-----------------------------------------------------------------------------
(* unmarshalLink *)

\* Faulty: Hash may follow Name.
LinkMalformedButLate(f) ==
  \/ f.num \notin {1, 2, 3} \/ f.short
  \/ f.num = 1 /\ (lhave \cap {"Hash", "Tsize"} # {} \/ f.wt # BytesType \/ CidOf[f.raw] = BadCid)
  \/ f.num = 2 /\ (lhave \cap {"Name", "Tsize"} # {} \/ f.wt # BytesType)
  \/ f.num = 3 /\ ("Tsize" \in lhave \/ f.wt # VarintType)

LinkMalformed(f) ==
  \/ f.num \notin {1, 2, 3} \/ f.short
  \/ f.num = 1 /\ (lhave # {} \/ f.wt # BytesType \/ CidOf[f.raw] = BadCid)
  \/ f.num = 2 /\ (lhave \cap {"Name", "Tsize"} # {} \/ f.wt # BytesType)
  \/ f.num = 3 /\ ("Tsize" \in lhave \/ f.wt # VarintType)

RejectLinkField ==
  /\ At("link") /\ lrest # <<>> /\ LinkMalformed(Head(lrest))
  /\ Return("err") /\ UNCHANGED vars

NextLinkField(num, k, assign) ==
  /\ At("link") /\ lrest # <<>> /\ ~LinkMalformed(Head(lrest)) /\ Head(lrest).num = num
  /\ lrest' = Tail(lrest) /\ lfield' = Head(lrest)
  /\ calls' = SetField(k, assign)
  /\ lhave' = lhave \cup {k}
  /\ UNCHANGED <<vars, input, rest, have, links, pc, field, outcome, tries>>

EndOfLink ==
  /\ At("link") /\ lrest = <<>>
  /\ \/ "Hash" \notin lhave /\ Return("err") /\ UNCHANGED vars
     \/ /\ "Hash" \in lhave
        /\ calls' = <<"curLink.Finish">>
        /\ have' = have \cup {"Links"} /\ pc' = "node"
        /\ UNCHANGED <<vars, input, rest, links, lrest, lhave, field, lfield, outcome, tries>>

-----------------------------------------------------------------------------
DecodeInit ==
  /\ Init
  /\ input = <<>> /\ rest = <<>> /\ have = {} /\ links = FALSE /\ lrest = <<>> /\ lhave = {}
  /\ pc = "idle" /\ calls = <<>> /\ field = NoField /\ lfield = NoLinkField
  /\ outcome = "none" /\ tries = 0

DecodeStep ==
  \/ ReadFails \/ ReadAll \/ Call
  \/ RejectField \/ DataField \/ LinksField \/ EndOfMessage \/ Done
  \/ RejectLinkField \/ EndOfLink
  \/ NextLinkField(1, "Hash", "AssignLink")
  \/ NextLinkField(2, "Name", "AssignString")
  \/ NextLinkField(3, "Tsize", "AssignInt")

DecodeNext ==
  \/ \E msg \in (IF tries = 0 THEN Inputs ELSE Later) : Decode(msg)
  \/ ResetBuilder
  \/ DecodeStep

\* Decode runs in its caller's goroutine: it keeps going once called.
DecodeSystem == DecodeInit /\ [][DecodeNext]_decodeVars /\ WF_decodeVars(DecodeStep)

-----------------------------------------------------------------------------
\* The decoder's variables keep their types, and so do the assemblers it drives.
DecodeTypeOK ==
  /\ TypeOK
  /\ input \in Seq(NodeField) /\ rest \in Seq(NodeField) /\ lrest \in Seq(LinkField)
  /\ have \subseteq NodeFields /\ lhave \subseteq LinkFields /\ links \in BOOLEAN
  /\ pc \in {"idle", "read", "node", "link", "return"}
  /\ field \in NodeField /\ lfield \in LinkField
  /\ outcome \in {"none", "busy", "ok", "err", "panic"} /\ tries \in 0..MaxCalls

\* The decoder's own checks come before the assembler's: on a builder that could
\* be begun, no later call of the decode is answered by an error or a panic.
NeverRefused == [][calls # <<>> /\ Head(calls) # "na.BeginMap" => res' = "ok"]_decodeVars

\* The decoder is one of the callers PBAssembler allows, so what holds for those
\* holds of every decode.
IsACaller == Spec

\* Between calls: the builder as the caller finds it.  During a call: as it was
\* before, which is fresh once BeginMap has not panicked.
BuilderIs ==
  IF pc \in {"node", "link", "return"} /\ (calls = <<>> \/ Head(calls) # "na.BeginMap")
  THEN "fresh"
  ELSE CASE na.m = "Absent" -> "fresh" [] na.m = "midvalue" -> "spoilt" [] OTHER -> "built"

Service == INSTANCE DecodeSpec
  WITH Inputs <- Inputs \cup Later,
       builder <- BuilderIs,
       built <- IF BuilderIs = "built" THEN node ELSE EmptyNode

\* Every call of Decode ends, accepting exactly the messages that are DAG-PB with
\* the node they denote, rejecting every other with an unbuildable builder, and
\* leaving a builder already used as it was.
DecodeServes == Service!DecodeService

-----------------------------------------------------------------------------
(***************************************************************************)
(* What the assemblers are like at every position of the loops.  S and T   *)
(* are the fields of the node and of the row that have been begun.  Stale  *)
(* handles have no part in it, so it is the same at both levels.           *)
(***************************************************************************)

RowsComplete == \A i \in 1..Last : Complete(node.Links[i])

\* Build has nothing to return, and the builder can be begun, or it is complete.
Whole == (na.m = "Absent" => Fresh(node, na, la, va)) /\ FinishedComplete

\* Nothing of the list has been begun.
NoList == na.cm = "Absent" /\ la.state = "initial"

\* No row is in progress.
NoRowOpen == la.cm = "Absent" /\ va.state = "initial" /\ va.s = {} /\ va.cm # "Value"

NodeIn(S) ==
  /\ na.m = "midvalue"
  /\ "Data" \notin S => node.Data = Unset
  /\ "Links" \notin S => NoList /\ NoRowOpen
  /\ RowsComplete

NodeOpen(S) == NodeIn(S) /\ na.s = S /\ NodeReady
NodeKeyed(S) == NodeIn(S) /\ na.s = S /\ na.state = "midKey"
NodeExpects(S, k) == NodeIn(S) /\ na.s = S \cup {k} /\ na.state = "expectValue" /\ na.f = k
NodeTakes(S, k) ==
  /\ NodeIn(S) /\ na.s = S \cup {k} /\ na.state = "midValue" /\ na.f = k
  /\ k = "Links" => la.w

ListIn(S) ==
  /\ na.m = "midvalue" /\ na.s = S /\ "Links" \in S
  /\ na.state = "midValue" /\ na.f = "Links" /\ na.cm = "midvalue"
  /\ "Data" \notin S => node.Data = Unset
  /\ la.w

ListOpen(S) ==
  /\ ListIn(S) /\ LinksReady /\ RowsComplete
  /\ la.state = "initial" => NoRowOpen
  /\ va.cm # "Value"

RowIn(S) ==
  /\ ListIn(S) /\ la.state = "midValue" /\ Last > 0
  /\ \A i \in 1..(Last - 1) : Complete(node.Links[i])

RowNew(S) == RowIn(S) /\ NoRowOpen /\ Row = NewLink

RowHas(S, T) ==
  /\ RowIn(S) /\ la.cm = "midvalue"
  /\ \A k \in LinkFields : k \in T <=> Row[k] # Unset

RowOpen(S, T) ==
  /\ RowHas(S, T) /\ va.s = T /\ LinkReady
  /\ va.cm = "Value" => va.state = "midValue" /\ va.f = "Hash"
RowKeyed(S, T) == RowHas(S, T) /\ va.s = T /\ va.state = "midKey" /\ va.cm # "Value"
RowExpects(S, T, k) ==
  RowHas(S, T) /\ va.s = T \cup {k} /\ va.state = "expectValue" /\ va.f = k /\ va.cm # "Value"
RowTakes(S, T, k) ==
  /\ RowHas(S, T) /\ va.s = T \cup {k} /\ va.state = "midValue" /\ va.f = k /\ va.cm # "Value"
  /\ k = "Hash" => va.hash = Last

-----------------------------------------------------------------------------
AtData(S) ==
  \/ calls = <<"links.Finish", "ma.AssembleKey", "Data", "ma.AssembleValue", "AssignBytes">>
     /\ ListOpen(S)
  \/ calls = SetData /\ NodeOpen(S)
  \/ calls = <<"Data", "ma.AssembleValue", "AssignBytes">> /\ NodeKeyed(S)
  \/ calls = <<"ma.AssembleValue", "AssignBytes">> /\ NodeExpects(S, "Data")
  \/ calls = <<"AssignBytes">> /\ NodeTakes(S, "Data")

\* Up to two calls, c and d, that take place in the list.
AtLinks(S, c, d) ==
  \/ /\ "Links" \notin S
     /\ \/ /\ calls = <<"ma.AssembleKey", "Links", "ma.AssembleValue", "BeginList", c, d>>
           /\ NodeOpen(S)
        \/ calls = <<"Links", "ma.AssembleValue", "BeginList", c, d>> /\ NodeKeyed(S)
        \/ calls = <<"ma.AssembleValue", "BeginList", c, d>> /\ NodeExpects(S, "Links")
        \/ calls = <<"BeginList", c, d>> /\ NodeTakes(S, "Links")
  \/ calls = <<c, d>> /\ ListOpen(S \cup {"Links"})

AtField(S, T, k, assign) ==
  \/ calls = SetField(k, assign) /\ RowOpen(S, T)
  \/ calls = <<k, "link.AssembleValue", assign>> /\ RowKeyed(S, T)
  \/ calls = <<"link.AssembleValue", assign>> /\ RowExpects(S, T, k)
  \/ calls = <<assign>> /\ RowTakes(S, T, k)

AtNode ==
  \/ calls = <<"na.BeginMap">> /\ Whole /\ have = {} /\ ~links
  \/ calls = <<>> /\ ~links /\ NodeOpen(have)
  \/ calls = <<>> /\ links /\ ListOpen(have)
  \/ calls = <<"curLink.Finish">> /\ links /\ RowOpen(have, lhave) /\ "Hash" \in lhave
  \/ "Data" \in have /\ ~links /\ field.chunk \in Chunks /\ AtData(have \ {"Data"})

AtLink ==
  LET S == have \cup {"Links"}
  IN /\ links
     /\ \/ lhave = {} /\ AtLinks(have, "links.AssembleValue", "BeginMap")
        \/ lhave = {} /\ calls = <<"BeginMap">> /\ RowNew(S)
        \/ calls = <<>> /\ RowOpen(S, lhave)
        \/ /\ "Hash" \in lhave /\ AtField(S, lhave \ {"Hash"}, "Hash", "AssignLink")
           /\ CidOf[lfield.raw] \in Hashes
        \/ /\ "Name" \in lhave /\ AtField(S, lhave \ {"Name"}, "Name", "AssignString")
           /\ lfield.name \in Names
        \/ /\ "Tsize" \in lhave /\ AtField(S, lhave \ {"Tsize"}, "Tsize", "AssignInt")
           /\ TsizeOf[lfield.varint] \in Tsizes

AtReturn ==
  \/ AtLinks(have, "links.Finish", "ma.Finish")
  \/ calls = <<"ma.Finish">> /\ NodeOpen(have \cup {"Links"})
  \/ calls = <<>> /\ na.m = "Value" /\ RowsComplete

\* Every call of the decoder finds the assemblers as that call needs them, and what
\* the flags have, links and lhave say of the message is true of the node.
Outline ==
  \/ pc \in {"idle", "read"} /\ calls = <<>> /\ have = {} /\ ~links /\ Whole
  \/ pc = "node" /\ AtNode
  \/ pc = "link" /\ AtLink
  \/ pc = "return" /\ AtReturn

-----------------------------------------------------------------------------
(***************************************************************************)
(* The message, and the link in hand, up to where they have been read, and *)
(* as much of it as the calls made so far have delivered to the builder.   *)
(***************************************************************************)
IsLeft(r, s) == Len(r) <= Len(s) /\ r = SubSeq(s, Len(s) - Len(r) + 1, Len(s))

Taken == SubSeq(input, 1, Len(input) - Len(rest))
Before == SubSeq(input, 1, Len(input) - Len(rest) - 1)
LinkTaken == SubSeq(field.link, 1, Len(field.link) - Len(lrest))
LinkBefore == SubSeq(field.link, 1, Len(field.link) - Len(lrest) - 1)

Owed(c) == \E i \in 1..Len(calls) : calls[i] = c

LinkDelivered ==
  IF Owed("AssignLink") \/ Owed("AssignString") \/ Owed("AssignInt")
  THEN LinkBefore ELSE LinkTaken

Delivered ==
  IF Owed("AssignBytes") \/ Owed("links.AssembleValue") THEN Before
  ELSE IF pc = "link" THEN Append(Before, EncLink(LinkDelivered))
  ELSE Taken

\* What came before the link in hand is DAG-PB.
Accepted == IF pc = "link" THEN Before ELSE Taken

MessageRead ==
  /\ IsLeft(rest, input)
  /\ Taken # <<>> => field = Taken[Len(Taken)]
  /\ Framed(Taken) /\ IsNode(Accepted)
  /\ "Data" \in have <=> Has(Taken, 1)
  /\ "Links" \in have <=> Has(Accepted, 2)
  /\ links <=> Taken # <<>> /\ field.num = 2
  /\ pc = "return" => rest = <<>>

LinkRead ==
  /\ Taken # <<>> /\ field.num = 2
  /\ IsLeft(lrest, field.link)
  /\ LinkTaken # <<>> => lfield = LinkTaken[Len(LinkTaken)]
  /\ LinkFramed(LinkTaken)
  /\ "Hash" \in lhave <=> Has(LinkTaken, 1)
  /\ "Name" \in lhave <=> Has(LinkTaken, 2)
  /\ "Tsize" \in lhave <=> Has(LinkTaken, 3)

\* The value to be assigned is that of the last field read.
Owing ==
  /\ Owed("AssignBytes") => Taken # <<>> /\ field.num = 1
  /\ Owed("AssignLink") => LinkTaken # <<>> /\ lfield.num = 1
  /\ Owed("AssignString") => LinkTaken # <<>> /\ lfield.num = 2
  /\ Owed("AssignInt") => LinkTaken # <<>> /\ lfield.num = 3

\* At every step what has been read could be the beginning of a DAG-PB message, the
\* flags tell which fields it had, and the node is what it denotes as far as it has
\* been delivered.
ReadsOn ==
  pc \in {"node", "link", "return"} =>
    /\ MessageRead
    /\ pc = "link" => LinkRead
    /\ Owing
    /\ ~Owed("na.BeginMap") => node = NodeMeaning(Delivered)
=============================================================================
