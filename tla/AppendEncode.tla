---------------------------- MODULE AppendEncode ----------------------------
(***************************************************************************)
(* Encode and AppendEncode: one step per link read, one per link written.  *)
(* Bytes are appended to the caller's buffer as messages of PBWire; the    *)
(* lengths that delimit them are right by construction here.               *)
(***************************************************************************)
EXTENDS DagPB, FiniteSets

CONSTANTS CidLinks, BytesOf, NameRank, NonConforming, Nodes, Prefixes

ASSUME EncoderAssumption ==
  /\ CidLinks \subseteq Hashes
  /\ BytesOf \in [CidLinks -> RawHashes]
  /\ NameRank \in [Names -> Nat]
  /\ NonConforming \notin PBNode
  /\ Nodes \subseteq PBNode \cup {NonConforming}
  /\ Prefixes \subseteq Seq(NodeField)

VARIABLES
  by,       \* the function called
  inNode,   \* its argument, shared with the caller
  given,    \* enc as it was passed
  enc,      \* the buffer
  pbLinks,  \* the private copy of the links
  done,     \* links read, or written, so far
  pc,       \* "idle", "assign", "collect", "sort", "links", "data" or "write"
  written,  \* what the writer has received
  outcome

encodeVars == <<by, inNode, given, enc, pbLinks, done, pc, written, outcome>>

-----------------------------------------------------------------------------
\* The struct pbLink; no name is NoName, whose place is that of the empty string.
NoName == Unset
pbLink == [hash : CidLinks \cup {Unset}, name : Names \cup {NoName}, hasName : BOOLEAN,
           tsize : 0..MaxUint64, hasTsize : BOOLEAN]
ZeroLink == [hash |-> Unset, name |-> NoName, hasName |-> FALSE, tsize |-> 0,
             hasTsize |-> FALSE]

\* Faulty: links without a name come last.
pbLinkLessNamed(x, y) ==
  x.hasName /\ (~y.hasName \/ NameRank[x.name] < NameRank[y.name])

pbLinkLess(x, y) ==
  LET Place(l) == IF l.name = NoName THEN 0 ELSE NameRank[l.name]
  IN Place(x) < Place(y)

\* sort.Stable: an element goes behind all that are less and all that are before it
\* and not more.
Stable(xs) ==
  LET Index(i) == Cardinality({j \in 1..Len(xs) :
                                 \/ pbLinkLess(xs[j], xs[i])
                                 \/ j <= i /\ ~pbLinkLess(xs[i], xs[j])})
  IN [k \in 1..Len(xs) |-> xs[CHOOSE i \in 1..Len(xs) : Index(i) = k]]

-----------------------------------------------------------------------------
Begin(f, n, prefix) ==
  /\ outcome = "none"
  /\ by' = f /\ inNode' = n /\ given' = prefix /\ enc' = prefix
  /\ pc' = "assign" /\ outcome' = "busy" /\ written' = <<>>
  /\ UNCHANGED <<pbLinks, done>>

\* The encoder keeps nothing between calls: a behaviour is one call.
\* Encode starts from an empty buffer of its own.
Encode(n) == Begin("Encode", n, <<>>)
CallAppendEncode(n, prefix) == Begin("AppendEncode", n, prefix)

Return(how) ==
  /\ pc' = "idle" /\ outcome' = how /\ pbLinks' = <<>> /\ done' = 0
  /\ UNCHANGED <<by, inNode, given>>

\* The conversion through Type.PBNode: a *_PBNode is copied, anything else is
\* assembled from its entries.
AssignNode ==
  /\ pc = "assign"
  /\ \/ inNode = NonConforming /\ Return("err") /\ UNCHANGED <<enc, written>>
     \/ /\ inNode # NonConforming
        /\ IF inNode.Links = <<>>
           THEN pc' = "data" /\ UNCHANGED pbLinks
           ELSE pc' = "collect" /\ pbLinks' = [i \in 1..Len(inNode.Links) |-> ZeroLink]
        /\ UNCHANGED <<by, inNode, given, enc, done, written, outcome>>

Cursor == done + 1
Link == inNode.Links[Cursor]

\* Faulty: any integer is taken for a Tsize.
AnyTsize == Link.Hash \in CidLinks

Acceptable ==
  /\ Link.Hash \in CidLinks
  /\ Link.Tsize # Unset => Link.Tsize >= 0

\* What is read of link l goes into its struct; an absent Tsize writes nothing.
Fill(struct, l) ==
  [struct EXCEPT !.hash = l.Hash, !.name = l.Name, !.hasName = l.Name # Unset,
                 !.tsize = IF l.Tsize = Unset THEN @ ELSE l.Tsize,
                 !.hasTsize = l.Tsize # Unset]

\* Faulty: the last link is not reached.
AdvanceShort(to) ==
  IF Cursor + 1 < Len(pbLinks)
  THEN done' = Cursor /\ UNCHANGED pc ELSE done' = 0 /\ pc' = to

Advance(to) ==
  IF Cursor < Len(pbLinks) THEN done' = Cursor /\ UNCHANGED pc ELSE done' = 0 /\ pc' = to

CollectLink ==
  /\ pc = "collect"
  /\ \/ ~Acceptable /\ Return("err") /\ UNCHANGED <<enc, written>>
     \/ /\ Acceptable
        /\ pbLinks' = [pbLinks EXCEPT ![Cursor] = Fill(@, Link)]
        /\ Advance("sort")
        /\ UNCHANGED <<by, inNode, given, enc, written, outcome>>

SortLinks ==
  /\ pc = "sort"
  /\ pbLinks' = Stable(pbLinks) /\ pc' = "links"
  /\ UNCHANGED <<by, inNode, given, enc, done, written, outcome>>

\* Faulty: a zero Tsize is not written.
LinkBytesNonZero(l) ==
  <<EncHash(BytesOf[l.hash])>>
  \o (IF l.hasName THEN <<EncName(l.name)>> ELSE <<>>)
  \o (IF l.tsize > 0 THEN <<EncTsize(l.tsize)>> ELSE <<>>)

\* A zero Tsize is written, an absent one is not.
LinkBytes(l) ==
  <<EncHash(BytesOf[l.hash])>>
  \o (IF l.hasName THEN <<EncName(l.name)>> ELSE <<>>)
  \o (IF l.hasTsize THEN <<EncTsize(l.tsize)>> ELSE <<>>)

EmitLink ==
  /\ pc = "links"
  /\ enc' = Append(enc, EncLink(LinkBytes(pbLinks[Cursor])))
  /\ Advance("data")
  /\ UNCHANGED <<by, inNode, given, pbLinks, written, outcome>>

EmitData ==
  /\ pc = "data"
  /\ \/ inNode.Data = Unset /\ UNCHANGED enc
     \/ inNode.Data # Unset /\ enc' = Append(enc, EncData(inNode.Data))
  /\ \/ by = "AppendEncode" /\ Return("ok")
     \/ by = "Encode" /\ pc' = "write" /\ UNCHANGED <<by, inNode, given, pbLinks, done, outcome>>
  /\ UNCHANGED written

\* The writer gets everything in one call, and may take only a part.
Write ==
  /\ pc = "write"
  /\ \/ written' = enc /\ Return("ok")
     \/ (\E k \in 0..Len(enc) : written' = SubSeq(enc, 1, k)) /\ Return("unwritten")
  /\ UNCHANGED enc

-----------------------------------------------------------------------------
EncodeInit ==
  /\ by = "AppendEncode" /\ inNode = NonConforming /\ given = <<>> /\ enc = <<>>
  /\ pbLinks = <<>> /\ done = 0 /\ pc = "idle" /\ written = <<>> /\ outcome = "none"

EncodeStep ==
  AssignNode \/ CollectLink \/ SortLinks \/ EmitLink \/ EmitData \/ Write

EncodeNext ==
  \/ \E n \in Nodes : Encode(n)
  \/ \E n \in Nodes, prefix \in Prefixes : CallAppendEncode(n, prefix)
  \/ EncodeStep

\* Encode runs in its caller's goroutine: it keeps going once called.
EncodeSystem == EncodeInit /\ [][EncodeNext]_encodeVars /\ WF_encodeVars(EncodeStep)

-----------------------------------------------------------------------------
\* The encoder's variables keep their types: what it collects can be written.
EncodeTypeOK ==
  /\ by \in {"Encode", "AppendEncode"}
  /\ inNode \in PBNode \cup {NonConforming}
  /\ given \in Seq(NodeField) /\ enc \in Seq(NodeField) /\ written \in Seq(NodeField)
  /\ pbLinks \in Seq(pbLink) /\ done \in Nat
  /\ pc \in {"idle", "assign", "collect", "sort", "links", "data", "write"}
  /\ outcome \in {"none", "busy", "ok", "err", "unwritten"}

\* During a call the caller sees the buffer as it passed it.
Service == INSTANCE EncodeSpec WITH
  enc <- IF outcome = "busy" THEN given ELSE enc,
  written <- IF outcome = "busy" THEN <<>> ELSE written

\* Every call ends, in the one canonical encoding of the node behind what the
\* buffer held or in an error that leaves the buffer and the writer untouched;
\* the caller's node keeps the order of its links.
EncodeServes == Service!EncodeService

-----------------------------------------------------------------------------
(* How far the call has got, whatever it has done until then. *)

Collected(l) == [hash |-> l.Hash, name |-> l.Name, hasName |-> l.Name # Unset,
                 tsize |-> IF l.Tsize = Unset THEN 0 ELSE l.Tsize, hasTsize |-> l.Tsize # Unset]
Readable(l) == l.Hash \in CidLinks /\ (l.Tsize # Unset => l.Tsize >= 0)
Sent(l) == EncLink(Service!LinkMessage(l))

\* The copy has the links up to the cursor, the rest is as it was made.
Collecting ==
  /\ pc = "collect" /\ enc = given
  /\ Len(pbLinks) = Len(inNode.Links) /\ Cursor <= Len(pbLinks)
  /\ \A i \in 1..Len(pbLinks) :
       IF i <= done THEN Readable(inNode.Links[i]) /\ pbLinks[i] = Collected(inNode.Links[i])
                    ELSE pbLinks[i] = ZeroLink

Unsorted ==
  /\ pc = "sort" /\ enc = given /\ done = 0
  /\ Service!Encodable(inNode) /\ inNode.Links # <<>>
  /\ pbLinks = [i \in 1..Len(inNode.Links) |-> Collected(inNode.Links[i])]

\* The buffer has the links up to the cursor, in the one order they may be in.
Emitting ==
  /\ pc \in {"links", "data"} /\ Service!Encodable(inNode)
  /\ \E p \in Service!Orders(inNode.Links) :
       \/ /\ pc = "links" /\ Cursor <= Len(pbLinks)
          /\ pbLinks = [i \in 1..Len(inNode.Links) |-> Collected(inNode.Links[p[i]])]
          /\ enc = given \o [i \in 1..done |-> Sent(inNode.Links[p[i]])]
       \/ /\ pc = "data" /\ done = 0
          /\ enc = given \o [i \in 1..Len(inNode.Links) |-> Sent(inNode.Links[p[i]])]

HasEncoding ==
  Service!Encodable(inNode) /\ \E msg \in Service!Encodings(inNode) : enc = given \o msg

AllSent == pc = "write" /\ by = "Encode" /\ done = 0 /\ HasEncoding

\* At every step the buffer holds what the caller put there and after it a part of
\* the one encoding, and the copy of the links still has to be one of theirs.
Underway ==
  \/ pc = "idle" /\ outcome # "busy" /\ done = 0 /\ (outcome = "ok" => HasEncoding)
  \/ /\ outcome = "busy" /\ written = <<>>
     /\ \/ pc = "assign" /\ enc = given /\ done = 0
        \/ inNode # NonConforming /\ (Collecting \/ Unsorted \/ Emitting \/ AllSent)

-----------------------------------------------------------------------------
Appended == SubSeq(enc, Len(given) + 1, Len(enc))

\* The CID of every link is one the decoder reads back (cid.Undef is not).
ReadableLinks == \A i \in 1..Len(inNode.Links) :
  CidOf[BytesOf[inNode.Links[i].Hash]] = inNode.Links[i].Hash

\* Decoding what was encoded gives the node with its links sorted, and encoding
\* that once more gives the same bytes.
RoundTrips ==
  outcome = "ok" /\ ReadableLinks =>
    /\ IsNode(Appended)
    /\ NodeMeaning(Appended).Data = inNode.Data
    /\ \E p \in Service!Orders(inNode.Links) :
         NodeMeaning(Appended).Links = [i \in 1..Len(inNode.Links) |-> inNode.Links[p[i]]]
    /\ Appended \in Service!Encodings(NodeMeaning(Appended))

\* What the decoder accepted can be encoded again (fuzz_test.go: "re-encode of
\* valid dagpb failed").
DecodedEncodes(Messages) ==
  (\E m \in Messages : IsNode(m) /\ inNode = NodeMeaning(m)) => outcome # "err"
=============================================================================
