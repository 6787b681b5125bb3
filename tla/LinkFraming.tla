---------------------------- MODULE LinkFraming -----------------------------
(***************************************************************************)
(* The bytes of a block.  AppendEncode writes in front of a link how many  *)
(* bytes it takes, a number it sums up apart from the appends that follow; *)
(* the decoder cuts the block up by these numbers.                         *)
(***************************************************************************)
EXTENDS PBValues

CONSTANTS
  Varint,  \* what protowire.AppendVarint appends for each number
  Nodes    \* nodes to encode, the links in the order of pbLinks: Hash and Name
           \* and Data are sequences of bytes

VARIABLES
  node,   \* the node; it never changes
  pc,     \* "write", "read", "link" inside unmarshalLink, or "done"
  enc,    \* the block so far
  wrote,  \* links in it
  src,    \* what DecodeBytes has yet to read of it
  chunk,  \* what unmarshalLink has yet to read
  link,   \* the link it has read
  got     \* the node read back

framingVars == <<node, pc, enc, wrote, src, chunk, link, got>>

Byte == 0..255
Bytes == Seq(Byte)

IsPrefix(s, t) == Len(s) <= Len(t) /\ s = SubSeq(t, 1, Len(s))

\* A byte for every seven bits, so no varint is the beginning of another one.
ASSUME VarintAssumption ==
  /\ Varint \in [DOMAIN Varint -> Bytes]
  /\ DOMAIN Varint \subseteq Nat
  /\ 0..127 \subseteq DOMAIN Varint
  /\ \A v \in 0..127 : Len(Varint[v]) = 1
  /\ \A v, w \in DOMAIN Varint : IsPrefix(Varint[v], Varint[w]) => v = w

ASSUME BytesAssumption ==
  /\ Hashes \cup Names \cup Chunks \subseteq Bytes
  /\ Tsizes \subseteq DOMAIN Varint

-----------------------------------------------------------------------------
(* protowire *)

BytesType == 2
VarintType == 0

Tag(num, wt) == Varint[8 * num + wt]
LenPrefixed(bs) == Varint[Len(bs)] \o bs

SizeVarint(v) == Len(Varint[v])
SizeTag(num) == SizeVarint(8 * num)
SizeBytes(n) == SizeVarint(n) + n

\* ConsumeVarint, which reads ten bytes at most, and ConsumeBytes after it: the value
\* and what follows, or nothing.
NumberOf == [c \in {Varint[v] : v \in DOMAIN Varint} |-> CHOOSE v \in DOMAIN Varint : Varint[v] = c]
Start(bs) == {SubSeq(bs, 1, n) : n \in {m \in 1..10 : m <= Len(bs)}} \cap DOMAIN NumberOf
Has(bs) == Start(bs) # {}
Number(bs) == NumberOf[CHOOSE c \in Start(bs) : TRUE]
After(bs) == SubSeq(bs, SizeVarint(Number(bs)) + 1, Len(bs))
HasChunk(bs) == Has(bs) /\ Number(bs) <= Len(After(bs))
Chunk(bs) == SubSeq(After(bs), 1, Number(bs))
AfterChunk(bs) == SubSeq(After(bs), Number(bs) + 1, Len(After(bs)))

-----------------------------------------------------------------------------
(* AppendEncode, past the sort *)

\* Faulty: takes every length to fit one byte.
LinkSizeOfShort(l) ==
  SizeTag(2) + 1 + Len(l.Hash)
  + (IF l.Name = Unset THEN 0 ELSE SizeTag(2) + 1 + Len(l.Name))
  + (IF l.Tsize = Unset THEN 0 ELSE SizeTag(3) + 1)

LinkSize(l) ==
  SizeTag(2) + SizeBytes(Len(l.Hash))
  + (IF l.Name = Unset THEN 0 ELSE SizeTag(2) + SizeBytes(Len(l.Name)))
  + (IF l.Tsize = Unset THEN 0 ELSE SizeTag(3) + SizeVarint(l.Tsize))

HashPart(l) == Tag(1, BytesType) \o LenPrefixed(l.Hash)
NamePart(l) == IF l.Name = Unset THEN <<>> ELSE Tag(2, BytesType) \o LenPrefixed(l.Name)
TsizePart(l) == IF l.Tsize = Unset THEN <<>> ELSE Tag(3, VarintType) \o Varint[l.Tsize]
LinkBody(l) == HashPart(l) \o (NamePart(l) \o TsizePart(l))

\* A link with its tag and its length, and the Data behind all links.
Frame(l) == Tag(2, BytesType) \o (Varint[LinkSize(l)] \o LinkBody(l))
DataPart(n) == IF n.Data = Unset THEN <<>> ELSE Tag(1, BytesType) \o LenPrefixed(n.Data)

\* A uint64, and so its varint, is wide enough for any length.
ASSUME NodesAssumption ==
  \A n \in Nodes :
    /\ n \in PBNode
    /\ \A i \in 1..Len(n.Links) :
         LET l == n.Links[i]
         IN /\ Complete(l) /\ LinkSize(l) \in DOMAIN Varint
            /\ \A f \in {l.Hash, l.Name} : f # Unset => Len(f) \in DOMAIN Varint
    /\ n.Data # Unset => Len(n.Data) \in DOMAIN Varint

AppendLink ==
  /\ pc = "write" /\ wrote < Len(node.Links)
  /\ enc' = enc \o Frame(node.Links[wrote + 1])
  /\ wrote' = wrote + 1
  /\ UNCHANGED <<node, pc, src, chunk, link, got>>

\* Faulty: leaves out empty Data, as proto3 does.
AppendDataIfAny ==
  /\ pc = "write" /\ wrote = Len(node.Links)
  /\ enc' = (IF node.Data \in {Unset, <<>>} THEN enc
             ELSE enc \o Tag(1, BytesType) \o LenPrefixed(node.Data))
  /\ pc' = "read" /\ src' = enc'
  /\ UNCHANGED <<node, wrote, chunk, link, got>>

AppendData ==
  /\ pc = "write" /\ wrote = Len(node.Links)
  /\ enc' = enc \o DataPart(node)
  /\ pc' = "read" /\ src' = enc'
  /\ UNCHANGED <<node, wrote, chunk, link, got>>

-----------------------------------------------------------------------------
(* DecodeBytes and unmarshalLink, as far as they divide a block that has its  *)
(* Data last; where they would return an error there is no step.              *)

ReadField ==
  /\ pc = "read" /\ src # <<>>
  /\ Has(src) /\ HasChunk(After(src))
  /\ src' = AfterChunk(After(src))
  /\ \/ /\ Number(src) = 8 + BytesType
        /\ got' = [got EXCEPT !.Data = Chunk(After(src))]
        /\ UNCHANGED <<pc, chunk, link>>
     \/ /\ Number(src) = 16 + BytesType
        /\ chunk' = Chunk(After(src)) /\ link' = NewLink
        /\ pc' = "link"
        /\ UNCHANGED got
  /\ UNCHANGED <<node, enc, wrote>>

ReadLinkField ==
  /\ pc = "link" /\ chunk # <<>>
  /\ Has(chunk)
  /\ \/ /\ Number(chunk) = 8 + BytesType /\ link = NewLink
        /\ HasChunk(After(chunk))
        /\ link' = [link EXCEPT !.Hash = Chunk(After(chunk))]
        /\ chunk' = AfterChunk(After(chunk))
     \/ /\ Number(chunk) = 16 + BytesType /\ link.Name = Unset /\ link.Tsize = Unset
        /\ HasChunk(After(chunk))
        /\ link' = [link EXCEPT !.Name = Chunk(After(chunk))]
        /\ chunk' = AfterChunk(After(chunk))
     \/ /\ Number(chunk) = 24 + VarintType /\ link.Tsize = Unset
        /\ Has(After(chunk))
        /\ link' = [link EXCEPT !.Tsize = Number(After(chunk))]
        /\ chunk' = After(After(chunk))
  /\ UNCHANGED <<node, pc, enc, wrote, src, got>>

EndOfLink ==
  /\ pc = "link" /\ chunk = <<>>
  /\ link.Hash # Unset
  /\ got' = [got EXCEPT !.Links = Append(@, link)]
  /\ pc' = "read"
  /\ UNCHANGED <<node, enc, wrote, src, chunk, link>>

EndOfBlock ==
  /\ pc = "read" /\ src = <<>> /\ pc' = "done"
  /\ UNCHANGED <<node, enc, wrote, src, chunk, link, got>>

FramingInit ==
  /\ node \in Nodes
  /\ pc = "write" /\ enc = <<>> /\ wrote = 0
  /\ src = <<>> /\ chunk = <<>> /\ link = NewLink /\ got = EmptyNode

FramingNext ==
  AppendLink \/ AppendData \/ ReadField \/ ReadLinkField \/ EndOfLink \/ EndOfBlock

\* Both run in their caller's goroutine, one after the other.
Framing == FramingInit /\ [][FramingNext]_framingVars /\ WF_framingVars(FramingNext)

-----------------------------------------------------------------------------
\* tails[i] is a block from its i-th link on, when it has k of the links and ends in last.
Tails(links, tails, k, last) ==
  /\ tails \in [1..(k + 1) -> Bytes]
  /\ tails[k + 1] = last
  /\ \A i \in 1..k : tails[i] = Frame(links[i]) \o tails[i + 1]

\* Of link l the fields in front of chunk have been read.
LinkReadTo(l) ==
  \/ link = NewLink /\ chunk = LinkBody(l)
  \/ link = [NewLink EXCEPT !.Hash = l.Hash] /\ chunk = NamePart(l) \o TsizePart(l)
  \/ link = [l EXCEPT !.Tsize = Unset] /\ chunk = TsizePart(l)
  \/ link = l /\ chunk = <<>>

\* Of the block that begins at every link in tails, all has been read up to src, and that
\* is where a link begins, or Data, or the end.
ReadTo(tails) ==
  LET k == Len(got.Links)
  IN /\ IsPrefix(got.Links, node.Links)
     /\ \/ pc = "read" /\ got.Data = Unset /\ src = tails[k + 1]
        \/ /\ pc = "link" /\ got.Data = Unset /\ k < Len(node.Links)
           /\ src = tails[k + 2] /\ LinkReadTo(node.Links[k + 1])
        \/ /\ pc \in {"read", "done"} /\ k = Len(node.Links)
           /\ src = <<>> /\ got.Data = node.Data

\* The block is divided as it was put together.
Divided ==
  \/ /\ pc = "write" /\ got = EmptyNode /\ wrote <= Len(node.Links)
     /\ \E tails : Tails(node.Links, tails, wrote, <<>>) /\ enc = tails[1]
  \/ /\ pc # "write"
     /\ \E tails : Tails(node.Links, tails, Len(node.Links), DataPart(node)) /\ ReadTo(tails)

FramingTypeOK ==
  /\ node \in Nodes
  /\ pc \in {"write", "read", "link", "done"}
  /\ enc \in Bytes /\ wrote \in Nat /\ src \in Bytes /\ chunk \in Bytes
  /\ link \in PBLink
  /\ got \in PBNode

\* Whatever has been read back is what was written, whatever bytes it holds.
ReadsBack ==
  /\ IsPrefix(got.Links, node.Links)
  /\ pc = "done" => got = node

\* The decoder finds a field wherever it looks for one: no length is off, however many
\* bytes it takes itself.
Arrives == <>(pc = "done")
=============================================================================
