------------------------ MODULE LinkFramingProofs ------------------------
(***************************************************************************)
(* The length AppendEncode writes in front of a link is that of the link,  *)
(* and by these lengths the decoder cuts a block into the parts it was put *)
(* together from, whatever bytes they hold.                                *)
(***************************************************************************)
EXTENDS LinkFraming, SequenceTheorems, TLAPS

-----------------------------------------------------------------------------
(* The parts of a block *)

LEMMA Joined ==
  ASSUME NEW a \in Bytes, NEW b \in Bytes
  PROVE  a \o b \in Bytes /\ Len(a \o b) = Len(a) + Len(b) /\ Len(a) \in Nat /\ Len(b) \in Nat
BY ConcatProperties DEF Bytes

LEMMA Emptied ==
  /\ <<>> \in Bytes /\ Len(<<>>) = 0
  /\ \A a \in Bytes : <<>> \o a = a /\ a \o <<>> = a /\ (Len(a) = 0 => a = <<>>)
<1>1. <<>> \in Seq(Byte)
  OBVIOUS
<1>2. \A a \in Seq(Byte) : <<>> \o a = a /\ a \o <<>> = a
  BY ConcatEmptySeq
<1>3. \A a \in Seq(Byte) : Len(a) = 0 => a = <<>>
  BY EmptySeq
<1> QED BY <1>1, <1>2, <1>3 DEF Bytes

LEMMA Regrouped ==
  ASSUME NEW a \in Bytes, NEW b \in Bytes, NEW c \in Bytes
  PROVE  (a \o b) \o c = a \o (b \o c)
BY ConcatAssociative DEF Bytes

LEMMA Varints ==
  ASSUME NEW v \in DOMAIN Varint
  PROVE  v \in Nat /\ Varint[v] \in Bytes
BY VarintAssumption

\* The tags of a block take the byte their SizeTag counts.
LEMMA Tags ==
  ASSUME NEW num \in 1..3, NEW wt \in {BytesType, VarintType}
  PROVE  /\ 8 * num + wt \in DOMAIN Varint
         /\ Tag(num, wt) \in Bytes /\ Len(Tag(num, wt)) = 1 /\ SizeTag(num) = 1
<1>1. 8 * num + wt \in 0..127 /\ 8 * num \in 0..127
  BY DEF BytesType, VarintType
<1>2. \A v \in 0..127 : v \in DOMAIN Varint /\ Varint[v] \in Bytes /\ Len(Varint[v]) = 1
  BY VarintAssumption
<1> QED BY <1>1, <1>2 DEF Tag, SizeTag, SizeVarint

\* A string behind its length takes what SizeBytes counts.
LEMMA Prefixed ==
  ASSUME NEW bs \in Bytes, Len(bs) \in DOMAIN Varint
  PROVE  LenPrefixed(bs) \in Bytes /\ Len(LenPrefixed(bs)) = SizeBytes(Len(bs))
BY Varints, Joined DEF LenPrefixed, SizeBytes, SizeVarint

\* A link that NodesAssumption allows in a node.
Writable(l) ==
  /\ l \in PBLink /\ Complete(l)
  /\ \A f \in {l.Hash, l.Name} : f # Unset => Len(f) \in DOMAIN Varint

LEMMA Parts ==
  ASSUME NEW l, Writable(l)
  PROVE  /\ HashPart(l) \in Bytes /\ Len(HashPart(l)) = SizeTag(2) + SizeBytes(Len(l.Hash))
         /\ NamePart(l) \in Bytes
         /\ Len(NamePart(l)) = IF l.Name = Unset THEN 0 ELSE SizeTag(2) + SizeBytes(Len(l.Name))
         /\ TsizePart(l) \in Bytes
         /\ Len(TsizePart(l)) = IF l.Tsize = Unset THEN 0 ELSE SizeTag(3) + SizeVarint(l.Tsize)
<1>1. /\ Tag(1, BytesType) \in Bytes /\ Len(Tag(1, BytesType)) = 1 /\ SizeTag(1) = 1
      /\ Tag(2, BytesType) \in Bytes /\ Len(Tag(2, BytesType)) = 1 /\ SizeTag(2) = 1
      /\ Tag(3, VarintType) \in Bytes /\ Len(Tag(3, VarintType)) = 1 /\ SizeTag(3) = 1
  BY Tags
<1>2. /\ l.Hash \in Bytes /\ Len(l.Hash) \in DOMAIN Varint
      /\ l.Name # Unset => l.Name \in Bytes /\ Len(l.Name) \in DOMAIN Varint
      /\ l.Tsize # Unset => l.Tsize \in DOMAIN Varint
  BY BytesAssumption DEF Writable, PBLink, Complete
<1>3. HashPart(l) \in Bytes /\ Len(HashPart(l)) = SizeTag(2) + SizeBytes(Len(l.Hash))
  <2>1. LenPrefixed(l.Hash) \in Bytes /\ Len(LenPrefixed(l.Hash)) = SizeBytes(Len(l.Hash))
    BY <1>2, Prefixed
  <2>2. /\ HashPart(l) \in Bytes
        /\ Len(HashPart(l)) = Len(Tag(1, BytesType)) + Len(LenPrefixed(l.Hash))
    BY <1>1, <2>1, Joined, Zenon DEF HashPart
  <2> QED BY <1>1, <2>1, <2>2
<1>4. /\ NamePart(l) \in Bytes
      /\ Len(NamePart(l)) = IF l.Name = Unset THEN 0 ELSE SizeTag(2) + SizeBytes(Len(l.Name))
  <2>1. CASE l.Name = Unset
    BY <2>1, Emptied DEF NamePart
  <2>2. CASE l.Name # Unset
    <3>1. LenPrefixed(l.Name) \in Bytes /\ Len(LenPrefixed(l.Name)) = SizeBytes(Len(l.Name))
      BY <1>2, <2>2, Prefixed
    <3>2. NamePart(l) = Tag(2, BytesType) \o LenPrefixed(l.Name)
      BY <2>2 DEF NamePart
    <3>3. /\ NamePart(l) \in Bytes
          /\ Len(NamePart(l)) = Len(Tag(2, BytesType)) + Len(LenPrefixed(l.Name))
      BY <1>1, <3>1, <3>2, Joined, Zenon
    <3> QED BY <1>1, <2>2, <3>1, <3>3
  <2> QED BY <2>1, <2>2
<1>5. /\ TsizePart(l) \in Bytes
      /\ Len(TsizePart(l)) = IF l.Tsize = Unset THEN 0 ELSE SizeTag(3) + SizeVarint(l.Tsize)
  <2>1. CASE l.Tsize = Unset
    BY <2>1, Emptied DEF TsizePart
  <2>2. CASE l.Tsize # Unset
    <3>1. Varint[l.Tsize] \in Bytes
      BY <1>2, <2>2, Varints
    <3>2. TsizePart(l) = Tag(3, VarintType) \o Varint[l.Tsize]
      BY <2>2 DEF TsizePart
    <3>3. /\ TsizePart(l) \in Bytes
          /\ Len(TsizePart(l)) = Len(Tag(3, VarintType)) + Len(Varint[l.Tsize])
      BY <1>1, <3>1, <3>2, Joined, Zenon
    <3> QED BY <1>1, <2>2, <3>3 DEF SizeVarint
  <2> QED BY <2>1, <2>2
<1> QED BY <1>3, <1>4, <1>5

\* AppendEncode announces a link with the number of bytes it then appends for it, whatever
\* is set in it and however long that is: the two passes over its fields agree.
THEOREM SizeIsLength ==
  ASSUME NEW l, Writable(l)
  PROVE  LinkBody(l) \in Bytes /\ LinkSize(l) = Len(LinkBody(l))
<1>1. /\ HashPart(l) \in Bytes /\ NamePart(l) \in Bytes /\ TsizePart(l) \in Bytes
      /\ LinkSize(l) = Len(HashPart(l)) + Len(NamePart(l)) + Len(TsizePart(l))
  BY Parts DEF LinkSize
<1>2. /\ NamePart(l) \o TsizePart(l) \in Bytes
      /\ Len(NamePart(l) \o TsizePart(l)) = Len(NamePart(l)) + Len(TsizePart(l))
  BY <1>1, Joined
<1> QED BY <1>1, <1>2, Joined DEF LinkBody

-----------------------------------------------------------------------------
(* protowire: what is read of a varint, or of bytes behind their length, and something *)
(* behind it.                                                                          *)

LEMMA Fronts ==
  ASSUME NEW a \in Bytes, NEW b \in Bytes, NEW n \in 0..Len(a \o b)
  PROVE  /\ n <= Len(a) => IsPrefix(SubSeq(a \o b, 1, n), a)
         /\ n >= Len(a) => IsPrefix(a, SubSeq(a \o b, 1, n))
<1>1. /\ a \o b \in Seq(Byte) /\ Len(a \o b) = Len(a) + Len(b) /\ Len(a) \in Nat
      /\ Len(b) \in Nat /\ \A i \in 1..Len(a) : (a \o b)[i] = a[i]
  BY ConcatProperties DEF Bytes
<1> DEFINE s == a \o b
           f == SubSeq(s, 1, n)
<1> HIDE DEF s
<1>2. f \in Seq(Byte) /\ Len(f) = n /\ \A i \in 1..n : f[i] = s[i]
  BY <1>1, SubSeqProperties DEF s
<1> HIDE DEF f
<1>3. ASSUME n <= Len(a) PROVE IsPrefix(f, a)
  <2>1. SubSeq(a, 1, n) \in Seq(Byte) /\ Len(SubSeq(a, 1, n)) = n
        /\ \A i \in 1..n : SubSeq(a, 1, n)[i] = a[i]
    BY <1>1, <1>3, SubSeqProperties DEF Bytes
  <2>2. f = SubSeq(a, 1, n)
    BY <1>1, <1>2, <1>3, <2>1, SeqEqual DEF s
  <2> QED BY <1>2, <1>3, <2>2 DEF IsPrefix
<1>4. ASSUME n >= Len(a) PROVE IsPrefix(a, f)
  <2> DEFINE m == Len(a)
  <2>1. SubSeq(f, 1, m) \in Seq(Byte) /\ Len(SubSeq(f, 1, m)) = m
        /\ \A i \in 1..m : SubSeq(f, 1, m)[i] = f[i]
    BY <1>1, <1>2, <1>4, SubSeqProperties
  <2>2. a = SubSeq(f, 1, m)
    BY <1>1, <1>2, <1>4, <2>1, SeqEqual DEF s, Bytes
  <2> QED BY <1>2, <1>4, <2>2 DEF IsPrefix
<1> QED BY <1>3, <1>4 DEF f, s

\* The rest of a block behind its first part.
LEMMA Behind ==
  ASSUME NEW a \in Bytes, NEW b \in Bytes
  PROVE  /\ SubSeq(a \o b, Len(a) + 1, Len(a \o b)) = b
         /\ SubSeq(a \o b, 1, Len(a)) = a
<1> DEFINE m == Len(a) + 1
           n == Len(a) + Len(b)
<1>1. a \in Seq(Byte) /\ b \in Seq(Byte) /\ Len(a) \in Nat /\ Len(b) \in Nat /\ Len(a \o b) = n
  BY Joined DEF Bytes
<1>2. SubSeq(a \o b, m, n) = b
  <2>1. CASE b = <<>>
    <3>1. m \in Int /\ n \in Int /\ n < m
      BY <1>1, <2>1
    <3> QED BY <2>1, <3>1, SubSeqEmpty
  <2>2. CASE b # <<>>
    <3>1. Len(b) >= 1
      BY <1>1, <2>2, EmptySeq
    <3>2. m \in m..n /\ n \in m..n /\ m - Len(a) = 1 /\ n - Len(a) = Len(b)
      BY <1>1, <3>1
    <3>3. SubSeq(a \o b, m, n) = SubSeq(b, m - Len(a), n - Len(a))
      BY <1>1, <3>2, SubSeqOfConcat2
    <3> QED BY <1>1, <3>2, <3>3, SubSeqFull
  <2> QED BY <2>1, <2>2
<1>3. SubSeq(a \o b, 1, Len(a)) = a
  <2>1. CASE a = <<>>
    <3>1. 1 \in Int /\ Len(a) \in Int /\ Len(a) < 1
      BY <1>1, <2>1
    <3> QED BY <2>1, <3>1, SubSeqEmpty
  <2>2. CASE a # <<>>
    <3>1. Len(a) >= 1
      BY <1>1, <2>2, EmptySeq
    <3>2. 1 \in 1..Len(a) /\ Len(a) \in 1..Len(a)
      BY <1>1, <3>1
    <3>3. SubSeq(a \o b, 1, Len(a)) = SubSeq(a, 1, Len(a))
      BY <1>1, <3>2, SubSeqOfConcat1
    <3> QED BY <1>1, <3>3, SubSeqFull
  <2> QED BY <2>1, <2>2
<1> QED BY <1>1, <1>2, <1>3

\* No varint is the beginning of another: the one that was written is the one that is read.
LEMMA NumberRead ==
  ASSUME NEW v \in DOMAIN Varint, NEW r \in Bytes, Has(Varint[v] \o r)
  PROVE  Number(Varint[v] \o r) = v /\ After(Varint[v] \o r) = r
<1> DEFINE a == Varint[v]
           bs == a \o r
<1>1. a \in Bytes /\ Len(a) \in Nat
  BY Varints DEF Bytes
<1>2. ASSUME NEW c \in Start(bs) PROVE c = a
  <2>1. PICK n \in 1..10 : n <= Len(bs) /\ c = SubSeq(bs, 1, n)
    BY <1>2 DEF Start
  <2>2. PICK w \in DOMAIN Varint : c = Varint[w]
    BY <1>2 DEF Start, NumberOf
  <2>3. n \in 0..Len(bs)
    BY <1>1, <2>1, Joined
  <2>4. IsPrefix(Varint[w], Varint[v]) \/ IsPrefix(Varint[v], Varint[w])
    <3>1. n <= Len(a) \/ n >= Len(a)
      BY <1>1, <2>3
    <3> QED BY <1>1, <2>1, <2>2, <2>3, <3>1, Fronts
  <2>5. v = w
    BY <2>4, VarintAssumption
  <2> QED BY <2>2, <2>5
<1>3. (CHOOSE c \in Start(bs) : TRUE) = a
  BY <1>2 DEF Has
<1>4. NumberOf[a] = v
  <2>1. NumberOf[a] = CHOOSE w \in DOMAIN Varint : Varint[w] = a
    BY DEF NumberOf
  <2>2. \A w \in DOMAIN Varint : Varint[w] = a => w = v
    <3> SUFFICES ASSUME NEW w \in DOMAIN Varint, Varint[w] = a PROVE w = v
      OBVIOUS
    <3>2. IsPrefix(Varint[w], Varint[v])
      BY <1>1, SubSeqFull DEF IsPrefix, Bytes
    <3> QED BY <3>2, VarintAssumption
  <2> QED BY <2>1, <2>2
<1>5. Number(bs) = v
  BY <1>3, <1>4 DEF Number
<1>6. After(bs) = r
  BY <1>1, <1>5, Behind DEF After, SizeVarint
<1> QED BY <1>5, <1>6

\* Bytes behind their length are read as they are, whatever is behind them.
LEMMA ChunkRead ==
  ASSUME NEW bs \in Bytes, Len(bs) \in DOMAIN Varint, NEW r \in Bytes,
         Has(Varint[Len(bs)] \o (bs \o r))
  PROVE  LET s == Varint[Len(bs)] \o (bs \o r)
         IN Chunk(s) = bs /\ AfterChunk(s) = r
<1> DEFINE s == Varint[Len(bs)] \o (bs \o r)
<1>1. bs \o r \in Bytes
  BY Joined
<1>2. Number(s) = Len(bs) /\ After(s) = bs \o r
  BY <1>1, NumberRead
<1> HIDE DEF s
<1>3. Chunk(s) = bs /\ AfterChunk(s) = r
  BY <1>2, Behind DEF Chunk, AfterChunk
<1> QED BY <1>3 DEF s

-----------------------------------------------------------------------------
(* The nodes, and the blocks they make *)

LEMMA LinksWritable ==
  ASSUME node \in Nodes
  PROVE  /\ node \in PBNode /\ node.Links \in Seq(PBLink) /\ Len(node.Links) \in Nat
         /\ \A i \in 1..Len(node.Links) :
              Writable(node.Links[i]) /\ LinkSize(node.Links[i]) \in DOMAIN Varint
         /\ node.Data # Unset => node.Data \in Bytes /\ Len(node.Data) \in DOMAIN Varint
<1>1. node \in PBNode /\ node.Links \in Seq(PBLink) /\ Len(node.Links) \in Nat
  BY NodesAssumption DEF PBNode
<1>2. \A i \in 1..Len(node.Links) :
        /\ Complete(node.Links[i]) /\ LinkSize(node.Links[i]) \in DOMAIN Varint
        /\ \A f \in {node.Links[i].Hash, node.Links[i].Name} :
             f # Unset => Len(f) \in DOMAIN Varint
  BY NodesAssumption
<1>3. \A i \in 1..Len(node.Links) : node.Links[i] \in PBLink
  BY <1>1
<1>4. node.Data # Unset => node.Data \in Bytes /\ Len(node.Data) \in DOMAIN Varint
  BY <1>1, NodesAssumption, BytesAssumption DEF PBNode
<1> QED BY <1>1, <1>2, <1>3, <1>4 DEF Writable

LEMMA FrameTyped ==
  ASSUME NEW l, Writable(l), LinkSize(l) \in DOMAIN Varint
  PROVE  Frame(l) \in Bytes
<1>1. Tag(2, BytesType) \in Bytes
  BY Tags
<1>2. Varint[LinkSize(l)] \in Bytes /\ LinkBody(l) \in Bytes
  BY Varints, SizeIsLength
<1>3. Varint[LinkSize(l)] \o LinkBody(l) \in Bytes
  BY <1>2, Joined
<1> QED BY <1>1, <1>3, Joined DEF Frame

LEMMA DataTyped ==
  ASSUME node \in Nodes
  PROVE  DataPart(node) \in Bytes
<1>1. CASE node.Data = Unset
  BY <1>1, Emptied DEF DataPart
<1>2. CASE node.Data # Unset
  <2>1. LenPrefixed(node.Data) \in Bytes /\ Tag(1, BytesType) \in Bytes
    BY <1>2, LinksWritable, Prefixed, Tags
  <2>2. Tag(1, BytesType) \o LenPrefixed(node.Data) \in Bytes
    BY <2>1, Joined, Zenon
  <2> QED BY <1>2, <2>2 DEF DataPart
<1> QED BY <1>1, <1>2

\* What is appended to a block is behind every link of it.
LEMMA TailsGrow ==
  ASSUME node \in Nodes, NEW k \in Nat, k <= Len(node.Links), NEW t, Tails(node.Links, t, k, <<>>),
         NEW x \in Bytes
  PROVE  LET u == [i \in 1..(k + 1) |-> t[i] \o x]
         IN Tails(node.Links, u, k, x) /\ u[1] = t[1] \o x
<1> DEFINE u == [i \in 1..(k + 1) |-> t[i] \o x]
<1>1. t \in [1..(k + 1) -> Bytes] /\ 1 \in 1..(k + 1) /\ k + 1 \in 1..(k + 1)
  BY DEF Tails
<1>2. u \in [1..(k + 1) -> Bytes]
  <2>1. \A i \in 1..(k + 1) : t[i] \o x \in Bytes
    BY <1>1, Joined
  <2> QED BY <2>1
<1>3. u[k + 1] = x
  <2>1. t[k + 1] = <<>>
    BY DEF Tails
  <2> QED BY <1>1, <2>1, Emptied
<1>4. ASSUME NEW i \in 1..k PROVE u[i] = Frame(node.Links[i]) \o u[i + 1]
  <2>1. i \in 1..Len(node.Links) /\ i \in 1..(k + 1) /\ i + 1 \in 1..(k + 1)
    BY LinksWritable
  <2>2. t[i] = Frame(node.Links[i]) \o t[i + 1]
    BY DEF Tails
  <2>3. Frame(node.Links[i]) \in Bytes
    BY <2>1, LinksWritable, FrameTyped
  <2>4. (Frame(node.Links[i]) \o t[i + 1]) \o x = Frame(node.Links[i]) \o (t[i + 1] \o x)
    BY <1>1, <2>1, <2>3, Regrouped
  <2>5. u[i] = t[i] \o x /\ u[i + 1] = t[i + 1] \o x
    BY <2>1
  <2> HIDE DEF u
  <2> QED BY <2>2, <2>4, <2>5
<1> QED BY <1>1, <1>2, <1>3, <1>4 DEF Tails

LEMMA TailAdded ==
  ASSUME node \in Nodes, NEW k \in Nat, k < Len(node.Links), NEW t,
         Tails(node.Links, t, k, Frame(node.Links[k + 1]))
  PROVE  LET u == [i \in 1..(k + 2) |-> IF i = k + 2 THEN <<>> ELSE t[i]]
         IN Tails(node.Links, u, k + 1, <<>>) /\ u[1] = t[1]
<1> DEFINE u == [i \in 1..(k + 2) |-> IF i = k + 2 THEN <<>> ELSE t[i]]
<1>1. t \in [1..(k + 1) -> Bytes] /\ t[k + 1] = Frame(node.Links[k + 1])
  BY DEF Tails
<1>2. u \in [1..((k + 1) + 1) -> Bytes] /\ u[(k + 1) + 1] = <<>> /\ u[1] = t[1]
      /\ \A i \in 1..(k + 1) : u[i] = t[i]
  BY <1>1, Emptied
<1>3. Frame(node.Links[k + 1]) \in Bytes
  <2>1. k + 1 \in 1..Len(node.Links)
    BY LinksWritable
  <2> QED BY <2>1, LinksWritable, FrameTyped
<1> HIDE DEF u
<1>4. ASSUME NEW i \in 1..(k + 1) PROVE u[i] = Frame(node.Links[i]) \o u[i + 1]
  <2>1. CASE i = k + 1
    <3>1. u[i] = Frame(node.Links[i]) /\ u[i + 1] = <<>>
      BY <1>1, <1>2, <2>1
    <3>2. Frame(node.Links[i]) \o <<>> = Frame(node.Links[i])
      BY <1>3, <2>1, Emptied
    <3> QED BY <3>1, <3>2
  <2>2. CASE i \in 1..k
    <3>1. t[i] = Frame(node.Links[i]) \o t[i + 1]
      BY <2>2 DEF Tails
    <3>2. u[i] = t[i] /\ u[i + 1] = t[i + 1]
      BY <1>2, <2>2
    <3> QED BY <3>1, <3>2
  <2>3. i = k + 1 \/ i \in 1..k
    OBVIOUS
  <2> QED BY <2>1, <2>2, <2>3
<1>5. Tails(node.Links, u, k + 1, <<>>)
  BY <1>2, <1>4 DEF Tails
<1> QED BY <1>2, <1>5 DEF u

LEMMA PrefixIs ==
  ASSUME NEW S, NEW s \in Seq(S), NEW t \in Seq(S)
  PROVE  IsPrefix(s, t) <=> Len(s) <= Len(t) /\ \A i \in 1..Len(s) : s[i] = t[i]
<1>1. Len(s) \in Nat /\ Len(t) \in Nat
  OBVIOUS
<1>2. ASSUME Len(s) <= Len(t)
      PROVE  s = SubSeq(t, 1, Len(s)) <=> \A i \in 1..Len(s) : s[i] = t[i]
  <2>1. /\ SubSeq(t, 1, Len(s)) \in Seq(S) /\ Len(SubSeq(t, 1, Len(s))) = Len(s)
        /\ \A i \in 1..Len(s) : SubSeq(t, 1, Len(s))[i] = t[i]
    BY <1>1, <1>2, SubSeqProperties
  <2> QED BY <1>1, <2>1, SeqEqual
<1> QED BY <1>2 DEF IsPrefix

-----------------------------------------------------------------------------
(* The steps *)

FramingInv == FramingTypeOK /\ Divided

LEMMA FramingStarts == FramingInit => FramingInv
<1> SUFFICES ASSUME FramingInit PROVE FramingInv
  OBVIOUS
<1>1. node \in Nodes /\ Len(node.Links) \in Nat
  BY LinksWritable DEF FramingInit
<1>2. NewLink \in PBLink /\ EmptyNode \in PBNode
  <2>1. <<>> \in Seq(PBLink)
    OBVIOUS
  <2> QED BY <2>1 DEF NewLink, PBLink, EmptyNode, PBNode
<1>3. FramingTypeOK
  BY <1>2, Emptied DEF FramingInit, FramingTypeOK
<1>4. \E t : Tails(node.Links, t, 0, <<>>) /\ <<>> = t[1]
  <2> DEFINE t == [i \in 1..(0 + 1) |-> <<>>]
  <2>1. t \in [1..(0 + 1) -> Bytes] /\ t[0 + 1] = <<>> /\ t[1] = <<>> /\ 1..0 = {}
    BY Emptied
  <2>2. Tails(node.Links, t, 0, <<>>)
    <3> HIDE DEF t
    <3> QED BY <2>1 DEF Tails
  <2> QED BY <2>1, <2>2
<1> QED BY <1>1, <1>3, <1>4 DEF FramingInit, FramingInv, Divided

LEMMA AppendLinkKeeps ==
  ASSUME FramingInv, AppendLink
  PROVE  FramingInv'
<1>1. node \in Nodes /\ wrote \in Nat /\ Len(node.Links) \in Nat /\ wrote < Len(node.Links)
      /\ enc \in Bytes /\ got = EmptyNode /\ pc = "write"
  BY LinksWritable DEF FramingInv, FramingTypeOK, AppendLink, Divided
<1>2. PICK t : Tails(node.Links, t, wrote, <<>>) /\ enc = t[1]
  BY <1>1 DEF FramingInv, Divided
<1>3. PICK k : k = wrote
  OBVIOUS
<1> DEFINE x == Frame(node.Links[k + 1])
           u == [i \in 1..(k + 1) |-> t[i] \o x]
           w == [i \in 1..(k + 2) |-> IF i = k + 2 THEN <<>> ELSE u[i]]
<1>4. x \in Bytes /\ enc' = enc \o x /\ node' = node /\ wrote' = k + 1
  <2>1. k + 1 \in 1..Len(node.Links)
    BY <1>1, <1>3
  <2>2. x \in Bytes
    BY <1>1, <2>1, LinksWritable, FrameTyped
  <2> QED BY <1>3, <2>2 DEF AppendLink
<1>5. Tails(node.Links, u, k, x) /\ u[1] = t[1] \o x
  <2>1. x \in Bytes
    BY <1>4
  <2> HIDE DEF x
  <2>2. k \in Nat /\ k <= Len(node.Links) /\ Tails(node.Links, t, k, <<>>)
    BY <1>1, <1>2, <1>3
  <2> QED BY <1>1, <2>1, <2>2, TailsGrow
<1>6. Tails(node.Links, w, k + 1, <<>>) /\ w[1] = u[1]
  <2> HIDE DEF u
  <2> QED BY <1>1, <1>3, <1>5, TailAdded
<1> HIDE DEF w, u, x
<1>7. enc' \in Bytes /\ wrote' \in Nat /\ wrote' <= Len(node.Links) /\ enc' = w[1]
  <2>1. enc \o x \in Bytes
    BY <1>1, <1>4, Joined
  <2> QED BY <1>1, <1>2, <1>3, <1>4, <1>5, <1>6, <2>1
<1>8. FramingTypeOK'
  BY <1>1, <1>7 DEF FramingInv, FramingTypeOK, AppendLink
<1>9. Divided'
  <2>1. Tails(node'.Links, w, wrote', <<>>)
    BY <1>4, <1>6
  <2>2. pc' = "write" /\ got' = EmptyNode /\ wrote' <= Len(node'.Links)
    BY <1>1, <1>4, <1>7 DEF AppendLink
  <2> QED BY <1>7, <2>1, <2>2 DEF Divided
<1> QED BY <1>8, <1>9 DEF FramingInv

LEMMA AppendDataKeeps ==
  ASSUME FramingInv, AppendData
  PROVE  FramingInv'
<1>1. /\ node \in Nodes /\ Len(node.Links) \in Nat /\ wrote = Len(node.Links)
      /\ enc \in Bytes /\ got = EmptyNode /\ pc = "write"
  BY LinksWritable DEF FramingInv, FramingTypeOK, AppendData, Divided
<1>2. PICK t : Tails(node.Links, t, wrote, <<>>) /\ enc = t[1]
  BY <1>1 DEF FramingInv, Divided
<1>3. PICK n, x : n = Len(node.Links) /\ x = DataPart(node)
  OBVIOUS
<1> DEFINE u == [i \in 1..(n + 1) |-> t[i] \o x]
<1>4. x \in Bytes /\ enc' = enc \o x /\ src' = enc' /\ node' = node
  BY <1>1, <1>3, DataTyped DEF AppendData
<1>5. Tails(node.Links, u, n, x) /\ u[1] = t[1] \o x
  <2>1. n \in Nat /\ n <= Len(node.Links) /\ Tails(node.Links, t, n, <<>>)
    BY <1>1, <1>2, <1>3
  <2> QED BY <1>1, <1>4, <2>1, TailsGrow
<1> HIDE DEF u
<1>6. enc' \in Bytes /\ src' = u[1]
  <2>1. enc \o x \in Bytes
    BY <1>1, <1>4, Joined
  <2> QED BY <1>2, <1>4, <1>5, <2>1
<1>7. FramingTypeOK'
  BY <1>4, <1>6 DEF FramingInv, FramingTypeOK, AppendData
<1>8. Divided'
  <2>1. Tails(node'.Links, u, Len(node'.Links), DataPart(node'))
    BY <1>3, <1>4, <1>5
  <2>2. pc' = "read" /\ got' = EmptyNode
    BY <1>1 DEF AppendData
  <2>3. ReadTo(u)'
    <3>1. got'.Links = <<>> /\ got'.Data = Unset /\ Len(got'.Links) = 0
      BY <2>2 DEF EmptyNode
    <3>2. IsPrefix(got'.Links, node'.Links)
      <4>1. <<>> \in Seq(PBLink) /\ node'.Links \in Seq(PBLink) /\ Len(<<>>) = 0
            /\ Len(node'.Links) >= 0
        BY <1>1, <1>4, LinksWritable
      <4>2. SubSeq(node'.Links, 1, 0) = <<>>
        BY <4>1, SubSeqEmpty
      <4>3. IsPrefix(<<>>, node'.Links)
        BY <4>1, <4>2 DEF IsPrefix
      <4> QED BY <3>1, <4>3
    <3>3. src' = u[0 + 1]
      BY <1>6
    <3> QED BY <2>2, <3>1, <3>2, <3>3 DEF ReadTo
  <2> QED BY <2>1, <2>2, <2>3 DEF Divided
<1> QED BY <1>7, <1>8 DEF FramingInv

-----------------------------------------------------------------------------
(* What is read of the parts of a block *)

LEMMA PrefixedAhead ==
  ASSUME NEW v \in DOMAIN Varint, NEW bs \in Bytes, Len(bs) \in DOMAIN Varint,
         NEW r \in Bytes, NEW s, s = (Varint[v] \o LenPrefixed(bs)) \o r, Has(s)
  PROVE  Number(s) = v /\ After(s) = Varint[Len(bs)] \o (bs \o r)
<1> DEFINE q == Varint[Len(bs)] \o (bs \o r)
<1>1. Varint[v] \in Bytes /\ Varint[Len(bs)] \in Bytes
  BY Varints
<1>2. LenPrefixed(bs) = Varint[Len(bs)] \o bs /\ LenPrefixed(bs) \in Bytes
  BY Prefixed DEF LenPrefixed
<1>3. LenPrefixed(bs) \o r = q
  BY <1>1, <1>2, Regrouped
<1>4. q \in Bytes
  BY <1>2, <1>3, Joined
<1> HIDE DEF q
<1>5. s = Varint[v] \o q
  <2>1. (Varint[v] \o LenPrefixed(bs)) \o r = Varint[v] \o (LenPrefixed(bs) \o r)
    BY <1>1, <1>2, Regrouped
  <2> QED BY <1>3, <2>1
<1> QED BY <1>4, <1>5, NumberRead DEF q

LEMMA ChunkAhead ==
  ASSUME NEW bs \in Bytes, Len(bs) \in DOMAIN Varint, NEW r \in Bytes,
         NEW q, q = Varint[Len(bs)] \o (bs \o r), HasChunk(q)
  PROVE  Chunk(q) = bs /\ AfterChunk(q) = r
BY ChunkRead DEF HasChunk

LEMMA TagsRead ==
  /\ Tag(1, BytesType) = Varint[8 + BytesType] /\ 8 + BytesType \in DOMAIN Varint
  /\ Tag(2, BytesType) = Varint[16 + BytesType] /\ 16 + BytesType \in DOMAIN Varint
  /\ Tag(3, VarintType) = Varint[24 + VarintType] /\ 24 + VarintType \in DOMAIN Varint
<1>1. 8 * 1 = 8 /\ 8 * 2 = 16 /\ 8 * 3 = 24 /\ 1 \in 1..3 /\ 2 \in 1..3 /\ 3 \in 1..3
  OBVIOUS
<1> QED BY <1>1, Tags DEF Tag

LEMMA FrameAhead ==
  ASSUME NEW l, Writable(l), LinkSize(l) \in DOMAIN Varint, NEW r \in Bytes,
         NEW s, s = Frame(l) \o r, Has(s), HasChunk(After(s))
  PROVE  /\ Number(s) = 16 + BytesType
         /\ Chunk(After(s)) = LinkBody(l) /\ AfterChunk(After(s)) = r
<1>1. PICK v, b : v = 16 + BytesType /\ b = LinkBody(l)
  OBVIOUS
<1>2. v \in DOMAIN Varint /\ b \in Bytes /\ Len(b) \in DOMAIN Varint
  BY <1>1, TagsRead, SizeIsLength
<1>3. s = (Varint[v] \o LenPrefixed(b)) \o r
  BY <1>1, TagsRead, SizeIsLength DEF Frame, LenPrefixed
<1>4. Number(s) = v /\ After(s) = Varint[Len(b)] \o (b \o r)
  BY <1>2, <1>3, PrefixedAhead
<1>5. Chunk(After(s)) = b /\ AfterChunk(After(s)) = r
  BY <1>2, <1>4, ChunkAhead
<1> QED BY <1>1, <1>4, <1>5

LEMMA DataAhead ==
  ASSUME node \in Nodes, node.Data # Unset, NEW s, s = DataPart(node), Has(s)
  PROVE  /\ Number(s) = 8 + BytesType
         /\ HasChunk(After(s)) =>
              Chunk(After(s)) = node.Data /\ AfterChunk(After(s)) = <<>>
<1>1. PICK v, b, r : v = 8 + BytesType /\ b = node.Data /\ r = <<>>
  OBVIOUS
<1>2. v \in DOMAIN Varint /\ r \in Bytes
  BY <1>1, TagsRead, Emptied
<1>3. b \in Bytes /\ Len(b) \in DOMAIN Varint
  BY <1>1, LinksWritable
<1>4. s = (Varint[v] \o LenPrefixed(b)) \o r
  <2>1. s = Varint[v] \o LenPrefixed(b)
    BY <1>1, TagsRead DEF DataPart
  <2>2. Varint[v] \o LenPrefixed(b) \in Bytes
    BY <1>2, <1>3, Varints, Prefixed, Joined
  <2> QED BY <1>1, <2>1, <2>2, Emptied
<1>5. Number(s) = v /\ After(s) = Varint[Len(b)] \o (b \o r)
  BY <1>2, <1>3, <1>4, PrefixedAhead
<1>6. ASSUME HasChunk(After(s)) PROVE Chunk(After(s)) = b /\ AfterChunk(After(s)) = r
  BY <1>2, <1>3, <1>5, <1>6, ChunkAhead
<1> QED BY <1>1, <1>5, <1>6

LEMMA HashAhead ==
  ASSUME NEW l, Writable(l), NEW s, s = LinkBody(l), Has(s)
  PROVE  /\ Number(s) = 8 + BytesType
         /\ HasChunk(After(s)) =>
              Chunk(After(s)) = l.Hash /\ AfterChunk(After(s)) = NamePart(l) \o TsizePart(l)
<1>1. PICK v, b, r : v = 8 + BytesType /\ b = l.Hash /\ r = NamePart(l) \o TsizePart(l)
  OBVIOUS
<1>2. v \in DOMAIN Varint /\ r \in Bytes
  BY <1>1, TagsRead, Parts, Joined
<1>3. b \in Bytes /\ Len(b) \in DOMAIN Varint
  BY <1>1, BytesAssumption DEF Writable, PBLink, Complete
<1>4. s = (Varint[v] \o LenPrefixed(b)) \o r
  BY <1>1, TagsRead DEF LinkBody, HashPart
<1>5. Number(s) = v /\ After(s) = Varint[Len(b)] \o (b \o r)
  BY <1>2, <1>3, <1>4, PrefixedAhead
<1>6. ASSUME HasChunk(After(s)) PROVE Chunk(After(s)) = b /\ AfterChunk(After(s)) = r
  BY <1>2, <1>3, <1>5, <1>6, ChunkAhead
<1> QED BY <1>1, <1>5, <1>6

LEMMA NameAhead ==
  ASSUME NEW l, Writable(l), l.Name # Unset, NEW s, s = NamePart(l) \o TsizePart(l), Has(s)
  PROVE  /\ Number(s) = 16 + BytesType
         /\ HasChunk(After(s)) =>
              Chunk(After(s)) = l.Name /\ AfterChunk(After(s)) = TsizePart(l)
<1>1. PICK v, b, r : v = 16 + BytesType /\ b = l.Name /\ r = TsizePart(l)
  OBVIOUS
<1>2. v \in DOMAIN Varint /\ r \in Bytes
  BY <1>1, TagsRead, Parts
<1>3. b \in Bytes /\ Len(b) \in DOMAIN Varint
  BY <1>1, BytesAssumption DEF Writable, PBLink, Complete
<1>4. s = (Varint[v] \o LenPrefixed(b)) \o r
  BY <1>1, TagsRead DEF NamePart
<1>5. Number(s) = v /\ After(s) = Varint[Len(b)] \o (b \o r)
  BY <1>2, <1>3, <1>4, PrefixedAhead
<1>6. ASSUME HasChunk(After(s)) PROVE Chunk(After(s)) = b /\ AfterChunk(After(s)) = r
  BY <1>2, <1>3, <1>5, <1>6, ChunkAhead
<1> QED BY <1>1, <1>5, <1>6

LEMMA TsizeAhead ==
  ASSUME NEW l, Writable(l), l.Tsize # Unset, NEW s, s = TsizePart(l), Has(s)
  PROVE  /\ Number(s) = 24 + VarintType
         /\ Has(After(s)) => Number(After(s)) = l.Tsize /\ After(After(s)) = <<>>
<1> DEFINE v == 24 + VarintType
<1>1. v \in DOMAIN Varint /\ Tag(3, VarintType) = Varint[v]
  BY TagsRead
<1>2. l.Tsize \in DOMAIN Varint /\ Varint[l.Tsize] \in Bytes
  BY BytesAssumption, Varints DEF Writable, PBLink
<1>3. s = Varint[v] \o Varint[l.Tsize]
  BY <1>1 DEF TsizePart
<1> HIDE DEF v
<1>4. Number(s) = v /\ After(s) = Varint[l.Tsize]
  BY <1>1, <1>2, <1>3, NumberRead
<1>5. Varint[l.Tsize] = Varint[l.Tsize] \o <<>> /\ <<>> \in Bytes
  BY <1>2, Emptied
<1>6. Has(After(s)) => Number(After(s)) = l.Tsize /\ After(After(s)) = <<>>
  BY <1>2, <1>4, <1>5, NumberRead
<1> QED BY <1>4, <1>6 DEF v

\* No field is appended without a byte of its own: where nothing is left, none is left.
LEMMA NothingAhead ==
  /\ \A l : Writable(l) =>
       /\ NamePart(l) \o TsizePart(l) = <<>> => l.Name = Unset /\ l.Tsize = Unset
       /\ TsizePart(l) = <<>> => l.Tsize = Unset
       /\ LinkBody(l) # <<>>
  /\ \A l : Writable(l) /\ LinkSize(l) \in DOMAIN Varint => \A r \in Bytes : Frame(l) \o r # <<>>
  /\ node \in Nodes => (DataPart(node) = <<>> => node.Data = Unset)
<1>1. \A a, b \in Bytes : Len(a) > 0 => a \o b # <<>> /\ b \o a # <<>>
  BY Joined, Emptied
<1>2. /\ Tag(1, BytesType) \in Bytes /\ Len(Tag(1, BytesType)) > 0
      /\ Tag(2, BytesType) \in Bytes /\ Len(Tag(2, BytesType)) > 0
      /\ Tag(3, VarintType) \in Bytes /\ Len(Tag(3, VarintType)) > 0
  <2>1. \A num \in 1..3, wt \in {BytesType, VarintType} :
          Tag(num, wt) \in Bytes /\ Len(Tag(num, wt)) = 1
    BY Tags
  <2> QED BY <2>1
<1>3. ASSUME NEW l, Writable(l)
      PROVE  /\ NamePart(l) \o TsizePart(l) = <<>> => l.Name = Unset /\ l.Tsize = Unset
             /\ TsizePart(l) = <<>> => l.Tsize = Unset
             /\ LinkBody(l) # <<>>
  <2>1. /\ l.Hash \in Bytes /\ Len(l.Hash) \in DOMAIN Varint
        /\ l.Name # Unset => l.Name \in Bytes /\ Len(l.Name) \in DOMAIN Varint
        /\ l.Tsize # Unset => l.Tsize \in DOMAIN Varint
    BY <1>3, BytesAssumption DEF Writable, PBLink, Complete
  <2>2. /\ HashPart(l) \in Bytes /\ NamePart(l) \in Bytes /\ TsizePart(l) \in Bytes
        /\ NamePart(l) \o TsizePart(l) \in Bytes
    BY <1>3, Parts, Joined
  <2>3. Len(HashPart(l)) > 0
    <3>1. HashPart(l) # <<>>
      BY <1>1, <1>2, <2>1, Prefixed DEF HashPart
    <3> QED BY <2>2, <3>1, Emptied DEF Bytes
  <2>4. ASSUME l.Name # Unset PROVE NamePart(l) # <<>>
    BY <1>1, <1>2, <2>1, <2>4, Prefixed DEF NamePart
  <2>5. ASSUME l.Tsize # Unset PROVE TsizePart(l) # <<>>
    BY <1>1, <1>2, <2>1, <2>5, Varints DEF TsizePart
  <2>6. ASSUME NEW a \in Bytes, a # <<>> PROVE Len(a) > 0
    BY <2>6, Emptied DEF Bytes
  <2>7. NamePart(l) \o TsizePart(l) = <<>> => NamePart(l) = <<>> /\ TsizePart(l) = <<>>
    BY <1>1, <2>2, <2>6
  <2>8. LinkBody(l) # <<>>
    BY <1>1, <2>2, <2>3 DEF LinkBody
  <2> QED BY <2>4, <2>5, <2>7, <2>8
<1>4. ASSUME NEW l, Writable(l), LinkSize(l) \in DOMAIN Varint, NEW r \in Bytes
      PROVE  Frame(l) \o r # <<>>
  <2>1. Frame(l) \in Bytes
    BY <1>4, FrameTyped
  <2>2. Frame(l) # <<>>
    <3>1. Varint[LinkSize(l)] \o LinkBody(l) \in Bytes
      BY <1>4, Varints, SizeIsLength, Joined
    <3> QED BY <1>1, <1>2, <3>1 DEF Frame
  <2> QED BY <1>1, <2>1, <2>2, Emptied DEF Bytes
<1>5. ASSUME node \in Nodes, DataPart(node) = <<>> PROVE node.Data = Unset
  <2> SUFFICES ASSUME node.Data # Unset PROVE FALSE
    OBVIOUS
  <2>1. LenPrefixed(node.Data) \in Bytes
    BY <1>5, LinksWritable, Prefixed
  <2> QED BY <1>1, <1>2, <1>5, <2>1 DEF DataPart
<1> QED BY <1>3, <1>4, <1>5

-----------------------------------------------------------------------------
(* The steps that read it *)

\* Where a block that has been written is read, k links of it are behind.
LEMMA Reading ==
  ASSUME FramingInv, pc # "write"
  PROVE  /\ node \in Nodes /\ got \in PBNode /\ Len(got.Links) \in Nat
         /\ Len(got.Links) <= Len(node.Links)
         /\ \E t : Tails(node.Links, t, Len(node.Links), DataPart(node)) /\ ReadTo(t)
<1>1. node \in Nodes /\ got \in PBNode
  BY DEF FramingInv, FramingTypeOK
<1>2. Len(got.Links) \in Nat
  <2>1. got.Links \in Seq(PBLink)
    BY <1>1 DEF PBNode
  <2> QED BY <2>1
<1>3. PICK t : Tails(node.Links, t, Len(node.Links), DataPart(node)) /\ ReadTo(t)
  BY DEF FramingInv, Divided
<1>4. Len(got.Links) <= Len(node.Links)
  BY <1>3 DEF ReadTo, IsPrefix
<1> QED BY <1>1, <1>2, <1>3, <1>4

\* What begins at a link, or behind the last one.
LEMMA TailsAt ==
  ASSUME node \in Nodes, NEW t, Tails(node.Links, t, Len(node.Links), DataPart(node)),
         NEW k \in Nat
  PROVE  /\ k < Len(node.Links) =>
              /\ Writable(node.Links[k + 1]) /\ LinkSize(node.Links[k + 1]) \in DOMAIN Varint
              /\ node.Links[k + 1] \in PBLink /\ t[k + 2] \in Bytes
              /\ t[k + 1] = Frame(node.Links[k + 1]) \o t[k + 2]
         /\ k = Len(node.Links) => t[k + 1] = DataPart(node)
<1>1. Len(node.Links) \in Nat
  BY LinksWritable
<1>2. ASSUME k < Len(node.Links)
      PROVE  /\ Writable(node.Links[k + 1]) /\ LinkSize(node.Links[k + 1]) \in DOMAIN Varint
             /\ node.Links[k + 1] \in PBLink /\ t[k + 2] \in Bytes
             /\ t[k + 1] = Frame(node.Links[k + 1]) \o t[k + 2]
  <2>1. k + 1 \in 1..Len(node.Links) /\ k + 2 \in 1..(Len(node.Links) + 1) /\ (k + 1) + 1 = k + 2
    BY <1>1, <1>2
  <2>2. Writable(node.Links[k + 1]) /\ LinkSize(node.Links[k + 1]) \in DOMAIN Varint
    BY <2>1, LinksWritable
  <2>3. t[k + 2] \in Bytes /\ t[k + 1] = Frame(node.Links[k + 1]) \o t[k + 2]
    BY <2>1 DEF Tails
  <2> QED BY <2>2, <2>3 DEF Writable
<1>3. k = Len(node.Links) => t[k + 1] = DataPart(node)
  BY DEF Tails
<1> QED BY <1>2, <1>3

LEMMA ReadFieldKeeps ==
  ASSUME FramingInv, ReadField
  PROVE  FramingInv'
<1>1. pc = "read" /\ src # <<>> /\ Has(src) /\ HasChunk(After(src))
  BY DEF ReadField
<1>2. /\ node \in Nodes /\ got \in PBNode /\ Len(got.Links) \in Nat
      /\ Len(got.Links) <= Len(node.Links) /\ Len(node.Links) \in Nat
      /\ enc \in Bytes /\ wrote \in Nat /\ link \in PBLink /\ chunk \in Bytes
  BY <1>1, Reading, LinksWritable DEF FramingInv, FramingTypeOK
<1>3. PICK t : Tails(node.Links, t, Len(node.Links), DataPart(node)) /\ ReadTo(t)
  BY <1>1, Reading
<1>4. PICK k \in Nat : k = Len(got.Links)
  BY <1>2
<1>5. k <= Len(node.Links) /\ got.Data = Unset /\ src = t[k + 1]
      /\ IsPrefix(got.Links, node.Links)
  BY <1>1, <1>2, <1>3, <1>4 DEF ReadTo
<1>6. node' = node /\ enc' = enc /\ wrote' = wrote
  BY DEF ReadField
<1>7. CASE k < Len(node.Links)
  <2>1. PICK l : l = node.Links[k + 1]
    OBVIOUS
  <2>2. /\ Writable(l) /\ LinkSize(l) \in DOMAIN Varint /\ t[k + 2] \in Bytes
        /\ src = Frame(l) \o t[k + 2]
    BY <1>2, <1>3, <1>5, <1>7, <2>1, TailsAt
  <2>3. /\ Number(src) = 16 + BytesType
        /\ Chunk(After(src)) = LinkBody(l) /\ AfterChunk(After(src)) = t[k + 2]
    BY <1>1, <2>2, FrameAhead
  <2>4. Number(src) # 8 + BytesType
    BY <2>3 DEF BytesType
  <2>5. /\ src' = t[k + 2] /\ chunk' = LinkBody(l) /\ link' = NewLink /\ pc' = "link"
        /\ got' = got
    BY <2>3, <2>4 DEF ReadField
  <2>6. FramingTypeOK'
    <3>1. LinkBody(l) \in Bytes /\ NewLink \in PBLink
      BY <2>2, SizeIsLength DEF NewLink, PBLink
    <3> QED BY <1>2, <1>6, <2>2, <2>5, <3>1 DEF FramingTypeOK
  <2>7. ReadTo(t)'
    <3>1. LinkReadTo(l)'
      BY <2>5 DEF LinkReadTo
    <3>2. l = node'.Links[k + 1]
      BY <1>6, <2>1
    <3> QED BY <1>4, <1>5, <1>6, <1>7, <2>5, <3>1, <3>2 DEF ReadTo, LinkReadTo
  <2> QED BY <1>3, <1>6, <2>5, <2>6, <2>7 DEF FramingInv, Divided
<1>8. CASE k = Len(node.Links)
  <2>1. src = DataPart(node)
    BY <1>2, <1>3, <1>5, <1>8, TailsAt
  <2>2. node.Data # Unset
    BY <1>1, <2>1 DEF DataPart
  <2>3. /\ Number(src) = 8 + BytesType
        /\ Chunk(After(src)) = node.Data /\ AfterChunk(After(src)) = <<>>
    BY <1>1, <1>2, <2>1, <2>2, DataAhead
  <2>4. Number(src) # 16 + BytesType
    BY <2>3 DEF BytesType
  <2>5. /\ src' = <<>> /\ chunk' = chunk /\ link' = link /\ pc' = "read"
        /\ got' = [got EXCEPT !.Data = node.Data]
    BY <1>1, <2>3, <2>4 DEF ReadField
  <2>6. got' \in PBNode /\ got'.Links = got.Links /\ got'.Data = node.Data
    <3>1. node \in PBNode
      BY <1>2, LinksWritable
    <3> QED BY <1>2, <2>5, <3>1 DEF PBNode
  <2>7. FramingTypeOK'
    BY <1>2, <1>6, <2>5, <2>6, Emptied DEF FramingTypeOK
  <2>8. ReadTo(t)'
    BY <1>4, <1>5, <1>6, <1>8, <2>5, <2>6 DEF ReadTo
  <2> QED BY <1>3, <1>6, <2>5, <2>7, <2>8 DEF FramingInv, Divided
<1>9. k < Len(node.Links) \/ k = Len(node.Links)
  BY <1>2, <1>5
<1> QED BY <1>7, <1>8, <1>9

LEMMA EndOfBlockKeeps ==
  ASSUME FramingInv, EndOfBlock
  PROVE  FramingInv'
<1>1. pc = "read" /\ src = <<>> /\ pc' = "done"
      /\ UNCHANGED <<node, enc, wrote, src, chunk, link, got>>
  BY DEF EndOfBlock
<1>2. /\ node \in Nodes /\ Len(got.Links) \in Nat
      /\ Len(got.Links) <= Len(node.Links) /\ Len(node.Links) \in Nat
  BY <1>1, Reading, LinksWritable
<1>3. PICK t : Tails(node.Links, t, Len(node.Links), DataPart(node)) /\ ReadTo(t)
  BY <1>1, Reading
<1>4. PICK k \in Nat : k = Len(got.Links)
  BY <1>2
<1>5. ASSUME got.Data = Unset, src = t[k + 1]
      PROVE  k = Len(node.Links) /\ node.Data = Unset
  <2>1. ~(k < Len(node.Links))
    <3> SUFFICES ASSUME k < Len(node.Links) PROVE FALSE
      OBVIOUS
    <3>1. PICK l : l = node.Links[k + 1]
      OBVIOUS
    <3>2. /\ Writable(l) /\ LinkSize(l) \in DOMAIN Varint /\ t[k + 2] \in Bytes
          /\ src = Frame(l) \o t[k + 2]
      BY <1>2, <1>3, <1>5, <3>1, TailsAt
    <3> QED BY <1>1, <3>2, NothingAhead
  <2>2. k = Len(node.Links)
    BY <1>2, <1>4, <2>1
  <2>3. src = DataPart(node)
    BY <1>2, <1>3, <1>5, <2>2, TailsAt
  <2> QED BY <1>1, <1>2, <2>2, <2>3, NothingAhead
<1>6. ReadTo(t)'
  <2>1. IsPrefix(got.Links, node.Links) /\ k = Len(node.Links) /\ got.Data = node.Data
    BY <1>1, <1>3, <1>4, <1>5 DEF ReadTo
  <2> QED BY <1>1, <1>4, <2>1 DEF ReadTo
<1>7. FramingTypeOK'
  BY <1>1 DEF FramingInv, FramingTypeOK
<1> QED BY <1>1, <1>3, <1>6, <1>7 DEF FramingInv, Divided

\* Inside a link: which one it is, and what of it has been read.
LEMMA InLink ==
  ASSUME FramingInv, pc = "link"
  PROVE  \E t, l :
           LET k == Len(got.Links)
           IN /\ Tails(node.Links, t, Len(node.Links), DataPart(node))
              /\ k \in Nat /\ k < Len(node.Links) /\ l = node.Links[k + 1]
              /\ Writable(l) /\ l \in PBLink
              /\ IsPrefix(got.Links, node.Links) /\ got.Data = Unset
              /\ src = t[k + 2] /\ LinkReadTo(l)
<1>1. PICK t : Tails(node.Links, t, Len(node.Links), DataPart(node)) /\ ReadTo(t)
  BY Reading
<1>2. PICK k \in Nat : k = Len(got.Links)
  BY Reading
<1>3. PICK l : l = node.Links[k + 1]
  OBVIOUS
<1>4. /\ IsPrefix(got.Links, node.Links) /\ got.Data = Unset /\ k < Len(node.Links)
      /\ src = t[k + 2] /\ LinkReadTo(l)
  BY <1>1, <1>2, <1>3 DEF ReadTo
<1>5. Writable(l) /\ l \in PBLink
  BY <1>1, <1>2, <1>3, <1>4, Reading, TailsAt
<1> QED BY <1>1, <1>2, <1>3, <1>4, <1>5

LEMMA ReadLinkFieldKeeps ==
  ASSUME FramingInv, ReadLinkField
  PROVE  FramingInv'
<1>1. pc = "link" /\ chunk # <<>> /\ Has(chunk)
      /\ UNCHANGED <<node, pc, enc, wrote, src, got>>
  BY DEF ReadLinkField
<1>2. PICK t, l :
        LET k == Len(got.Links)
        IN /\ Tails(node.Links, t, Len(node.Links), DataPart(node))
           /\ k \in Nat /\ k < Len(node.Links) /\ l = node.Links[k + 1]
           /\ Writable(l) /\ l \in PBLink
           /\ IsPrefix(got.Links, node.Links) /\ got.Data = Unset
           /\ src = t[k + 2] /\ LinkReadTo(l)
  BY <1>1, InLink
<1>3. /\ NamePart(l) \o TsizePart(l) \in Bytes /\ TsizePart(l) \in Bytes
      /\ <<>> \in Bytes
  BY <1>2, Parts, Joined, Emptied
<1>4. /\ 8 + BytesType # 16 + BytesType /\ 8 + BytesType # 24 + VarintType
      /\ 16 + BytesType # 24 + VarintType
  BY DEF BytesType, VarintType
<1>5. LinkReadTo(l)' /\ link' \in PBLink /\ chunk' \in Bytes
  <2>1. CASE link = NewLink /\ chunk = LinkBody(l)
    <3>1. /\ Number(chunk) = 8 + BytesType
          /\ HasChunk(After(chunk)) =>
               /\ Chunk(After(chunk)) = l.Hash
               /\ AfterChunk(After(chunk)) = NamePart(l) \o TsizePart(l)
      BY <1>1, <1>2, <2>1, HashAhead
    <3>2. /\ link' = [NewLink EXCEPT !.Hash = l.Hash]
          /\ chunk' = NamePart(l) \o TsizePart(l)
      BY <1>4, <2>1, <3>1 DEF ReadLinkField
    <3>3. link' \in PBLink
      BY <1>2, <3>2 DEF PBLink, NewLink
    <3> QED BY <1>3, <3>2, <3>3 DEF LinkReadTo
  <2>2. CASE link = [NewLink EXCEPT !.Hash = l.Hash] /\ chunk = NamePart(l) \o TsizePart(l)
             /\ l.Name # Unset
    <3>1. /\ Number(chunk) = 16 + BytesType
          /\ HasChunk(After(chunk)) =>
               Chunk(After(chunk)) = l.Name /\ AfterChunk(After(chunk)) = TsizePart(l)
      BY <1>1, <1>2, <2>2, NameAhead
    <3>2. link' = [link EXCEPT !.Name = l.Name] /\ chunk' = TsizePart(l)
      BY <1>4, <3>1 DEF ReadLinkField
    <3>3. /\ link' \in PBLink
          /\ link'.Hash = l.Hash /\ link'.Name = l.Name /\ link'.Tsize = Unset
      <4>1. link \in PBLink /\ link.Hash = l.Hash /\ link.Tsize = Unset
        BY <1>2, <2>2 DEF PBLink, NewLink
      <4>2. l.Name \in Names \cup {Unset}
        BY <1>2 DEF PBLink
      <4> QED BY <3>2, <4>1, <4>2 DEF PBLink
    <3>4. link' = [l EXCEPT !.Tsize = Unset]
      BY <1>2, <3>3 DEF PBLink
    <3> QED BY <1>3, <3>2, <3>3, <3>4 DEF LinkReadTo
  <2>3. CASE link = [l EXCEPT !.Tsize = Unset] /\ chunk = TsizePart(l)
    <3>1. l.Tsize # Unset
      BY <1>1, <2>3 DEF TsizePart
    <3>2. /\ Number(chunk) = 24 + VarintType
          /\ Has(After(chunk)) =>
               Number(After(chunk)) = l.Tsize /\ After(After(chunk)) = <<>>
      BY <1>1, <1>2, <2>3, <3>1, TsizeAhead
    <3>3. link' = [link EXCEPT !.Tsize = l.Tsize] /\ chunk' = <<>>
      BY <1>4, <3>2 DEF ReadLinkField
    <3>4. link' = l
      BY <1>2, <2>3, <3>3 DEF PBLink
    <3> QED BY <1>2, <1>3, <3>3, <3>4 DEF LinkReadTo
  <2>4. ASSUME link = [NewLink EXCEPT !.Hash = l.Hash], chunk = NamePart(l) \o TsizePart(l),
               l.Name = Unset
        PROVE  link = [l EXCEPT !.Tsize = Unset] /\ chunk = TsizePart(l)
    <3>1. chunk = TsizePart(l)
      BY <1>3, <2>4, Emptied DEF NamePart
    <3>2. link = [l EXCEPT !.Tsize = Unset]
      BY <1>2, <2>4 DEF PBLink, NewLink
    <3> QED BY <3>1, <3>2
  <2> QED BY <1>1, <1>2, <2>1, <2>2, <2>3, <2>4 DEF LinkReadTo
<1>6. FramingTypeOK'
  BY <1>1, <1>5 DEF FramingInv, FramingTypeOK
<1>7. ReadTo(t)'
  BY <1>1, <1>2, <1>5 DEF ReadTo, LinkReadTo
<1> QED BY <1>1, <1>2, <1>6, <1>7 DEF FramingInv, Divided

LEMMA EndOfLinkKeeps ==
  ASSUME FramingInv, EndOfLink
  PROVE  FramingInv'
<1>1. /\ pc = "link" /\ chunk = <<>> /\ link.Hash # Unset /\ pc' = "read"
      /\ got' = [got EXCEPT !.Links = Append(got.Links, link)]
      /\ UNCHANGED <<node, enc, wrote, src, chunk, link>>
  BY DEF EndOfLink
<1>2. PICK t, l :
        LET k == Len(got.Links)
        IN /\ Tails(node.Links, t, Len(node.Links), DataPart(node))
           /\ k \in Nat /\ k < Len(node.Links) /\ l = node.Links[k + 1]
           /\ Writable(l) /\ l \in PBLink
           /\ IsPrefix(got.Links, node.Links) /\ got.Data = Unset
           /\ src = t[k + 2] /\ LinkReadTo(l)
  BY <1>1, InLink
<1>3. link = l
  <2>1. link # NewLink
    BY <1>1 DEF NewLink
  <2>2. ASSUME link = [NewLink EXCEPT !.Hash = l.Hash], chunk = NamePart(l) \o TsizePart(l)
        PROVE  link = l
    <3>1. l.Name = Unset /\ l.Tsize = Unset
      <4>1. Writable(l) /\ NamePart(l) \o TsizePart(l) = <<>>
        BY <1>1, <1>2, <2>2
      <4> QED BY <4>1, NothingAhead, Zenon
    <3> QED BY <1>2, <2>2, <3>1 DEF PBLink, NewLink
  <2>3. ASSUME link = [l EXCEPT !.Tsize = Unset], chunk = TsizePart(l)
        PROVE  link = l
    <3>1. l.Tsize = Unset
      <4>1. Writable(l) /\ TsizePart(l) = <<>>
        BY <1>1, <1>2, <2>3
      <4> QED BY <4>1, NothingAhead, Zenon
    <3> QED BY <1>2, <2>3, <3>1 DEF PBLink
  <2> QED BY <1>2, <2>1, <2>2, <2>3 DEF LinkReadTo
<1>4. PICK k \in Nat : k = Len(got.Links)
  BY <1>2
<1>5. /\ got \in PBNode /\ node \in PBNode
      /\ got.Links \in Seq(PBLink) /\ node.Links \in Seq(PBLink) /\ Len(node.Links) \in Nat
  BY LinksWritable DEF FramingInv, FramingTypeOK, PBNode
<1>6. /\ got'.Links = Append(got.Links, l) /\ got'.Data = Unset
      /\ got' \in PBNode
  <2>1. Append(got.Links, l) \in Seq(PBLink)
    BY <1>2, <1>5
  <2> QED BY <1>1, <1>2, <1>3, <1>5, <2>1 DEF PBNode
<1>7. PICK g : g = Append(got.Links, l)
  OBVIOUS
<1>8. /\ g \in Seq(PBLink) /\ Len(g) = k + 1
      /\ \A i \in 1..k : g[i] = got.Links[i]
      /\ g[k + 1] = l
  BY <1>2, <1>4, <1>5, <1>7, AppendProperties
<1>9. IsPrefix(g, node.Links)
  <2>1. \A i \in 1..k : got.Links[i] = node.Links[i]
    BY <1>2, <1>4, <1>5, PrefixIs
  <2>2. Len(g) <= Len(node.Links)
    BY <1>2, <1>4, <1>5, <1>8
  <2>3. \A i \in 1..Len(g) : g[i] = node.Links[i]
    <3> SUFFICES ASSUME NEW i \in 1..(k + 1) PROVE g[i] = node.Links[i]
      BY <1>8
    <3>1. i \in 1..k \/ i = k + 1
      OBVIOUS
    <3> QED BY <1>2, <1>4, <1>8, <2>1, <3>1
  <2> QED BY <1>5, <1>8, <2>2, <2>3, PrefixIs
<1>10. src' = t[Len(g) + 1]
  <2>1. (k + 1) + 1 = k + 2
    OBVIOUS
  <2> QED BY <1>1, <1>2, <1>4, <1>8, <2>1
<1>11. ReadTo(t)'
  BY <1>1, <1>6, <1>7, <1>9, <1>10 DEF ReadTo
<1>12. FramingTypeOK'
  BY <1>1, <1>6 DEF FramingInv, FramingTypeOK
<1> QED BY <1>1, <1>2, <1>11, <1>12 DEF FramingInv, Divided

LEMMA FramingKept ==
  ASSUME FramingInv, [FramingNext]_framingVars
  PROVE  FramingInv'
<1>1. CASE UNCHANGED framingVars
  <2>1. FramingTypeOK'
    BY <1>1 DEF framingVars, FramingInv, FramingTypeOK
  <2>2. Divided'
    BY <1>1 DEF framingVars, FramingInv, Divided, ReadTo, LinkReadTo
  <2> QED BY <2>1, <2>2 DEF FramingInv
<1> QED BY <1>1, AppendLinkKeeps, AppendDataKeeps, ReadFieldKeeps, ReadLinkFieldKeeps,
           EndOfLinkKeeps, EndOfBlockKeeps DEF FramingNext

LEMMA FramingInvariant == Framing => []FramingInv
<1>1. FramingInv /\ [FramingNext]_framingVars => FramingInv'
  BY FramingKept
<1> QED BY <1>1, FramingStarts, PTL DEF Framing

\* A block reads back as the node it was written from: what has been read of it is at every
\* moment the beginning of that node, and all of it in the end, however long its strings
\* and whatever bytes they hold.
THEOREM BlockReadsBack == Framing => []ReadsBack
<1>1. ASSUME FramingInv PROVE ReadsBack
  <2>1. /\ node \in Nodes /\ node \in PBNode /\ node.Links \in Seq(PBLink)
        /\ Len(node.Links) \in Nat /\ got \in PBNode
    BY <1>1, LinksWritable DEF FramingInv, FramingTypeOK
  <2>2. CASE pc = "write"
    <3>1. got.Links = <<>> /\ Len(<<>>) = 0
      BY <1>1, <2>2 DEF FramingInv, Divided, EmptyNode
    <3>2. SubSeq(node.Links, 1, 0) = <<>>
      BY <2>1, SubSeqEmpty
    <3> QED BY <2>1, <2>2, <3>1, <3>2 DEF ReadsBack, IsPrefix
  <2>3. CASE pc # "write"
    <3>1. PICK t : ReadTo(t)
      BY <1>1, <2>3, Reading
    <3>2. IsPrefix(got.Links, node.Links)
      BY <3>1 DEF ReadTo
    <3>3. ASSUME pc = "done" PROVE got = node
      <4>1. Len(got.Links) = Len(node.Links) /\ got.Data = node.Data
        BY <3>1, <3>3 DEF ReadTo
      <4>2. got.Links = SubSeq(node.Links, 1, Len(node.Links))
        BY <3>2, <4>1 DEF IsPrefix
      <4>3. got.Links = node.Links
        BY <2>1, <4>2, SubSeqFull
      <4> QED BY <2>1, <4>1, <4>3 DEF PBNode
    <3> QED BY <3>2, <3>3 DEF ReadsBack
  <2> QED BY <2>2, <2>3
<1> QED BY <1>1, FramingInvariant, PTL
=============================================================================
