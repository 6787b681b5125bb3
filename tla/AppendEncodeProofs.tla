------------------------ MODULE AppendEncodeProofs ------------------------
(***************************************************************************)
(* The stable sort and the encoder around it: Underway is inductive, every *)
(* step is one of EncodeSpec or changes nothing the caller sees, and what  *)
(* is encoded is read back as the node it was encoded from.                *)
(***************************************************************************)
EXTENDS AppendEncode, DagPBProofs, FiniteSetTheorems, SequenceTheorems, TLAPS

-----------------------------------------------------------------------------
(* Ranks: how many of 1..n come before i when key decides and the index breaks ties, i *)
(* itself included.                                                                    *)

Before(key, j, i) == key[j] < key[i] \/ (j <= i /\ ~(key[i] < key[j]))
Upto(key, n, i) == {j \in 1..n : Before(key, j, i)}
Rank(key, n, i) == Cardinality(Upto(key, n, i))

LEMMA RankInRange ==
  ASSUME NEW n \in Nat, NEW key \in [1..n -> Nat], NEW i \in 1..n
  PROVE  IsFiniteSet(Upto(key, n, i)) /\ Rank(key, n, i) \in 1..n
<1>1. IsFiniteSet(1..n) /\ Cardinality(1..n) = n
  BY FS_Interval
<1>2. Upto(key, n, i) \in SUBSET (1..n) /\ i \in Upto(key, n, i)
  BY DEF Upto, Before
<1>3. IsFiniteSet(Upto(key, n, i)) /\ Cardinality(Upto(key, n, i)) <= Cardinality(1..n)
  BY <1>1, <1>2, FS_Subset, Zenon
<1>4. Cardinality(Upto(key, n, i)) \in Nat
  BY <1>3, FS_CardinalityType
<1>5. Cardinality(Upto(key, n, i)) # 0
  BY <1>2, <1>3, FS_EmptySet, Zenon
<1> QED BY <1>1, <1>3, <1>4, <1>5 DEF Rank

LEMMA RankOrder ==
  ASSUME NEW n \in Nat, NEW key \in [1..n -> Nat], NEW i \in 1..n, NEW k \in 1..n, i # k,
         Before(key, i, k)
  PROVE  Rank(key, n, i) < Rank(key, n, k)
<1>1. Upto(key, n, i) \in SUBSET Upto(key, n, k) /\ Upto(key, n, k) # Upto(key, n, i)
  <2>1. Upto(key, n, i) \in SUBSET Upto(key, n, k)
    BY DEF Upto, Before
  <2>2. k \in Upto(key, n, k) /\ k \notin Upto(key, n, i)
    BY DEF Upto, Before
  <2> QED BY <2>1, <2>2
<1>2. /\ IsFiniteSet(Upto(key, n, k))
      /\ Rank(key, n, i) \in 1..n /\ Rank(key, n, k) \in 1..n
  BY RankInRange, Zenon
<1>3. /\ Cardinality(Upto(key, n, i)) <= Cardinality(Upto(key, n, k))
      /\ Cardinality(Upto(key, n, k)) # Cardinality(Upto(key, n, i))
  BY <1>1, <1>2, FS_Subset, Zenon
<1> QED BY <1>2, <1>3 DEF Rank

\* Each rank is taken once, and ranks are in the order of the keys, ties in that of the
\* indices.
LEMMA Ranked ==
  ASSUME NEW n \in Nat, NEW key \in [1..n -> Nat]
  PROVE  /\ \A k \in 1..n : \E i \in 1..n : Rank(key, n, i) = k
         /\ \A i, k \in 1..n : Rank(key, n, i) = Rank(key, n, k) => i = k
         /\ \A i, k \in 1..n : Rank(key, n, i) < Rank(key, n, k) => i # k /\ Before(key, i, k)
<1>1. \A i \in 1..n : Rank(key, n, i) \in 1..n
  BY RankInRange, Zenon
<1>2. ASSUME NEW i \in 1..n, NEW k \in 1..n, i # k
      PROVE  \/ Rank(key, n, i) < Rank(key, n, k) /\ Before(key, i, k)
             \/ Rank(key, n, k) < Rank(key, n, i)
  <2>1. Before(key, i, k) \/ Before(key, k, i)
    BY <1>2 DEF Before
  <2>2. CASE Before(key, i, k)
    BY <1>2, <2>2, RankOrder, Zenon
  <2>3. CASE Before(key, k, i)
    BY <1>2, <2>3, RankOrder, Zenon
  <2> QED BY <2>1, <2>2, <2>3
<1>3. \A i, k \in 1..n : Rank(key, n, i) = Rank(key, n, k) => i = k
  <2> SUFFICES ASSUME NEW i \in 1..n, NEW k \in 1..n, i # k
               PROVE  Rank(key, n, i) # Rank(key, n, k)
    OBVIOUS
  <2>1. Rank(key, n, i) \in 1..n /\ Rank(key, n, k) \in 1..n
    BY <1>1, Zenon
  <2> QED BY <1>2, <2>1
<1>4. \A i, k \in 1..n : Rank(key, n, i) < Rank(key, n, k) => i # k /\ Before(key, i, k)
  <2> SUFFICES ASSUME NEW i \in 1..n, NEW k \in 1..n, Rank(key, n, i) < Rank(key, n, k)
               PROVE  i # k /\ Before(key, i, k)
    OBVIOUS
  <2>1. Rank(key, n, i) \in 1..n /\ Rank(key, n, k) \in 1..n
    BY <1>1, Zenon
  <2>2. i # k
    BY <2>1
  <2> QED BY <1>2, <2>1, <2>2
<1>5. \A k \in 1..n : \E i \in 1..n : Rank(key, n, i) = k
  <2> DEFINE r == [i \in 1..n |-> Rank(key, n, i)]
  <2>1. r \in [1..n -> 1..n]
    BY <1>1
  <2>2. \A i, k \in 1..n : r[i] = r[k] => i = k
    BY <1>3
  <2>3. \A i \in 1..n : r[i] = Rank(key, n, i)
    OBVIOUS
  <2> HIDE DEF r
  <2>4. r \in Injection(1..n, 1..n)
    BY <2>1, <2>2 DEF Injection, IsInjective
  <2>5. IsFiniteSet(1..n)
    BY FS_Interval
  <2>6. r \in Surjection(1..n, 1..n)
    BY <2>4, <2>5, FS_Injection, Zenon
  <2> QED BY <2>3, <2>6 DEF Surjection
<1> QED BY <1>3, <1>4, <1>5

-----------------------------------------------------------------------------
(* sort.Stable *)

Place(l) == IF l.name = NoName THEN 0 ELSE NameRank[l.name]

\* p puts the elements of xs in order of their places and keeps the order of those that
\* have one.
Sorts(xs, p) ==
  /\ p \in [1..Len(xs) -> 1..Len(xs)]
  /\ \A i \in 1..Len(xs) : \E j \in 1..Len(xs) : p[j] = i
  /\ \A i, j \in 1..Len(xs) :
       i < j => \/ Place(xs[p[i]]) < Place(xs[p[j]])
                \/ Place(xs[p[i]]) = Place(xs[p[j]]) /\ p[i] < p[j]

\* The links are sorted by name, the absent name with the empty one, none is lost or
\* doubled, and those of one name stay in the order they were read in.
THEOREM StableSorts ==
  ASSUME NEW xs \in Seq(pbLink)
  PROVE  \E p : Sorts(xs, p) /\ Stable(xs) = [k \in 1..Len(xs) |-> xs[p[k]]]
<1> DEFINE n == Len(xs)
           key == [i \in 1..n |-> Place(xs[i])]
           Index(i) == Cardinality({j \in 1..Len(xs) :
                                      \/ pbLinkLess(xs[j], xs[i])
                                      \/ j <= i /\ ~pbLinkLess(xs[i], xs[j])})
           p == [k \in 1..Len(xs) |-> CHOOSE i \in 1..Len(xs) : Index(i) = k]
<1>1. n \in Nat /\ key \in [1..n -> Nat]
  <2>1. ASSUME NEW i \in 1..n PROVE Place(xs[i]) \in Nat
    <3>1. xs[i] \in pbLink
      OBVIOUS
    <3> QED BY <3>1, EncoderAssumption DEF pbLink, Place
  <2> QED BY <2>1
<1>2. \A i, j \in 1..n : pbLinkLess(xs[i], xs[j]) <=> key[i] < key[j]
  BY DEF pbLinkLess, Place
<1>3. ASSUME NEW i \in 1..n PROVE Index(i) = Rank(key, n, i)
  <2>1. {j \in 1..Len(xs) : \/ pbLinkLess(xs[j], xs[i])
                            \/ j <= i /\ ~pbLinkLess(xs[i], xs[j])} = Upto(key, n, i)
    BY <1>2 DEF Upto, Before
  <2> QED BY <2>1 DEF Rank
<1>4. Stable(xs) = [k \in 1..Len(xs) |-> xs[p[k]]]
  BY DEF Stable
<1> HIDE DEF key, Index
<1>5. ASSUME NEW k \in 1..n PROVE p[k] \in 1..n /\ Rank(key, n, p[k]) = k
  <2>1. PICK i \in 1..n : Rank(key, n, i) = k
    BY <1>1, Ranked, Zenon
  <2>2. Index(i) = k
    BY <1>3, <2>1
  <2>3. p[k] \in 1..n /\ Index(p[k]) = k
    BY <2>2
  <2> QED BY <1>3, <2>3
<1> HIDE DEF p
<1>6. p \in [1..n -> 1..n]
  <2>1. p = [k \in 1..n |-> p[k]]
    BY DEF p
  <2> QED BY <1>5, <2>1
<1>7. ASSUME NEW i \in 1..n PROVE \E j \in 1..n : p[j] = i
  <2>1. Rank(key, n, i) \in 1..n
    BY <1>1, RankInRange, Zenon
  <2>2. Rank(key, n, p[Rank(key, n, i)]) = Rank(key, n, i) /\ p[Rank(key, n, i)] \in 1..n
    BY <1>5, <2>1, Zenon
  <2>3. p[Rank(key, n, i)] = i
    BY <1>1, <2>2, Ranked, Zenon
  <2> QED BY <2>1, <2>3
<1>8. ASSUME NEW i \in 1..n, NEW j \in 1..n, i < j
      PROVE  \/ Place(xs[p[i]]) < Place(xs[p[j]])
             \/ Place(xs[p[i]]) = Place(xs[p[j]]) /\ p[i] < p[j]
  <2>1. p[i] \in 1..n /\ p[j] \in 1..n
    BY <1>5
  <2>2. Rank(key, n, p[i]) < Rank(key, n, p[j])
    BY <1>5, <1>8
  <2>3. p[i] # p[j] /\ Before(key, p[i], p[j])
    BY <1>1, <2>1, <2>2, Ranked, Zenon
  <2>4. key[p[i]] = Place(xs[p[i]]) /\ key[p[j]] = Place(xs[p[j]])
    BY <2>1 DEF key
  <2>5. key[p[i]] \in Nat /\ key[p[j]] \in Nat
    BY <1>1, <2>1
  <2> QED BY <1>1, <2>1, <2>3, <2>4, <2>5 DEF Before
<1>9. Sorts(xs, p)
  BY <1>6, <1>7, <1>8 DEF Sorts
<1> QED BY <1>4, <1>9

-----------------------------------------------------------------------------
(* Values and their encodings *)

LEMMA IsSequence ==
  ASSUME NEW S, NEW n \in Nat, NEW f \in [1..n -> S]
  PROVE  f \in Seq(S) /\ Len(f) = n
BY SeqDef

LEMMA CollectedTyped ==
  ASSUME NEW l \in PBLink, Readable(l)
  PROVE  Collected(l) \in pbLink
<1>1. l.Tsize # Unset => l.Tsize \in 0..MaxUint64
  BY WireAssumption DEF PBLink, Readable, Int64, MaxUint64
<1>2. 0 \in 0..MaxUint64
  BY WireAssumption DEF MaxUint64
<1>3. l.Hash \in CidLinks /\ l.Name \in Names \cup {Unset}
  BY DEF Readable, PBLink
<1> QED BY <1>1, <1>2, <1>3 DEF Collected, pbLink, NoName

\* What is written of the struct is what the schema's link has.
LEMMA CollectedWrites ==
  ASSUME NEW l
  PROVE  LinkBytes(Collected(l)) = Service!LinkMessage(l)
<1>1. EncHash(BytesOf[Collected(l).hash]) = Service!EncHash(BytesOf[l.Hash])
  BY DEF Collected, EncHash, Service!EncHash, LinkFieldOf, Service!LinkFieldOf, BytesType,
         Service!BytesType
<1>2. (IF Collected(l).hasName THEN <<EncName(Collected(l).name)>> ELSE <<>>) =
      (IF l.Name = Unset THEN <<>> ELSE <<Service!EncName(l.Name)>>)
  BY DEF Collected, EncName, Service!EncName, LinkFieldOf, Service!LinkFieldOf, BytesType,
         Service!BytesType
<1>3. (IF Collected(l).hasTsize THEN <<EncTsize(Collected(l).tsize)>> ELSE <<>>) =
      (IF l.Tsize = Unset THEN <<>> ELSE <<Service!EncTsize(l.Tsize)>>)
  BY DEF Collected, EncTsize, Service!EncTsize, LinkFieldOf, Service!LinkFieldOf,
         VarintType, Service!VarintType
<1> QED BY <1>1, <1>2, <1>3, Zenon DEF LinkBytes, Service!LinkMessage

LEMMA CollectedPlace ==
  ASSUME NEW l
  PROVE  Place(Collected(l)) = Service!Rank(l)
BY DEF Place, Collected, Service!Rank, NoName

LEMMA EncodedTyped ==
  /\ \A r \in RawHashes : EncHash(r) \in LinkField
  /\ \A s \in Names : EncName(s) \in LinkField
  /\ \A v \in 0..MaxUint64 : EncTsize(v) \in LinkField
  /\ \A c \in Chunks : EncData(c) \in NodeField
  /\ \A fs \in Seq(LinkField) : EncLink(fs) \in NodeField
<1>1. 0 \in 0..MaxUint64
  BY WireAssumption DEF MaxUint64
<1>2. \A r \in RawHashes : EncHash(r) \in LinkField
  BY <1>1, WireAssumption DEF EncHash, LinkFieldOf, LinkField
<1>3. \A s \in Names : EncName(s) \in LinkField
  BY <1>1, ValuesAssumption DEF EncName, LinkFieldOf, LinkField
<1>4. \A v \in 0..MaxUint64 : EncTsize(v) \in LinkField
  BY DEF EncTsize, LinkFieldOf, LinkField, BytesType, VarintType
<1>5. \A c \in Chunks : EncData(c) \in NodeField
  <2>1. <<>> \in Seq(LinkField)
    OBVIOUS
  <2> QED BY <2>1, ValuesAssumption DEF EncData, NodeFieldOf, NodeField
<1>6. \A fs \in Seq(LinkField) : EncLink(fs) \in NodeField
  BY DEF EncLink, NodeFieldOf, NodeField
<1> QED BY <1>2, <1>3, <1>4, <1>5, <1>6

LEMMA LinkBytesTyped ==
  ASSUME NEW l \in PBLink, Readable(l)
  PROVE  LinkBytes(Collected(l)) \in Seq(LinkField)
<1> DEFINE r == BytesOf[Collected(l).hash]
           s == IF Collected(l).hasName THEN <<EncName(Collected(l).name)>> ELSE <<>>
           t == IF Collected(l).hasTsize THEN <<EncTsize(Collected(l).tsize)>> ELSE <<>>
<1>1. r \in RawHashes
  BY EncoderAssumption DEF Collected, Readable
<1>2. Collected(l).hasName => Collected(l).name \in Names
  BY DEF Collected, PBLink
<1>3. Collected(l).hasTsize => Collected(l).tsize \in 0..MaxUint64
  <2>1. Collected(l).tsize \in 0..MaxUint64
    BY CollectedTyped DEF pbLink
  <2> QED BY <2>1
<1>4. <<EncHash(r)>> \in Seq(LinkField) /\ s \in Seq(LinkField) /\ t \in Seq(LinkField)
  BY <1>1, <1>2, <1>3, EncodedTyped
<1>5. LinkBytes(Collected(l)) = <<EncHash(r)>> \o s \o t
  BY Zenon DEF LinkBytes
<1> HIDE DEF r, s, t
<1>6. <<EncHash(r)>> \o s \in Seq(LinkField)
  BY <1>4, ConcatProperties
<1>7. (<<EncHash(r)>> \o s) \o t \in Seq(LinkField)
  BY <1>4, <1>6, ConcatProperties
<1> QED BY <1>5, <1>7

LEMMA SentTyped ==
  ASSUME NEW l \in PBLink, Readable(l)
  PROVE  /\ Sent(l) \in NodeField
         /\ Sent(l) = EncLink(LinkBytes(Collected(l)))
         /\ Sent(l) = Service!EncLink(Service!LinkMessage(l))
<1>1. LinkBytes(Collected(l)) = Service!LinkMessage(l)
  BY CollectedWrites
<1>2. Sent(l) = EncLink(LinkBytes(Collected(l)))
  BY <1>1 DEF Sent
<1>3. Sent(l) \in NodeField
  BY <1>2, LinkBytesTyped, EncodedTyped
<1>4. EncLink(Service!LinkMessage(l)) = Service!EncLink(Service!LinkMessage(l))
  BY DEF EncLink, Service!EncLink, NodeFieldOf, Service!NodeFieldOf, BytesType,
         Service!BytesType
<1> QED BY <1>2, <1>3, <1>4 DEF Sent

LEMMA Filled ==
  ASSUME NEW l \in PBLink, Readable(l)
  PROVE  Fill(ZeroLink, l) = Collected(l)
<1> DEFINE e == Fill(ZeroLink, l)
<1>1. Collected(l) \in pbLink
  BY CollectedTyped
<1>2. 0 \in 0..MaxUint64
  BY WireAssumption DEF MaxUint64
<1>3. ZeroLink \in pbLink
  BY <1>2 DEF ZeroLink, pbLink, NoName
<1>4. /\ l.Hash \in CidLinks /\ l.Name \in Names \cup {NoName}
      /\ l.Tsize # Unset => l.Tsize \in 0..MaxUint64
  BY WireAssumption DEF Readable, PBLink, NoName, Int64, MaxUint64
<1>5. e \in pbLink
  BY <1>3, <1>4 DEF pbLink, Fill
<1>6. /\ e.hash = l.Hash /\ e.name = l.Name /\ e.hasName = (l.Name # Unset)
      /\ e.tsize = (IF l.Tsize = Unset THEN 0 ELSE l.Tsize)
      /\ e.hasTsize = (l.Tsize # Unset)
  BY <1>3 DEF pbLink, ZeroLink, Fill
<1> HIDE DEF e
<1>7. e = [hash |-> e.hash, name |-> e.name, hasName |-> e.hasName, tsize |-> e.tsize,
           hasTsize |-> e.hasTsize]
  BY <1>5 DEF pbLink
<1>8. e = Collected(l)
  BY <1>6, <1>7 DEF Collected
<1> QED BY <1>8 DEF e

-----------------------------------------------------------------------------
(* What is in the buffer behind the prefix after k links *)

Batch(xs, p, k) == [i \in 1..k |-> Sent(xs[p[i]])]

LEMMA BatchTyped ==
  ASSUME NEW xs \in Seq(PBLink), \A i \in 1..Len(xs) : Readable(xs[i]),
         NEW p \in [1..Len(xs) -> 1..Len(xs)], NEW k \in 0..Len(xs)
  PROVE  Batch(xs, p, k) \in Seq(NodeField) /\ Len(Batch(xs, p, k)) = k
<1>1. ASSUME NEW i \in 1..k PROVE Sent(xs[p[i]]) \in NodeField
  <2>1. xs[p[i]] \in PBLink /\ Readable(xs[p[i]])
    OBVIOUS
  <2> QED BY <2>1, SentTyped
<1>2. Batch(xs, p, k) \in [1..k -> NodeField]
  BY <1>1 DEF Batch
<1> QED BY <1>2, IsSequence

LEMMA BatchGrows ==
  ASSUME NEW xs \in Seq(PBLink), \A i \in 1..Len(xs) : Readable(xs[i]),
         NEW p \in [1..Len(xs) -> 1..Len(xs)], NEW k \in 0..Len(xs), k + 1 <= Len(xs),
         NEW s \in Seq(NodeField)
  PROVE  Append(s \o Batch(xs, p, k), Sent(xs[p[k + 1]])) = s \o Batch(xs, p, k + 1)
<1> DEFINE b == Batch(xs, p, k)
           c == Batch(xs, p, k + 1)
           f == Sent(xs[p[k + 1]])
<1>1. b \in Seq(NodeField) /\ Len(b) = k
  BY BatchTyped, Zenon
<1>2. c \in Seq(NodeField) /\ Len(c) = k + 1
  BY BatchTyped
<1>3. c[k + 1] = f /\ \A i \in 1..k : c[i] = b[i]
  BY DEF Batch
<1>4. f \in NodeField
  BY <1>2, <1>3
<1> HIDE DEF b, c, f
<1>0. Len(s) \in Nat /\ k \in Nat
  OBVIOUS
<1>5. s \o b \in Seq(NodeField) /\ Len(s \o b) = Len(s) + k
  BY <1>1, ConcatProperties
<1>6. s \o c \in Seq(NodeField) /\ Len(s \o c) = Len(s) + k + 1
  <2>1. c \in Seq(NodeField)
    BY <1>2
  <2>2. s \o c \in Seq(NodeField) /\ Len(s \o c) = Len(s) + Len(c)
    BY <2>1, ConcatProperties
  <2> QED BY <1>0, <1>2, <2>2
<1>7. /\ Append(s \o b, f) \in Seq(NodeField) /\ Len(Append(s \o b, f)) = Len(s) + k + 1
      /\ Append(s \o b, f)[Len(s) + k + 1] = f
      /\ \A i \in 1..Len(s) + k : Append(s \o b, f)[i] = (s \o b)[i]
  BY <1>4, <1>5, AppendProperties
<1>8. \A i \in 1..Len(s) + k + 1 : Append(s \o b, f)[i] = (s \o c)[i]
  <2> SUFFICES ASSUME NEW i \in 1..Len(s) + k + 1 PROVE Append(s \o b, f)[i] = (s \o c)[i]
    OBVIOUS
  <2>1. (s \o c)[i] = IF i <= Len(s) THEN s[i] ELSE c[i - Len(s)]
    BY <1>2, ConcatProperties
  <2>2. CASE i = Len(s) + k + 1
    BY <1>1, <1>3, <1>7, <2>1, <2>2
  <2>3. CASE i \in 1..Len(s) + k
    <3>1. (s \o b)[i] = IF i <= Len(s) THEN s[i] ELSE b[i - Len(s)]
      BY <1>1, <2>3, ConcatProperties
    <3>2. Append(s \o b, f)[i] = (s \o b)[i]
      BY <1>7, <2>3
    <3>3. CASE i <= Len(s)
      BY <2>1, <3>1, <3>2, <3>3
    <3>4. CASE ~(i <= Len(s))
      <4>1. i - Len(s) \in 1..k
        BY <1>0, <2>3, <3>4
      <4>2. c[i - Len(s)] = b[i - Len(s)]
        BY <1>3, <4>1
      <4> QED BY <2>1, <3>1, <3>2, <3>4, <4>2
    <3> QED BY <3>3, <3>4
  <2>4. i = Len(s) + k + 1 \/ i \in 1..Len(s) + k
    BY <1>0
  <2> QED BY <2>2, <2>3, <2>4, Zenon
<1>9. Append(s \o b, f) = s \o c
  BY <1>6, <1>7, <1>8, SeqEqual
<1> QED BY <1>9 DEF b, c, f

LEMMA NoBatch ==
  ASSUME NEW s \in Seq(NodeField), NEW xs, NEW p
  PROVE  s \o Batch(xs, p, 0) = s
<1>1. Batch(xs, p, 0) = <<>>
  BY DEF Batch
<1> QED BY <1>1, ConcatEmptySeq

\* An order of the copies is one of the links themselves.
LEMMA SortsOrders ==
  ASSUME NEW xs \in Seq(PBLink), NEW ls, Len(ls) = Len(xs),
         \A i \in 1..Len(xs) : ls[i] = Collected(xs[i]), NEW p, Sorts(ls, p)
  PROVE  p \in Service!Orders(xs)
<1>1. p \in [1..Len(xs) -> 1..Len(xs)] /\ \A i \in 1..Len(xs) : \E j \in 1..Len(xs) : p[j] = i
  BY DEF Sorts
<1>2. ASSUME NEW i \in 1..Len(xs) PROVE Place(ls[p[i]]) = Service!Rank(xs[p[i]])
  <2>1. p[i] \in 1..Len(xs) /\ ls[p[i]] = Collected(xs[p[i]])
    BY <1>1
  <2> QED BY <2>1, CollectedPlace
<1>3. \A i, j \in 1..Len(xs) :
        i < j => \/ Service!Rank(xs[p[i]]) < Service!Rank(xs[p[j]])
                 \/ Service!Rank(xs[p[i]]) = Service!Rank(xs[p[j]]) /\ p[i] < p[j]
  <2> SUFFICES ASSUME NEW i \in 1..Len(xs), NEW j \in 1..Len(xs), i < j
               PROVE  \/ Service!Rank(xs[p[i]]) < Service!Rank(xs[p[j]])
                      \/ Service!Rank(xs[p[i]]) = Service!Rank(xs[p[j]]) /\ p[i] < p[j]
    OBVIOUS
  <2>1. \/ Place(ls[p[i]]) < Place(ls[p[j]])
        \/ Place(ls[p[i]]) = Place(ls[p[j]]) /\ p[i] < p[j]
    BY DEF Sorts
  <2> QED BY <1>2, <2>1
<1> QED BY <1>1, <1>3 DEF Service!Orders, Service!StableOrder

\* The message of a node whose links have all been written.
LEMMA Message ==
  ASSUME NEW n \in PBNode, Service!Encodable(n), NEW p \in Service!Orders(n.Links)
  PROVE  Batch(n.Links, p, Len(n.Links))
           \o (IF n.Data = Unset THEN <<>> ELSE <<EncData(n.Data)>>) \in Service!Encodings(n)
<1>1. n.Links \in Seq(PBLink) /\ p \in [1..Len(n.Links) -> 1..Len(n.Links)]
  BY DEF PBNode, Service!Orders
<1>2. ASSUME NEW i \in 1..Len(n.Links)
      PROVE  Sent(n.Links[p[i]]) = Service!EncLink(Service!LinkMessage(n.Links[p[i]]))
  <2>1. n.Links[p[i]] \in PBLink /\ Readable(n.Links[p[i]])
    BY <1>1 DEF Service!Encodable, Readable
  <2> QED BY <2>1, SentTyped
<1>3. Batch(n.Links, p, Len(n.Links)) =
        [i \in 1..Len(n.Links) |-> Service!EncLink(Service!LinkMessage(n.Links[p[i]]))]
  BY <1>2 DEF Batch
<1>4. EncData(n.Data) = Service!EncData(n.Data)
  BY DEF EncData, Service!EncData, NodeFieldOf, Service!NodeFieldOf, BytesType,
         Service!BytesType
<1> QED BY <1>3, <1>4, Zenon DEF Service!Encodings

-----------------------------------------------------------------------------
(* Read back: an encoding is DAG-PB, and denotes the node that was encoded. *)

\* The decoder makes of the bytes of the CID the link they came from.
CidReadsBack(l) == CidOf[BytesOf[l.Hash]] = l.Hash

\* One field more, behind those before it, says what it says and changes nothing else.
LEMMA FieldReadBack ==
  ASSUME NEW fs \in Seq(LinkField), NEW f \in LinkField, LinkFramed(fs), WellFormed(f),
         \A i \in 1..Len(fs) : fs[i].num < f.num
  PROVE  LET m == LinkMeaning(fs)
             n == LinkMeaning(fs \o <<f>>)
         IN /\ fs \o <<f>> \in Seq(LinkField) /\ LinkFramed(fs \o <<f>>)
            /\ \A i \in 1..Len(fs \o <<f>>) : (fs \o <<f>>)[i].num <= f.num
            /\ \A num : Has(fs \o <<f>>, num) <=> Has(fs, num) \/ f.num = num
            /\ n.Hash = IF f.num = 1 THEN CidOf[f.raw] ELSE m.Hash
            /\ n.Name = IF f.num = 2 THEN f.name ELSE m.Name
            /\ n.Tsize = IF f.num = 3 THEN TsizeOf[f.varint] ELSE m.Tsize
<1>1. fs \o <<f>> = Append(fs, f)
  BY AppendIsConcat
<1>2. LinkFramed(Append(fs, f))
  BY LinkFramedGrows
<1>3. Append(fs, f) \in Seq(LinkField)
  BY AppendProperties
<1>4. \A num : Has(Append(fs, f), num) <=> Has(fs, num) \/ f.num = num
  BY HasGrows
<1>5. \A i \in 1..Len(Append(fs, f)) : Append(fs, f)[i].num <= f.num
  <2>1. /\ Len(Append(fs, f)) = Len(fs) + 1 /\ Append(fs, f)[Len(fs) + 1] = f /\ Len(fs) \in Nat
        /\ \A i \in 1..Len(fs) : Append(fs, f)[i] = fs[i]
    BY Appended1
  <2>2. f.num \in 0..4 /\ \A i \in 1..Len(fs) : fs[i].num \in 0..4
    BY DEF LinkField
  <2> SUFFICES ASSUME NEW i \in 1..Len(Append(fs, f)) PROVE Append(fs, f)[i].num <= f.num
    OBVIOUS
  <2>3. i = Len(fs) + 1 \/ i \in 1..Len(fs)
    BY <2>1
  <2> QED BY <2>1, <2>2, <2>3
<1> QED BY <1>1, <1>2, <1>3, <1>4, <1>5, LinkMeaningGrows

LEMMA FieldsWellFormed ==
  ASSUME NEW l \in PBLink, Readable(l), CidReadsBack(l)
  PROVE  LET h == EncHash(BytesOf[l.Hash])
             s == EncName(l.Name)
             t == EncTsize(l.Tsize)
         IN /\ h \in LinkField /\ WellFormed(h) /\ h.num = 1 /\ CidOf[h.raw] = l.Hash
            /\ l.Name # Unset =>
                 s \in LinkField /\ WellFormed(s) /\ s.num = 2 /\ s.name = l.Name
            /\ l.Tsize # Unset =>
                 t \in LinkField /\ WellFormed(t) /\ t.num = 3 /\ TsizeOf[t.varint] = l.Tsize
<1>1. l.Hash \in Hashes /\ BytesOf[l.Hash] \in RawHashes /\ CidOf[BytesOf[l.Hash]] # BadCid
  BY EncoderAssumption, WireAssumption DEF Readable, CidReadsBack
<1>2. EncHash(BytesOf[l.Hash]) \in LinkField /\ WellFormed(EncHash(BytesOf[l.Hash]))
  BY <1>1, EncodedTyped DEF EncHash, LinkFieldOf, WellFormed
<1>3. ASSUME l.Name # Unset
      PROVE  EncName(l.Name) \in LinkField /\ WellFormed(EncName(l.Name))
  <2>1. l.Name \in Names
    BY <1>3 DEF PBLink
  <2> QED BY <2>1, EncodedTyped DEF EncName, LinkFieldOf, WellFormed
<1>4. ASSUME l.Tsize # Unset
      PROVE  /\ EncTsize(l.Tsize) \in LinkField /\ WellFormed(EncTsize(l.Tsize))
             /\ TsizeOf[l.Tsize] = l.Tsize
  <2>1. l.Tsize \in 0..MaxInt64 /\ MaxInt64 \in Nat
    BY <1>4, WireAssumption DEF PBLink, Readable, Int64
  <2>2. l.Tsize \in 0..MaxUint64 /\ l.Tsize <= MaxInt64
    BY <2>1 DEF MaxUint64
  <2>3. TsizeOf[l.Tsize] = l.Tsize
    BY <2>2 DEF TsizeOf
  <2>4. EncTsize(l.Tsize) \in LinkField
    BY <2>2, EncodedTyped
  <2> QED BY <2>3, <2>4 DEF EncTsize, LinkFieldOf, WellFormed
<1> QED BY <1>1, <1>2, <1>3, <1>4 DEF EncHash, EncName, EncTsize, LinkFieldOf, CidReadsBack

LEMMA LinkReadBack ==
  ASSUME NEW l \in PBLink, Readable(l), CidReadsBack(l)
  PROVE  LET fs == Service!LinkMessage(l)
         IN fs \in Seq(LinkField) /\ IsLink(fs) /\ LinkMeaning(fs) = l
<1> DEFINE h == EncHash(BytesOf[l.Hash])
           s == EncName(l.Name)
           t == EncTsize(l.Tsize)
           hs == <<h>> \o (IF l.Name = Unset THEN <<>> ELSE <<s>>)
           hst == hs \o (IF l.Tsize = Unset THEN <<>> ELSE <<t>>)
<1>1. Service!LinkMessage(l) = hst
  <2>1. h = Service!EncHash(BytesOf[l.Hash])
    BY DEF EncHash, Service!EncHash, LinkFieldOf, Service!LinkFieldOf, BytesType, Service!BytesType
  <2>2. s = Service!EncName(l.Name)
    BY DEF EncName, Service!EncName, LinkFieldOf, Service!LinkFieldOf, BytesType, Service!BytesType
  <2>3. t = Service!EncTsize(l.Tsize)
    BY DEF EncTsize, Service!EncTsize, LinkFieldOf, Service!LinkFieldOf, VarintType,
           Service!VarintType
  <2> QED BY <2>1, <2>2, <2>3, Zenon DEF Service!LinkMessage
<1>2. /\ h \in LinkField /\ WellFormed(h) /\ h.num = 1 /\ CidOf[h.raw] = l.Hash
      /\ l.Name # Unset => s \in LinkField /\ WellFormed(s) /\ s.num = 2 /\ s.name = l.Name
      /\ l.Tsize # Unset =>
           t \in LinkField /\ WellFormed(t) /\ t.num = 3 /\ TsizeOf[t.varint] = l.Tsize
  BY FieldsWellFormed
<1> HIDE DEF h, s, t
<1>3. /\ <<h>> \in Seq(LinkField) /\ LinkFramed(<<h>>) /\ Has(<<h>>, 1)
      /\ \A i \in 1..Len(<<h>>) : <<h>>[i].num <= 1
      /\ LinkMeaning(<<h>>).Hash = l.Hash
      /\ LinkMeaning(<<h>>).Name = Unset /\ LinkMeaning(<<h>>).Tsize = Unset
  <2>1. <<>> \in Seq(LinkField) /\ Len(<<>>) = 0 /\ <<>> \o <<h>> = <<h>>
    BY <1>2
  <2>2. /\ LinkMeaning(<<>>).Hash = Unset /\ LinkMeaning(<<>>).Name = Unset
        /\ LinkMeaning(<<>>).Tsize = Unset /\ LinkFramed(<<>>)
    BY EmptyLink DEF NewLink
  <2>3. /\ <<>> \o <<h>> \in Seq(LinkField) /\ LinkFramed(<<>> \o <<h>>)
        /\ \A i \in 1..Len(<<>> \o <<h>>) : (<<>> \o <<h>>)[i].num <= h.num
        /\ \A num : Has(<<>> \o <<h>>, num) <=> Has(<<>>, num) \/ h.num = num
        /\ LinkMeaning(<<>> \o <<h>>).Hash
             = IF h.num = 1 THEN CidOf[h.raw] ELSE LinkMeaning(<<>>).Hash
        /\ LinkMeaning(<<>> \o <<h>>).Name = IF h.num = 2 THEN h.name ELSE LinkMeaning(<<>>).Name
        /\ LinkMeaning(<<>> \o <<h>>).Tsize
             = IF h.num = 3 THEN TsizeOf[h.varint] ELSE LinkMeaning(<<>>).Tsize
    <3>1. \A i \in 1..Len(<<>>) : <<>>[i].num < h.num
      BY <2>1
    <3>2. LinkFramed(<<>>)
      BY <2>2
    <3> QED BY <1>2, <2>1, <3>1, <3>2, FieldReadBack
  <2> QED BY <1>2, <2>1, <2>2, <2>3
<1>4. /\ hs \in Seq(LinkField) /\ LinkFramed(hs) /\ Has(hs, 1)
      /\ \A i \in 1..Len(hs) : hs[i].num <= 2
      /\ LinkMeaning(hs).Hash = l.Hash
      /\ LinkMeaning(hs).Name = l.Name /\ LinkMeaning(hs).Tsize = Unset
  <2>1. CASE l.Name = Unset
    <3>1. hs = <<h>>
      BY <1>3, <2>1, ConcatEmptySeq
    <3>2. \A i \in 1..Len(hs) : hs[i].num \in 0..4
      BY <1>3, <3>1 DEF LinkField
    <3> QED BY <1>3, <2>1, <3>1, <3>2
  <2>2. CASE l.Name # Unset
    <3>1. hs = <<h>> \o <<s>> /\ s \in LinkField /\ WellFormed(s) /\ s.num = 2 /\ s.name = l.Name
      BY <1>2, <2>2
    <3>2. \A i \in 1..Len(<<h>>) : <<h>>[i].num < s.num
      <4>1. \A i \in 1..Len(<<h>>) : <<h>>[i].num \in 0..4
        BY <1>3 DEF LinkField
      <4> QED BY <1>3, <3>1, <4>1
    <3>3. /\ <<h>> \o <<s>> \in Seq(LinkField) /\ LinkFramed(<<h>> \o <<s>>)
          /\ \A i \in 1..Len(<<h>> \o <<s>>) : (<<h>> \o <<s>>)[i].num <= s.num
          /\ \A num : Has(<<h>> \o <<s>>, num) <=> Has(<<h>>, num) \/ s.num = num
          /\ LinkMeaning(<<h>> \o <<s>>).Hash
               = IF s.num = 1 THEN CidOf[s.raw] ELSE LinkMeaning(<<h>>).Hash
          /\ LinkMeaning(<<h>> \o <<s>>).Name
               = IF s.num = 2 THEN s.name ELSE LinkMeaning(<<h>>).Name
          /\ LinkMeaning(<<h>> \o <<s>>).Tsize
               = IF s.num = 3 THEN TsizeOf[s.varint] ELSE LinkMeaning(<<h>>).Tsize
      BY <1>3, <3>1, <3>2, FieldReadBack
    <3> HIDE DEF hs
    <3> QED BY <1>3, <3>1, <3>3
  <2> QED BY <2>1, <2>2
<1> HIDE DEF hs
<1>5. /\ hst \in Seq(LinkField) /\ LinkFramed(hst) /\ Has(hst, 1)
      /\ LinkMeaning(hst).Hash = l.Hash
      /\ LinkMeaning(hst).Name = l.Name /\ LinkMeaning(hst).Tsize = l.Tsize
  <2>1. CASE l.Tsize = Unset
    <3>1. hst = hs
      BY <1>4, <2>1, ConcatEmptySeq
    <3> QED BY <1>4, <2>1, <3>1
  <2>2. CASE l.Tsize # Unset
    <3>1. hst = hs \o <<t>> /\ t \in LinkField /\ WellFormed(t) /\ t.num = 3
          /\ TsizeOf[t.varint] = l.Tsize
      BY <1>2, <2>2
    <3>2. \A i \in 1..Len(hs) : hs[i].num < t.num
      <4>1. \A i \in 1..Len(hs) : hs[i].num \in 0..4
        BY <1>4 DEF LinkField
      <4> QED BY <1>4, <3>1, <4>1
    <3>3. /\ hs \o <<t>> \in Seq(LinkField) /\ LinkFramed(hs \o <<t>>)
          /\ \A num : Has(hs \o <<t>>, num) <=> Has(hs, num) \/ t.num = num
          /\ LinkMeaning(hs \o <<t>>).Hash
               = IF t.num = 1 THEN CidOf[t.raw] ELSE LinkMeaning(hs).Hash
          /\ LinkMeaning(hs \o <<t>>).Name = IF t.num = 2 THEN t.name ELSE LinkMeaning(hs).Name
          /\ LinkMeaning(hs \o <<t>>).Tsize
               = IF t.num = 3 THEN TsizeOf[t.varint] ELSE LinkMeaning(hs).Tsize
      BY <1>4, <3>1, <3>2, FieldReadBack
    <3> HIDE DEF hst
    <3> QED BY <1>4, <3>1, <3>3
  <2> QED BY <2>1, <2>2
<1> HIDE DEF hst
<1>6. LinkMeaning(hst) = l
  BY <1>5, LinkMeaningTyped, SameLink
<1> QED BY <1>1, <1>5, <1>6 DEF IsLink

\* A node that is encoded, and what its encoding is read as: the same one with its
\* links in another order.
Ordered(n, p) == [Links |-> [i \in 1..Len(n.Links) |-> n.Links[p[i]]], Data |-> n.Data]

LEMMA LinksReadBack ==
  ASSUME NEW xs \in Seq(PBLink), \A i \in 1..Len(xs) : Readable(xs[i]) /\ CidReadsBack(xs[i]),
         NEW p \in [1..Len(xs) -> 1..Len(xs)]
  PROVE  LET b == Batch(xs, p, Len(xs))
         IN /\ b \in Seq(NodeField) /\ IsNode(b) /\ ~Has(b, 1)
            /\ NodeMeaning(b).Data = Unset
            /\ NodeMeaning(b).Links = [i \in 1..Len(xs) |-> xs[p[i]]]
<1> DEFINE n == Len(xs)
           b == Batch(xs, p, n)
<1>1. n \in 0..n /\ b \in Seq(NodeField) /\ Len(b) = n
  BY BatchTyped
<1>2. \A i \in 1..n : /\ b[i].num = 2 /\ b[i].wt = BytesType /\ b[i].short = FALSE
                      /\ IsLink(b[i].link) /\ LinkMeaning(b[i].link) = xs[p[i]]
  <2> SUFFICES ASSUME NEW i \in 1..n
               PROVE  /\ b[i].num = 2 /\ b[i].wt = BytesType /\ b[i].short = FALSE
                      /\ IsLink(b[i].link) /\ LinkMeaning(b[i].link) = xs[p[i]]
    OBVIOUS
  <2>1. xs[p[i]] \in PBLink /\ Readable(xs[p[i]]) /\ CidReadsBack(xs[p[i]])
    OBVIOUS
  <2>2. b[i] = EncLink(Service!LinkMessage(xs[p[i]]))
    BY DEF Batch, Sent
  <2>3. /\ Service!LinkMessage(xs[p[i]]) \in Seq(LinkField)
        /\ IsLink(Service!LinkMessage(xs[p[i]]))
        /\ LinkMeaning(Service!LinkMessage(xs[p[i]])) = xs[p[i]]
    BY <2>1, LinkReadBack
  <2> HIDE DEF b
  <2> QED BY <2>2, <2>3, EncLinkTyped
<1> HIDE DEF b
<1>3. Framed(b) /\ ~Has(b, 1)
  BY <1>1, <1>2 DEF Framed, Has
<1>4. IsNode(b)
  BY <1>1, <1>2, <1>3 DEF IsNode
<1>5. ~(b # <<>> /\ b[1].num = 1)
  <2>1. b # <<>> => 1 \in 1..Len(b)
    BY <1>1, EmptySeq
  <2> QED BY <1>3, <2>1 DEF Has
<1>6. /\ NodeMeaning(b).Data = Unset
      /\ NodeMeaning(b).Links = [i \in 1..(Len(b) - 0) |-> LinkMeaning(b[0 + i].link)]
  BY <1>3, <1>5 DEF NodeMeaning
<1>7. NodeMeaning(b).Links = [i \in 1..n |-> xs[p[i]]]
  <2>1. Len(b) - 0 = n /\ \A i \in 1..n : 0 + i = i
    BY <1>1
  <2> QED BY <1>2, <1>6, <2>1
<1> QED BY <1>1, <1>3, <1>4, <1>6, <1>7 DEF b

LEMMA EncodingReadBack ==
  ASSUME NEW n \in PBNode,
         \A i \in 1..Len(n.Links) : Readable(n.Links[i]) /\ CidReadsBack(n.Links[i]),
         NEW p \in [1..Len(n.Links) -> 1..Len(n.Links)]
  PROVE  LET msg == Batch(n.Links, p, Len(n.Links))
                      \o (IF n.Data = Unset THEN <<>> ELSE <<EncData(n.Data)>>)
         IN msg \in Seq(NodeField) /\ IsNode(msg) /\ NodeMeaning(msg) = Ordered(n, p)
<1> DEFINE b == Batch(n.Links, p, Len(n.Links))
           msg == b \o (IF n.Data = Unset THEN <<>> ELSE <<EncData(n.Data)>>)
           f == EncData(n.Data)
<1>1. n.Links \in Seq(PBLink) /\ n.Data \in Chunks \cup {Unset}
  BY DEF PBNode
<1>2. /\ b \in Seq(NodeField) /\ IsNode(b) /\ ~Has(b, 1)
      /\ NodeMeaning(b).Data = Unset
      /\ NodeMeaning(b).Links = [i \in 1..Len(n.Links) |-> n.Links[p[i]]]
  BY <1>1, LinksReadBack
<1> HIDE DEF b
<1>3. /\ msg \in Seq(NodeField) /\ IsNode(msg) /\ NodeMeaning(msg).Data = n.Data
      /\ NodeMeaning(msg).Links = NodeMeaning(b).Links
  <2>1. CASE n.Data = Unset
    <3>1. msg = b
      BY <1>2, <2>1, ConcatEmptySeq
    <3> QED BY <1>2, <2>1, <3>1
  <2>2. CASE n.Data # Unset
    <3>1. f \in NodeField /\ f.num = 1 /\ f.wt = BytesType /\ f.short = FALSE /\ f.chunk = n.Data
      BY <1>1, <2>2, EncodedTyped DEF EncData, NodeFieldOf
    <3> HIDE DEF f
    <3>2. msg = Append(b, f)
      <4>1. msg = b \o <<f>>
        BY <2>2 DEF f
      <4> HIDE DEF msg
      <4> QED BY <1>2, <3>1, <4>1, AppendIsConcat
    <3> HIDE DEF msg
    <3>3. Framed(Append(b, f))
      BY <1>2, <3>1, FramedGrows DEF IsNode
    <3>4. IsNode(Append(b, f))
      BY <1>2, <3>1, <3>3, NodeGrows
    <3>5. Append(b, f) \in Seq(NodeField)
      BY <1>2, <3>1, AppendProperties
    <3>6. /\ NodeMeaning(Append(b, f)).Data = f.chunk
          /\ NodeMeaning(Append(b, f)).Links = NodeMeaning(b).Links
      BY <1>2, <3>1, <3>3, DataMeaning
    <3> QED BY <3>1, <3>2, <3>4, <3>5, <3>6
  <2> QED BY <2>1, <2>2
<1> HIDE DEF msg
<1>4. NodeMeaning(msg) = Ordered(n, p)
  <2>1. NodeMeaning(msg) \in PBNode
    BY <1>3, NodeTyped
  <2> DEFINE m == NodeMeaning(msg)
  <2>2. m = [Links |-> m.Links, Data |-> m.Data]
    BY <2>1 DEF PBNode
  <2> HIDE DEF m
  <2>3. m.Links = [i \in 1..Len(n.Links) |-> n.Links[p[i]]] /\ m.Data = n.Data
    BY <1>2, <1>3 DEF m
  <2>4. m = Ordered(n, p)
    BY <2>2, <2>3 DEF Ordered
  <2> QED BY <2>4 DEF m
<1> QED BY <1>3, <1>4 DEF msg, b

\* The links of what was read are in order as they are: encoded once more they come
\* out the same.
LEMMA EncodedAgain ==
  ASSUME NEW n \in PBNode, NEW p \in Service!Orders(n.Links)
  PROVE  Batch(n.Links, p, Len(n.Links))
           \o (IF n.Data = Unset THEN <<>> ELSE <<EncData(n.Data)>>)
           \in Service!Encodings(Ordered(n, p))
<1> DEFINE xs == n.Links
           ys == [i \in 1..Len(xs) |-> xs[p[i]]]
           id == [i \in 1..Len(xs) |-> i]
<1>1. /\ xs \in Seq(PBLink) /\ Len(xs) \in Nat
      /\ p \in [1..Len(xs) -> 1..Len(xs)] /\ Service!StableOrder(xs, p)
  <2>1. xs \in Seq(PBLink)
    BY DEF PBNode
  <2> QED BY <2>1 DEF Service!Orders
<1>2. ys \in Seq(PBLink) /\ Len(ys) = Len(xs)
  <2>1. ys \in [1..Len(xs) -> PBLink]
    BY <1>1
  <2> HIDE DEF ys
  <2> QED BY <1>1, <2>1, IsSequence
<1>3. /\ id \in [1..Len(ys) -> 1..Len(ys)] /\ \A i \in 1..Len(ys) : id[i] = i
      /\ \A i \in 1..Len(ys) : ys[i] = xs[p[i]]
  BY <1>2
<1> HIDE DEF ys, id
<1>4. id \in Service!Orders(ys)
  <2>1. \A i, j \in 1..Len(xs) :
          i < j => \/ Service!Rank(xs[p[i]]) < Service!Rank(xs[p[j]])
                   \/ Service!Rank(xs[p[i]]) = Service!Rank(xs[p[j]]) /\ p[i] < p[j]
    BY <1>1 DEF Service!StableOrder
  <2>2. \A i, j \in 1..Len(ys) :
          i < j => \/ Service!Rank(ys[id[i]]) < Service!Rank(ys[id[j]])
                   \/ Service!Rank(ys[id[i]]) = Service!Rank(ys[id[j]]) /\ id[i] < id[j]
    BY <1>2, <1>3, <2>1
  <2>3. \A i \in 1..Len(ys) : \E j \in 1..Len(ys) : id[j] = i
    BY <1>3
  <2> QED BY <1>3, <2>2, <2>3 DEF Service!Orders, Service!StableOrder
<1>5. Ordered(n, p).Links = ys /\ Ordered(n, p).Data = n.Data
  BY DEF Ordered, ys
<1>6. Batch(xs, p, Len(xs)) =
        [i \in 1..Len(ys) |-> Service!EncLink(Service!LinkMessage(ys[id[i]]))]
  <2>1. \A i \in 1..Len(xs) : Sent(xs[p[i]]) = Service!EncLink(Service!LinkMessage(ys[id[i]]))
    <3> SUFFICES ASSUME NEW i \in 1..Len(xs)
                 PROVE  Sent(xs[p[i]]) = Service!EncLink(Service!LinkMessage(ys[id[i]]))
      OBVIOUS
    <3>1. ys[id[i]] = xs[p[i]]
      BY <1>2, <1>3
    <3>2. Sent(xs[p[i]]) = Service!EncLink(Service!LinkMessage(xs[p[i]]))
      BY DEF Sent, EncLink, Service!EncLink, NodeFieldOf, Service!NodeFieldOf, BytesType,
             Service!BytesType
    <3> QED BY <3>1, <3>2
  <2> QED BY <1>2, <2>1 DEF Batch
<1>7. EncData(n.Data) = Service!EncData(n.Data)
  BY DEF EncData, Service!EncData, NodeFieldOf, Service!NodeFieldOf, BytesType,
         Service!BytesType
<1> QED BY <1>4, <1>5, <1>6, <1>7, Zenon DEF Service!Encodings

\* The encodings EncodeSpec allows, as the loops build them.
LEMMA EncodingsAre ==
  ASSUME NEW n \in PBNode, NEW msg \in Service!Encodings(n)
  PROVE  \E p \in Service!Orders(n.Links) :
           msg = Batch(n.Links, p, Len(n.Links))
                   \o (IF n.Data = Unset THEN <<>> ELSE <<EncData(n.Data)>>)
<1>1. PICK p \in Service!Orders(n.Links) :
        msg = [i \in 1..Len(n.Links) |-> Service!EncLink(Service!LinkMessage(n.Links[p[i]]))]
                \o (IF n.Data = Unset THEN <<>> ELSE <<Service!EncData(n.Data)>>)
  BY Zenon DEF Service!Encodings
<1>2. Batch(n.Links, p, Len(n.Links)) =
        [i \in 1..Len(n.Links) |-> Service!EncLink(Service!LinkMessage(n.Links[p[i]]))]
  BY DEF Batch, Sent, EncLink, Service!EncLink, NodeFieldOf, Service!NodeFieldOf, BytesType,
         Service!BytesType
<1>3. EncData(n.Data) = Service!EncData(n.Data)
  BY DEF EncData, Service!EncData, NodeFieldOf, Service!NodeFieldOf, BytesType,
         Service!BytesType
<1> QED BY <1>1, <1>2, <1>3, Zenon

-----------------------------------------------------------------------------
(* The steps.  IInv is inductive; what a step does to the caller is a step of the *)
(* service or nothing.                                                            *)

IInv == EncodeTypeOK /\ Underway

ServiceStep == [Service!SpecNext]_Service!specVars

LEMMA Hidden ==
  ASSUME outcome = "busy", UNCHANGED <<by, inNode, given, outcome>>
  PROVE  ServiceStep
BY DEF ServiceStep, Service!specVars

LEMMA InitIInv == EncodeInit => IInv /\ Service!SpecInit
<1> SUFFICES ASSUME EncodeInit PROVE IInv /\ Service!SpecInit
  OBVIOUS
<1>1. <<>> \in Seq(NodeField) /\ <<>> \in Seq(pbLink)
  OBVIOUS
<1>2. EncodeTypeOK
  BY <1>1 DEF EncodeInit, EncodeTypeOK
<1>3. Underway
  BY DEF EncodeInit, Underway
<1>4. Service!SpecInit
  BY DEF EncodeInit, Service!SpecInit
<1> QED BY <1>2, <1>3, <1>4 DEF IInv

LEMMA BeginKeeps ==
  ASSUME IInv, NEW f \in {"Encode", "AppendEncode"}, NEW n \in Nodes,
         NEW prefix \in Prefixes \cup {<<>>}, f = "Encode" => prefix = <<>>,
         f = "AppendEncode" => prefix \in Prefixes, Begin(f, n, prefix)
  PROVE  IInv' /\ ServiceStep
<1>1. n \in PBNode \cup {NonConforming} /\ prefix \in Seq(NodeField)
  <2>1. <<>> \in Seq(NodeField) /\ Prefixes \in SUBSET Seq(NodeField)
    BY EncoderAssumption
  <2>2. prefix \in Seq(NodeField)
    BY <2>1
  <2>3. n \in PBNode \cup {NonConforming}
    BY EncoderAssumption
  <2> QED BY <2>2, <2>3
<1>2. <<>> \in Seq(NodeField)
  OBVIOUS
<1>3. EncodeTypeOK'
  BY <1>1, <1>2 DEF IInv, EncodeTypeOK, Begin
<1>4. Underway'
  <2>1. done = 0
    BY DEF IInv, Underway, Begin
  <2>2. outcome' = "busy" /\ written' = <<>> /\ pc' = "assign" /\ enc' = given' /\ done' = 0
    BY <2>1 DEF Begin
  <2> QED BY <2>2 DEF Underway
<1>5. Service!Ask(f, n, prefix)
  BY DEF Begin, Service!Ask
<1>6. Service!SpecNext
  <2>1. CASE f = "Encode"
    BY <1>5, <2>1 DEF Service!SpecNext
  <2>2. CASE f = "AppendEncode"
    BY <1>5, <2>2 DEF Service!SpecNext
  <2> QED BY <2>1, <2>2
<1> QED BY <1>3, <1>4, <1>6 DEF IInv, ServiceStep

LEMMA ReturnKeeps ==
  ASSUME IInv, NEW how \in {"ok", "err", "unwritten"}, Return(how),
         enc' \in Seq(NodeField), written' \in Seq(NodeField), how = "ok" => HasEncoding'
  PROVE  IInv'
<1>1. <<>> \in Seq(pbLink)
  OBVIOUS
<1>2. EncodeTypeOK'
  BY <1>1 DEF IInv, EncodeTypeOK, Return
<1>3. Underway'
  <2>1. pc' = "idle" /\ outcome' # "busy" /\ done' = 0 /\ (outcome' = "ok" => HasEncoding')
    BY DEF Return
  <2> QED BY <2>1 DEF Underway
<1> QED BY <1>2, <1>3 DEF IInv

\* A refusal leaves the buffer as it was passed.
LEMMA RefusalKeeps ==
  ASSUME IInv, outcome = "busy", enc = given, written = <<>>, ~Service!Encodable(inNode),
         Return("err"), UNCHANGED <<enc, written>>
  PROVE  IInv' /\ ServiceStep
<1>1. IInv'
  <2>1. enc' \in Seq(NodeField) /\ written' \in Seq(NodeField)
    BY DEF IInv, EncodeTypeOK
  <2> QED BY <2>1, ReturnKeeps
<1>2. Service!Unencodable
  BY DEF Return, Service!Unencodable
<1> QED BY <1>1, <1>2 DEF ServiceStep, Service!SpecNext, Service!Answer

LEMMA AssignNodeKeeps ==
  ASSUME IInv, AssignNode
  PROVE  IInv' /\ ServiceStep
<1>1. outcome = "busy" /\ written = <<>> /\ enc = given /\ done = 0
  BY DEF IInv, Underway, AssignNode, Collecting, Unsorted, Emitting,
         AllSent, HasEncoding
<1>2. CASE inNode = NonConforming /\ Return("err") /\ UNCHANGED <<enc, written>>
  <2>1. ~Service!Encodable(inNode)
    BY <1>2 DEF Service!Encodable
  <2> QED BY <1>1, <1>2, <2>1, RefusalKeeps
<1>3. CASE /\ inNode # NonConforming /\ inNode.Links = <<>> /\ pc' = "data" /\ UNCHANGED pbLinks
           /\ UNCHANGED <<by, inNode, given, enc, done, written, outcome>>
  <2>1. EncodeTypeOK'
    BY <1>3 DEF IInv, EncodeTypeOK
  <2>2. Service!Encodable(inNode) /\ inNode.Links = <<>> /\ given \in Seq(NodeField)
    BY <1>3 DEF Service!Encodable, IInv, EncodeTypeOK
  <2>3. <<>> \in Service!Orders(<<>>)
    BY DEF Service!Orders, Service!StableOrder
  <2>4. given = given \o [i \in 1..Len(inNode.Links) |-> Sent(inNode.Links[<<>>[i]])]
    <3>1. given = given \o Batch(inNode.Links, <<>>, 0)
      BY <2>2, NoBatch
    <3>2. Len(inNode.Links) = 0
      BY <2>2
    <3> QED BY <3>1, <3>2, Zenon DEF Batch
  <2>5. Emitting'
    BY <1>1, <1>3, <2>2, <2>3, <2>4 DEF Emitting
  <2>6. Underway'
    BY <1>1, <1>3, <2>5 DEF Underway
  <2>7. ServiceStep
    BY <1>1, <1>3, Hidden
  <2> QED BY <2>1, <2>6, <2>7 DEF IInv
<1>4. CASE /\ inNode # NonConforming /\ inNode.Links # <<>> /\ pc' = "collect"
           /\ pbLinks' = [i \in 1..Len(inNode.Links) |-> ZeroLink]
           /\ UNCHANGED <<by, inNode, given, enc, done, written, outcome>>
  <2>1. inNode.Links \in Seq(PBLink) /\ Len(inNode.Links) \in Nat /\ Len(inNode.Links) >= 1
    <3>1. inNode.Links \in Seq(PBLink)
      BY <1>4 DEF IInv, EncodeTypeOK, PBNode
    <3> QED BY <1>4, <3>1, EmptySeq
  <2>2. ZeroLink \in pbLink
    <3>1. 0 \in 0..MaxUint64
      BY WireAssumption DEF MaxUint64
    <3> QED BY <3>1 DEF ZeroLink, pbLink, NoName
  <2>3. pbLinks' \in Seq(pbLink) /\ Len(pbLinks') = Len(inNode.Links)
    BY <1>4, <2>1, <2>2, IsSequence
  <2>4. EncodeTypeOK'
    BY <1>4, <2>3 DEF IInv, EncodeTypeOK
  <2>5. Collecting'
    BY <1>1, <1>4, <2>1, <2>3 DEF Collecting, Cursor
  <2>6. Underway'
    BY <1>1, <1>4, <2>5 DEF Underway
  <2>7. ServiceStep
    BY <1>1, <1>4, Hidden
  <2> QED BY <2>4, <2>6, <2>7 DEF IInv
<1> QED BY <1>2, <1>3, <1>4 DEF AssignNode

LEMMA CollectLinkKeeps ==
  ASSUME IInv, CollectLink
  PROVE  IInv' /\ ServiceStep
<1>1. /\ outcome = "busy" /\ written = <<>> /\ enc = given /\ done \in Nat
      /\ inNode \in PBNode /\ inNode # NonConforming /\ Collecting
  BY DEF IInv, EncodeTypeOK, Underway, CollectLink, Collecting, Unsorted, Emitting,
         AllSent, HasEncoding
<1>2. /\ inNode.Links \in Seq(PBLink) /\ Cursor \in 1..Len(inNode.Links)
      /\ Len(inNode.Links) = Len(pbLinks) /\ pbLinks \in Seq(pbLink)
  BY <1>1 DEF PBNode, Collecting, Cursor, IInv, EncodeTypeOK
<1>3. Link \in PBLink /\ Link = inNode.Links[Cursor]
  BY <1>2 DEF Link
<1>4. Acceptable <=> Readable(Link)
  BY DEF Acceptable, Readable
<1>5. CASE ~Acceptable /\ Return("err") /\ UNCHANGED <<enc, written>>
  <2>1. ~Service!Encodable(inNode)
    BY <1>2, <1>3, <1>4, <1>5 DEF Readable, Service!Encodable
  <2> QED BY <1>1, <1>5, <2>1, RefusalKeeps
<1>6. CASE /\ Acceptable
           /\ pbLinks' = [pbLinks EXCEPT ![Cursor] = Fill(@, Link)]
           /\ Advance("sort")
           /\ UNCHANGED <<by, inNode, given, enc, written, outcome>>
  <2>1. Readable(Link) /\ Collected(Link) \in pbLink
    BY <1>3, <1>4, <1>6, CollectedTyped
  <2>2. pbLinks[Cursor] = ZeroLink
    BY <1>1, <1>2 DEF Collecting, Cursor
  <2>3. pbLinks' = [pbLinks EXCEPT ![Cursor] = Collected(Link)]
    BY <1>3, <1>6, <2>1, <2>2, Filled
  <2>4. /\ pbLinks' \in Seq(pbLink) /\ Len(pbLinks') = Len(pbLinks)
        /\ pbLinks'[Cursor] = Collected(Link)
        /\ \A i \in 1..Len(pbLinks) : i # Cursor => pbLinks'[i] = pbLinks[i]
    BY <1>2, <2>1, <2>3, ExceptSeq
  <2>5. \A i \in 1..Len(pbLinks') :
          IF i <= Cursor
          THEN Readable(inNode.Links[i]) /\ pbLinks'[i] = Collected(inNode.Links[i])
          ELSE pbLinks'[i] = ZeroLink
    <3> SUFFICES ASSUME NEW i \in 1..Len(pbLinks)
                 PROVE  IF i <= Cursor
                        THEN /\ Readable(inNode.Links[i])
                             /\ pbLinks'[i] = Collected(inNode.Links[i])
                        ELSE pbLinks'[i] = ZeroLink
      BY <2>4
    <3>1. CASE i = Cursor
      BY <1>2, <1>3, <2>1, <2>4, <3>1
    <3>2. CASE i # Cursor
      <4>1. IF i <= done
            THEN Readable(inNode.Links[i]) /\ pbLinks[i] = Collected(inNode.Links[i])
            ELSE pbLinks[i] = ZeroLink
        BY <1>1 DEF Collecting
      <4>2. i <= Cursor <=> i <= done
        BY <1>1, <3>2 DEF Cursor
      <4> QED BY <2>4, <3>2, <4>1, <4>2
    <3> QED BY <3>1, <3>2
  <2>6. ServiceStep
    BY <1>1, <1>6, Hidden
  <2>7. CASE Cursor < Len(pbLinks) /\ done' = Cursor /\ UNCHANGED pc
    <3>1. EncodeTypeOK'
      BY <1>1, <1>6, <2>4, <2>7 DEF IInv, EncodeTypeOK, Cursor
    <3>2. Collecting'
      <4>1. pc' = "collect" /\ enc' = given' /\ inNode' = inNode /\ done' = done + 1
        BY <1>1, <1>6, <2>7 DEF Collecting, Cursor
      <4>2. done' + 1 <= Len(pbLinks')
        BY <1>1, <1>2, <2>4, <2>7, <4>1 DEF Cursor
      <4> QED BY <1>2, <2>4, <2>5, <4>1, <4>2 DEF Collecting, Cursor
    <3>3. Underway'
      BY <1>1, <1>6, <3>2 DEF Underway
    <3> QED BY <2>6, <3>1, <3>3 DEF IInv
  <2>8. CASE ~(Cursor < Len(pbLinks)) /\ done' = 0 /\ pc' = "sort"
    <3>1. EncodeTypeOK'
      BY <1>1, <1>6, <2>4, <2>8 DEF IInv, EncodeTypeOK
    <3>2. Cursor = Len(pbLinks)
      BY <1>2, <2>8
    <3>3. \A i \in 1..Len(inNode.Links) :
            Readable(inNode.Links[i]) /\ pbLinks'[i] = Collected(inNode.Links[i])
      BY <1>2, <2>4, <2>5, <3>2
    <3>4. Service!Encodable(inNode)
      BY <1>1, <3>3 DEF Readable, Service!Encodable
    <3>5. pbLinks' = [i \in 1..Len(inNode.Links) |-> Collected(inNode.Links[i])]
      <4>1. pbLinks' = [i \in 1..Len(pbLinks') |-> pbLinks'[i]]
        BY <2>4, LenProperties
      <4> QED BY <1>2, <2>4, <3>3, <4>1
    <3>6. inNode.Links # <<>>
      BY <1>2
    <3>7. Unsorted'
      BY <1>1, <1>6, <2>8, <3>4, <3>5, <3>6 DEF Unsorted
    <3>8. Underway'
      BY <1>1, <1>6, <3>7 DEF Underway
    <3> QED BY <2>6, <3>1, <3>8 DEF IInv
  <2> QED BY <1>6, <2>7, <2>8 DEF Advance
<1> QED BY <1>5, <1>6 DEF CollectLink

LEMMA SortLinksKeeps ==
  ASSUME IInv, SortLinks
  PROVE  IInv' /\ ServiceStep
<1>1. /\ outcome = "busy" /\ written = <<>> /\ inNode \in PBNode /\ inNode # NonConforming
      /\ Unsorted
  BY DEF IInv, EncodeTypeOK, Underway, SortLinks, Collecting, Unsorted, Emitting,
         AllSent, HasEncoding
<1> DEFINE xs == inNode.Links
           ls == pbLinks
<1>2. xs \in Seq(PBLink) /\ ls \in Seq(pbLink) /\ given \in Seq(NodeField)
  BY <1>1 DEF PBNode, IInv, EncodeTypeOK
<1>3. ls = [i \in 1..Len(xs) |-> Collected(xs[i])]
  BY <1>1 DEF Unsorted
<1>4. Len(ls) = Len(xs) /\ Len(xs) \in Nat
  <2>1. Len(xs) \in Nat /\ Len(ls) \in Nat /\ DOMAIN ls = 1..Len(ls)
    BY <1>2
  <2>2. DOMAIN ls = 1..Len(xs)
    BY <1>3
  <2> QED BY <2>1, <2>2
<1>5. Len(xs) >= 1
  BY <1>1, <1>2, <1>4, EmptySeq DEF Unsorted
<1>6. PICK p : Sorts(ls, p) /\ Stable(ls) = [k \in 1..Len(ls) |-> ls[p[k]]]
  BY <1>2, StableSorts, Zenon
<1>7. p \in Service!Orders(xs)
  BY <1>2, <1>3, <1>4, <1>6, SortsOrders
<1>8. p \in [1..Len(xs) -> 1..Len(xs)]
  BY <1>7 DEF Service!Orders
<1>9. pbLinks' = [k \in 1..Len(xs) |-> Collected(xs[p[k]])]
  <2>1. pbLinks' = [k \in 1..Len(xs) |-> ls[p[k]]]
    BY <1>4, <1>6 DEF SortLinks
  <2>2. \A k \in 1..Len(xs) : ls[p[k]] = Collected(xs[p[k]])
    BY <1>3, <1>8
  <2> QED BY <2>1, <2>2
<1>10. pbLinks' \in Seq(pbLink) /\ Len(pbLinks') = Len(xs)
  <2>1. \A k \in 1..Len(xs) : ls[p[k]] \in pbLink
    BY <1>2, <1>4, <1>8
  <2>2. pbLinks' \in [1..Len(xs) -> pbLink]
    BY <1>4, <1>6, <2>1 DEF SortLinks
  <2> QED BY <1>4, <2>2, IsSequence
<1>11. enc' = given \o Batch(xs, p, 0)
  BY <1>1, <1>2, NoBatch DEF Unsorted, SortLinks
<1>12. EncodeTypeOK'
  BY <1>10 DEF IInv, EncodeTypeOK, SortLinks
<1>13. Emitting'
  <2>1. /\ pc' = "links" /\ done' = 0 /\ inNode' = inNode /\ given' = given
        /\ Service!Encodable(inNode)
    BY <1>1 DEF Unsorted, SortLinks
  <2>2. Cursor' <= Len(pbLinks')
    BY <1>4, <1>5, <1>10, <2>1 DEF Cursor
  <2>3. enc' = given \o [i \in 1..done' |-> Sent(xs[p[i]])]
    BY <1>11, <2>1 DEF Batch
  <2> QED BY <1>7, <1>9, <2>1, <2>2, <2>3 DEF Emitting
<1>14. Underway'
  BY <1>1, <1>13 DEF Underway, SortLinks
<1>15. ServiceStep
  BY <1>1, Hidden DEF SortLinks
<1> QED BY <1>12, <1>14, <1>15 DEF IInv

LEMMA EmitLinkKeeps ==
  ASSUME IInv, EmitLink
  PROVE  IInv' /\ ServiceStep
<1> DEFINE xs == inNode.Links
<1>1. /\ outcome = "busy" /\ written = <<>> /\ inNode \in PBNode /\ inNode # NonConforming
      /\ Service!Encodable(inNode) /\ done \in Nat /\ Cursor <= Len(pbLinks)
  BY DEF IInv, EncodeTypeOK, Underway, EmitLink, Collecting, Unsorted, Emitting,
         AllSent, HasEncoding
<1>2. PICK p \in Service!Orders(xs) :
        /\ pbLinks = [i \in 1..Len(xs) |-> Collected(xs[p[i]])]
        /\ enc = given \o [i \in 1..done |-> Sent(xs[p[i]])]
  BY DEF IInv, Underway, EmitLink, Collecting, Unsorted, Emitting,
         AllSent, HasEncoding
<1>3. xs \in Seq(PBLink) /\ given \in Seq(NodeField) /\ pbLinks \in Seq(pbLink)
  BY <1>1 DEF PBNode, IInv, EncodeTypeOK
<1>4. Len(pbLinks) = Len(xs) /\ Len(xs) \in Nat
  <2>1. Len(xs) \in Nat /\ Len(pbLinks) \in Nat /\ DOMAIN pbLinks = 1..Len(pbLinks)
    BY <1>3
  <2>2. DOMAIN pbLinks = 1..Len(xs)
    BY <1>2
  <2> QED BY <2>1, <2>2
<1>5. p \in [1..Len(xs) -> 1..Len(xs)] /\ \A i \in 1..Len(xs) : Readable(xs[i])
  BY <1>1 DEF Service!Orders, Service!Encodable, Readable
<1>6. Cursor = done + 1 /\ done \in 0..Len(xs) /\ Cursor \in 1..Len(xs) /\ Cursor \in 0..Len(xs)
  BY <1>1, <1>4 DEF Cursor
<1>7. xs[p[Cursor]] \in PBLink /\ Readable(xs[p[Cursor]])
  BY <1>3, <1>5, <1>6
<1>8. EncLink(LinkBytes(pbLinks[Cursor])) = Sent(xs[p[Cursor]])
  <2>1. pbLinks[Cursor] = Collected(xs[p[Cursor]])
    BY <1>2, <1>6
  <2> QED BY <1>7, <2>1, SentTyped
<1>9. enc' = given \o Batch(xs, p, Cursor)
  <2>1. enc = given \o Batch(xs, p, done)
    BY <1>2 DEF Batch
  <2>2. enc' = Append(enc, Sent(xs[p[Cursor]]))
    BY <1>8 DEF EmitLink
  <2>3. done \in 0..Len(xs) /\ done + 1 <= Len(xs)
    BY <1>6
  <2>4. Append(given \o Batch(xs, p, done), Sent(xs[p[done + 1]])) =
          given \o Batch(xs, p, done + 1)
    BY <1>3, <1>5, <2>3, BatchGrows
  <2> QED BY <1>6, <2>1, <2>2, <2>4
<1>10. enc' \in Seq(NodeField)
  <2>1. Batch(xs, p, Cursor) \in Seq(NodeField)
    BY <1>3, <1>5, <1>6, BatchTyped
  <2> QED BY <1>3, <1>9, <2>1, ConcatProperties
<1>11. /\ outcome' = "busy" /\ written' = <<>> /\ inNode' = inNode /\ given' = given
       /\ pbLinks' = pbLinks /\ UNCHANGED <<by, inNode, given, outcome>>
  BY <1>1 DEF EmitLink
<1>12. ServiceStep
  BY <1>1, <1>11, Hidden
<1>13. CASE Cursor < Len(pbLinks) /\ done' = Cursor /\ UNCHANGED pc
  <2>1. EncodeTypeOK'
    BY <1>6, <1>10, <1>13 DEF IInv, EncodeTypeOK, EmitLink
  <2>2. Cursor' <= Len(pbLinks')
    BY <1>4, <1>6, <1>11, <1>13 DEF Cursor
  <2>3. pc' = "links" /\ enc' = given \o [i \in 1..done' |-> Sent(xs[p[i]])]
    BY <1>9, <1>13 DEF Batch, EmitLink
  <2>4. Emitting'
    BY <1>1, <1>2, <1>11, <2>2, <2>3 DEF Emitting
  <2>5. Underway'
    BY <1>1, <1>11, <2>4 DEF Underway
  <2> QED BY <1>12, <2>1, <2>5 DEF IInv
<1>14. CASE ~(Cursor < Len(pbLinks)) /\ done' = 0 /\ pc' = "data"
  <2>1. EncodeTypeOK'
    BY <1>10, <1>14 DEF IInv, EncodeTypeOK, EmitLink
  <2>2. Cursor = Len(xs)
    BY <1>4, <1>6, <1>14
  <2>3. enc' = given \o [i \in 1..Len(xs) |-> Sent(xs[p[i]])]
    BY <1>9, <2>2 DEF Batch
  <2>4. Emitting'
    BY <1>1, <1>2, <1>11, <1>14, <2>3 DEF Emitting
  <2>5. Underway'
    BY <1>1, <1>11, <2>4 DEF Underway
  <2> QED BY <1>12, <2>1, <2>5 DEF IInv
<1> QED BY <1>13, <1>14 DEF EmitLink, Advance

LEMMA EmitDataKeeps ==
  ASSUME IInv, EmitData
  PROVE  IInv' /\ ServiceStep
<1> DEFINE xs == inNode.Links
           d == IF inNode.Data = Unset THEN <<>> ELSE <<EncData(inNode.Data)>>
<1>1. /\ outcome = "busy" /\ written = <<>> /\ inNode \in PBNode /\ inNode # NonConforming
      /\ Service!Encodable(inNode) /\ done = 0 /\ by \in {"Encode", "AppendEncode"}
  BY DEF IInv, EncodeTypeOK, Underway, EmitData, Collecting, Unsorted, Emitting,
         AllSent, HasEncoding
<1>2. PICK p \in Service!Orders(xs) : enc = given \o [i \in 1..Len(xs) |-> Sent(xs[p[i]])]
  BY DEF IInv, Underway, EmitData, Collecting, Unsorted, Emitting,
         AllSent, HasEncoding
<1> DEFINE b == Batch(xs, p, Len(xs))
<1>3. xs \in Seq(PBLink) /\ given \in Seq(NodeField) /\ Len(xs) \in 0..Len(xs)
  <2>1. xs \in Seq(PBLink) /\ given \in Seq(NodeField)
    BY <1>1 DEF PBNode, IInv, EncodeTypeOK
  <2>2. Len(xs) \in Nat
    BY <2>1
  <2> QED BY <2>1, <2>2
<1>4. p \in [1..Len(xs) -> 1..Len(xs)] /\ \A i \in 1..Len(xs) : Readable(xs[i])
  BY <1>1 DEF Service!Orders, Service!Encodable, Readable
<1>5. b \in Seq(NodeField)
  BY <1>3, <1>4, BatchTyped
<1>6. d \in Seq(NodeField)
  <2>1. inNode.Data # Unset => EncData(inNode.Data) \in NodeField
    BY <1>1, EncodedTyped DEF PBNode
  <2> QED BY <2>1
<1>7. b \o d \in Service!Encodings(inNode)
  BY <1>1, Message
<1>8. enc = given \o b
  BY <1>2 DEF Batch
<1> HIDE DEF b
<1>9. enc' = given \o (b \o d)
  <2>1. enc \in Seq(NodeField)
    BY DEF IInv, EncodeTypeOK
  <2>2. enc' = enc \o d
    <3>1. CASE inNode.Data = Unset
      BY <2>1, <3>1, ConcatEmptySeq DEF EmitData
    <3>2. CASE inNode.Data # Unset
      <4>1. enc' = Append(enc, EncData(inNode.Data)) /\ d = <<EncData(inNode.Data)>>
        BY <3>2 DEF EmitData
      <4>2. EncData(inNode.Data) \in NodeField
        BY <1>1, <3>2, EncodedTyped DEF PBNode
      <4> QED BY <2>1, <4>1, <4>2, AppendIsConcat
    <3> QED BY <3>1, <3>2
  <2> HIDE DEF d
  <2>3. (given \o b) \o d = given \o (b \o d)
    BY <1>3, <1>5, <1>6, ConcatAssociative
  <2> QED BY <1>8, <2>2, <2>3
<1> HIDE DEF d
<1>10. enc' \in Seq(NodeField)
  <2>1. b \o d \in Seq(NodeField)
    BY <1>5, <1>6, ConcatProperties
  <2> QED BY <1>3, <1>9, <2>1, ConcatProperties
<1>11. CASE by = "AppendEncode" /\ Return("ok")
  <2>1. written' = <<>> /\ written' \in Seq(NodeField)
    BY <1>1 DEF EmitData, IInv, EncodeTypeOK
  <2>2. IInv'
    <3>1. inNode' = inNode /\ given' = given
      BY <1>11 DEF Return
    <3>2. HasEncoding'
      BY <1>1, <1>7, <1>9, <3>1 DEF HasEncoding
    <3> QED BY <1>10, <1>11, <2>1, <3>2, ReturnKeeps
  <2>3. Service!Encoded
    <3>1. outcome' = "ok" /\ UNCHANGED <<by, inNode>>
      BY <1>11 DEF Return
    <3> QED BY <1>1, <1>7, <1>9, <1>11, <2>1, <3>1 DEF Service!Encoded
  <2> QED BY <2>2, <2>3 DEF ServiceStep, Service!SpecNext, Service!Answer
<1>12. CASE /\ by = "Encode" /\ pc' = "write"
            /\ UNCHANGED <<by, inNode, given, pbLinks, done, outcome>>
  <2>1. written' = <<>>
    BY <1>1 DEF EmitData
  <2>2. EncodeTypeOK'
    BY <1>10, <1>12, <2>1 DEF IInv, EncodeTypeOK, EmitData
  <2>3. AllSent'
    BY <1>1, <1>7, <1>9, <1>12 DEF AllSent, HasEncoding
  <2>4. Underway'
    BY <1>1, <1>12, <2>1, <2>3 DEF Underway
  <2>5. ServiceStep
    BY <1>1, <1>12, Hidden
  <2> QED BY <2>2, <2>4, <2>5 DEF IInv
<1> QED BY <1>11, <1>12 DEF EmitData

LEMMA WriteKeeps ==
  ASSUME IInv, Write
  PROVE  IInv' /\ ServiceStep
<1>1. /\ outcome = "busy" /\ AllSent /\ UNCHANGED enc /\ enc \in Seq(NodeField)
  BY DEF IInv, EncodeTypeOK, Underway, Write, Collecting, Unsorted, Emitting,
         AllSent, HasEncoding
<1>2. PICK msg \in Service!Encodings(inNode) : enc = given \o msg
  BY <1>1 DEF AllSent, HasEncoding
<1>3. CASE written' = enc /\ Return("ok")
  <2>1. IInv'
    <3>1. inNode' = inNode /\ given' = given
      BY <1>3 DEF Return
    <3>2. HasEncoding'
      BY <1>1, <3>1 DEF AllSent, HasEncoding
    <3> QED BY <1>1, <1>3, <3>2, ReturnKeeps
  <2>2. outcome' = "ok" /\ UNCHANGED <<by, inNode>>
    BY <1>3 DEF Return
  <2>3. Service!Encoded
    BY <1>1, <1>2, <1>3, <2>2 DEF Service!Encoded, AllSent, HasEncoding
  <2> QED BY <2>1, <2>3 DEF ServiceStep, Service!SpecNext, Service!Answer
<1>4. CASE (\E k \in 0..Len(enc) : written' = SubSeq(enc, 1, k)) /\ Return("unwritten")
  <2>1. PICK k \in 0..Len(enc) : written' = SubSeq(enc, 1, k)
    BY <1>4
  <2>2. written' \in Seq(NodeField)
    <3>1. k \in Int /\ 1 \in Int /\ \A i \in 1..k : enc[i] \in NodeField
      BY <1>1, <2>1
    <3> QED BY <2>1, <3>1, SubSeqProperties
  <2>3. IInv'
    BY <1>1, <1>4, <2>2, ReturnKeeps
  <2>4. outcome' = "unwritten" /\ UNCHANGED <<by, inNode>>
    BY <1>4 DEF Return
  <2>5. Service!Encoded
    BY <1>1, <1>2, <2>1, <2>4 DEF Service!Encoded, AllSent, HasEncoding
  <2> QED BY <2>3, <2>5 DEF ServiceStep, Service!SpecNext, Service!Answer
<1> QED BY <1>3, <1>4 DEF Write

LEMMA StepKeeps == IInv /\ [EncodeNext]_encodeVars => IInv' /\ ServiceStep
<1> SUFFICES ASSUME IInv, [EncodeNext]_encodeVars PROVE IInv' /\ ServiceStep
  OBVIOUS
<1>1. CASE UNCHANGED encodeVars
  <2>1. IInv'
    BY <1>1 DEF IInv, EncodeTypeOK, Underway, Collecting, Unsorted, Emitting, AllSent,
                HasEncoding, Cursor, encodeVars
  <2>2. ServiceStep
    BY <1>1 DEF ServiceStep, Service!specVars, encodeVars
  <2> QED BY <2>1, <2>2
<1>2. CASE \E n \in Nodes : Encode(n)
  <2>1. PICK n \in Nodes : Begin("Encode", n, <<>>)
    BY <1>2 DEF Encode
  <2> QED BY <2>1, BeginKeeps
<1>3. CASE \E n \in Nodes, prefix \in Prefixes : CallAppendEncode(n, prefix)
  <2>1. PICK n \in Nodes, prefix \in Prefixes : Begin("AppendEncode", n, prefix)
    BY <1>3 DEF CallAppendEncode
  <2> QED BY <2>1, BeginKeeps
<1>4. CASE AssignNode
  BY <1>4, AssignNodeKeeps
<1>5. CASE CollectLink
  BY <1>5, CollectLinkKeeps
<1>6. CASE SortLinks
  BY <1>6, SortLinksKeeps
<1>7. CASE EmitLink
  BY <1>7, EmitLinkKeeps
<1>8. CASE EmitData
  BY <1>8, EmitDataKeeps
<1>9. CASE Write
  BY <1>9, WriteKeeps
<1> QED BY <1>1, <1>2, <1>3, <1>4, <1>5, <1>6, <1>7, <1>8, <1>9 DEF EncodeNext, EncodeStep

-----------------------------------------------------------------------------
LEMMA EncodeInvariant == EncodeSystem => []IInv
<1>1. EncodeInit => IInv
  BY InitIInv
<1>2. IInv /\ [EncodeNext]_encodeVars => IInv'
  BY StepKeeps
<1> QED BY <1>1, <1>2, PTL DEF EncodeSystem

\* The encoder's variables keep their types: a Tsize written is never negative, a CID
\* written is that of a cidlink.Link.
THEOREM EncodeTyped == EncodeSystem => []EncodeTypeOK
<1>1. IInv => EncodeTypeOK
  BY DEF IInv
<1> QED BY <1>1, EncodeInvariant, PTL

\* At every step of a call of AppendEncode the buffer is what the caller put there and
\* after it the first links of one and the same sorted order; the copy holds that order
\* from the sort on, and nothing but what was read before it.
THEOREM EncodeUnderway == EncodeSystem => []Underway
<1>1. IInv => Underway
  BY DEF IInv
<1> QED BY <1>1, EncodeInvariant, PTL

LEMMA AppendedIs ==
  ASSUME NEW msg \in Seq(NodeField), given \in Seq(NodeField), enc = given \o msg
  PROVE  Appended = msg
<1> DEFINE m == Len(given) + 1
           n == Len(given) + Len(msg)
<1>1. Len(given) \in Nat /\ Len(msg) \in Nat /\ Len(enc) = n
  BY ConcatProperties
<1>2. CASE msg = <<>>
  <2>1. m \in Int /\ n \in Int /\ n < m
    BY <1>1, <1>2
  <2> QED BY <1>1, <1>2, <2>1, SubSeqEmpty DEF Appended
<1>3. CASE msg # <<>>
  <2>1. Len(msg) >= 1
    BY <1>1, <1>3, EmptySeq
  <2>2. m \in m..n /\ n \in m..n /\ m - Len(given) = 1 /\ n - Len(given) = Len(msg)
    BY <1>1, <2>1
  <2>3. SubSeq(given \o msg, m, n) = SubSeq(msg, m - Len(given), n - Len(given))
    BY <2>2, SubSeqOfConcat2
  <2> QED BY <1>1, <2>2, <2>3, SubSeqFull DEF Appended
<1> QED BY <1>2, <1>3

\* What either function has encoded of a node whose CIDs can be read is DAG-PB, is read
\* as that node with its links in the order they were sorted to, and is what that node
\* encodes to: encoding again changes nothing.
THEOREM EncodeRoundTrips == EncodeSystem => []RoundTrips
<1>1. IInv => RoundTrips
  <2> SUFFICES ASSUME IInv, outcome = "ok", ReadableLinks
               PROVE  /\ IsNode(Appended)
                      /\ NodeMeaning(Appended).Data = inNode.Data
                      /\ \E p \in Service!Orders(inNode.Links) :
                           NodeMeaning(Appended).Links =
                             [i \in 1..Len(inNode.Links) |-> inNode.Links[p[i]]]
                      /\ Appended \in Service!Encodings(NodeMeaning(Appended))
    BY DEF RoundTrips
  <2> DEFINE d == IF inNode.Data = Unset THEN <<>> ELSE <<EncData(inNode.Data)>>
             Msg(p) == Batch(inNode.Links, p, Len(inNode.Links)) \o d
  <2>1. Service!Encodable(inNode) /\ \E msg \in Service!Encodings(inNode) : enc = given \o msg
    BY DEF IInv, Underway, HasEncoding
  <2>2. given \in Seq(NodeField) /\ inNode \in PBNode
    BY <2>1 DEF IInv, EncodeTypeOK, Service!Encodable
  <2>3. \A i \in 1..Len(inNode.Links) :
          Readable(inNode.Links[i]) /\ CidReadsBack(inNode.Links[i])
    BY <2>1 DEF Service!Encodable, Readable, ReadableLinks, CidReadsBack
  <2>4. PICK p \in Service!Orders(inNode.Links) : enc = given \o Msg(p)
    <3>1. PICK msg \in Service!Encodings(inNode) : enc = given \o msg
      BY <2>1
    <3>2. \E p \in Service!Orders(inNode.Links) : msg = Msg(p)
      BY <2>2, EncodingsAre, Zenon
    <3> QED BY <3>1, <3>2, Zenon
  <2>5. p \in [1..Len(inNode.Links) -> 1..Len(inNode.Links)]
    BY DEF Service!Orders
  <2>6. /\ Msg(p) \in Seq(NodeField) /\ IsNode(Msg(p))
        /\ NodeMeaning(Msg(p)) = Ordered(inNode, p)
    BY <2>2, <2>3, <2>5, EncodingReadBack
  <2>7. Msg(p) \in Service!Encodings(Ordered(inNode, p))
    BY <2>2, EncodedAgain
  <2> HIDE DEF Msg
  <2>8. Appended = Msg(p)
    BY <2>2, <2>4, <2>6, AppendedIs
  <2> QED BY <2>6, <2>7, <2>8 DEF Ordered
<1> QED BY <1>1, EncodeInvariant, PTL

\* Every step of AppendEncode or Encode is, for the caller, a step of EncodeSpec or none:
\* an answer is the one canonical encoding behind the prefix, or an error that leaves the
\* buffer and the writer as they were.
THEOREM EncodeImplements == EncodeSystem => Service!SpecInit /\ [][Service!SpecNext]_Service!specVars
<1>1. EncodeInit => IInv /\ Service!SpecInit
  BY InitIInv
<1>2. IInv /\ [EncodeNext]_encodeVars => IInv' /\ [Service!SpecNext]_Service!specVars
  BY StepKeeps DEF ServiceStep
<1> QED BY <1>1, <1>2, PTL DEF EncodeSystem
=============================================================================
