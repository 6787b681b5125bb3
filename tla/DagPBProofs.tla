---------------------------- MODULE DagPBProofs ----------------------------
(***************************************************************************)
(* How the meaning of a message grows with one more field: what both the   *)
(* decoder, which reads a message field by field, and the encoder, which   *)
(* writes one, are proved from.                                            *)
(***************************************************************************)
EXTENDS DagPB, SequenceTheorems, TLAPS

-----------------------------------------------------------------------------
(* Prefixes *)

LEMMA PrefixTyped ==
  ASSUME NEW A, NEW s \in Seq(A), NEW n \in 0..Len(s)
  PROVE  /\ SubSeq(s, 1, n) \in Seq(A) /\ Len(SubSeq(s, 1, n)) = n
         /\ \A i \in 1..n : SubSeq(s, 1, n)[i] = s[i]
BY SubSeqProperties

LEMMA PrefixGrows ==
  ASSUME NEW A, NEW s \in Seq(A), NEW n \in 0..Len(s), n < Len(s)
  PROVE  SubSeq(s, 1, n + 1) = Append(SubSeq(s, 1, n), s[n + 1])
<1>1. /\ SubSeq(s, 1, n) \in Seq(A) /\ Len(SubSeq(s, 1, n)) = n
      /\ \A i \in 1..n : SubSeq(s, 1, n)[i] = s[i]
  BY PrefixTyped
<1>2. /\ SubSeq(s, 1, n + 1) \in Seq(A) /\ Len(SubSeq(s, 1, n + 1)) = n + 1
      /\ \A i \in 1..(n + 1) : SubSeq(s, 1, n + 1)[i] = s[i]
  <2>1. n + 1 \in 0..Len(s)
    OBVIOUS
  <2> QED BY <2>1, PrefixTyped
<1>3. s[n + 1] \in A
  OBVIOUS
<1> DEFINE t == SubSeq(s, 1, n)
           u == SubSeq(s, 1, n + 1)
           x == s[n + 1]
<1>4. /\ t \in Seq(A) /\ Len(t) = n /\ u \in Seq(A) /\ Len(u) = n + 1 /\ x \in A
      /\ \A i \in 1..(n + 1) : u[i] = IF i <= n THEN t[i] ELSE x
  BY <1>1, <1>2, <1>3
<1> HIDE DEF t, u, x
<1>5. /\ Append(t, x) \in Seq(A) /\ Len(Append(t, x)) = n + 1
      /\ \A i \in 1..(n + 1) : Append(t, x)[i] = IF i <= n THEN t[i] ELSE x
  BY <1>4, AppendProperties
<1>6. u = Append(t, x)
  BY <1>4, <1>5, SeqEqual
<1> QED BY <1>6 DEF t, u, x

LEMMA WholePrefix ==
  ASSUME NEW A, NEW s \in Seq(A)
  PROVE  SubSeq(s, 1, Len(s)) = s
<1>1. Len(s) \in 0..Len(s)
  OBVIOUS
<1>2. /\ SubSeq(s, 1, Len(s)) \in Seq(A) /\ Len(SubSeq(s, 1, Len(s))) = Len(s)
      /\ \A i \in 1..Len(s) : SubSeq(s, 1, Len(s))[i] = s[i]
  BY <1>1, PrefixTyped
<1> QED BY <1>2, SeqEqual

-----------------------------------------------------------------------------
(* Fields by their number *)

\* At most one field of that number.
Once(fs, num) == \A i, j \in 1..Len(fs) : fs[i].num = num /\ fs[j].num = num => i = j

LEMMA Appended1 ==
  ASSUME NEW A, NEW fs \in Seq(A), NEW f \in A
  PROVE  /\ Append(fs, f) \in Seq(A) /\ Len(Append(fs, f)) = Len(fs) + 1
         /\ Append(fs, f)[Len(fs) + 1] = f
         /\ \A i \in 1..Len(fs) : Append(fs, f)[i] = fs[i]
         /\ Len(fs) \in Nat
BY AppendProperties

LEMMA HasGrows ==
  ASSUME NEW A, NEW fs \in Seq(A), NEW f \in A, NEW num
  PROVE  Has(Append(fs, f), num) <=> Has(fs, num) \/ f.num = num
<1> DEFINE gs == Append(fs, f)
<1>1. /\ Len(gs) = Len(fs) + 1 /\ gs[Len(fs) + 1] = f /\ Len(fs) \in Nat
      /\ \A i \in 1..Len(fs) : gs[i] = fs[i]
  BY Appended1
<1> HIDE DEF gs
<1>2. Has(gs, num) <=> Has(fs, num) \/ f.num = num
  BY <1>1 DEF Has
<1> QED BY <1>2 DEF gs

LEMMA NumberedIs ==
  ASSUME NEW fs, NEW num, Once(fs, num), NEW i \in 1..Len(fs), fs[i].num = num
  PROVE  Numbered(fs, num) = fs[i] /\ Has(fs, num)
<1>1. PICK j : j = CHOOSE c \in 1..Len(fs) : fs[c].num = num
  OBVIOUS
<1>2. j \in 1..Len(fs) /\ fs[j].num = num
  BY <1>1
<1>3. j = i
  BY <1>2 DEF Once
<1> QED BY <1>1, <1>3 DEF Numbered, Has

LEMMA NumberedGrows ==
  ASSUME NEW A, NEW fs \in Seq(A), NEW f \in A, NEW num, Once(Append(fs, f), num)
  PROVE  /\ f.num = num => Numbered(Append(fs, f), num) = f
         /\ f.num # num /\ Has(fs, num) => Numbered(Append(fs, f), num) = Numbered(fs, num)
<1> DEFINE gs == Append(fs, f)
<1>1. /\ Len(gs) = Len(fs) + 1 /\ gs[Len(fs) + 1] = f /\ Len(fs) \in Nat
      /\ \A i \in 1..Len(fs) : gs[i] = fs[i]
  BY Appended1
<1>2. Once(gs, num)
  OBVIOUS
<1> HIDE DEF gs
<1>3. ASSUME f.num = num PROVE Numbered(gs, num) = f
  <2>1. Len(fs) + 1 \in 1..Len(gs) /\ gs[Len(fs) + 1].num = num
    BY <1>1, <1>3
  <2> QED BY <1>1, <1>2, <2>1, NumberedIs
<1>4. ASSUME Has(fs, num) PROVE Numbered(gs, num) = Numbered(fs, num)
  <2>1. PICK i \in 1..Len(fs) : fs[i].num = num
    BY <1>4 DEF Has
  <2>2. Once(fs, num)
    BY <1>1, <1>2 DEF Once
  <2>3. i \in 1..Len(gs) /\ gs[i].num = num /\ gs[i] = fs[i]
    BY <1>1, <2>1
  <2>4. Numbered(gs, num) = gs[i]
    BY <1>2, <2>3, NumberedIs
  <2>5. Numbered(fs, num) = fs[i]
    BY <2>1, <2>2, NumberedIs
  <2> QED BY <2>3, <2>4, <2>5
<1> QED BY <1>3, <1>4 DEF gs

-----------------------------------------------------------------------------
(* Links *)

LEMMA EmptyLink == LinkFramed(<<>>) /\ LinkMeaning(<<>>) = NewLink /\ \A num : ~Has(<<>>, num)
<1>1. Len(<<>>) = 0
  OBVIOUS
<1>2. \A num : ~Has(<<>>, num)
  BY <1>1 DEF Has
<1> QED BY <1>1, <1>2 DEF LinkFramed, Canonical, LinkMeaning, NewLink

LEMMA LinkFramedGrows ==
  ASSUME NEW fs \in Seq(LinkField), NEW f \in LinkField, LinkFramed(fs), WellFormed(f),
         \A i \in 1..Len(fs) : fs[i].num < f.num
  PROVE  LinkFramed(Append(fs, f))
<1> DEFINE gs == Append(fs, f)
<1>1. /\ Len(gs) = Len(fs) + 1 /\ gs[Len(fs) + 1] = f /\ Len(fs) \in Nat
      /\ \A i \in 1..Len(fs) : gs[i] = fs[i]
  BY Appended1
<1> HIDE DEF gs
<1>2. \A i \in 1..Len(gs) : WellFormed(gs[i])
  <2> SUFFICES ASSUME NEW i \in 1..Len(gs) PROVE WellFormed(gs[i])
    OBVIOUS
  <2>1. i = Len(fs) + 1 \/ i \in 1..Len(fs)
    BY <1>1
  <2> QED BY <1>1, <2>1 DEF LinkFramed
<1>3. Canonical(gs)
  <2> SUFFICES ASSUME NEW i \in 1..Len(gs), NEW j \in 1..Len(gs), i < j
               PROVE  gs[i].num < gs[j].num
    BY DEF Canonical
  <2>1. i \in 1..Len(fs) /\ (j = Len(fs) + 1 \/ j \in 1..Len(fs))
    BY <1>1
  <2> QED BY <1>1, <2>1 DEF LinkFramed, Canonical
<1> QED BY <1>2, <1>3 DEF LinkFramed, gs

LEMMA LinkFramedOnce ==
  ASSUME NEW fs \in Seq(LinkField), LinkFramed(fs), NEW num
  PROVE  Once(fs, num)
<1> SUFFICES ASSUME NEW i \in 1..Len(fs), NEW j \in 1..Len(fs), fs[i].num = num, fs[j].num = num
             PROVE  i = j
  BY DEF Once
<1>1. fs[i] \in LinkField
  OBVIOUS
<1>2. fs[i].num \in 0..4
  BY <1>1 DEF LinkField
<1>3. ~(i < j) /\ ~(j < i)
  BY <1>2 DEF LinkFramed, Canonical
<1> QED BY <1>3

\* One more field sets one more part of the link and leaves the others alone.
LEMMA LinkMeaningGrows ==
  ASSUME NEW fs \in Seq(LinkField), NEW f \in LinkField, LinkFramed(Append(fs, f))
  PROVE  LET m == LinkMeaning(fs)
             n == LinkMeaning(Append(fs, f))
         IN /\ n.Hash = IF f.num = 1 THEN CidOf[f.raw] ELSE m.Hash
            /\ n.Name = IF f.num = 2 THEN f.name ELSE m.Name
            /\ n.Tsize = IF f.num = 3 THEN TsizeOf[f.varint] ELSE m.Tsize
<1> DEFINE gs == Append(fs, f)
<1>1. gs \in Seq(LinkField)
  BY Appended1
<1>2. \A num : Once(gs, num)
  BY <1>1, LinkFramedOnce
<1>3. \A num : Has(gs, num) <=> Has(fs, num) \/ f.num = num
  BY HasGrows
<1>4. \A num : /\ f.num = num => Numbered(gs, num) = f
               /\ f.num # num /\ Has(fs, num) => Numbered(gs, num) = Numbered(fs, num)
  BY <1>2, NumberedGrows
<1> HIDE DEF gs
<1>5. /\ LinkMeaning(gs).Hash = IF f.num = 1 THEN CidOf[f.raw] ELSE LinkMeaning(fs).Hash
      /\ LinkMeaning(gs).Name = IF f.num = 2 THEN f.name ELSE LinkMeaning(fs).Name
      /\ LinkMeaning(gs).Tsize = IF f.num = 3 THEN TsizeOf[f.varint] ELSE LinkMeaning(fs).Tsize
  BY <1>3, <1>4 DEF LinkMeaning
<1> QED BY <1>5 DEF gs

\* What protowire and go-cid make of a well-formed field has the type its number calls
\* for; the conversion to int64 is total.
LEMMA WellFormedValues ==
  ASSUME NEW f \in LinkField, WellFormed(f)
  PROVE  /\ f.num = 1 => CidOf[f.raw] \in Hashes
         /\ f.num = 2 => f.name \in Names
         /\ f.num = 3 => TsizeOf[f.varint] \in Tsizes
<1>1. ASSUME f.num = 1 PROVE CidOf[f.raw] \in Hashes
  <2>1. f.raw \in RawHashes /\ CidOf[f.raw] # BadCid
    BY <1>1 DEF LinkField, WellFormed
  <2> QED BY <2>1, WireAssumption
<1>2. ASSUME f.num = 2 PROVE f.name \in Names
  BY <1>2 DEF LinkField, WellFormed
<1>3. TsizeOf[f.varint] \in Int64
  <2>1. f.varint \in 0..MaxUint64 /\ MaxInt64 \in Nat
    BY WireAssumption DEF LinkField
  <2>2. TsizeOf[f.varint] = IF f.varint <= MaxInt64 THEN f.varint ELSE f.varint - (MaxUint64 + 1)
    BY <2>1 DEF TsizeOf
  <2> QED BY <2>1, <2>2 DEF MaxUint64, Int64
<1> QED BY <1>1, <1>2, <1>3, WireAssumption

LEMMA LinkMeaningTyped ==
  ASSUME NEW fs \in Seq(LinkField), LinkFramed(fs)
  PROVE  LinkMeaning(fs) \in PBLink
<1>1. ASSUME NEW num, Has(fs, num)
      PROVE  Numbered(fs, num) \in LinkField /\ WellFormed(Numbered(fs, num))
             /\ Numbered(fs, num).num = num
  <2>1. PICK i \in 1..Len(fs) : fs[i].num = num
    BY <1>1 DEF Has
  <2>2. Numbered(fs, num) = fs[i]
    BY <2>1, LinkFramedOnce, NumberedIs
  <2> QED BY <2>1, <2>2 DEF LinkFramed
<1>2. /\ Has(fs, 1) => CidOf[Numbered(fs, 1).raw] \in Hashes
      /\ Has(fs, 2) => Numbered(fs, 2).name \in Names
      /\ Has(fs, 3) => TsizeOf[Numbered(fs, 3).varint] \in Tsizes
  BY <1>1, WellFormedValues
<1> QED BY <1>2 DEF LinkMeaning, PBLink

-----------------------------------------------------------------------------
(* Nodes *)

LEMMA EmptyMessage == Framed(<<>>) /\ IsNode(<<>>) /\ NodeMeaning(<<>>) = EmptyNode
<1>1. Len(<<>>) = 0
  OBVIOUS
<1>2. \A num : ~Has(<<>>, num)
  BY EmptyLink
<1>3. NodeMeaning(<<>>).Links = <<>>
  <2> DEFINE M(i) == LinkMeaning(<<>>[0 + i].link)
  <2>1. NodeMeaning(<<>>).Links = [i \in 1..(0 - 0) |-> M(i)]
    BY <1>1, <1>2 DEF NodeMeaning
  <2> HIDE DEF M
  <2>2. 1..(0 - 0) = {}
    OBVIOUS
  <2>3. [i \in 1..(0 - 0) |-> M(i)] = <<>>
    BY <2>2
  <2> QED BY <2>1, <2>3
<1>4. NodeMeaning(<<>>) = EmptyNode
  BY <1>2, <1>3 DEF NodeMeaning, EmptyNode
<1> QED BY <1>1, <1>4 DEF Framed, IsNode

LEMMA FramedBefore ==
  ASSUME NEW msg \in Seq(NodeField), NEW f \in NodeField, Framed(Append(msg, f))
  PROVE  Framed(msg)
<1> DEFINE gs == Append(msg, f)
<1>1. /\ Len(gs) = Len(msg) + 1 /\ gs[Len(msg) + 1] = f /\ Len(msg) \in Nat
      /\ \A i \in 1..Len(msg) : gs[i] = msg[i]
  BY Appended1
<1>2. Framed(gs)
  OBVIOUS
<1> HIDE DEF gs
<1>3. \A i \in 1..Len(msg) : i \in 1..Len(gs)
  BY <1>1
<1>4. \A i \in 1..Len(msg) : msg[i].num \in {1, 2} /\ msg[i].wt = BytesType /\ ~msg[i].short
  BY <1>1, <1>2, <1>3 DEF Framed
<1>5. \A i, j \in 1..Len(msg) : msg[i].num = 1 /\ msg[j].num = 1 => i = j
  BY <1>1, <1>2, <1>3 DEF Framed
<1>6. \A i, j, k \in 1..Len(msg) :
         i < j /\ j < k /\ msg[i].num = 2 /\ msg[k].num = 2 => msg[j].num = 2
  BY <1>1, <1>2, <1>3 DEF Framed
<1> QED BY <1>4, <1>5, <1>6 DEF Framed

\* What one more field needs, beside being a whole one of a known number.
LEMMA FramedGrows ==
  ASSUME NEW msg \in Seq(NodeField), NEW f \in NodeField, Framed(msg),
         f.num \in {1, 2}, f.wt = BytesType, ~f.short,
         f.num = 1 => ~Has(msg, 1),
         f.num = 2 /\ Has(msg, 2) => msg[Len(msg)].num = 2
  PROVE  Framed(Append(msg, f))
<1> DEFINE gs == Append(msg, f)
<1>1. /\ Len(gs) = Len(msg) + 1 /\ gs[Len(msg) + 1] = f /\ Len(msg) \in Nat
      /\ \A i \in 1..Len(msg) : gs[i] = msg[i]
  BY Appended1
<1> HIDE DEF gs
<1>2. \A i \in 1..Len(gs) : i \in 1..Len(msg) \/ i = Len(msg) + 1
  BY <1>1
<1>3. \A i \in 1..Len(gs) : gs[i].num \in {1, 2} /\ gs[i].wt = BytesType /\ ~gs[i].short
  BY <1>1, <1>2 DEF Framed
<1>4. \A i, j \in 1..Len(gs) : gs[i].num = 1 /\ gs[j].num = 1 => i = j
  BY <1>1, <1>2 DEF Framed, Has
<1>5. ASSUME NEW i \in 1..Len(gs), NEW j \in 1..Len(gs), NEW k \in 1..Len(gs),
             i < j, j < k, gs[i].num = 2, gs[k].num = 2
      PROVE  gs[j].num = 2
  <2>1. i \in 1..Len(msg) /\ j \in 1..Len(msg)
    BY <1>1, <1>5
  <2>2. CASE k \in 1..Len(msg)
    BY <1>1, <1>5, <2>1, <2>2 DEF Framed
  <2>3. CASE k = Len(msg) + 1
    <3>1. msg[Len(msg)].num = 2 /\ Len(msg) \in 1..Len(msg)
      BY <1>1, <1>5, <2>1, <2>3 DEF Has
    <3>2. CASE j = Len(msg)
      BY <1>1, <2>1, <3>1, <3>2
    <3>3. CASE j < Len(msg)
      BY <1>1, <1>5, <2>1, <3>1, <3>3 DEF Framed
    <3> QED BY <2>1, <3>2, <3>3
  <2> QED BY <1>2, <2>2, <2>3
<1> QED BY <1>3, <1>4, <1>5 DEF Framed, gs

\* A second Data, or Links on both sides of Data, cannot be mended by what follows.
LEMMA FramedNever ==
  ASSUME NEW msg \in Seq(NodeField), NEW n \in 1..Len(msg), Framed(msg)
  PROVE  /\ msg[n].num \in {1, 2} /\ msg[n].wt = BytesType /\ ~msg[n].short
         /\ msg[n].num = 1 => ~Has(SubSeq(msg, 1, n - 1), 1)
         /\ msg[n].num = 2 /\ Has(SubSeq(msg, 1, n - 1), 2) => msg[n - 1].num = 2
<1>1. n - 1 \in 0..Len(msg)
  OBVIOUS
<1> DEFINE p == SubSeq(msg, 1, n - 1)
<1>2. Len(p) = n - 1 /\ \A i \in 1..(n - 1) : p[i] = msg[i]
  BY <1>1, PrefixTyped
<1> HIDE DEF p
<1>3. msg[n].num = 1 => ~Has(p, 1)
  BY <1>2 DEF Framed, Has
<1>4. msg[n].num = 2 /\ Has(p, 2) => msg[n - 1].num = 2
  <2> SUFFICES ASSUME NEW i \in 1..(n - 1), msg[n].num = 2, msg[i].num = 2
               PROVE  msg[n - 1].num = 2
    BY <1>2 DEF Has
  <2>1. CASE i = n - 1
    BY <2>1
  <2>2. CASE i < n - 1
    BY <2>2 DEF Framed
  <2> QED BY <2>1, <2>2
<1> QED BY <1>3, <1>4 DEF Framed, p

LEMMA FramedOnce ==
  ASSUME NEW msg, Framed(msg)
  PROVE  Once(msg, 1)
BY DEF Framed, Once

\* Only the tags of the fields matter.
LEMMA FramedAlike ==
  ASSUME NEW msg \in Seq(NodeField), NEW f \in NodeField, NEW g \in NodeField,
         f.num = g.num, f.wt = g.wt, f.short = g.short, Framed(Append(msg, f))
  PROVE  Framed(Append(msg, g))
<1>1. /\ Len(Append(msg, f)) = Len(msg) + 1 /\ Append(msg, f)[Len(msg) + 1] = f
      /\ \A i \in 1..Len(msg) : Append(msg, f)[i] = msg[i]
      /\ Len(Append(msg, g)) = Len(msg) + 1 /\ Append(msg, g)[Len(msg) + 1] = g
      /\ \A i \in 1..Len(msg) : Append(msg, g)[i] = msg[i]
      /\ Len(msg) \in Nat
  BY Appended1
<1> DEFINE s == Append(msg, f)
           t == Append(msg, g)
<1>2. Framed(s) /\ Len(s) = Len(t)
  BY <1>1
<1>3. \A i \in 1..Len(t) : s[i].num = t[i].num /\ s[i].wt = t[i].wt /\ s[i].short = t[i].short
  <2> SUFFICES ASSUME NEW i \in 1..Len(t)
               PROVE  s[i].num = t[i].num /\ s[i].wt = t[i].wt /\ s[i].short = t[i].short
    OBVIOUS
  <2>1. i \in 1..Len(msg) \/ i = Len(msg) + 1
    BY <1>1
  <2> QED BY <1>1, <2>1
<1> HIDE DEF s, t
<1>4. Framed(t)
  BY <1>2, <1>3 DEF Framed
<1> QED BY <1>4 DEF t

\* Data sets the Data of the node and leaves its links alone.
LEMMA DataMeaning ==
  ASSUME NEW msg \in Seq(NodeField), NEW f \in NodeField, Framed(Append(msg, f)), f.num = 1
  PROVE  /\ NodeMeaning(Append(msg, f)).Data = f.chunk
         /\ NodeMeaning(Append(msg, f)).Links = NodeMeaning(msg).Links
         /\ NodeMeaning(msg).Data = Unset
<1> DEFINE gs == Append(msg, f)
<1>1. /\ Len(gs) = Len(msg) + 1 /\ gs[Len(msg) + 1] = f /\ Len(msg) \in Nat
      /\ \A i \in 1..Len(msg) : gs[i] = msg[i]
  BY Appended1
<1>2. Once(gs, 1) /\ Framed(gs)
  BY FramedOnce
<1>3. Has(gs, 1) /\ Numbered(gs, 1) = f
  BY <1>2, HasGrows, NumberedGrows
<1> HIDE DEF gs
<1>4. ~Has(msg, 1)
  BY <1>1, <1>2 DEF Once, Has
<1>5. msg # <<>> => gs # <<>> /\ msg[1].num # 1 /\ gs[1] = msg[1]
  <2> SUFFICES ASSUME msg # <<>> PROVE gs # <<>> /\ msg[1].num # 1 /\ gs[1] = msg[1]
    OBVIOUS
  <2>1. 1 \in 1..Len(msg)
    BY <1>1
  <2> QED BY <1>1, <1>4, <2>1 DEF Has
<1> DEFINE before == IF gs # <<>> /\ gs[1].num = 1 THEN 1 ELSE 0
           earlier == IF msg # <<>> /\ msg[1].num = 1 THEN 1 ELSE 0
<1>6. /\ NodeMeaning(gs).Links = [i \in 1..(Len(gs) - 1) |-> LinkMeaning(gs[before + i].link)]
      /\ NodeMeaning(msg).Links = [i \in 1..(Len(msg) - 0) |-> LinkMeaning(msg[earlier + i].link)]
      /\ NodeMeaning(gs).Data = f.chunk /\ NodeMeaning(msg).Data = Unset
  BY <1>3, <1>4 DEF NodeMeaning
<1>7. Len(gs) - 1 = Len(msg) /\ Len(msg) - 0 = Len(msg)
  BY <1>1
<1>8. \A i \in 1..Len(msg) : gs[before + i] = msg[earlier + i]
  <2> SUFFICES ASSUME NEW i \in 1..Len(msg) PROVE gs[before + i] = msg[earlier + i]
    OBVIOUS
  <2>1. msg # <<>>
    BY <1>1
  <2>2. before = 0 /\ earlier = 0
    BY <1>5, <2>1
  <2> QED BY <1>1, <2>2
<1> HIDE DEF before, earlier
<1>9. NodeMeaning(gs).Links = NodeMeaning(msg).Links
  BY <1>6, <1>7, <1>8
<1> QED BY <1>6, <1>9 DEF gs

\* The fields of a framed message that NodeMeaning takes for links are its links.
LEMMA LinkPlaces ==
  ASSUME NEW msg \in Seq(NodeField), Framed(msg)
  PROVE  LET before == IF msg # <<>> /\ msg[1].num = 1 THEN 1 ELSE 0
             others == IF Has(msg, 1) THEN 1 ELSE 0
         IN /\ Len(msg) - others \in Nat
            /\ \A i \in 1..(Len(msg) - others) :
                 before + i \in 1..Len(msg) /\ msg[before + i].num = 2
<1> DEFINE before == IF msg # <<>> /\ msg[1].num = 1 THEN 1 ELSE 0
           others == IF Has(msg, 1) THEN 1 ELSE 0
<1>1. Len(msg) \in Nat /\ (msg = <<>> <=> Len(msg) = 0)
  BY EmptySeq
<1>2. CASE ~Has(msg, 1)
  <2>1. before = 0 /\ others = 0
    <3>1. msg # <<>> => 1 \in 1..Len(msg)
      BY <1>1
    <3> QED BY <1>2, <3>1 DEF Has
  <2>2. \A i \in 1..Len(msg) : msg[i].num = 2
    BY <1>2 DEF Has, Framed
  <2> QED BY <1>1, <2>1, <2>2
<1>3. CASE Has(msg, 1)
  <2>1. PICK d \in 1..Len(msg) : msg[d].num = 1
    BY <1>3 DEF Has
  <2>2. others = 1 /\ msg # <<>> /\ Len(msg) > 0
    BY <1>1, <1>3, <2>1
  <2>3. \A i \in 1..Len(msg) : i # d => msg[i].num = 2
    BY <2>1 DEF Framed
  <2>4. CASE d = 1
    <3>1. before = 1
      BY <2>1, <2>2, <2>4
    <3> QED BY <1>1, <2>2, <2>3, <2>4, <3>1
  <2>5. CASE d > 1
    <3>1. 1 \in 1..Len(msg) /\ Len(msg) \in 1..Len(msg)
      BY <2>1, <2>2
    <3>2. before = 0
      BY <2>3, <2>5, <3>1
    <3>3. d = Len(msg)
      <4>1. ASSUME d < Len(msg) PROVE FALSE
        <5>1. msg[1].num = 2 /\ msg[Len(msg)].num = 2
          BY <2>3, <2>5, <3>1, <4>1
        <5> QED BY <2>1, <2>5, <3>1, <4>1, <5>1 DEF Framed
      <4> QED BY <2>1, <4>1
    <3> QED BY <1>1, <2>2, <2>3, <3>2, <3>3
  <2> QED BY <2>1, <2>4, <2>5
<1> QED BY <1>2, <1>3

LEMMA NodeMeaningTyped ==
  ASSUME NEW msg \in Seq(NodeField), Framed(msg),
         \A i \in 1..Len(msg) : msg[i].num = 2 => LinkFramed(msg[i].link)
  PROVE  NodeMeaning(msg) \in PBNode
<1> DEFINE before == IF msg # <<>> /\ msg[1].num = 1 THEN 1 ELSE 0
           others == IF Has(msg, 1) THEN 1 ELSE 0
           n == Len(msg) - others
           xs == [i \in 1..n |-> LinkMeaning(msg[before + i].link)]
<1>1. /\ n \in Nat
      /\ \A i \in 1..n : before + i \in 1..Len(msg) /\ msg[before + i].num = 2
  BY LinkPlaces
<1>2. \A i \in 1..Len(msg) : msg[i].link \in Seq(LinkField)
  <2>1. \A i \in 1..Len(msg) : msg[i] \in NodeField
    OBVIOUS
  <2> QED BY <2>1 DEF NodeField
<1>3. \A i \in 1..n : LinkMeaning(msg[before + i].link) \in PBLink
  BY <1>1, <1>2, LinkMeaningTyped
<1>4. NodeMeaning(msg).Links = xs
  BY DEF NodeMeaning
<1> HIDE DEF before, n
<1>5. xs \in [1..n -> PBLink]
  BY <1>3
<1> HIDE DEF xs
<1>6. xs \in Seq(PBLink)
  BY <1>1, <1>5, SeqDef
<1>7. NodeMeaning(msg).Data \in Chunks \cup {Unset}
  <2>1. ASSUME Has(msg, 1) PROVE Numbered(msg, 1).chunk \in Chunks \cup {Unset}
    <3>1. PICK i \in 1..Len(msg) : msg[i].num = 1
      BY <2>1 DEF Has
    <3>2. Numbered(msg, 1) = msg[i] /\ msg[i] \in NodeField
      BY <3>1, FramedOnce, NumberedIs
    <3> QED BY <3>2 DEF NodeField
  <2> QED BY <2>1 DEF NodeMeaning
<1> QED BY <1>4, <1>6, <1>7 DEF NodeMeaning, PBNode

\* A link is added behind those there are.
LEMMA LinksMeaning ==
  ASSUME NEW msg \in Seq(NodeField), NEW f \in NodeField, Framed(Append(msg, f)), f.num = 2,
         NodeMeaning(msg).Links \in Seq(PBLink), LinkMeaning(f.link) \in PBLink
  PROVE  /\ NodeMeaning(Append(msg, f)).Data = NodeMeaning(msg).Data
         /\ NodeMeaning(Append(msg, f)).Links
              = Append(NodeMeaning(msg).Links, LinkMeaning(f.link))
<1> DEFINE gs == Append(msg, f)
<1>1. /\ Len(gs) = Len(msg) + 1 /\ gs[Len(msg) + 1] = f /\ Len(msg) \in Nat
      /\ \A i \in 1..Len(msg) : gs[i] = msg[i]
  BY Appended1
<1>2. Once(gs, 1) /\ Framed(gs)
  BY FramedOnce
<1>3. /\ Has(gs, 1) <=> Has(msg, 1)
      /\ Has(msg, 1) => Numbered(gs, 1) = Numbered(msg, 1)
  BY <1>2, HasGrows, NumberedGrows
<1> HIDE DEF gs
<1> DEFINE before == IF gs # <<>> /\ gs[1].num = 1 THEN 1 ELSE 0
           earlier == IF msg # <<>> /\ msg[1].num = 1 THEN 1 ELSE 0
           others == IF Has(msg, 1) THEN 1 ELSE 0
<1>4. gs # <<>> /\ (msg # <<>> => gs[1] = msg[1]) /\ (msg = <<>> => gs[1].num # 1)
  <2>1. gs # <<>>
    BY <1>1
  <2>2. msg # <<>> => 1 \in 1..Len(msg)
    BY <1>1
  <2>3. msg = <<>> => Len(msg) = 0
    OBVIOUS
  <2> QED BY <1>1, <2>1, <2>2, <2>3
<1>5. before = earlier
  BY <1>4
\* Data is the first field: had a link come before it, f could not come after it.
<1>6. Has(msg, 1) => msg # <<>> /\ msg[1].num = 1
  <2> SUFFICES ASSUME NEW i \in 1..Len(msg), msg[i].num = 1
               PROVE  msg # <<>> /\ msg[1].num = 1
    BY DEF Has
  <2>1. 1 \in 1..Len(msg) /\ Len(msg) # 0 /\ Len(msg) + 1 \in 1..Len(gs) /\ i \in 1..Len(gs)
        /\ 1 \in 1..Len(gs)
    BY <1>1
  <2>2. gs[i] = msg[i] /\ gs[1] = msg[1] /\ gs[Len(msg) + 1].num = 2
    BY <1>1, <2>1
  <2>3. CASE i = 1
    BY <2>1, <2>3
  <2>4. CASE i > 1
    <3>1. gs[1].num # 2
      BY <1>2, <2>1, <2>2, <2>4 DEF Framed
    <3> QED BY <1>2, <2>1, <2>2, <3>1 DEF Framed
  <2> QED BY <2>3, <2>4
<1>7. earlier = others /\ others \in {0, 1} /\ others <= Len(msg)
  <2>1. msg # <<>> => Len(msg) >= 1 /\ 1 \in 1..Len(msg)
    BY <1>1
  <2>2. msg # <<>> /\ msg[1].num = 1 => Has(msg, 1)
    BY <2>1 DEF Has
  <2> QED BY <1>1, <1>6, <2>1, <2>2
<1>8. /\ NodeMeaning(gs).Links = [i \in 1..(Len(gs) - others) |-> LinkMeaning(gs[before + i].link)]
      /\ NodeMeaning(msg).Links = [i \in 1..(Len(msg) - others) |-> LinkMeaning(msg[earlier + i].link)]
      /\ NodeMeaning(gs).Data = NodeMeaning(msg).Data
  BY <1>3 DEF NodeMeaning
<1> HIDE DEF before, earlier, others
<1> DEFINE n == Len(msg) - others
           xs == NodeMeaning(msg).Links
           ys == NodeMeaning(gs).Links
<1>9. n \in Nat /\ Len(gs) - others = n + 1 /\ others + (n + 1) = Len(msg) + 1
      /\ \A i \in 1..n : others + i \in 1..Len(msg)
  BY <1>1, <1>7
<1>10. xs \in Seq(PBLink) /\ Len(xs) = n
  <2>1. DOMAIN xs = 1..n
    BY <1>8
  <2>2. DOMAIN xs = 1..Len(xs)
    OBVIOUS
  <2> QED BY <1>9, <2>1, <2>2, LenProperties
<1>11. \A i \in 1..n : ys[i] = xs[i]
  BY <1>1, <1>5, <1>7, <1>8, <1>9
<1>12. ys[n + 1] = LinkMeaning(f.link) /\ DOMAIN ys = 1..(n + 1)
  BY <1>1, <1>5, <1>7, <1>8, <1>9
<1>13. ys = [i \in 1..(n + 1) |-> ys[i]]
  BY <1>8, <1>9
<1> HIDE DEF xs, ys, n
<1>14. ys = Append(xs, LinkMeaning(f.link))
  <2>1. /\ Append(xs, LinkMeaning(f.link)) \in Seq(PBLink)
        /\ Len(Append(xs, LinkMeaning(f.link))) = n + 1
        /\ \A i \in 1..(n + 1) :
             Append(xs, LinkMeaning(f.link))[i] = IF i = n + 1 THEN LinkMeaning(f.link) ELSE xs[i]
    BY <1>9, <1>10, AppendProperties
  <2>2. ys \in Seq(PBLink) /\ Len(ys) = n + 1
    <3>1. \A i \in 1..(n + 1) : ys[i] \in PBLink
      BY <1>9, <1>10, <1>11, <1>12
    <3>2. ys \in [1..(n + 1) -> PBLink]
      BY <1>12, <1>13, <3>1
    <3> QED BY <1>9, <3>2, SeqDef, LenProperties
  <2> QED BY <1>9, <1>11, <1>12, <2>1, <2>2, SeqEqual
<1> QED BY <1>8, <1>14 DEF gs, xs, ys

-----------------------------------------------------------------------------
(* Nodes and links are equal field by field; what is appended to a node *)

LEMMA SameNode ==
  ASSUME NEW m \in PBNode, NEW n \in PBNode, m.Links = n.Links, m.Data = n.Data
  PROVE  m = n
BY DEF PBNode

LEMMA SameLink ==
  ASSUME NEW k \in PBLink, NEW l \in PBLink, k.Hash = l.Hash, k.Name = l.Name, k.Tsize = l.Tsize
  PROVE  k = l
BY DEF PBLink

LEMMA EncLinkTyped ==
  ASSUME NEW fs \in Seq(LinkField)
  PROVE  /\ EncLink(fs) \in NodeField
         /\ EncLink(fs).num = 2 /\ EncLink(fs).wt = BytesType /\ EncLink(fs).short = FALSE
         /\ EncLink(fs).link = fs
BY DEF EncLink, NodeFieldOf, NodeField

LEMMA NodeTyped ==
  ASSUME NEW m \in Seq(NodeField), IsNode(m)
  PROVE  NodeMeaning(m) \in PBNode
BY NodeMeaningTyped DEF IsNode, IsLink

LEMMA NodeGrows ==
  ASSUME NEW msg \in Seq(NodeField), NEW f \in NodeField, IsNode(msg), Framed(Append(msg, f)),
         f.num = 2 => IsLink(f.link)
  PROVE  IsNode(Append(msg, f))
<1> DEFINE m == Append(msg, f)
<1>1. /\ Len(m) = Len(msg) + 1 /\ Len(msg) \in Nat /\ m[Len(msg) + 1] = f
      /\ \A i \in 1..Len(msg) : m[i] = msg[i]
  BY Appended1
<1> HIDE DEF m
<1>2. ASSUME NEW i \in 1..Len(m), m[i].num = 2 PROVE IsLink(m[i].link)
  <2>1. i = Len(msg) + 1 \/ i \in 1..Len(msg)
    BY <1>1
  <2> QED BY <1>1, <1>2, <2>1 DEF IsNode
<1>3. Framed(m)
  BY DEF m
<1>4. IsNode(m)
  BY <1>2, <1>3 DEF IsNode
<1> QED BY <1>4 DEF m
=============================================================================
