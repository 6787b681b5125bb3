------------------------------- MODULE PBWire -------------------------------
(***************************************************************************)
(* The bytes of a DAG-PB block as protowire hands them to the codec: a     *)
(* sequence of fields, each a tag and a value.  Bytes are abstracted to    *)
(* what the code tells apart:                                              *)
(*   num   field number; 0 stands for a tag protowire cannot parse         *)
(*   wt    wire type                                                       *)
(*   short the value is cut off, or is a varint of more than 64 bits       *)
(* A field that stops the decoder may be followed by anything.             *)
(***************************************************************************)
EXTENDS PBValues

CONSTANTS
  RawHashes,   \* byte slices found in a Hash field
  CidOf,       \* what cid.CidFromBytes makes of each: a link or BadCid.  It reads
               \* one CID and ignores what follows: several may give one link
  BadCid,
  MaxInt64     \* the largest int64

\* uint64 and int64.
MaxUint64 == 2 * MaxInt64 + 1
Int64 == -(MaxInt64 + 1)..MaxInt64

\* Faulty: the varint is taken as it is.
TsizeUnsigned == [v \in 0..MaxUint64 |-> v]

\* The conversion to int64: the upper half becomes negative.
TsizeOf == [v \in 0..MaxUint64 |-> IF v <= MaxInt64 THEN v ELSE v - (MaxUint64 + 1)]

BytesType == 2
VarintType == 0

\* A field of a PBLink message; raw, name and varint are read according to num.
LinkField ==
  {f \in [num : 0..4, wt : {BytesType, VarintType}, short : BOOLEAN,
          raw : RawHashes \cup {Unset}, name : Names \cup {Unset}, varint : 0..MaxUint64] :
     f.wt = BytesType /\ ~f.short => (f.num = 1 => f.raw # Unset) /\ (f.num = 2 => f.name # Unset)}

\* A field of a PBNode message: Data holds a chunk, Links one PBLink message.
NodeField ==
  {f \in [num : 0..3, wt : {BytesType, VarintType}, short : BOOLEAN,
          chunk : Chunks \cup {Unset}, link : Seq(LinkField)] :
     f.wt = BytesType /\ ~f.short => (f.num = 1 => f.chunk # Unset)}

NodeFieldOf(num, chunk, link) ==
  [num |-> num, wt |-> BytesType, short |-> FALSE, chunk |-> chunk, link |-> link]
LinkFieldOf(num, wt, raw, name, varint) ==
  [num |-> num, wt |-> wt, short |-> FALSE, raw |-> raw, name |-> name, varint |-> varint]

\* No field: number 0 and nothing in it.
NoField == NodeFieldOf(0, Unset, <<>>)
NoLinkField == LinkFieldOf(0, BytesType, Unset, Unset, 0)

\* The fields the encoder writes.
EncData(c) == NodeFieldOf(1, c, <<>>)
EncLink(fs) == NodeFieldOf(2, Unset, fs)
EncHash(r) == LinkFieldOf(1, BytesType, r, Unset, 0)
EncName(s) == LinkFieldOf(2, BytesType, Unset, s, 0)
EncTsize(v) == LinkFieldOf(3, VarintType, Unset, Unset, v)

ASSUME WireAssumption ==
  /\ MaxInt64 \in Nat
  /\ Tsizes = Int64
  /\ BadCid \notin Hashes /\ Unset \notin RawHashes
  /\ CidOf \in [RawHashes -> Hashes \cup {BadCid}]
=============================================================================
