------------------------------- MODULE DagPB -------------------------------
(***************************************************************************)
(* The format, without any of the loops that read or write it: which       *)
(* messages are DAG-PB, and what node each denotes.                        *)
(***************************************************************************)
EXTENDS PBWire

\* Whether a message has a field of that number, and the first of them.
Has(fs, num) == \E i \in 1..Len(fs) : fs[i].num = num
Numbered(fs, num) == fs[CHOOSE i \in 1..Len(fs) : fs[i].num = num]

\* Field numbers come in increasing order, so none comes twice.
Canonical(fs) == \A i, j \in 1..Len(fs) : i < j => fs[i].num < fs[j].num

WellFormed(f) ==
  /\ ~f.short
  /\ \/ f.num = 1 /\ f.wt = BytesType /\ CidOf[f.raw] # BadCid
     \/ f.num = 2 /\ f.wt = BytesType
     \/ f.num = 3 /\ f.wt = VarintType

\* Nothing wrong with the fields of a link, though one may be missing.
LinkFramed(fs) == Canonical(fs) /\ \A i \in 1..Len(fs) : WellFormed(fs[i])

IsLink(fs) == LinkFramed(fs) /\ Has(fs, 1)

LinkMeaning(fs) ==
  [Hash  |-> IF Has(fs, 1) THEN CidOf[Numbered(fs, 1).raw] ELSE Unset,
   Name  |-> IF Has(fs, 2) THEN Numbered(fs, 2).name ELSE Unset,
   Tsize |-> IF Has(fs, 3) THEN TsizeOf[Numbered(fs, 3).varint] ELSE Unset]

\* Data at most once, before or after Links but never between two of them.
Framed(msg) ==
  /\ \A i \in 1..Len(msg) : msg[i].num \in {1, 2} /\ msg[i].wt = BytesType /\ ~msg[i].short
  /\ \A i, j \in 1..Len(msg) : msg[i].num = 1 /\ msg[j].num = 1 => i = j
  /\ \A i, j, k \in 1..Len(msg) :
       i < j /\ j < k /\ msg[i].num = 2 /\ msg[k].num = 2 => msg[j].num = 2

IsNode(msg) ==
  /\ Framed(msg)
  /\ \A i \in 1..Len(msg) : msg[i].num = 2 => IsLink(msg[i].link)

\* Of a message that is framed: the links come one after the other, Data is the
\* field before or after all of them.
NodeMeaning(msg) ==
  LET before == IF msg # <<>> /\ msg[1].num = 1 THEN 1 ELSE 0
      others == IF Has(msg, 1) THEN 1 ELSE 0
  IN [Links |-> [i \in 1..(Len(msg) - others) |-> LinkMeaning(msg[before + i].link)],
      Data  |-> IF Has(msg, 1) THEN Numbered(msg, 1).chunk ELSE Unset]
=============================================================================
