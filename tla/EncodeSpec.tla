----------------------------- MODULE EncodeSpec -----------------------------
(***************************************************************************)
(* What a caller of Encode or AppendEncode may rely on: which nodes have   *)
(* an encoding, which message that is, and what is left of the buffer the  *)
(* caller passed and of the node whatever the outcome.                     *)
(***************************************************************************)
EXTENDS DagPB

CONSTANTS
  CidLinks,       \* the links that are a cidlink.Link
  BytesOf,        \* the bytes of the CID in each
  NameRank,       \* place of each name in the order of strings, 0 for the empty one
  NonConforming,  \* any node that does not match the schema
  Nodes,          \* the nodes callers encode
  Prefixes        \* what callers' buffers hold already

VARIABLES
  by,       \* the function called, "Encode" or "AppendEncode"
  inNode,   \* the node of the current or last call
  enc,      \* the buffer, as the caller sees it between calls
  written,  \* what Encode's writer has received
  outcome   \* "none", "busy", or how the last call ended

specVars == <<by, inNode, enc, written, outcome>>

-----------------------------------------------------------------------------
Encodable(n) ==
  /\ n # NonConforming
  /\ \A i \in 1..Len(n.Links) :
       /\ n.Links[i].Hash \in CidLinks
       /\ n.Links[i].Tsize # Unset => n.Links[i].Tsize >= 0

\* An absent name is sorted like an empty one.
Rank(l) == IF l.Name = Unset THEN 0 ELSE NameRank[l.Name]

\* p puts the links in order of their names, those of one name in the order they
\* had.
StableOrder(xs, p) ==
  /\ \A i \in 1..Len(xs) : \E j \in 1..Len(xs) : p[j] = i
  /\ \A i, j \in 1..Len(xs) :
       i < j => \/ Rank(xs[p[i]]) < Rank(xs[p[j]])
                \/ Rank(xs[p[i]]) = Rank(xs[p[j]]) /\ p[i] < p[j]

Orders(xs) == {p \in [1..Len(xs) -> 1..Len(xs)] : StableOrder(xs, p)}

\* The fields a link has, in order of their numbers.
LinkMessage(l) ==
  <<EncHash(BytesOf[l.Hash])>>
  \o (IF l.Name = Unset THEN <<>> ELSE <<EncName(l.Name)>>)
  \o (IF l.Tsize = Unset THEN <<>> ELSE <<EncTsize(l.Tsize)>>)

\* The canonical encoding, the links sorted, then Data.  It is unique.
Encodings(n) ==
  {[i \in 1..Len(n.Links) |-> EncLink(LinkMessage(n.Links[p[i]]))]
   \o (IF n.Data = Unset THEN <<>> ELSE <<EncData(n.Data)>>) :
   p \in Orders(n.Links)}

-----------------------------------------------------------------------------
SpecInit ==
  /\ inNode = NonConforming /\ enc = <<>> /\ written = <<>>
  /\ by = "AppendEncode" /\ outcome = "none"

Ask(f, n, prefix) ==
  /\ outcome = "none"
  /\ by' = f /\ inNode' = n /\ enc' = prefix /\ written' = <<>> /\ outcome' = "busy"

\* Whatever was in the buffer stays in front.
Encoded ==
  /\ outcome = "busy" /\ Encodable(inNode)
  /\ \E msg \in Encodings(inNode) : enc' = enc \o msg
  /\ \/ outcome' = "ok" /\ written' = (IF by = "Encode" THEN enc' ELSE <<>>)
     \/ /\ by = "Encode" /\ outcome' = "unwritten"
        /\ \E k \in 0..Len(enc') : written' = SubSeq(enc', 1, k)
  /\ UNCHANGED <<by, inNode>>

\* An error leaves nothing behind, in the buffer or with the writer.
Unencodable ==
  /\ outcome = "busy" /\ ~Encodable(inNode)
  /\ outcome' = "err"
  /\ UNCHANGED <<by, inNode, enc, written>>

Answer == Encoded \/ Unencodable

SpecNext ==
  \/ \E n \in Nodes : Ask("Encode", n, <<>>)
  \/ \E n \in Nodes, prefix \in Prefixes : Ask("AppendEncode", n, prefix)
  \/ Answer

EncodeService == SpecInit /\ [][SpecNext]_specVars /\ WF_specVars(Answer)
=============================================================================
