--------------------------- MODULE MCAppendEncode ---------------------------
(* Instances of AppendEncode for TLC: the nodes of each run. *)
EXTENDS AppendEncode, MCMessages

CONSTANTS hUndef, hOther, empty, b, nonConforming

\* hUndef is a cidlink.Link without a CID, hOther a link of another type.
MCBytesOf == (h1 :> r1) @@ (h2 :> r2) @@ (hUndef :> rBad)
MCCidOfBytes == (r1 :> h1) @@ (r2 :> h2) @@ (rBad :> bad)
MCNameRank == (empty :> 0) @@ (a :> 1) @@ (b :> 2)

MCLink(h, n, t) == [Hash |-> h, Name |-> n, Tsize |-> t]
Sorting == {MCLink(h1, none, none), MCLink(h2, none, 0), MCLink(h1, empty, none),
            MCLink(h2, a, 1), MCLink(h1, a, none), MCLink(h1, b, 0)}

\* Every single link, and lists of up to three for the sort to order.
MCNodes ==
  {nonConforming}
  \cup [Links : {<<l>> : l \in [Hash : Hashes \cup {none}, Name : Names \cup {none},
                               Tsize : MCTsizes \cup {none}]},
        Data : {d1, none}]
  \cup [Links : SX!SeqOf(Sorting, 3), Data : {d1, none}]
  \cup [Links : {<<MCLink(h1, a, 1), MCLink(h2, none, -1)>>}, Data : {none}]

MCPrefixes == {<<>>, <<EncData(d2)>>}

\* What is decoded from the messages of LinkLevel.
DecodedNodes == {NodeMeaning(m) : m \in {m \in LinkLevel : IsNode(m)}}
\* The nodes decoded from LinkLevel can all be encoded again.
DecodedReencodes == DecodedEncodes(LinkLevel)
=============================================================================
