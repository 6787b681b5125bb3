--------------------------- MODULE MCLinkFraming ----------------------------
(* Instances of LinkFraming for TLC: lengths on both sides of the numbers from *)
(* which they take one byte more, the bytes all looking like a tag.            *)
EXTENDS LinkFraming

CONSTANT none

MCVarint == [v \in 0..400 |-> IF v < 128 THEN <<v>> ELSE <<128 + (v % 128), v \div 128>>]

Run(n) == [i \in 1..n |-> 18]
MCHashes == {Run(n) : n \in {34, 36}}
\* With a hash of 34 bytes: a link of 127 and of 128 bytes, without and with Tsize.
MCNames == {Run(n) : n \in {0, 1, 86, 87, 88, 89, 90, 127, 128}}
MCTsizes == {0, 127, 128}
MCChunks == {Run(n) : n \in {0, 127, 128}}

MCLinks == [Hash : MCHashes, Name : MCNames \cup {none}, Tsize : MCTsizes \cup {none}]
FewLinks == [Hash : {Run(34)}, Name : {none, Run(89), Run(90)}, Tsize : {none, 128}]
MCNodes ==
  [Links : {<<l>> : l \in MCLinks}, Data : {none}]
  \cup [Links : {<<l, m>> : l, m \in FewLinks}, Data : {none, Run(128)}]
  \cup [Links : {<<>>}, Data : MCChunks \cup {none}]
=============================================================================
