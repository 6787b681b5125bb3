\* Single links of every length around a boundary, pairs of them, and Data.
CONSTANTS
  none = none
  Hashes <- MCHashes
  Names <- MCNames
  Tsizes <- MCTsizes
  Chunks <- MCChunks
  Unset = none
  Varint <- MCVarint
  Nodes <- MCNodes
SPECIFICATION Framing
INVARIANT ReadsBack
PROPERTY Arrives
\* A block is written and read once.
CHECK_DEADLOCK FALSE
