\* Nodes of every kind, encoded and read back.
CONSTANTS
  h1 = h1
  h2 = h2
  hUndef = hUndef
  hOther = hOther
  empty = empty
  a = a
  b = b
  d1 = d1
  d2 = d2
  r1 = r1
  r2 = r2
  rBad = rBad
  none = none
  bad = bad
  nonConforming = nonConforming
  Hashes = {h1, h2, hUndef, hOther}
  Names = {empty, a, b}
  Tsizes <- MCTsizes
  Chunks = {d1, d2}
  Unset = none
  RawHashes = {r1, r2, rBad}
  CidOf <- MCCidOfBytes
  BadCid = bad
  MaxInt64 = 1
  CidLinks = {h1, h2, hUndef}
  BytesOf <- MCBytesOf
  NameRank <- MCNameRank
  NonConforming = nonConforming
  Nodes <- MCNodes
  Prefixes <- MCPrefixes
SPECIFICATION EncodeSystem
INVARIANTS
  EncodeTypeOK
  Underway
  RoundTrips
PROPERTY EncodeServes
\* A behaviour is one call.
CHECK_DEADLOCK FALSE
