\* Every message once, and a few into the builder each of them leaves behind.
CONSTANTS
  h1 = h1
  h2 = h2
  a = a
  d1 = d1
  d2 = d2
  r1 = r1
  r2 = r2
  rBad = rBad
  none = none
  bad = bad
  Hashes = {h1, h2}
  Names = {a}
  Tsizes <- MCTsizes
  Chunks = {d1, d2}
  Unset = none
  TypedNodes = {}
  TypedLinks = {}
  Level = "repr"
  MaxLinks = 4
  RawHashes = {r1, r2, rBad}
  CidOf <- MCCidOf
  BadCid = bad
  MaxInt64 = 1
  Inputs <- First
  Later <- Some
  MaxCalls = 3
SPECIFICATION DecodeSystem
INVARIANTS
  DecodeTypeOK
  Outline
  ReadsOn
PROPERTIES
  NeverRefused
  IsACaller
  DecodeServes
\* The caller stops after MaxCalls.
CHECK_DEADLOCK FALSE
