\* A builder of every type but PBNode, every call order of a careful caller.
CONSTANTS
  h1 = h1
  h2 = h2
  a = a
  b = b
  t1 = t1
  t2 = t2
  d1 = d1
  d2 = d2
  none = none
  noKey = noKey
  Hashes = {h1, h2}
  Names = {a, b}
  Tsizes = {t1, t2}
  Chunks = {d1, d2}
  Unset = none
  NoKey = noKey
  TypedNodes <- MCTypedNodes
  TypedLinks <- MCTypedLinks
  Level = "type"
  MaxLinks = 2
  RowsPerCall = 1
  Direct = TRUE
  Careless = {}
  Sources = {}
  ListSources <- MCLists
  RowSources <- MCRows
SPECIFICATION RootSpec
INVARIANTS
  RootTypeOK
  BuiltConforms
  HandedOutStays
