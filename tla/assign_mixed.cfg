\* Careful callers that mix AssignNode with calls of their own.
CONSTANTS
  h1 = h1
  h2 = h2
  a = a
  t1 = t1
  d1 = d1
  none = none
  noKey = noKey
  Hashes = {h1, h2}
  Names = {a}
  Tsizes = {t1}
  Chunks = {d1}
  Unset = none
  NoKey = noKey
  TypedNodes <- MCTypedNodes
  TypedLinks <- MCTypedLinks
  Level = "type"
  MaxLinks = 2
  RowsPerCall = 1
  Direct = TRUE
  Careless = {}
  Sources <- FewNodes
  ListSources <- FewLists
  RowSources <- FewRows
SPECIFICATION AssignSystem
INVARIANTS
  AssignTypeOK
  FinishedComplete
  RowBitsTrue
PROPERTIES
  FinishedIsFinal
  AssignedOnce
