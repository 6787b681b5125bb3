\* Only AssignNode, again into a builder that holds a whole node.
CONSTANTS
  h1 = h1
  h2 = h2
  a = a
  t1 = t1
  d1 = d1
  none = none
  noKey = noKey
  Hashes = {h1, h2}
  Names = {a}
  Tsizes = {t1}
  Chunks = {d1}
  Unset = none
  NoKey = noKey
  TypedNodes <- MCTypedNodes
  TypedLinks <- MCTypedLinks
  Level = "type"
  MaxLinks = 4
  RowsPerCall = 2
  Direct = FALSE
  Careless = {"node"}
  Sources <- FewNodes
  ListSources <- FewLists
  RowSources <- FewRows
SPECIFICATION AssignSystem
PROPERTY FinishedIsFinal
