\* Nodes of every kind assigned into a builder, used again with and without Reset.
CONSTANTS
  h1 = h1
  h2 = h2
  a = a
  t1 = t1
  d1 = d1
  none = none
  noKey = noKey
  Hashes = {h1, h2}
  Names = {a}
  Tsizes = {t1}
  Chunks = {d1}
  Unset = none
  NoKey = noKey
  TypedNodes <- MCTypedNodes
  TypedLinks <- MCTypedLinks
  Level = "repr"
  MaxLinks = 4
  RowsPerCall = 2
  Direct = FALSE
  Careless = {}
  Sources <- AllSources
  ListSources <- FewLists
  RowSources <- FewRows
SPECIFICATION AssignSystem
PROPERTY AssignServes
