\* Representation-level assemblers: a finished node and the handles still held.
CONSTANTS
  h1 = h1
  h2 = h2
  a = a
  t1 = t1
  d1 = d1
  none = none
  Hashes = {h1, h2}
  Names = {a}
  Tsizes = {t1}
  Chunks = {d1}
  Unset = none
  TypedNodes <- MCTypedNodes
  TypedLinks <- MCTypedLinks
  Level = "repr"
  MaxLinks = 2
SPECIFICATION Spec
PROPERTY FinishedIsFinal
