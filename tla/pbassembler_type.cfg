\* Type-level assemblers, every call order, two rows.
CONSTANTS
  h1 = h1
  h2 = h2
  a = a
  t1 = t1
  d1 = d1
  none = none
  Hashes = {h1, h2}
  Names = {a}
  Tsizes = {t1}
  Chunks = {d1}
  Unset = none
  TypedNodes <- MCTypedNodes
  TypedLinks <- MCTypedLinks
  Level = "type"
  MaxLinks = 2
SPECIFICATION Spec
INVARIANTS
  TypeOK
  FinishedComplete
  RowFieldsRecorded
  AssemblerInv
PROPERTIES
  FinishedIsFinal
  WriteOnce
