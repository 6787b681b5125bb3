\* Every kind of link, nodes and lists of them, both views.
CONSTANTS
  h1 = h1
  h2 = h2
  a = a
  t1 = t1
  d1 = d1
  none = none
  Hashes = {h1, h2}
  Names = {a}
  Tsizes = {t1}
  Chunks = {d1}
  Unset = none
  NoKey = none
  Views <- MCViews
  Asked <- MCAsked
SPECIFICATION ReadSystem
INVARIANTS
  ViewTypeOK
  DoneExactly
  ReprCopies
PROPERTY ReadServes
