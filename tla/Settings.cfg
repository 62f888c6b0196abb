\* Two settings, two pages open at once; each saves once, or one of them twice.
CONSTANTS
  NKeys = 2
  Values = {a}
  Initial = initial
  Pages = {p, q}
  Requests = {r, s}
  NoRequest = none
  MaxEdits = 2
SYMMETRY Symmetry
SPECIFICATION Spec
INVARIANTS
  TypeOK
  SavedIsStored
PROPERTIES
  OnlyStaleReverts
  ImplementsSaveContract
CHECK_DEADLOCK FALSE
