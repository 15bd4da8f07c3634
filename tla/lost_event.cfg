SPECIFICATION Spec
CONSTANTS
  e1 = e1
  e2 = e2
  c1 = c1
  c2 = c2
  a1 = a1
  a2 = a2
  q1 = q1
  Events = {e1, e2}
  Ids = {e1, e2}
  IdOf <- MCIdOf
  Queries = {q1}
  Selects <- MCSelectAll
  Keys = {q1}
  Aggregators = {a1}
  Decodes <- MCDecodesOwn
  Callers = {c1}
  QueryOf <- MCOneQuery
  UniqueId <- MCUniqueId
  Variants <- MCVariantsAll
  Skews <- MCSkewsNone
  MaxClock = 3
PROPERTIES MemoTransparent
CHECK_DEADLOCK FALSE
