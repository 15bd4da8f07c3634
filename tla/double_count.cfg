SPECIFICATION QuietSpec
CONSTANTS
  e1 = e1
  e2 = e2
  e3 = e3
  c1 = c1
  c2 = c2
  a1 = a1
  a2 = a2
  a3 = a3
  q1 = q1
  q2 = q2
  Events = {e1, e2}
  Ids = {e1, e2}
  IdOf <- MCIdOf
  Queries = {q1}
  Selects <- MCSelects
  Keys = {q1}
  Aggregators = {a1}
  Decodes <- MCDecodesAlike
  Callers = {c1}
  QueryOf <- MCQueryOf
  UniqueId <- MCUniqueId
  Variants <- MCVariantsAll
  Skews <- MCSkewsAhead
  MaxClock = 3
INVARIANTS FoldedOnceInOrder
CHECK_DEADLOCK FALSE
