SPECIFICATION Spec
CONSTANTS
  e1 = e1
  c1 = c1
  a1 = a1
  k1 = k1
  q1 = q1
  n1 = n1
  p1 = p1
  s1 = s1
  Events = {e1}
  Ids = {e1}
  IdOf <- MCIdOf
  Queries = {k1}
  Selects <- MCSelects
  Keys = {k1}
  Aggregators = {a1}
  Decodes <- MCDecodes
  Callers = {c1}
  QueryOf <- MCQueryOf
  UniqueId <- MCUniqueId
  Variants <- MCVariants
  Skews <- MCSkewsBehind
  MaxClock = 2
  Publishers = {p1}
  Subscribers = {s1}
  Queues = {q1}
  QueueOf <- MCQueueOf
  Names = {n1}
  BoundTo <- MCBoundTo
  NameOf <- MCNameOf
  Garbled = {}
  MaxSends = 1
  MaxFaults = 1
  SavesBy <- MCSavesBy
  Watches <- MCWatches
INVARIANTS KnownIsFound
CHECK_DEADLOCK FALSE
