SPECIFICATION Spec
CONSTANTS
  e1 = e1
  e2 = e2
  p1 = p1
  s1 = s1
  s2 = s2
  q1 = q1
  n1 = n1
  Events = {e1, e2}
  Ids = {e1}
  IdOf <- MCSameId
  Queries = {}
  Selects <- MCSelects
  Publishers = {p1}
  Subscribers = {s1, s2}
  Queues = {q1}
  QueueOf <- MCOneQueue
  Names = {n1}
  BoundTo <- MCBoundSame
  NameOf <- MCNameSame
  Garbled = {e2}
  MaxSends = 2
  MaxFaults = 1
INVARIANTS OkMeansEmitted
SYMMETRY SubscriberSymmetry
CHECK_DEADLOCK FALSE
