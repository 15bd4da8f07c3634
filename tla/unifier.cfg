SPECIFICATION Spec
CONSTANTS
  u1 = u1
  u2 = u2
  da = da
  db = db
  store = store
  dest = dest
  n1 = n1
  n2 = n2
  Rows <- MCRows
  SavedTo <- MCSavedTo
  Undecodable <- MCUndecodable
  Domains = {da, db}
  NamespaceOf <- MCNamespaceOf
  Store = store
  Dest = dest
  Runs = {u1, u2}
  Tick = 10
INVARIANTS TypeOK
PROPERTIES CompleteOnSuccess UnifiesAtomically
SYMMETRY RunSymmetry
CHECK_DEADLOCK FALSE
