SPECIFICATION FairSpec
CONSTANTS
  Capacity = 2
  Queries = {q1, q2, q3}
  Reads = {s1, s2}
  Filled = {s1}
  WriteText = w
  Slots = {c1, c2}
  NoSlot = NoSlot
  Nobody = Nobody
INVARIANTS
  TypeOK
  NoOpenTransactionInPool
  FreshReads
PROPERTIES
  ImplementsUnitOfWork
  CallsEnd
  ServesLastSet
