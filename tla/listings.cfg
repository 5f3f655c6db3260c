CONSTANTS
  Requests = {r1, r2}
  Users = {u1, u2}
  Events = {e1, e2}
  Hackathons = {h1, h2}
  First = h1
  Second = h2
  None = none
  u1 = u1
  u2 = u2
  e1 = e1
  e2 = e2
  Queries <- SmallQueries
  Before <- SmallTables
  NewId = 5
  Inserted <- SmallInserted
  Categories = 2
  MaxWrites = 1
SYMMETRY Symmetry
SPECIFICATION Spec
INVARIANTS TypeOK AnswerIsOfQuery FreshWhenAsked AggregationIsPartition
CHECK_DEADLOCK FALSE
