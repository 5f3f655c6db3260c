SPECIFICATION Spec
CONSTANTS
  u1 = u1
  u2 = u2
  h1 = h1
  h2 = h2
  Requests = {r1, r2}
  Instances = {i1}
  Users = {u1, u2}
  Hackathons = {h1, h2}
  Before <- RowsBefore
  First = h1
  Second = h2
  Forms <- SomeForms
  Updates <- SomeUpdates
  Lookups <- SomeLookups
  Nobody = Nobody

PROPERTIES
  OthersStay
