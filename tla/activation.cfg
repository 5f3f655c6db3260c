SPECIFICATION Spec
CONSTANTS
  h1 = h1
  h2 = h2
  h3 = h3
  Hackathons = {h1, h2, h3}
  FirstHackathon = h1
  StoredAtStart = {h1, h2}
  Targets = {h1, h2}
  Editable = {}
  Creatable = {h3}
  GivenPins = {2}
  Reactivate = TRUE
  Users = {u1, u2}
  LookupPins = {}
  Instances = {i1, i2}
  Requests = {r1, r2, r3}
  Nobody = Nobody
SYMMETRY Symmetry
INVARIANTS
  TypeOK
  AtMostOneActive
  SomeHackathonActive
PROPERTIES
  ImplementsLifecycle
