SPECIFICATION Spec
CONSTANTS
  h1 = h1
  h2 = h2
  Hackathons = {h1, h2}
  FirstHackathon = h1
  StoredAtStart = {h1, h2}
  Targets = {h2}
  Editable = {h1, h2}
  Creatable = {}
  GivenPins = {}
  Reactivate = FALSE
  Users = {u1}
  LookupPins = {}
  Instances = {i1}
  Requests = {r1, r2, r3, r4}
  Nobody = Nobody
SYMMETRY Symmetry
INVARIANTS
  AtMostOneActive
