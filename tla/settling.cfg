SPECIFICATION FairSpec
CONSTANTS
  h1 = h1
  h2 = h2
  Hackathons = {h1, h2}
  FirstHackathon = h1
  StoredAtStart = {h1}
  Targets = {h1, h2}
  Editable = {h1}
  Creatable = {h2}
  GivenPins = {}
  Reactivate = TRUE
  Users = {u1}
  LookupPins = {1}
  Instances = {i1, i2}
  Requests = {r1, r2}
  Nobody = Nobody
PROPERTIES
  RequestsSettle
