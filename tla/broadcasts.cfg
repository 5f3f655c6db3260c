SPECIFICATION FairSpec
CONSTANTS
  Requests = {r1, r2}
  Instances = {i1, i2}
  Recipients = {x1, x2, x3}
  Malformed = {x3}
  Hackathons = {h1, h2}
  First = h1
  Second = h2
INVARIANTS
  TypeOK
  RecordedTogether
  AnswerNamesSent
  PostedOrRefused
PROPERTIES
  RequestsSettle
