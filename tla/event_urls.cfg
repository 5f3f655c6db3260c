SPECIFICATION CalmSpec
CONSTANTS
  e1 = e1
  e2 = e2
  h1 = h1
  h2 = h2
  a = a
  r1 = r1
  r2 = r2
  r3 = r3
  Events = {e1, e2}
  Hackathons = {h1, h2}
  Nowhere = Nowhere
  Links = {a}
  Requests = {r1, r2, r3}
  Kinds = {"post", "update", "delete", "get"}
  Clients = "anytime"
  KnownOnly = FALSE
  Faults = TRUE
SYMMETRY Symmetry
INVARIANTS
  TypeOK
  SettledUrlsAreReplaced
  UrlsAsPostedIfCalm
