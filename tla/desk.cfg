SPECIFICATION Spec
CONSTANTS
  u1 = u1
  u2 = u2
  guest = guest
  w1 = w1
  w2 = w2
  h1 = h1
  h2 = h2
  laptop = laptop
  Requests = {r1, r2, r3}
  Instances = {i1}
  Pins = {1}
  Devices = {d1, d2}
  Issues = 2
  Users = {u1, u2, guest}
  Hackathons = {h1, h2}
  Registered <- RegisteredIn
  First = h1
  Second = h2
  Bands = {w1, w2}
  Assignments <- ManyAssignments
  Scans <- ManyScans
  Borrowers <- AtTheDesk
  Items = {laptop}
  Quantity <- OnePieceEach
  Nobody = Nobody
  NoBand = NoBand
SYMMETRY Symmetry
INVARIANTS
  TypeOK
  PinsAreSpent
  RefusedIsNotStored
  LentToWearer
