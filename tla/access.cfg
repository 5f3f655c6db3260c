SPECIFICATION AccessSpec
CONSTANTS
  Roles <- AllRoles
  Mappers <- Provided
  director = director
  tech = tech
  newcomer = newcomer
  NaN = NaN
  r1 = r1
  r2 = r2
  Users <- AllUsers
  Posted <- SomePosted
  Creators <- MayCreateAdmins
  Reducers <- MayReduceLevels
  First <- AtTheBeginning
  Requests = {r1, r2}
  Exclusive = FALSE
SYMMETRY Symmetry
INVARIANTS
  TypeOK
  OrderIsIrrelevant
  CanIsAllowed
  NoRoleTwice
  LevelsRise
PROPERTY ReducesOnlyUnseen
