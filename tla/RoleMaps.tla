------------------------------ MODULE RoleMaps ------------------------------
(***************************************************************************)
(* The map of registered roles as a value: what registering adds to it and *)
(* what it allows.  `grants' are the roles that registerRBAC is given: a   *)
(* name, a set of operations, a set of names that it inherits from.        *)
(***************************************************************************)

CONSTANTS
  Roles,     \* names of roles
  Mappers    \* data mappers, each the set of roles its constructor registers

\* Mappers name roles by the names that levels have.
ASSUME MappersAssumption ==
  \A g \in UNION Mappers : g.role \in Roles /\ g.inherits \subseteq Roles

Unknown == [known |-> FALSE, capability |-> {}, inherits |-> {}]

\* Mutant: inheriting nothing is taken for a name.
MergedUndefined(old, gs) ==
  IF gs = {} THEN old ELSE
  [known |-> TRUE, capability |-> old.capability \cup UNION {g.capability : g \in gs},
   inherits |-> UNION {IF g.inherits = {} THEN {"undefined"} ELSE g.inherits : g \in gs}]

\* What the map holds of a role once the roles gs of that name are registered.
Merged(old, gs) ==
  IF gs = {} THEN old ELSE
  [known      |-> TRUE,
   capability |-> old.capability \cup UNION {g.capability : g \in gs},
   inherits   |-> old.inherits \cup UNION {g.inherits : g \in gs}]

Named(gs, role) == {g \in gs : g.role = role}

\* The map that a set of grants makes of an empty one.
RoleMap(grants) == [r \in Roles |-> Merged(Unknown, Named(grants, r))]

\* All that the roles of S inherit is in S.
Closed(map, S) == \A s \in S : map[s].inherits \subseteq S

\* What a role can do according to the inheritance: every set of roles that holds
\* it and all they inherit has a role with the operation.
Allowed(map, role, op) ==
  /\ map[role].known
  /\ \A S \in SUBSET Roles :
       role \in S /\ Closed(map, S) => \E s \in S : op \in map[s].capability
=============================================================================
