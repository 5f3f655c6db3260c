------------------------------ MODULE MCAccess ------------------------------
(***************************************************************************)
(* Access control from the start of a process: Rbac with the roles that    *)
(* the data mappers register; and from some moment on, when all have been  *)
(* registered, Permissions with the levels that the list then lets create  *)
(* admins and reduce levels.                                               *)
(***************************************************************************)
EXTENDS Rbac, Permissions, AclTable, TLC

CONSTANTS director, tech, newcomer

VARIABLE elevating    \* are levels changed by now?

AllRoles == {Levels[i] : i \in DOMAIN Levels}

\* Levels are numbered from 0, in the order of Levels.
TopLevel == Len(Levels) - 1
LevelsThatCan(map, operation) ==
  {l \in 0 .. TopLevel : Allowed(map, Levels[l + 1], <<"admin", operation>>)}
MayCreateAdmins == LevelsThatCan(RoleMap(UNION Provided), "create")
MayReduceLevels == LevelsThatCan(RoleMap(UNION Provided), "reduce_perm")

AllUsers       == {director, tech, newcomer}
AtTheBeginning == director :> 3 @@ tech :> 4 @@ newcomer :> NaN
\* What is posted: two levels, text that is no number, "0", and integers beyond the
\* levels on either side.
SomePosted     == {2, 4, NaN, 0, 0 - 1, TopLevel + 1}
Symmetry == Permutations(Requests)

AccessInit == Init /\ AclInit /\ elevating = FALSE

BeginElevating ==
  /\ ~elevating /\ constructed = Mappers /\ question = <<>>
  /\ elevating' = TRUE
  /\ UNCHANGED <<vars, aclVars>>

AccessNext ==
  \/ ~elevating /\ AclNext /\ UNCHANGED <<vars, elevating>>
  \/ BeginElevating
  \/ elevating /\ Next /\ UNCHANGED <<aclVars, elevating>>

AccessSpec == AccessInit /\ [][AccessNext]_<<vars, aclVars, elevating>>

-----------------------------------------------------------------------------
\* Who may do more: each level of the hackathon's team can do whatever the level
\* below it can.  FINANCE, the last level, is registered by no mapper.
\* Asked of the complete list, before any call of can: it does not change later.
\* (the Below of every mapper's addRBAC, modifyPermissions' comparison of levels)
LevelsRise ==
  constructed = Mappers /\ question = <<>> /\ ~elevating =>
    \A i \in 1 .. Len(Levels) - 2 : \A op \in Operations :
      Allowed(roles, Levels[i], op) => Allowed(roles, Levels[i + 1], op)
=============================================================================
