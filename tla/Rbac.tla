-------------------------------- MODULE Rbac --------------------------------
(***************************************************************************)
(* The access control list of a process: data mappers register roles while *)
(* they are constructed, in whichever order the injector builds them; then *)
(* requests ask whether a role can do an operation.  `can' is recursive:   *)
(* its call stack is a variable here, for it ends only if the inheritance  *)
(* that the mappers build up between them lets it.                         *)
(***************************************************************************)
EXTENDS RoleMaps, Naturals, Sequences

VARIABLES
  roles,        \* RBAC.roles: what is registered of each role
  constructed,  \* the mappers constructed
  question,     \* the role and operation of the running call of can
  stack,        \* its frames: a role, and the inherited roles not yet tried
  answer        \* what it returned

aclVars == <<roles, constructed, question, stack, answer>>

\* What registerRBAC is given, and every operation there is.
Registered == UNION Mappers
Operations == UNION {g.capability : g \in Registered}

AclInit ==
  /\ roles = [r \in Roles |-> Unknown]
  /\ constructed = {}
  /\ question = <<>>
  /\ stack = <<>>
  /\ answer = "none"

\* Mutant: a role that is registered again replaces what the map holds.
ConstructReplacing(m) ==
  /\ m \notin constructed
  /\ roles' = [r \in Roles |-> IF Named(m, r) = {} THEN roles[r] ELSE Merged(Unknown, Named(m, r))]
  /\ constructed' = constructed \cup {m}
  /\ UNCHANGED <<question, stack, answer>>

\* A mapper is constructed: registerRBAC for each role it defines.
Construct(m) ==
  /\ m \notin constructed
  /\ roles' = [r \in Roles |-> Merged(roles[r], Named(m, r))]
  /\ constructed' = constructed \cup {m}
  /\ UNCHANGED <<question, stack, answer>>

\* Mutant: inherited roles are not tried.
EnterOwnOnly(role, calls, op) ==
  IF op \in roles[role].capability THEN stack' = <<>> /\ answer' = "yes"
  ELSE stack' = calls /\ UNCHANGED answer

\* One call of can: an unregistered role cannot; a capability of the role's own
\* decides; otherwise the inherited roles are tried in turn.
Enter(role, calls, op) ==
  \/ ~roles[role].known /\ stack' = calls /\ UNCHANGED answer
  \/ /\ roles[role].known /\ op \in roles[role].capability
     /\ stack' = <<>> /\ answer' = "yes"
  \/ /\ roles[role].known /\ op \notin roles[role].capability
     /\ stack' = Append(calls, [role |-> role, left |-> roles[role].inherits])
     /\ UNCHANGED answer

\* Routes exist once routerConfig has built every controller, and with them every
\* mapper; then a request asks.
Ask(role, op) ==
  /\ constructed = Mappers /\ question = <<>>
  /\ question' = <<role, op>>
  /\ Enter(role, <<>>, op)
  /\ UNCHANGED <<roles, constructed>>

Innermost == stack[Len(stack)]
Callers   == SubSeq(stack, 1, Len(stack) - 1)

\* some(): the next inherited role is tried.
Try(role) ==
  /\ stack # <<>> /\ role \in Innermost.left
  /\ Enter(role,
           Append(Callers, [role |-> Innermost.role, left |-> Innermost.left \ {role}]),
           question[2])
  /\ UNCHANGED <<roles, constructed, question>>

\* None of them can: the call returns false.
ReturnFalse ==
  /\ stack # <<>> /\ Innermost.left = {}
  /\ stack' = Callers
  /\ UNCHANGED <<roles, constructed, question, answer>>

\* The outermost call has returned; the next request may ask.
Finish ==
  /\ question # <<>> /\ stack = <<>>
  /\ question' = <<>>
  /\ answer' = "none"
  /\ UNCHANGED <<roles, constructed, stack>>

AclNext ==
  \/ \E m \in Mappers : Construct(m)
  \/ \E r \in Roles, op \in Operations : Ask(r, op)
  \/ \E r \in Roles : Try(r)
  \/ ReturnFalse
  \/ Finish

AclSpec == AclInit /\ [][AclNext]_aclVars

-----------------------------------------------------------------------------
Role  == [known : BOOLEAN, capability : SUBSET Operations, inherits : SUBSET Roles]
Frame == [role : Roles, left : SUBSET Roles]

AclTypeOK ==
  /\ roles \in [Roles -> Role]
  /\ constructed \in SUBSET Mappers
  /\ question \in {<<>>} \cup (Roles \X Operations)
  /\ stack \in Seq(Frame)
  /\ answer \in {"none", "yes"}

\* However the injector orders the constructors, each role ends up with all that
\* the mappers constructed so far registered for it, and only that.
\* (IAcl.registerRBAC: "should be idempotent"; ActiveHackathon registers again what
\* Hackathon does, Update what Event does)
OrderIsIrrelevant ==
  roles = RoleMap(UNION constructed)

\* A call of can that has returned says exactly what inheritance allows.
CanIsAllowed ==
  question # <<>> /\ stack = <<>> =>
    (answer = "yes" <=> Allowed(roles, question[1], question[2]))

\* The recursion never asks about a role that an outer call is asking about: it
\* is never deeper than there are roles, and ends.
NoRoleTwice ==
  \A i, j \in DOMAIN stack : stack[i].role = stack[j].role => i = j
=============================================================================
