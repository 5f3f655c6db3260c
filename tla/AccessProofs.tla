---------------------------- MODULE AccessProofs ----------------------------
(***************************************************************************)
(* What holds of Rbac for all roles and mappers, of Permissions for any    *)
(* users, levels, grants and requests, and of the two together with the    *)
(* roles that the mappers of the service register.                         *)
(*                                                                         *)
(* A role is Barren for an operation if inheritance does not give it to    *)
(* it.  Of every frame of the stack: its role lacks the operation itself,  *)
(* the outermost role leads to it (Frames), and what was tried of what it  *)
(* inherits is barren, but for the role of the next frame, which is still  *)
(* being tried (Tried).                                                    *)
(***************************************************************************)
EXTENDS MCAccess, SequenceTheorems, TLAPS

\* Some set that holds the role and all they inherit has no role with the operation.
Barren(x, op) ==
  \E S \in SUBSET Roles :
    x \in S /\ Closed(roles, S) /\ \A s \in S : op \notin roles[s].capability

\* Asking about role leads to asking about x.
LeadsTo(role, x) ==
  \A S \in SUBSET Roles : role \in S /\ Closed(roles, S) => x \in S

Lacks(role, op) == roles[role].known /\ op \notin roles[role].capability

\* Of the frames of a stack that is asked whether `outermost' can do op: each led
\* to, each lacking op, the first one of that role.
Frames(stk, outermost, op) ==
  /\ \A i \in 1 .. Len(stk) :
       /\ LeadsTo(outermost, stk[i].role) /\ Lacks(stk[i].role, op)
       /\ stk[i].left \subseteq roles[stk[i].role].inherits
  /\ stk # <<>> => stk[1].role = outermost

\* All that its frames inherit is left to be tried, was tried in vain, or is being
\* tried: by the next frame, or for the last frame as the role `current'.
Tried(stk, op, current) ==
  \A i \in 1 .. Len(stk) : \A x \in roles[stk[i].role].inherits :
    \/ x \in stk[i].left
    \/ Barren(x, op)
    \/ i < Len(stk) /\ stk[i + 1].role = x
    \/ i = Len(stk) /\ x \in current

UnknownEmpty ==
  \A r \in Roles : ~roles[r].known => roles[r].capability = {} /\ roles[r].inherits = {}

CallRuns ==
  /\ question = <<>> => stack = <<>> /\ answer = "none"
  /\ question # <<>> =>
       /\ constructed = Mappers
       /\ Frames(stack, question[1], question[2])
       /\ Tried(stack, question[2], {})
  /\ answer = "yes" => stack = <<>>

AclInv == AclTypeOK /\ OrderIsIrrelevant /\ UnknownEmpty /\ CallRuns /\ CanIsAllowed

-----------------------------------------------------------------------------
\* Registering the grants of two mappers after each other is registering both.
LEMMA MergedTwice ==
  ASSUME NEW A, NEW B
  PROVE  Merged(Merged(Unknown, A), B) = Merged(Unknown, A \cup B)
  <1>1. CASE A = {}
    <2>1. A \cup B = B /\ Merged(Unknown, A) = Unknown
      BY <1>1 DEF Merged
    <2> QED
      BY <2>1
  <1>2. CASE A # {} /\ B = {}
    <2>1. A \cup B = A /\ \A old : Merged(old, B) = old
      BY <1>2 DEF Merged
    <2> QED
      BY <2>1
  <1>3. CASE A # {} /\ B # {}
    <2> DEFINE MA == [known |-> TRUE,
                      capability |-> {} \cup UNION {g.capability : g \in A},
                      inherits |-> {} \cup UNION {g.inherits : g \in A}]
    <2>1. Merged(Unknown, A) = MA
      BY <1>3 DEF Merged, Unknown
    <2>2. UNION {g.capability : g \in A \cup B} =
            (UNION {g.capability : g \in A}) \cup (UNION {g.capability : g \in B})
      OBVIOUS
    <2>3. UNION {g.inherits : g \in A \cup B} =
            (UNION {g.inherits : g \in A}) \cup (UNION {g.inherits : g \in B})
      OBVIOUS
    <2>4. A \cup B # {}
      BY <1>3
    <2>5. Merged(MA, B) =
            [known |-> TRUE,
             capability |-> ({} \cup UNION {g.capability : g \in A}) \cup UNION {g.capability : g \in B},
             inherits |-> ({} \cup UNION {g.inherits : g \in A}) \cup UNION {g.inherits : g \in B}]
      BY <1>3 DEF Merged
    <2>6. Merged(Unknown, A \cup B) =
            [known |-> TRUE,
             capability |-> {} \cup UNION {g.capability : g \in A \cup B},
             inherits |-> {} \cup UNION {g.inherits : g \in A \cup B}]
      BY <2>4 DEF Merged, Unknown
    <2>7. ({} \cup UNION {g.capability : g \in A}) \cup UNION {g.capability : g \in B} =
            {} \cup UNION {g.capability : g \in A \cup B}
      BY <2>2
    <2>8. ({} \cup UNION {g.inherits : g \in A}) \cup UNION {g.inherits : g \in B} =
            {} \cup UNION {g.inherits : g \in A \cup B}
      BY <2>3
    <2> HIDE DEF MA
    <2> QED
      BY <2>1, <2>5, <2>6, <2>7, <2>8
  <1> QED
    BY <1>1, <1>2, <1>3

\* One more mapper adds its roles to the map.
LEMMA OneMoreMapper ==
  ASSUME NEW C, NEW m
  PROVE  [r \in Roles |-> Merged(RoleMap(UNION C)[r], Named(m, r))]
           = RoleMap(UNION (C \cup {m}))
  <1>1. ASSUME NEW r \in Roles
        PROVE  Merged(RoleMap(UNION C)[r], Named(m, r))
                 = Merged(Unknown, Named(UNION (C \cup {m}), r))
    <2>1. Named(UNION (C \cup {m}), r) = Named(UNION C, r) \cup Named(m, r)
      BY DEF Named
    <2>2. RoleMap(UNION C)[r] = Merged(Unknown, Named(UNION C, r))
      BY <1>1 DEF RoleMap
    <2>3. Merged(Merged(Unknown, Named(UNION C, r)), Named(m, r))
            = Merged(Unknown, Named(UNION C, r) \cup Named(m, r))
      BY MergedTwice
    <2> QED
      BY <2>1, <2>2, <2>3, Zenon
  <1> QED
    BY <1>1, Zenon DEF RoleMap

\* What mappers register has the types of a role.
LEMMA MapTyped ==
  ASSUME NEW C \in SUBSET Mappers
  PROVE  RoleMap(UNION C) \in [Roles -> Role]
  <1> SUFFICES ASSUME NEW r \in Roles PROVE Merged(Unknown, Named(UNION C, r)) \in Role
    BY DEF RoleMap
  <1> DEFINE G == Named(UNION C, r)
  <1>1. G \subseteq Registered
    BY DEF Named, Registered
  <1>2. UNION {g.capability : g \in G} \in SUBSET Operations
    BY <1>1 DEF Operations
  <1>3. UNION {g.inherits : g \in G} \in SUBSET Roles
    BY <1>1, MappersAssumption DEF Registered
  <1>4. Unknown \in Role
    BY DEF Unknown, Role
  <1>5. G # {} => Merged(Unknown, G) \in Role
    <2> SUFFICES ASSUME G # {} PROVE Merged(Unknown, G) \in Role
      OBVIOUS
    <2>1. Merged(Unknown, G) =
            [known |-> TRUE, capability |-> {} \cup UNION {g.capability : g \in G},
             inherits |-> {} \cup UNION {g.inherits : g \in G}]
      BY DEF Merged, Unknown
    <2> HIDE DEF G
    <2> QED
      BY <1>2, <1>3, <2>1 DEF Role
  <1>6. G = {} => Merged(Unknown, G) = Unknown
    BY DEF Merged
  <1> QED
    BY <1>4, <1>5, <1>6

\* A role of which nothing is known has no operations and inherits nothing.
LEMMA MapUnknown ==
  ASSUME NEW C, NEW r \in Roles, ~RoleMap(UNION C)[r].known
  PROVE  RoleMap(UNION C)[r] = Unknown
  <1>1. RoleMap(UNION C)[r] = Merged(Unknown, Named(UNION C, r))
    BY DEF RoleMap
  <1> QED
    BY <1>1 DEF Merged

-----------------------------------------------------------------------------
\* A role that inherits only from roles that cannot, and cannot itself, cannot.
LEMMA AllBarren ==
  ASSUME roles \in [Roles -> Role], NEW role \in Roles, NEW op,
         op \notin roles[role].capability,
         \A x \in roles[role].inherits : Barren(x, op)
  PROVE  Barren(role, op)
  <1> DEFINE B == {x \in Roles : Barren(x, op)}
  <1>1. ASSUME NEW x \in B PROVE roles[x].inherits \subseteq B /\ op \notin roles[x].capability
    <2>1. PICK S \in SUBSET Roles :
            x \in S /\ Closed(roles, S) /\ \A s \in S : op \notin roles[s].capability
      BY <1>1 DEF Barren
    <2>2. S \subseteq B
      BY <2>1 DEF Barren
    <2> QED
      BY <2>1, <2>2 DEF Closed
  <1>2. roles[role].inherits \subseteq B
    BY DEF Role
  <1> DEFINE S == B \cup {role}
  <1>3. S \in SUBSET Roles /\ role \in S
    OBVIOUS
  <1>4. Closed(roles, S)
    BY <1>1, <1>2 DEF Closed
  <1>5. \A s \in S : op \notin roles[s].capability
    BY <1>1
  <1> HIDE DEF S
  <1> QED
    BY <1>3, <1>4, <1>5 DEF Barren

\* A role of which nothing is known cannot do anything.
LEMMA UnknownBarren ==
  ASSUME roles \in [Roles -> Role], UnknownEmpty, NEW role \in Roles, NEW op, ~roles[role].known
  PROVE  Barren(role, op)
  BY AllBarren DEF UnknownEmpty

\* Allowed is not being barren, for a role of which something is known.
LEMMA AllowedOrBarren ==
  ASSUME NEW role \in Roles, NEW op
  PROVE  Allowed(roles, role, op) <=> roles[role].known /\ ~Barren(role, op)
  BY DEF Allowed, Barren

\* One that leads to a role with the operation is not barren.
LEMMA LeadsToOne ==
  ASSUME NEW role \in Roles, NEW x \in Roles, NEW op,
         LeadsTo(role, x), op \in roles[x].capability
  PROVE  ~Barren(role, op)
  BY DEF LeadsTo, Barren

\* Inherited roles are led to.
LEMMA LeadsOn ==
  ASSUME NEW role \in Roles, NEW x \in Roles, LeadsTo(role, x), NEW y \in roles[x].inherits
  PROVE  LeadsTo(role, y)
  BY DEF LeadsTo, Closed

-----------------------------------------------------------------------------
\* A call of can, with the stack it is called on and one of the outcomes it has.
LEMMA EnterOutcome ==
  ASSUME AclTypeOK, UnknownEmpty, roles' = roles,
         NEW calls \in Seq(Frame), NEW role \in Roles, NEW outermost \in Roles, NEW op,
         Frames(calls, outermost, op), Tried(calls, op, {role}), LeadsTo(outermost, role),
         calls = <<>> => role = outermost,
         Enter(role, calls, op)
  PROVE  \/ /\ stack' = calls /\ answer' = answer
            /\ Tried(calls, op, {})
            /\ calls = <<>> => ~Allowed(roles, outermost, op)
         \/ /\ stack' = <<>> /\ answer' = "yes"
            /\ Allowed(roles, outermost, op)
         \/ /\ stack' # <<>> /\ stack' \in Seq(Frame) /\ answer' = answer
            /\ Frames(stack', outermost, op)
            /\ Tried(stack', op, {})
  <1>0. roles \in [Roles -> Role] /\ Len(calls) \in Nat
    BY LenProperties DEF AclTypeOK
  <1>1. CASE ~roles[role].known
    <2>1. Barren(role, op)
      BY <1>0, <1>1, UnknownBarren
    <2>2. Tried(calls, op, {})
      BY <2>1 DEF Tried
    <2>3. calls = <<>> => ~Allowed(roles, outermost, op)
      BY <2>1, AllowedOrBarren
    <2> QED
      BY <1>1, <2>2, <2>3 DEF Enter
  <1>2. CASE roles[role].known /\ op \in roles[role].capability
    <2>1. ~Barren(outermost, op)
      BY <1>2, LeadsToOne
    <2>2. roles[outermost].known
      <3>1. calls # <<>> => Len(calls) > 0 /\ roles[calls[1].role].known
        BY <1>0, EmptySeq DEF Frames, Lacks
      <3> QED
        BY <1>2, <3>1 DEF Frames
    <2>3. Allowed(roles, outermost, op)
      BY <2>1, <2>2, AllowedOrBarren
    <2> QED
      BY <1>2, <2>3 DEF Enter
  <1>3. CASE roles[role].known /\ op \notin roles[role].capability
    <2> DEFINE frame == [role |-> role, left |-> roles[role].inherits]
               deeper == Append(calls, frame)
    <2>1. frame \in Frame
      BY <1>0 DEF Role, Frame
    <2>2. stack' = deeper /\ answer' = answer
      BY <1>3 DEF Enter
    <2>3. frame.role = role /\ frame.left = roles[role].inherits
      OBVIOUS
    <2> HIDE DEF frame
    <2>4. /\ deeper \in Seq(Frame) /\ deeper # <<>> /\ Len(deeper) = Len(calls) + 1
          /\ \A i \in 1 .. Len(calls) : deeper[i] = calls[i]
          /\ deeper[Len(calls) + 1] = frame
      BY <2>1, AppendProperties
    <2> HIDE DEF deeper
    <2>5. Frames(deeper, outermost, op)
      <3>1. \A i \in 1 .. Len(deeper) : i \in 1 .. Len(calls) \/ i = Len(calls) + 1
        BY <1>0, <2>4
      <3>2. \A i \in 1 .. Len(deeper) :
              /\ LeadsTo(outermost, deeper[i].role) /\ Lacks(deeper[i].role, op)
              /\ deeper[i].left \subseteq roles[deeper[i].role].inherits
        BY <1>3, <2>3, <2>4, <3>1 DEF Frames, Lacks
      <3>3. deeper[1].role = outermost
        <4>1. CASE calls = <<>>
          BY <2>3, <2>4, <4>1, EmptySeq
        <4>2. CASE calls # <<>>
          <5>1. 1 \in 1 .. Len(calls)
            BY <1>0, <4>2, EmptySeq
          <5> QED
            BY <2>4, <4>2, <5>1 DEF Frames
        <4> QED
          BY <4>1, <4>2
      <3> QED
        BY <3>2, <3>3 DEF Frames
    <2>6. Tried(deeper, op, {})
      <3> SUFFICES ASSUME NEW i \in 1 .. Len(deeper), NEW x \in roles[deeper[i].role].inherits
                   PROVE  \/ x \in deeper[i].left
                          \/ Barren(x, op)
                          \/ i < Len(deeper) /\ deeper[i + 1].role = x
        BY DEF Tried
      <3>1. CASE i = Len(calls) + 1
        BY <2>3, <2>4, <3>1
      <3>2. CASE i \in 1 .. Len(calls)
        <4>1. deeper[i] = calls[i] /\ i < Len(deeper)
          BY <1>0, <2>4, <3>2
        <4>2. \/ x \in calls[i].left
              \/ Barren(x, op)
              \/ i < Len(calls) /\ calls[i + 1].role = x
              \/ i = Len(calls) /\ x \in {role}
          BY <3>2, <4>1 DEF Tried
        <4>3. i < Len(calls) => deeper[i + 1] = calls[i + 1]
          BY <1>0, <2>4, <3>2
        <4>4. i = Len(calls) => deeper[i + 1].role = role
          BY <2>3, <2>4
        <4> QED
          BY <4>1, <4>2, <4>3, <4>4
      <3> QED
        BY <1>0, <2>4, <3>1, <3>2
    <2> QED
      BY <2>2, <2>4, <2>5, <2>6
  <1> QED
    BY <1>1, <1>2, <1>3

-----------------------------------------------------------------------------
\* What SubSeq leaves of a stack without its last frame.
LEMMA CallersOf ==
  ASSUME stack \in Seq(Frame), stack # <<>>
  PROVE  /\ Callers \in Seq(Frame)
         /\ Len(stack) \in Nat \ {0}
         /\ Len(Callers) = Len(stack) - 1
         /\ \A i \in 1 .. Len(stack) - 1 : Callers[i] = stack[i]
         /\ Innermost \in Frame
  <1>1. Len(stack) \in Nat \ {0} /\ \A i \in 1 .. Len(stack) : stack[i] \in Frame
    BY EmptySeq, ElementOfSeq
  <1>2. \A i \in 1 .. Len(stack) - 1 : stack[i] \in Frame
    BY <1>1
  <1>3. /\ Callers \in Seq(Frame)
        /\ Len(Callers) = IF 1 <= Len(stack) - 1 THEN Len(stack) - 1 - 1 + 1 ELSE 0
        /\ \A i \in 1 .. Len(stack) - 1 - 1 + 1 : Callers[i] = stack[1 + i - 1]
    <2> PICK n \in Nat : n = Len(stack)
      BY <1>1
    <2>1. n - 1 \in Int /\ \A i \in 1 .. n - 1 : stack[i] \in Frame
      BY <1>2
    <2> QED
      BY <2>1, SubSeqProperties DEF Callers
  <1> PICK n \in Nat \ {0} : n = Len(stack)
    BY <1>1
  <1>4. Len(Callers) = n - 1
    BY <1>3
  <1>5. \A i \in 1 .. n - 1 : i \in 1 .. n - 1 - 1 + 1 /\ 1 + i - 1 = i
    OBVIOUS
  <1>6. \A i \in 1 .. n - 1 : Callers[i] = stack[i]
    BY <1>3, <1>5
  <1>7. Innermost \in Frame
    BY <1>1 DEF Innermost
  <1> QED
    BY <1>3, <1>4, <1>6, <1>7

\* The invariant holds at the beginning.
LEMMA AclInitInv == AclInit => AclInv
  <1> SUFFICES ASSUME AclInit PROVE AclInv
    OBVIOUS
  <1>1. Unknown \in Role /\ <<>> \in Seq(Frame)
    BY DEF Unknown, Role
  <1>2. AclTypeOK
    BY <1>1 DEF AclInit, AclTypeOK
  <1>3. UNION constructed = {} /\ \A r \in Roles : Named({}, r) = {}
    BY DEF AclInit, Named
  <1>4. OrderIsIrrelevant
    BY <1>3 DEF AclInit, OrderIsIrrelevant, RoleMap, Merged
  <1>5. UnknownEmpty
    BY DEF AclInit, UnknownEmpty, Unknown
  <1> QED
    BY <1>2, <1>4, <1>5 DEF AclInit, AclInv, CallRuns, CanIsAllowed

\* A mapper is constructed only while nobody asks.
LEMMA ConstructStep ==
  ASSUME AclInv, NEW m \in Mappers, Construct(m)
  PROVE  AclInv'
  <1>1. question = <<>> /\ stack = <<>> /\ answer = "none"
    BY DEF Construct, AclInv, CallRuns
  <1>2. OrderIsIrrelevant'
    <2>1. roles = RoleMap(UNION constructed)
      BY DEF AclInv, OrderIsIrrelevant
    <2>2. roles' = [r \in Roles |-> Merged(RoleMap(UNION constructed)[r], Named(m, r))]
      BY <2>1 DEF Construct
    <2>3. roles' = RoleMap(UNION (constructed \cup {m}))
      BY <2>2, OneMoreMapper
    <2> QED
      BY <2>3 DEF Construct, OrderIsIrrelevant
  <1>3. constructed' \in SUBSET Mappers
    BY DEF Construct, AclInv, AclTypeOK
  <1>4. roles' \in [Roles -> Role]
    BY <1>2, <1>3, MapTyped DEF OrderIsIrrelevant
  <1>5. UnknownEmpty'
    BY <1>2, MapUnknown DEF OrderIsIrrelevant, UnknownEmpty, Unknown
  <1>6. AclTypeOK'
    BY <1>3, <1>4 DEF Construct, AclInv, AclTypeOK
  <1> QED
    BY <1>1, <1>2, <1>5, <1>6 DEF Construct, AclInv, CallRuns, CanIsAllowed

\* What the map of roles has is kept while it does not change.
LEMMA SameRoles ==
  ASSUME AclInv, UNCHANGED <<roles, constructed>>
  PROVE  /\ OrderIsIrrelevant' /\ UnknownEmpty'
         /\ roles' \in [Roles -> Role] /\ constructed' \in SUBSET Mappers
         /\ \A stk, outermost, op : Frames(stk, outermost, op) => Frames(stk, outermost, op)'
         /\ \A stk, op, current : Tried(stk, op, current) => Tried(stk, op, current)'
         /\ \A role, op : Allowed(roles, role, op)' <=> Allowed(roles, role, op)
  <1>1. roles' = roles /\ constructed' = constructed
    OBVIOUS
  <1>2. OrderIsIrrelevant' /\ UnknownEmpty'
    BY <1>1 DEF AclInv, OrderIsIrrelevant, UnknownEmpty
  <1>3. \A role, x : LeadsTo(role, x)' <=> LeadsTo(role, x)
    BY <1>1 DEF LeadsTo, Closed
  <1>4. \A x, op : Barren(x, op)' <=> Barren(x, op)
    BY <1>1 DEF Barren, Closed
  <1>5. ASSUME NEW stk, NEW outermost, NEW op, Frames(stk, outermost, op)
        PROVE  Frames(stk, outermost, op)'
    BY <1>1, <1>3, <1>5 DEF Frames, Lacks
  <1>6. ASSUME NEW stk, NEW op, NEW current, Tried(stk, op, current)
        PROVE  Tried(stk, op, current)'
    BY <1>1, <1>4, <1>6 DEF Tried
  <1>7. ASSUME NEW role, NEW op PROVE Allowed(roles, role, op)' <=> Allowed(roles, role, op)
    BY <1>1 DEF Allowed, Closed
  <1>8. roles' \in [Roles -> Role] /\ constructed' \in SUBSET Mappers
    BY <1>1 DEF AclInv, AclTypeOK
  <1> QED
    BY <1>2, <1>5, <1>6, <1>7, <1>8

\* The answer of an outermost call is known once its stack is empty.
LEMMA Outcome ==
  ASSUME AclInv, UNCHANGED <<roles, constructed>>, constructed = Mappers,
         NEW outermost \in Roles, NEW op \in Operations, question' = <<outermost, op>>,
         stack' \in Seq(Frame),
         Frames(stack', outermost, op), Tried(stack', op, {}),
         answer' \in {"none", "yes"},
         answer' = "yes" => stack' = <<>>,
         stack' = <<>> => (answer' = "yes" <=> Allowed(roles, outermost, op))
  PROVE  AclInv'
  <1>1. question' \in Roles \X Operations /\ question' # <<>> /\ question'[1] = outermost /\ question'[2] = op
    OBVIOUS
  <1>2. AclTypeOK'
    BY <1>1, SameRoles DEF AclTypeOK
  <1> PICK stk : stk = stack'
    OBVIOUS
  <1>3. Frames(stk, outermost, op) /\ Tried(stk, op, {})
    OBVIOUS
  <1>4. Frames(stk, outermost, op)' /\ Tried(stk, op, {})'
    BY <1>3, SameRoles
  <1>5. CallRuns'
    BY <1>1, <1>4 DEF CallRuns
  <1>6. CanIsAllowed'
    BY <1>1, SameRoles DEF CanIsAllowed
  <1> QED
    BY <1>2, <1>5, <1>6, SameRoles DEF AclInv

\* An empty stack has no frames of which anything could be wrong.
LEMMA EmptyStack ==
  ASSUME NEW outermost, NEW op, NEW current
  PROVE  Frames(<<>>, outermost, op) /\ Tried(<<>>, op, current) /\ <<>> \in Seq(Frame)
  BY EmptySeq DEF Frames, Tried

\* Each of the outcomes of a call keeps the invariant.
LEMMA EnterStep ==
  ASSUME AclInv, UNCHANGED <<roles, constructed>>, constructed = Mappers,
         answer = "none",
         NEW outermost \in Roles, NEW op \in Operations, question' = <<outermost, op>>,
         NEW calls \in Seq(Frame), NEW role \in Roles,
         Frames(calls, outermost, op), Tried(calls, op, {role}), LeadsTo(outermost, role),
         calls = <<>> => role = outermost,
         Enter(role, calls, op)
  PROVE  AclInv'
  <1>1. \/ /\ stack' = calls /\ answer' = answer
           /\ Tried(calls, op, {})
           /\ calls = <<>> => ~Allowed(roles, outermost, op)
        \/ /\ stack' = <<>> /\ answer' = "yes"
           /\ Allowed(roles, outermost, op)
        \/ /\ stack' # <<>> /\ stack' \in Seq(Frame) /\ answer' = answer
           /\ Frames(stack', outermost, op)
           /\ Tried(stack', op, {})
    BY EnterOutcome DEF AclInv
  <1>2. stack' \in Seq(Frame) /\ Frames(stack', outermost, op) /\ Tried(stack', op, {})
    BY <1>1, EmptyStack
  <1>3. /\ answer' \in {"none", "yes"}
        /\ answer' = "yes" => stack' = <<>>
        /\ stack' = <<>> => (answer' = "yes" <=> Allowed(roles, outermost, op))
    BY <1>1
  <1> QED
    BY <1>2, <1>3, Outcome

\* A request asks.
LEMMA AskStep ==
  ASSUME AclInv, NEW role \in Roles, NEW op \in Operations, Ask(role, op)
  PROVE  AclInv'
  <1>1. answer = "none" /\ constructed = Mappers
    BY DEF Ask, AclInv, CallRuns
  <1>2. LeadsTo(role, role)
    BY DEF LeadsTo
  <1>3. /\ UNCHANGED <<roles, constructed>> /\ question' = <<role, op>>
        /\ Enter(role, <<>>, op)
    BY DEF Ask
  <1> QED
    BY <1>1, <1>2, <1>3, EmptyStack, EnterStep

\* While a call is running, what it was asked is known.
LEMMA AskedNow ==
  ASSUME AclInv, stack # <<>>
  PROVE  /\ \E outermost \in Roles, op \in Operations : question = <<outermost, op>>
         /\ Frames(stack, question[1], question[2]) /\ Tried(stack, question[2], {})
         /\ constructed = Mappers /\ answer = "none"
  <1>1. question # <<>>
    BY DEF AclInv, CallRuns
  <1>2. question \in Roles \X Operations
    BY <1>1 DEF AclInv, AclTypeOK
  <1> QED
    BY <1>1, <1>2 DEF AclInv, CallRuns, AclTypeOK

\* The callers of the last frame are frames as well, and it is being tried.
LEMMA CallersTried ==
  ASSUME AclInv, stack # <<>>
  PROVE  /\ Frames(Callers, question[1], question[2])
         /\ Tried(Callers, question[2], {Innermost.role})
         /\ Callers = <<>> => Innermost.role = question[1]
  <1> PICK n \in Nat \ {0}, c \in Seq(Frame) :
        /\ n = Len(stack) /\ c = Callers
        /\ Len(c) = n - 1
        /\ \A i \in 1 .. n - 1 : c[i] = stack[i]
        /\ Innermost = stack[n]
    BY CallersOf DEF AclInv, AclTypeOK, Innermost
  <1>1. Frames(stack, question[1], question[2]) /\ Tried(stack, question[2], {})
    BY AskedNow
  <1>2. Frames(c, question[1], question[2])
    <2>1. \A i \in 1 .. Len(c) : i \in 1 .. n /\ c[i] = stack[i]
      OBVIOUS
    <2>2. c # <<>> => 1 \in 1 .. n - 1
      BY EmptySeq
    <2> QED
      BY <1>1, <2>1, <2>2 DEF Frames
  <1>3. Tried(c, question[2], {Innermost.role})
    <2> SUFFICES ASSUME NEW i \in 1 .. Len(c), NEW x \in roles[c[i].role].inherits
                 PROVE  \/ x \in c[i].left
                        \/ Barren(x, question[2])
                        \/ i < Len(c) /\ c[i + 1].role = x
                        \/ i = Len(c) /\ x \in {Innermost.role}
      BY DEF Tried
    <2>1. i \in 1 .. n /\ c[i] = stack[i] /\ i # n
      OBVIOUS
    <2>2. \/ x \in stack[i].left
          \/ Barren(x, question[2])
          \/ i < n /\ stack[i + 1].role = x
      BY <1>1, <2>1 DEF Tried
    <2>3. i < Len(c) => c[i + 1] = stack[i + 1]
      OBVIOUS
    <2>4. i = Len(c) => stack[i + 1] = Innermost
      OBVIOUS
    <2> QED
      BY <2>1, <2>2, <2>3, <2>4
  <1>4. c = <<>> => Innermost.role = question[1]
    <2>0. c = <<>> => Len(c) = 0
      BY EmptySeq
    <2>1. ASSUME c = <<>> PROVE n = 1
      <3>1. n - 1 = 0
        BY <2>0, <2>1, Zenon
      <3>2. \A k \in Nat : k - 1 = 0 => k = 1
        OBVIOUS
      <3> QED
        BY <3>1, <3>2, Zenon
    <2> QED
      BY <1>1, <2>1 DEF Frames
  <1> QED
    BY <1>2, <1>3, <1>4

\* An inherited role is tried.
LEMMA TryStep ==
  ASSUME AclInv, NEW role \in Roles, Try(role)
  PROVE  AclInv'
  <1>1. stack # <<>> /\ role \in Innermost.left /\ UNCHANGED <<roles, constructed, question>>
    BY DEF Try
  <1>2. PICK outermost \in Roles, op \in Operations :
          /\ question = <<outermost, op>>
          /\ Frames(stack, outermost, op) /\ Tried(stack, op, {})
          /\ constructed = Mappers /\ answer = "none"
    BY <1>1, AskedNow
  <1> PICK frame : frame = [role |-> Innermost.role, left |-> Innermost.left \ {role}]
    OBVIOUS
  <1> PICK c \in Seq(Frame), n \in Nat \ {0}, last \in Frame :
        /\ c = Callers /\ n = Len(stack) /\ last = Innermost /\ last = stack[n]
        /\ Len(c) = n - 1
        /\ \A i \in 1 .. n - 1 : c[i] = stack[i]
    BY <1>1, CallersOf DEF AclInv, AclTypeOK, Innermost
  <1>3. frame \in Frame /\ frame.role = last.role /\ frame.left = last.left \ {role}
    BY DEF Frame
  <1> PICK calls : calls = Append(c, frame)
    OBVIOUS
  <1>9. /\ calls \in Seq(Frame) /\ calls # <<>> /\ Len(calls) = n
        /\ \A i \in 1 .. n - 1 : calls[i] = stack[i]
        /\ calls[n] = frame
    <2>1. Len(c) + 1 = n
      OBVIOUS
    <2>2. frame \in Frame
      BY <1>3
    <2>3. /\ Append(c, frame) \in Seq(Frame)
          /\ Append(c, frame) # <<>>
          /\ Len(Append(c, frame)) = Len(c) + 1
          /\ \A i \in 1 .. Len(c) : Append(c, frame)[i] = c[i]
          /\ Append(c, frame)[Len(c) + 1] = frame
      BY <2>2, AppendProperties
    <2> QED
      BY <2>1, <2>3
  <1>4. Enter(role, calls, op)
    <2>1. calls = Append(Callers, [role |-> Innermost.role, left |-> Innermost.left \ {role}])
      OBVIOUS
    <2>2. question[2] = op
      BY <1>2
    <2> QED
      BY <2>1, <2>2 DEF Try
  <1>5. \A i \in 1 .. n : calls[i].role = stack[i].role /\ calls[i].left \subseteq stack[i].left
    <2>1. calls[n].role = stack[n].role /\ calls[n].left \subseteq stack[n].left
      BY <1>3, <1>9
    <2>2. \A i \in 1 .. n : i = n \/ i \in 1 .. n - 1
      OBVIOUS
    <2>3. \A i \in 1 .. n - 1 : calls[i] = stack[i]
      BY <1>9
    <2> QED
      BY <2>1, <2>2, <2>3, Zenon
  <1>6. Frames(calls, outermost, op)
    <2>1. stack[1].role = outermost
      BY <1>1, <1>2 DEF Frames
    <2>2. \A i \in 1 .. n :
            /\ LeadsTo(outermost, stack[i].role) /\ Lacks(stack[i].role, op)
            /\ stack[i].left \subseteq roles[stack[i].role].inherits
      BY <1>2 DEF Frames
    <2>3. \A i \in 1 .. n : calls[i].left \subseteq stack[i].left
      BY <1>5
    <2>4. Len(calls) = n /\ 1 \in 1 .. n
      BY <1>9
    <2>7. \A i \in 1 .. n : /\ calls[i].role = stack[i].role
                           /\ calls[i].left \subseteq roles[stack[i].role].inherits
      BY <1>5, <2>2, <2>3, Zenon
    <2>5. ASSUME NEW i \in 1 .. Len(calls)
          PROVE  /\ LeadsTo(outermost, calls[i].role) /\ Lacks(calls[i].role, op)
                 /\ calls[i].left \subseteq roles[calls[i].role].inherits
      <3>1. calls[i].role = stack[i].role /\ i \in 1 .. n
        BY <2>4, <2>7, Zenon
      <3>2. LeadsTo(outermost, stack[i].role) /\ Lacks(stack[i].role, op)
        BY <2>2, <3>1, Zenon
      <3>3. calls[i].left \subseteq roles[stack[i].role].inherits
        BY <2>7, <3>1, Zenon
      <3> QED
        BY <3>1, <3>2, <3>3, Zenon
    <2>6. calls[1].role = outermost
      BY <1>5, <2>1, <2>4
    <2> QED
      BY <2>5, <2>6 DEF Frames
  <1>7. Tried(calls, op, {role})
    <2> SUFFICES ASSUME NEW i \in 1 .. Len(calls), NEW x \in roles[calls[i].role].inherits
                 PROVE  \/ x \in calls[i].left
                        \/ Barren(x, op)
                        \/ i < Len(calls) /\ calls[i + 1].role = x
                        \/ i = Len(calls) /\ x \in {role}
      BY DEF Tried
    <2>0. i \in 1 .. n /\ Len(calls) = n
      BY <1>9
    <2>1. \/ x \in stack[i].left
          \/ Barren(x, op)
          \/ i < n /\ stack[i + 1].role = x
      BY <1>2, <1>5, <2>0 DEF Tried
    <2>2. i # n => calls[i].left = stack[i].left
      BY <1>9, <2>0
    <2>3. i = n => calls[i].left = stack[i].left \ {role}
      BY <1>3, <1>9
    <2>4. i < n => calls[i + 1].role = stack[i + 1].role
      BY <1>5, <2>0
    <2> QED
      BY <2>0, <2>1, <2>2, <2>3, <2>4
  <1>8. LeadsTo(outermost, role)
    <2>1. LeadsTo(outermost, last.role) /\ last.role \in Roles
      BY <1>2 DEF Frames, Frame
    <2>2. role \in roles[last.role].inherits
      BY <1>1, <1>2 DEF Frames
    <2> QED
      BY <2>1, <2>2, LeadsOn
  <1> QED
    BY <1>1, <1>2, <1>4, <1>6, <1>7, <1>8, <1>9, EnterStep

\* A call whose inherited roles were all tried returns.
LEMMA ReturnStep ==
  ASSUME AclInv, ReturnFalse
  PROVE  AclInv'
  <1>1. /\ stack # <<>> /\ Innermost.left = {}
        /\ stack' = Callers /\ UNCHANGED <<roles, constructed, question, answer>>
    BY DEF ReturnFalse
  <1>2. PICK outermost \in Roles, op \in Operations :
          /\ question = <<outermost, op>>
          /\ Frames(stack, outermost, op) /\ Tried(stack, op, {})
          /\ constructed = Mappers /\ answer = "none"
    BY <1>1, AskedNow
  <1> PICK c \in Seq(Frame), n \in Nat \ {0}, last \in Frame :
        c = Callers /\ n = Len(stack) /\ last = Innermost /\ last = stack[n]
    BY <1>1, CallersOf DEF AclInv, AclTypeOK, Innermost
  <1>3. last.role \in Roles
    BY DEF Frame
  <1>4. Barren(last.role, op)
    <2>1. op \notin roles[last.role].capability
      BY <1>2 DEF Frames, Lacks
    <2>2. \A x \in roles[last.role].inherits : Barren(x, op)
      BY <1>1, <1>2 DEF Tried
    <2> QED
      BY <1>3, <2>1, <2>2, AllBarren DEF AclInv, AclTypeOK
  <1>5. Frames(c, outermost, op) /\ Tried(c, op, {last.role}) /\ (c = <<>> => last.role = outermost)
    BY <1>1, <1>2, CallersTried
  <1>6. Tried(c, op, {})
    BY <1>4, <1>5 DEF Tried
  <1>7. c = <<>> => ~Allowed(roles, outermost, op)
    BY <1>4, <1>5, AllowedOrBarren
  <1> QED
    BY <1>1, <1>2, <1>5, <1>6, <1>7, Outcome

\* The next request may ask.
LEMMA FinishStep ==
  ASSUME AclInv, Finish
  PROVE  AclInv'
  <1>1. question' = <<>> /\ stack' = <<>> /\ answer' = "none" /\ UNCHANGED <<roles, constructed>>
    BY DEF Finish
  <1>2. AclTypeOK'
    BY <1>1, SameRoles, EmptyStack DEF AclTypeOK
  <1>3. CallRuns' /\ CanIsAllowed'
    BY <1>1 DEF CallRuns, CanIsAllowed
  <1> QED
    BY <1>1, <1>2, <1>3, SameRoles DEF AclInv

\* Nothing changes.
LEMMA StutterStep ==
  ASSUME AclInv, UNCHANGED aclVars
  PROVE  AclInv'
  <1>1. /\ UNCHANGED <<roles, constructed>>
        /\ question' = question /\ stack' = stack /\ answer' = answer
    BY DEF aclVars
  <1>2. AclTypeOK' /\ OrderIsIrrelevant' /\ UnknownEmpty'
    BY <1>1, SameRoles DEF AclInv, AclTypeOK
  <1> PICK stk, what : stk = stack /\ what = question
    OBVIOUS
  <1>3. CallRuns'
    <2>1. what # <<>> => Frames(stk, what[1], what[2])' /\ Tried(stk, what[2], {})'
      BY <1>1, SameRoles DEF AclInv, CallRuns
    <2> QED
      BY <1>1, <2>1 DEF AclInv, CallRuns
  <1>4. CanIsAllowed'
    <2>1. Allowed(roles, what[1], what[2])' <=> Allowed(roles, what[1], what[2])
      BY <1>1, SameRoles
    <2> QED
      BY <1>1, <2>1 DEF AclInv, CanIsAllowed
  <1> QED
    BY <1>2, <1>3, <1>4 DEF AclInv

\* The inductive invariant of the module.
LEMMA AclAlways == AclSpec => []AclInv
  <1>1. AclInv /\ [AclNext]_aclVars => AclInv'
    BY ConstructStep, AskStep, TryStep, ReturnStep, FinishStep, StutterStep DEF AclNext
  <1> QED
    BY <1>1, AclInitInv, PTL DEF AclSpec

\* Types are kept by every behaviour of the specification.
THEOREM AclTypeCorrect == AclSpec => []AclTypeOK
  <1>1. AclInv => AclTypeOK
    BY DEF AclInv
  <1> QED
    BY <1>1, AclAlways, PTL

\* Whatever mappers there are and however they are ordered, the map is what they
\* registered (registerRBAC, Role.merge).
THEOREM AnyOrder == AclSpec => []OrderIsIrrelevant
  <1>1. AclInv => OrderIsIrrelevant
    BY DEF AclInv
  <1> QED
    BY <1>1, AclAlways, PTL

\* Whatever is registered, cycles of inheritance included, can answers what
\* inheritance allows, if it answers (RBAC.can).
THEOREM CanIsRight == AclSpec => []CanIsAllowed
  <1>1. AclInv => CanIsAllowed
    BY DEF AclInv
  <1> QED
    BY <1>1, AclAlways, PTL

-----------------------------------------------------------------------------
\* Roles have ranks, and inherit only from roles of a lower rank.
Ranked(Rank) ==
  /\ Rank \in [Roles -> Nat]
  /\ \A g \in Registered : \A x \in g.inherits : Rank[x] < Rank[g.role]

\* Each frame is about a lower role than the frames below it.
Descending(Rank) ==
  \A i, j \in 1 .. Len(stack) : i < j => Rank[stack[j].role] < Rank[stack[i].role]

\* What a role inherits, some mapper has registered.
LEMMA InheritsRegistered ==
  ASSUME NEW C \in SUBSET Mappers, NEW r \in Roles, NEW x \in RoleMap(UNION C)[r].inherits
  PROVE  \E g \in Registered : g.role = r /\ x \in g.inherits
  <1> DEFINE G == Named(UNION C, r)
  <1>1. x \in Merged(Unknown, G).inherits
    BY DEF RoleMap
  <1>2. G # {}
    BY <1>1 DEF Merged, Unknown
  <1>3. Merged(Unknown, G) =
          [known |-> TRUE, capability |-> {} \cup UNION {g.capability : g \in G},
           inherits |-> {} \cup UNION {g.inherits : g \in G}]
    BY <1>2 DEF Merged, Unknown
  <1> HIDE DEF G
  <1>4. x \in UNION {g.inherits : g \in G}
    BY <1>1, <1>3
  <1>5. PICK g \in G : x \in g.inherits
    BY <1>4
  <1> QED
    BY <1>5 DEF G, Named, Registered

\* A stack with one more frame.
LEMMA Appended ==
  ASSUME NEW s \in Seq(Frame), NEW e \in Frame
  PROVE  \E t \in Seq(Frame) :
           /\ t = Append(s, e) /\ Len(t) = Len(s) + 1
           /\ \A i \in 1 .. Len(s) : t[i] = s[i]
           /\ t[Len(s) + 1] = e
  BY AppendProperties

\* The next frame is about a role that the last one inherits.
LEMMA DescendingStep ==
  ASSUME NEW Rank, Ranked(Rank), AclInv, Descending(Rank), [AclNext]_aclVars
  PROVE  Descending(Rank)'
  <1>0. stack \in Seq(Frame) /\ Len(stack) \in Nat
    BY LenProperties DEF AclInv, AclTypeOK
  <1>7. \A i \in 1 .. Len(stack) : stack[i].role \in Roles
    <2>1. \A i \in 1 .. Len(stack) : stack[i] \in Frame
      BY <1>0, ElementOfSeq
    <2> QED
      BY <2>1 DEF Frame
  <1>1. ASSUME NEW x \in Roles, NEW role \in Roles, x \in roles[role].inherits
        PROVE  Rank[x] < Rank[role]
    <2>1. roles = RoleMap(UNION constructed) /\ constructed \in SUBSET Mappers
      BY DEF AclInv, OrderIsIrrelevant, AclTypeOK
    <2>2. PICK g \in Registered : g.role = role /\ x \in g.inherits
      BY <1>1, <2>1, InheritsRegistered
    <2> QED
      BY <2>2 DEF Ranked
  <1>2. CASE stack' = stack
    BY <1>2 DEF Descending
  <1>3. CASE stack' = <<>>
    BY <1>3, EmptySeq DEF Descending
  <1>4. CASE ReturnFalse
    <2> PICK c \in Seq(Frame), n \in Nat \ {0} :
          /\ c = stack' /\ n = Len(stack)
          /\ Len(c) = n - 1
          /\ \A i \in 1 .. n - 1 : c[i] = stack[i]
      BY <1>0, <1>4, CallersOf DEF ReturnFalse
    <2>1. \A i \in 1 .. Len(c) : i \in 1 .. n /\ c[i] = stack[i]
      OBVIOUS
    <2> QED
      BY <2>1 DEF Descending
  <1>5. ASSUME NEW role \in Roles, NEW op, Ask(role, op) PROVE Descending(Rank)'
    <2>1. stack' = <<>> \/ stack' = Append(<<>>, [role |-> role, left |-> roles[role].inherits])
      BY <1>5 DEF Ask, Enter
    <2>2. Len(stack') \in {0, 1}
      BY <2>1
    <2> QED
      BY <2>2 DEF Descending
  <1>6. ASSUME NEW role \in Roles, Try(role) PROVE Descending(Rank)'
    <2>1. stack # <<>> /\ role \in Innermost.left
      BY <1>6 DEF Try
    <2> PICK c \in Seq(Frame), n \in Nat \ {0}, last \in Frame :
          /\ c = Callers /\ n = Len(stack) /\ last = Innermost /\ last = stack[n]
          /\ Len(c) = n - 1
          /\ \A i \in 1 .. n - 1 : c[i] = stack[i]
      BY <1>0, <2>1, CallersOf DEF Innermost
    <2> DEFINE frame == [role |-> Innermost.role, left |-> Innermost.left \ {role}]
               next  == [role |-> role, left |-> roles[role].inherits]
    <2>2. frame \in Frame /\ frame.role = last.role
      BY DEF Frame
    <2>3. roles[role].inherits \in SUBSET Roles
      BY DEF AclInv, AclTypeOK, Role
    <2>4. next \in Frame /\ next.role = role
      BY <2>3 DEF Frame
    <2> HIDE DEF frame, next
    <2>5. PICK calls \in Seq(Frame) :
            /\ calls = Append(c, frame) /\ Len(calls) = Len(c) + 1
            /\ \A i \in 1 .. Len(c) : calls[i] = c[i]
            /\ calls[Len(c) + 1] = frame
      BY <2>2, Appended
    <2>6. Len(calls) = n /\ \A i \in 1 .. n : calls[i].role = stack[i].role
      BY <2>2, <2>5
    <2>7. stack' = calls \/ stack' = <<>> \/ stack' = Append(calls, next)
      BY <1>6, <2>5 DEF Try, Enter, frame, next
    <2>8. CASE stack' = calls
      BY <2>6, <2>8 DEF Descending
    <2>9. CASE stack' = Append(calls, next)
      <3>1. PICK st \in Seq(Frame) :
              /\ st = Append(calls, next) /\ Len(st) = Len(calls) + 1
              /\ \A i \in 1 .. Len(calls) : st[i] = calls[i]
              /\ st[Len(calls) + 1] = next
        BY <2>4, Appended
      <3>2. /\ Len(st) = n + 1
            /\ \A i \in 1 .. n : st[i].role = stack[i].role
            /\ st[n + 1].role = role
        BY <2>4, <2>6, <3>1
      <3>3. Rank[role] < Rank[last.role]
        <4>1. role \in roles[last.role].inherits
          BY <2>1, AskedNow DEF Frames
        <4> QED
          BY <1>1, <4>1 DEF Frame
      <3>4. \A i \in 1 .. n : Rank[last.role] <= Rank[stack[i].role]
        <4> SUFFICES ASSUME NEW i \in 1 .. n PROVE Rank[last.role] <= Rank[stack[i].role]
          OBVIOUS
        <4>1. stack[i].role \in Roles /\ last.role \in Roles
          BY <1>7 DEF Frame
        <4>2. Rank[stack[i].role] \in Nat /\ Rank[last.role] \in Nat
          BY <4>1 DEF Ranked
        <4>3. i # n => Rank[last.role] < Rank[stack[i].role]
          BY DEF Descending
        <4> QED
          BY <4>2, <4>3
      <3>5. \A i \in 1 .. n : Rank[stack[i].role] \in Nat
        BY <1>7 DEF Ranked
      <3>6. Rank[role] \in Nat /\ Rank[last.role] \in Nat
        BY DEF Ranked, Frame
      <3>7. \A i \in 1 .. n : Rank[role] < Rank[stack[i].role]
        BY <3>3, <3>4, <3>5, <3>6
      <3> SUFFICES ASSUME NEW i \in 1 .. Len(st), NEW j \in 1 .. Len(st), i < j
                   PROVE  Rank[st[j].role] < Rank[st[i].role]
        BY <2>9, <3>1 DEF Descending
      <3>8. i \in 1 .. n
        BY <3>2
      <3>9. CASE j = n + 1
        BY <3>2, <3>7, <3>8, <3>9
      <3>10. CASE j \in 1 .. n
        BY <3>2, <3>8, <3>10 DEF Descending
      <3>11. j = n + 1 \/ j \in 1 .. n
        BY <3>2
      <3> QED
        BY <3>9, <3>10, <3>11
    <2> QED
      BY <1>3, <2>7, <2>8, <2>9
  <1> QED
    BY <1>2, <1>3, <1>4, <1>5, <1>6 DEF AclNext, aclVars, Construct, Finish

\* If no chain of inheritance leads back to a role, can never asks about a role that
\* an outer call asks about: it cannot go deeper than there are roles (RBAC.can).
THEOREM NeverDeeper ==
  ASSUME NEW CONSTANT Rank, Ranked(Rank)
  PROVE  AclSpec => []NoRoleTwice
  <1>1. AclInit => Descending(Rank)
    BY EmptySeq DEF AclInit, Descending
  <1>2. AclInv /\ Descending(Rank) /\ [AclNext]_aclVars => Descending(Rank)'
    BY DescendingStep
  <1>3. AclInv /\ Descending(Rank) => NoRoleTwice
    <2> SUFFICES ASSUME AclInv, Descending(Rank), NEW i \in DOMAIN stack, NEW j \in DOMAIN stack,
                        stack[i].role = stack[j].role
                 PROVE  i = j
      BY DEF NoRoleTwice
    <2>1. /\ i \in 1 .. Len(stack) /\ j \in 1 .. Len(stack) /\ Len(stack) \in Nat
          /\ stack[i] \in Frame
      BY LenProperties, ElementOfSeq DEF AclInv, AclTypeOK
    <2>2. Rank[stack[i].role] \in Nat
      BY <2>1 DEF Ranked, Frame
    <2>3. ~(Rank[stack[i].role] < Rank[stack[j].role]) /\ ~(Rank[stack[j].role] < Rank[stack[i].role])
      BY <2>2
    <2> QED
      BY <2>1, <2>3 DEF Descending
  <1> QED
    BY <1>1, <1>2, <1>3, AclAlways, PTL DEF AclSpec

-----------------------------------------------------------------------------
(***************************************************************************)
(* Changing levels.  A request that is about to write was permitted to     *)
(* when it looked (Permitted).  If nobody changes a user whom somebody     *)
(* else is changing, what it saw is still so (SeenIsPresent), for which    *)
(* requests under way are about different users (OneEach).                 *)
(***************************************************************************)
Permitted == \A r \in Requests : pc[r] = "elevate" => MayChange(r, privilege[r])

OneEach ==
  Exclusive => \A q, r \in Requests :
    pc[q] \in Running /\ pc[r] \in Running /\ asked[q].uid = asked[r].uid => q = r

SeenIsPresent ==
  Exclusive => \A r \in Requests :
    pc[r] = "elevate" => privilege[r] = claims[asked[r].uid]

LevelsInv == TypeOK /\ Permitted /\ OneEach /\ SeenIsPresent

\* Claims are numbers, or absent.
LEMMA ClaimsAreNumbers ==
  /\ Claim \subseteq Int \cup {NaN}
  /\ \A l \in Posted : OrZero(l) \in Claim \cap Int
  /\ \A u \in Users : First[u] \in Claim
  /\ \A c \in Claim : OrZero(c) \in Level
  <1>1. \A u \in Users : First[u] \in Int \cup {NaN}
    BY ConstantsAssumption
  <1>2. \A l \in Posted : OrZero(l) \in Int
    BY ConstantsAssumption DEF OrZero
  <1> QED
    BY <1>1, <1>2 DEF Claim, Level

\* The record of a request's parameters has their types.
LEMMA AskedTyped ==
  ASSUME TypeOK, NEW r \in Requests, pc[r] # "idle"
  PROVE  /\ asked[r].uid \in Users
         /\ asked[r].level \in Posted
         /\ asked[r].caller \in Level
  <1>1. asked[r] \in Asked
    BY DEF TypeOK
  <1> QED
    BY <1>1 DEF Asked

\* The invariant holds at the beginning.
LEMMA LevelsInitInv == Init => LevelsInv
  <1> SUFFICES ASSUME Init PROVE LevelsInv
    OBVIOUS
  <1>1. First \in [Users -> Claim]
    BY ClaimsAreNumbers, ConstantsAssumption
  <1>2. TypeOK
    <2>1. [u \in Users |-> OrZero(First[u])] \in [Users -> Level]
      BY <1>1, ClaimsAreNumbers
    <2> QED
      BY <1>1, <2>1 DEF Init, TypeOK, Stages
  <1> QED
    BY <1>2 DEF Init, LevelsInv, Permitted, OneEach, SeenIsPresent, Running

\* Every step preserves the types.
LEMMA LevelsTyped == TypeOK /\ [Next]_vars => TypeOK'
  <1> SUFFICES ASSUME TypeOK, [Next]_vars PROVE TypeOK'
    OBVIOUS
  <1> USE DEF TypeOK
  <1>1. ASSUME NEW u \in Users, SignIn(u) PROVE TypeOK'
    <2>1. OrZero(claims[u]) \in Level
      BY ClaimsAreNumbers
    <2> QED
      BY <1>1, <2>1 DEF SignIn
  <1>2. ASSUME NEW r \in Requests, Arrive(r) PROVE TypeOK'
    <2>1. PICK caller \in Users, uid \in Users, level \in Posted :
            asked' = [asked EXCEPT ![r] =
                        [uid |-> uid, level |-> level, caller |-> token[caller]]]
      BY <1>2 DEF Arrive
    <2>2. [uid |-> uid, level |-> level, caller |-> token[caller]] \in Asked
      BY DEF Asked
    <2>3. asked' \in [Requests -> Asked \cup {Unasked}]
      BY <2>1, <2>2
    <2>4. \A q \in Requests : pc'[q] # "idle" => asked'[q] \in Asked
      BY <1>2, <2>1, <2>2 DEF Arrive
    <2> QED
      BY <1>2, <2>3, <2>4 DEF Arrive, Stages, Running
  <1>3. ASSUME NEW r \in Requests, LookUp(r) PROVE TypeOK'
    <2>1. claims[asked[r].uid] \in Claim
      BY <1>3, AskedTyped DEF LookUp
    <2> QED
      BY <1>3, <2>1 DEF LookUp, Stages, Running
  <1>4. ASSUME NEW r \in Requests, Elevate(r) PROVE TypeOK'
    <2>1. OrZero(asked[r].level) \in Claim
      BY <1>4, AskedTyped, ClaimsAreNumbers DEF Elevate
    <2> QED
      BY <1>4, <2>1 DEF Elevate, Elevated, Stages, Running
  <1>5. ASSUME NEW r \in Requests, CallFails(r) PROVE TypeOK'
    BY <1>5 DEF CallFails, Stages, Running
  <1>6. CASE UNCHANGED vars
    BY <1>6 DEF vars
  <1> QED
    BY <1>1, <1>2, <1>3, <1>4, <1>5, <1>6 DEF Next

\* Every step preserves what a request has seen and may do.
LEMMA SeenStep == LevelsInv /\ [Next]_vars => (Permitted /\ OneEach /\ SeenIsPresent)'
  <1> SUFFICES ASSUME LevelsInv, [Next]_vars
               PROVE  (Permitted /\ OneEach /\ SeenIsPresent)'
    OBVIOUS
  <1> USE DEF LevelsInv, Permitted, OneEach, SeenIsPresent
  <1>1. ASSUME NEW u \in Users, SignIn(u) PROVE (Permitted /\ OneEach /\ SeenIsPresent)'
    BY <1>1 DEF SignIn, MayChange
  <1>2. ASSUME NEW r \in Requests, Arrive(r)
        PROVE  (Permitted /\ OneEach /\ SeenIsPresent)'
    <2>1. PICK caller \in Users, uid \in Users, level \in Posted :
            /\ Exclusive => \A q \in Requests : pc[q] \in Running => asked[q].uid # uid
            /\ asked' = [asked EXCEPT ![r] =
                           [uid |-> uid, level |-> level, caller |-> token[caller]]]
      BY <1>2 DEF Arrive
    <2>2. pc' = [pc EXCEPT ![r] = "lookup"] /\ UNCHANGED <<claims, privilege>>
      BY <1>2 DEF Arrive
    <2>3. asked'[r].uid = uid /\ \A q \in Requests : q # r => asked'[q] = asked[q]
      BY <2>1 DEF TypeOK
    <2>4. pc'[r] = "lookup" /\ \A q \in Requests : q # r => pc'[q] = pc[q]
      BY <2>2 DEF TypeOK
    <2>5. Permitted' /\ SeenIsPresent'
      BY <2>2, <2>3, <2>4 DEF MayChange
    <2>6. OneEach'
      BY <2>1, <2>3, <2>4
    <2> QED
      BY <2>5, <2>6
  <1>3. ASSUME NEW r \in Requests, LookUp(r)
        PROVE  (Permitted /\ OneEach /\ SeenIsPresent)'
    <2>1. /\ privilege' = [privilege EXCEPT ![r] = claims[asked[r].uid]]
          /\ pc' = [pc EXCEPT ![r] =
                      IF MayChange(r, claims[asked[r].uid]) THEN "elevate" ELSE "failed"]
          /\ UNCHANGED <<claims, asked>>
          /\ pc[r] \in Running
      BY <1>3 DEF LookUp, Running
    <2>2. /\ privilege'[r] = claims[asked[r].uid]
          /\ pc'[r] = "elevate" => MayChange(r, claims[asked[r].uid])
          /\ \A q \in Requests : q # r => pc'[q] = pc[q] /\ privilege'[q] = privilege[q]
      BY <2>1 DEF TypeOK
    <2>3. Permitted' /\ SeenIsPresent'
      BY <2>1, <2>2 DEF MayChange
    <2>4. OneEach'
      BY <2>1, <2>2
    <2> QED
      BY <2>3, <2>4
  <1>4. ASSUME NEW r \in Requests, Elevate(r)
        PROVE  (Permitted /\ OneEach /\ SeenIsPresent)'
    <2>1. /\ claims' = Elevated(r)
          /\ UNCHANGED <<asked, privilege>>
          /\ pc[r] \in Running
      BY <1>4 DEF Elevate, Running
    <2>2. pc'[r] \notin Running /\ \A q \in Requests : q # r => pc'[q] = pc[q]
      BY <1>4 DEF Elevate, TypeOK, Running
    <2>3. Permitted' /\ OneEach'
      BY <2>1, <2>2 DEF MayChange, Running
    <2>4. SeenIsPresent'
      <3> SUFFICES ASSUME Exclusive, NEW q \in Requests, pc'[q] = "elevate"
                   PROVE  privilege'[q] = claims'[asked'[q].uid]
        OBVIOUS
      <3>1. q # r /\ pc[q] = "elevate"
        BY <2>2 DEF Running
      <3>2. asked[q].uid # asked[r].uid
        BY <2>1, <3>1 DEF Running
      <3>3. asked[q].uid \in Users
        BY <3>1, AskedTyped
      <3>4. claims'[asked[q].uid] = claims[asked[q].uid]
        BY <2>1, <3>2, <3>3 DEF Elevated, TypeOK
      <3> QED
        BY <2>1, <3>1, <3>4
    <2> QED
      BY <2>3, <2>4
  <1>5. ASSUME NEW r \in Requests, CallFails(r)
        PROVE  (Permitted /\ OneEach /\ SeenIsPresent)'
    <2>1. UNCHANGED <<claims, asked, privilege>>
      BY <1>5 DEF CallFails
    <2>2. pc'[r] \notin Running /\ \A q \in Requests : q # r => pc'[q] = pc[q]
      BY <1>5 DEF CallFails, TypeOK, Running
    <2> QED
      BY <2>1, <2>2 DEF MayChange, Running
  <1>6. CASE UNCHANGED vars
    BY <1>6 DEF vars, MayChange
  <1> QED
    BY <1>1, <1>2, <1>3, <1>4, <1>5, <1>6 DEF Next

\* Nothing is below itself.
LEMMA NotBelowItself == ASSUME NEW c \in Int \cup {NaN} PROVE ~IsBelow(c, c)
  BY DEF IsBelow

\* Only Elevate lowers a level: that of the user the request is about, to what was asked.
LEMMA OnlyElevateLowers ==
  ASSUME TypeOK, [Next]_vars, NEW u \in Users, IsBelow(claims'[u], claims[u])
  PROVE  \E r \in Requests :
           pc[r] = "elevate" /\ asked[r].uid = u /\ claims'[u] = OrZero(asked[r].level)
  <1>0. ~IsBelow(claims[u], claims[u])
    <2>1. claims[u] \in Int \cup {NaN}
      BY ClaimsAreNumbers DEF TypeOK
    <2> QED
      BY <2>1, NotBelowItself
  <1>1. claims' # claims
    BY <1>0
  <1>2. PICK r \in Requests : Elevate(r)
    BY <1>1 DEF Next, vars, SignIn, Arrive, LookUp, CallFails
  <1>3. claims' = [claims EXCEPT ![asked[r].uid] = OrZero(asked[r].level)] /\ pc[r] = "elevate"
    BY <1>2 DEF Elevate, Elevated
  <1>4. asked[r].uid = u
    BY <1>0, <1>3 DEF TypeOK
  <1>5. claims'[u] = OrZero(asked[r].level)
    BY <1>3, <1>4 DEF TypeOK
  <1> QED
    BY <1>3, <1>4, <1>5

\* Every step keeps the rule, unconditionally as to what a request has seen.
LEMMA UnseenStep ==
  ASSUME LevelsInv, [Next]_vars, NEW u \in Users, IsBelow(claims'[u], claims[u])
  PROVE  \E r \in Requests :
           /\ pc[r] = "elevate" /\ asked[r].uid = u
           /\ \/ MayLower(r)
              \/ privilege[r] = NaN \/ IsBelow(privilege[r], claims[u])
  <1>1. PICK r \in Requests :
          pc[r] = "elevate" /\ asked[r].uid = u /\ claims'[u] = OrZero(asked[r].level)
    BY OnlyElevateLowers DEF LevelsInv
  <1>2. ~IsBelow(asked[r].level, privilege[r]) \/ asked[r].caller \in Reducers
    BY <1>1 DEF LevelsInv, Permitted, MayChange
  <1>3. /\ asked[r].level \in Int \cup {NaN} /\ privilege[r] \in Int \cup {NaN}
        /\ claims[u] \in Int \cup {NaN}
    BY <1>1, AskedTyped, ClaimsAreNumbers, ConstantsAssumption DEF LevelsInv, TypeOK
  <1>4. ASSUME ~MayLower(r), privilege[r] # NaN PROVE IsBelow(privilege[r], claims[u])
    <2>1. asked[r].level # NaN /\ asked[r].caller \notin Reducers
      BY <1>4 DEF MayLower
    <2>2. claims'[u] = asked[r].level
      BY <1>1, <2>1 DEF OrZero
    <2>3. claims[u] # NaN /\ asked[r].level < claims[u]
      BY <2>2 DEF IsBelow
    <2>4. ~(asked[r].level < privilege[r])
      BY <1>2, <1>4, <2>1 DEF IsBelow
    <2>5. privilege[r] < claims[u]
      BY <1>3, <1>4, <2>1, <2>3, <2>4
    <2> QED
      BY <1>4, <2>3, <2>5 DEF IsBelow
  <1> QED
    BY <1>1, <1>4

\* Types are kept by every behaviour of the specification.
THEOREM TypeCorrect == Spec => []TypeOK
  <1>1. Init => TypeOK
    BY LevelsInitInv DEF LevelsInv
  <1> QED
    BY <1>1, LevelsTyped, PTL DEF Spec

\* The inductive invariant of the module.
LEMMA LevelsAlways == Spec => []LevelsInv
  <1>1. LevelsInv /\ [Next]_vars => LevelsInv'
    BY LevelsTyped, SeenStep DEF LevelsInv
  <1> QED
    BY <1>1, LevelsInitInv, PTL DEF Spec

\* However requests overlap, and whatever integers they post, one without the
\* authority to reduce that does not write NaN overwrites a higher level only if that
\* level was written after it had looked (modifyPermissions).
THEOREM ReducesUnseen == Spec => ReducesOnlyUnseen
  <1>1. LevelsInv /\ [Next]_vars =>
          [\A u \in Users :
             IsBelow(claims'[u], claims[u]) =>
               \E r \in Requests :
                 /\ pc[r] = "elevate" /\ asked[r].uid = u
                 /\ \/ MayLower(r)
                    \/ privilege[r] = NaN \/ IsBelow(privilege[r], claims[u])]_vars
    BY UnseenStep
  <1> QED
    BY <1>1, LevelsAlways, PTL DEF Spec, ReducesOnlyUnseen

\* If nobody changes a user whom somebody else is changing, a level goes down only
\* at the request of a caller who may reduce levels, or who posted something that is
\* no number (modifyPermissions).
THEOREM OnlyReducers == Exclusive => (Spec => OnlyReducersReduce)
  <1> SUFFICES ASSUME Exclusive PROVE Spec => OnlyReducersReduce
    OBVIOUS
  <1>1. LevelsInv /\ [Next]_vars =>
          [\A u \in Users :
             IsBelow(claims'[u], claims[u]) =>
               \E r \in Requests :
                 pc[r] = "elevate" /\ asked[r].uid = u /\ MayLower(r)]_vars
    <2> SUFFICES ASSUME LevelsInv, [Next]_vars, NEW u \in Users,
                        IsBelow(claims'[u], claims[u])
                 PROVE  \E r \in Requests :
                          pc[r] = "elevate" /\ asked[r].uid = u /\ MayLower(r)
      OBVIOUS
    <2>1. PICK r \in Requests :
            /\ pc[r] = "elevate" /\ asked[r].uid = u
            /\ \/ MayLower(r)
               \/ privilege[r] = NaN \/ IsBelow(privilege[r], claims[u])
      BY UnseenStep
    <2>2. privilege[r] = claims[u]
      BY <2>1 DEF LevelsInv, SeenIsPresent
    <2>3. claims[u] # NaN
      BY DEF IsBelow
    <2>4. claims[u] \in Int \cup {NaN}
      BY ClaimsAreNumbers DEF LevelsInv, TypeOK
    <2>5. ~IsBelow(claims[u], claims[u])
      BY <2>4, NotBelowItself
    <2> QED
      BY <2>1, <2>2, <2>3, <2>5
  <1> QED
    BY <1>1, LevelsAlways, PTL DEF Spec, OnlyReducersReduce

-----------------------------------------------------------------------------
(***************************************************************************)
(* The two together, with the roles that the mappers register.             *)
(***************************************************************************)

\* Access control from the start of a process is the list and then the levels: what
\* holds of either holds of both.
THEOREM AccessIsBoth == AccessSpec => AclSpec /\ Spec
  <1>1. AccessInit => AclInit /\ Init
    BY DEF AccessInit
  <1>2. [AccessNext]_<<vars, aclVars, elevating>> => [AclNext]_aclVars /\ [Next]_vars
    BY DEF AccessNext, BeginElevating
  <1> QED
    BY <1>1, <1>2, PTL DEF AccessSpec, AclSpec, Spec

\* What a role that is inherited from is allowed, the role is allowed.
LEMMA InheritedAllowed ==
  ASSUME NEW map, NEW role \in Roles, NEW below \in Roles, NEW op,
         map[role].known, below \in map[role].inherits, Allowed(map, below, op)
  PROVE  Allowed(map, role, op)
  <1> SUFFICES ASSUME NEW S \in SUBSET Roles, role \in S, Closed(map, S)
               PROVE  \E s \in S : op \in map[s].capability
    BY DEF Allowed
  <1>1. below \in S
    BY DEF Closed
  <1> QED
    BY <1>1 DEF Allowed

\* What a registered grant makes of the map.
LEMMA GrantRegistered ==
  ASSUME NEW m \in Mappers, NEW g \in m
  PROVE  /\ g.role \in Roles /\ g.inherits \subseteq Roles
         /\ RoleMap(Registered)[g.role].known
         /\ g.inherits \subseteq RoleMap(Registered)[g.role].inherits
  <1>1. g \in Registered /\ g.role \in Roles /\ g.inherits \subseteq Roles
    BY MappersAssumption DEF Registered
  <1> DEFINE G == Named(Registered, g.role)
  <1>2. g \in G
    BY <1>1 DEF Named
  <1>3. RoleMap(Registered)[g.role] = Merged(Unknown, G)
    BY <1>1 DEF RoleMap
  <1> HIDE DEF G
  <1>4. Merged(Unknown, G) =
          [known |-> TRUE, capability |-> Unknown.capability \cup UNION {x.capability : x \in G},
           inherits |-> Unknown.inherits \cup UNION {x.inherits : x \in G}]
    BY <1>2 DEF Merged
  <1>5. g.inherits \subseteq UNION {x.inherits : x \in G}
    BY <1>2
  <1> QED
    BY <1>1, <1>3, <1>4, <1>5

\* Each level of the team has a grant of some mapper that inherits from the one below.
LEMMA EachInheritsBelow ==
  ASSUME Mappers = Provided, NEW i \in 1 .. Len(Levels) - 2
  PROVE  \E m \in Mappers : \E g \in m :
           g.role = Levels[i + 1] /\ g.inherits = {Levels[i]}
  <1>1. Len(Levels) = 6 /\ i \in 1 .. 4
    BY DEF Levels
  <1>2. CASE i = 1
    <2>1. To("VOLUNTEER", "rsvp", {"readall"}) \in Rsvp /\ Rsvp \in Mappers
      BY DEF Rsvp, Provided
    <2>2. To("VOLUNTEER", "rsvp", {"readall"}).role = Levels[i + 1]
          /\ To("VOLUNTEER", "rsvp", {"readall"}).inherits = {Levels[i]}
      BY <1>2 DEF To, Grant, Below, Levels
    <2> QED
      BY <2>1, <2>2
  <1>3. CASE i = 2
    <2>1. To("TEAM_MEMBER", "rsvp", {"count"}) \in Rsvp /\ Rsvp \in Mappers
      BY DEF Rsvp, Provided
    <2>2. To("TEAM_MEMBER", "rsvp", {"count"}).role = Levels[i + 1]
          /\ To("TEAM_MEMBER", "rsvp", {"count"}).inherits = {Levels[i]}
      BY <1>3 DEF To, Grant, Below, Levels
    <2> QED
      BY <2>1, <2>2
  <1>4. CASE i = 3
    <2>1. To("DIRECTOR", "rsvp", {"delete"}) \in Rsvp /\ Rsvp \in Mappers
      BY DEF Rsvp, Provided
    <2>2. To("DIRECTOR", "rsvp", {"delete"}).role = Levels[i + 1]
          /\ To("DIRECTOR", "rsvp", {"delete"}).inherits = {Levels[i]}
      BY <1>4 DEF To, Grant, Below, Levels
    <2> QED
      BY <2>1, <2>2
  <1>5. CASE i = 4
    <2>1. To("TECHNOLOGY", "admin", {"reduce_perm"}) \in Admin /\ Admin \in Mappers
      BY DEF Admin, Provided
    <2>2. To("TECHNOLOGY", "admin", {"reduce_perm"}).role = Levels[i + 1]
          /\ To("TECHNOLOGY", "admin", {"reduce_perm"}).inherits = {Levels[i]}
      BY <1>5 DEF To, Grant, Below, Levels
    <2> QED
      BY <2>1, <2>2
  <1> QED
    BY <1>1, <1>2, <1>3, <1>4, <1>5

\* With the mappers that the injector provides, whatever roles there are besides
\* theirs, each level of the team can do whatever the level below it can (addRBAC,
\* RBAC.can).
THEOREM LevelsAreRising ==
  ASSUME Mappers = Provided
  PROVE  AccessSpec => []LevelsRise
  <1>1. OrderIsIrrelevant => LevelsRise
    <2> SUFFICES ASSUME OrderIsIrrelevant, constructed = Mappers,
                        NEW i \in 1 .. Len(Levels) - 2, NEW op \in Operations,
                        Allowed(roles, Levels[i], op)
                 PROVE  Allowed(roles, Levels[i + 1], op)
      BY DEF LevelsRise
    <2>1. roles = RoleMap(Registered)
      BY DEF OrderIsIrrelevant, Registered
    <2>2. PICK m \in Mappers : \E g \in m : g.role = Levels[i + 1] /\ g.inherits = {Levels[i]}
      BY EachInheritsBelow
    <2>3. /\ Levels[i + 1] \in Roles /\ Levels[i] \in Roles
          /\ roles[Levels[i + 1]].known /\ Levels[i] \in roles[Levels[i + 1]].inherits
      BY <2>1, <2>2, GrantRegistered
    <2> QED
      BY <2>3, InheritedAllowed
  <1> QED
    BY <1>1, AccessIsBoth, AnyOrder, PTL

\* The ranks of the levels by which the mappers' inheritance descends.
RankOf == [r \in Roles |->
  CASE r = "VOLUNTEER" -> 1 [] r = "TEAM_MEMBER" -> 2 [] r = "DIRECTOR" -> 3
    [] r = "TECHNOLOGY" -> 4 [] OTHER -> 0]

\* A grant that inherits nothing, or from the level below that of a level of the team.
Descends(g) ==
  \/ g.inherits = {}
  \/ /\ g.role \in {"VOLUNTEER", "TEAM_MEMBER", "DIRECTOR", "TECHNOLOGY"}
     /\ g.inherits = Below(g.role)

LEMMA GrantsDescend == \A m \in Provided : \A g \in m : Descends(g)
  <1>1. \A class, names : \A role \in {"VOLUNTEER", "TEAM_MEMBER", "DIRECTOR", "TECHNOLOGY"} :
          Descends(To(role, class, names))
    BY DEF Descends, To, Grant
  <1>2. \A role, class, names : Descends(Only(role, class, names))
    BY DEF Descends, Only, Grant
  <1>3. Descends([role |-> "TEAM_MEMBER", capability |-> {Undefined}, inherits |-> {}])
    BY DEF Descends
  <1>4. \A class, reads : \A g \in HackathonGrants(class, reads) : Descends(g)
    BY <1>1, <1>2 DEF HackathonGrants
  <1>5. \A m \in {Attendance, ExtraCredit, Statistics, Admin, Url} : \A g \in m : Descends(g)
    <2>1. \A g \in Attendance : Descends(g)
      BY <1>1, <1>2, <1>3 DEF Attendance
    <2>2. \A g \in ExtraCredit : Descends(g)
      BY <1>1, <1>2, <1>3 DEF ExtraCredit
    <2>3. \A g \in Statistics : Descends(g)
      BY <1>1, <1>2, <1>3 DEF Statistics
    <2>4. \A g \in Admin : Descends(g)
      BY <1>1, <1>2, <1>3 DEF Admin
    <2>5. \A g \in Url : Descends(g)
      BY <1>1, <1>2, <1>3 DEF Url
    <2> QED
      BY <2>1, <2>2, <2>3, <2>4, <2>5
  <1>6. \A m \in {Event, Location, Update, Register, PreRegister} : \A g \in m : Descends(g)
    <2>1. \A g \in Event : Descends(g)
      BY <1>1, <1>2 DEF Event
    <2>2. \A g \in Location : Descends(g)
      BY <1>1, <1>2 DEF Location
    <2>3. \A g \in Update : Descends(g)
      BY <1>1, <1>2 DEF Update
    <2>4. \A g \in Register : Descends(g)
      BY <1>1, <1>2 DEF Register
    <2>5. \A g \in PreRegister : Descends(g)
      BY <1>1, <1>2 DEF PreRegister
    <2> QED
      BY <2>1, <2>2, <2>3, <2>4, <2>5
  <1>7. \A m \in {Rsvp, Scanner, CheckoutItems, CheckoutObject} : \A g \in m : Descends(g)
    <2>1. \A g \in Rsvp : Descends(g)
      BY <1>1, <1>2 DEF Rsvp
    <2>2. \A g \in Scanner : Descends(g)
      BY <1>1, <1>2 DEF Scanner
    <2>3. \A g \in CheckoutItems : Descends(g)
      BY <1>1, <1>2 DEF CheckoutItems
    <2>4. \A g \in CheckoutObject : Descends(g)
      BY <1>1, <1>2 DEF CheckoutObject
    <2> QED
      BY <2>1, <2>2, <2>3, <2>4
  <1>8. \A m \in {Hackathon, ActiveHackathon} : \A g \in m : Descends(g)
    BY <1>4 DEF Hackathon, ActiveHackathon
  <1> QED
    BY <1>5, <1>6, <1>7, <1>8 DEF Provided

LEMMA ProvidedRanked == Mappers = Provided => Ranked(RankOf)
  <1> SUFFICES ASSUME Mappers = Provided PROVE Ranked(RankOf)
    OBVIOUS
  <1>1. RankOf \in [Roles -> Nat]
    BY DEF RankOf
  <1>2. ASSUME NEW g \in Registered, NEW x \in g.inherits PROVE RankOf[x] < RankOf[g.role]
    <2>1. Descends(g) /\ g.role \in Roles /\ x \in Roles
      BY GrantsDescend, MappersAssumption DEF Registered
    <2>2. /\ g.role \in {"VOLUNTEER", "TEAM_MEMBER", "DIRECTOR", "TECHNOLOGY"}
          /\ x \in Below(g.role)
      BY <2>1 DEF Descends
    <2> QED
      BY <2>1, <2>2 DEF RankOf, Below
  <1> QED
    BY <1>1, <1>2 DEF Ranked

\* With the mappers that the injector provides, can never asks about a role that an
\* outer call asks about, so that it ends (addRBAC, RBAC.can).
THEOREM ProvidedNeverDeeper ==
  ASSUME Mappers = Provided
  PROVE  AccessSpec => []NoRoleTwice
  <1>1. Ranked(RankOf)
    BY ProvidedRanked
  <1>2. AclSpec => []NoRoleTwice
    BY <1>1, NeverDeeper
  <1> QED
    BY <1>2, AccessIsBoth, PTL

=============================================================================
