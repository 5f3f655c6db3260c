---------------------------- MODULE Permissions ----------------------------
(***************************************************************************)
(* POST /admin/makeadmin: a user's level is changed in Firebase by someone *)
(* who is signed in with a level that may do so.  The handler reads the    *)
(* user's present level, decides, and then writes the new one: other       *)
(* requests, of any process, may do the same in between.                   *)
(*                                                                         *)
(* The handler takes any `privilege' that is not falsy and writes what     *)
(* parseInt makes of it: an integer, of a level or not, or NaN.  `<' is    *)
(* false of NaN, and of the claim of a user who has none (undefined), for  *)
(* which NaN stands here too.  A NaN that is written is null in JSON, and  *)
(* null counts as 0 wherever the code reads it.                            *)
(***************************************************************************)
EXTENDS Integers

CONSTANTS
  Users,      \* who has an account
  Posted,     \* what parseInt makes of the levels that requests post
  NaN,        \* not a number
  Creators,   \* levels that can "admin:create"
  Reducers,   \* levels that can "admin:reduce_perm"
  Requests,   \* one value per HTTP request served
  Exclusive,  \* does nobody change a user whom somebody else is changing?
  First       \* who has which level when the requests begin

ASSUME ConstantsAssumption ==
  /\ NaN \notin Int
  /\ Posted \subseteq Int \cup {NaN}
  /\ Exclusive \in BOOLEAN
  /\ First \in [Users -> Int \cup {NaN}]

VARIABLES
  claims,     \* Firebase: the custom claim `privilege' of each user
  token,      \* the level in the ID token that each user signed in with
  pc,         \* where each request's handler stands
  asked,      \* its parameters: the user, the new level, the caller's level
  privilege   \* the level of the user record that it looked up

vars == <<claims, token, pc, asked, privilege>>

\* JSON makes null of NaN, and a falsy privilege is set to PARTICIPANT, 0.
OrZero(level) == IF level = NaN THEN 0 ELSE level

\* JavaScript's level < present.
IsBelow(level, present) == level # NaN /\ present # NaN /\ level < present

\* The claims there can be: those of the beginning and those that are posted.
Claim == {First[u] : u \in Users} \cup {OrZero(l) : l \in Posted}
Level == {OrZero(c) : c \in Claim}

Asked == [uid : Users, level : Posted, caller : Level]
Unasked == [uid |-> "none"]

Running == {"lookup", "elevate"}
Stages  == Running \cup {"idle", "done", "failed"}

TypeOK ==
  /\ claims \in [Users -> Claim]
  /\ token \in [Users -> Level]
  /\ pc \in [Requests -> Stages]
  /\ asked \in [Requests -> Asked \cup {Unasked}]
  /\ \A r \in Requests : pc[r] # "idle" => asked[r] \in Asked
  /\ privilege \in [Requests -> Claim \cup {NaN}]

Init ==
  /\ claims = First
  /\ token = [u \in Users |-> OrZero(First[u])]
  /\ pc = [r \in Requests |-> "idle"]
  /\ asked = [r \in Requests |-> Unasked]
  /\ privilege = [r \in Requests |-> NaN]

\* A user signs in again: the new ID token carries the present claims.
SignIn(u) ==
  /\ token' = [token EXCEPT ![u] = OrZero(claims[u])]
  /\ UNCHANGED <<claims, pc, asked, privilege>>

\* The caller may create admins, and the user's record is asked for.  (Without a
\* uid or a privilege, 400, and nothing happens.)
Arrive(r) ==
  /\ pc[r] = "idle"
  /\ \E caller, uid \in Users, level \in Posted :
       /\ token[caller] \in Creators
       /\ Exclusive =>
            \A q \in Requests : pc[q] \in Running => asked[q].uid # uid
       /\ asked' = [asked EXCEPT ![r] =
                      [uid |-> uid, level |-> level, caller |-> token[caller]]]
  /\ pc' = [pc EXCEPT ![r] = "lookup"]
  /\ UNCHANGED <<claims, token, privilege>>

\* Mutant: the levels are compared the wrong way round.
MayRaise(r, present)  == ~IsBelow(present, asked[r].level) \/ asked[r].caller \in Reducers

\* May request r change a user of this level?
MayChange(r, present) == ~IsBelow(asked[r].level, present) \/ asked[r].caller \in Reducers

\* The record has come: either the request is refused, or the level is written.
LookUp(r) ==
  /\ pc[r] = "lookup"
  /\ privilege' = [privilege EXCEPT ![r] = claims[asked[r].uid]]
  /\ pc' = [pc EXCEPT ![r] =
              IF MayChange(r, claims[asked[r].uid]) THEN "elevate" ELSE "failed"]
  /\ UNCHANGED <<claims, token, asked>>

\* Mutant: levels are numbered from 1.
ElevatedOneMore(r) == [claims EXCEPT ![asked[r].uid] = OrZero(asked[r].level) + 1]

\* The claims once request r has written the level it was asked for.
Elevated(r) == [claims EXCEPT ![asked[r].uid] = OrZero(asked[r].level)]

\* setCustomUserClaims: it is done, or it is done and its answer is lost.
Elevate(r) ==
  /\ pc[r] = "elevate"
  /\ claims' = Elevated(r)
  /\ \E end \in {"done", "failed"} : pc' = [pc EXCEPT ![r] = end]
  /\ UNCHANGED <<token, asked, privilege>>

\* A call to Firebase fails without effect, or a record without customClaims is a
\* TypeError.
CallFails(r) ==
  /\ pc[r] \in Running
  /\ pc' = [pc EXCEPT ![r] = "failed"]
  /\ UNCHANGED <<claims, token, asked, privilege>>

Next ==
  \/ \E u \in Users : SignIn(u)
  \/ \E r \in Requests : Arrive(r) \/ LookUp(r) \/ Elevate(r) \/ CallFails(r)

Spec == Init /\ [][Next]_vars

-----------------------------------------------------------------------------
\* What lets a request write a level below the one that it saw: the authority to
\* reduce, which the code asks for; or NaN, of which no comparison is true, so that
\* whoever may create admins makes a participant of anybody.
MayLower(r) == asked[r].caller \in Reducers \/ asked[r].level = NaN

\* A user's level goes down only at the request of a caller who may reduce levels,
\* or of one who posts a level that is not a number.
\* (modifyPermissions: "Verify that if the permission is reduced, the user has the
\* authority to do so")
OnlyReducersReduce ==
  [][\A u \in Users :
       IsBelow(claims'[u], claims[u]) =>
         \E r \in Requests : pc[r] = "elevate" /\ asked[r].uid = u /\ MayLower(r)]_vars

\* However requests overlap, and whatever integers they post, what one of them
\* overwrites without that authority, other than with NaN, is a level that was
\* written after it had looked: a refusal is never passed over.
\* (modifyPermissions: the comparison with userRecord.customClaims)
ReducesOnlyUnseen ==
  [][\A u \in Users :
       IsBelow(claims'[u], claims[u]) =>
         \E r \in Requests :
           /\ pc[r] = "elevate" /\ asked[r].uid = u
           /\ \/ MayLower(r)
              \/ privilege[r] = NaN \/ IsBelow(privilege[r], claims[u])]_vars
=============================================================================
