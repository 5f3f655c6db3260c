------------------------------ MODULE AclTable ------------------------------
(***************************************************************************)
(* Who may do what: the addRBAC calls that the constructors of the data    *)
(* mappers make.  An operation is the pair of its class and its name.      *)
(* No mapper passes an `action', so roles have none here.                  *)
(***************************************************************************)

Levels == <<"PARTICIPANT", "VOLUNTEER", "TEAM_MEMBER", "DIRECTOR", "TECHNOLOGY", "FINANCE">>

\* One addRBAC call: a role gets operations of a class and inherits other roles.
Grant(role, class, names, inherits) ==
  [role |-> role, capability |-> {class} \X names, inherits |-> inherits]

\* Mutant: directors inherit from the wrong level.
BelowSkips(role) ==
  CASE role = "TECHNOLOGY" -> {"DIRECTOR"}
    [] role = "VOLUNTEER"  -> {"PARTICIPANT"}
    [] OTHER               -> {"VOLUNTEER"}

\* The levels a mapper lets each level inherit from.
Below(role) ==
  CASE role = "TECHNOLOGY"  -> {"DIRECTOR"}
    [] role = "DIRECTOR"    -> {"TEAM_MEMBER"}
    [] role = "TEAM_MEMBER" -> {"VOLUNTEER"}
    [] role = "VOLUNTEER"   -> {"PARTICIPANT"}

\* The grants most mappers make: one level inherits from the level below it ...
To(role, class, names) == Grant(role, class, names, Below(role))
\* ... or nothing is said of inheritance.
Only(role, class, names) == Grant(role, class, names, {})

CRU  == {"create", "read", "update"}
CUD  == {"create", "update", "delete"}
Read == {"read", "readall"}
\* A permission that a mapper declares and never sets.
Undefined == <<"undefined", "undefined">>

Attendance == {To("TECHNOLOGY", "attendance", Read)}

ExtraCredit ==
  {Only("PARTICIPANT", "extra-credit",
        {"readall-classes", "read-by-uid", "create", "read", "delete"}),
   To("TEAM_MEMBER", "extra-credit", {"readall", "read-by-class"}),
   [role |-> "TEAM_MEMBER", capability |-> {Undefined}, inherits |-> {}]}

Statistics == {To("TEAM_MEMBER", "statistics", {"read"})}

Admin ==
  {To("DIRECTOR", "admin", {"get_email", "send_email", "create", "make_active"}),
   To("TECHNOLOGY", "admin", {"reduce_perm"})}

Url      == {To("TEAM_MEMBER", "url", CUD), Only("PARTICIPANT", "url", Read)}
Event    == {To("TEAM_MEMBER", "event", CUD), Only("PARTICIPANT", "event", Read)}
Location == {To("TEAM_MEMBER", "location", CUD), Only("PARTICIPANT", "location", Read)}

\* Updates use the operations of events.
Update ==
  {To("TEAM_MEMBER", "event", CUD \cup {"count"}), Only("PARTICIPANT", "event", Read)}

Register ==
  {To("DIRECTOR", "registration", {"delete"}),
   To("VOLUNTEER", "registration", {"readall", "count"}),
   Only("PARTICIPANT", "registration", CRU)}

PreRegister ==
  {To("DIRECTOR", "pre-registration", {"delete"}),
   To("VOLUNTEER", "pre-registration", {"readall"}),
   Only("PARTICIPANT", "pre-registration", CRU)}

Rsvp ==
  {To("DIRECTOR", "rsvp", {"delete"}), To("TEAM_MEMBER", "rsvp", {"count"}),
   To("VOLUNTEER", "rsvp", {"readall"}), Only("PARTICIPANT", "rsvp", CRU)}

Scanner == {To("TEAM_MEMBER", "rfidassignment", {"create", "update", "count", "readall"})}

CheckoutItems  == {To("TEAM_MEMBER", "checkoutItems", CUD \cup Read)}
CheckoutObject == {To("TEAM_MEMBER", "checkoutObject", CUD \cup Read)}

HackathonGrants(class, reads) ==
  {To("DIRECTOR", class, {"create", "update"}), To("TECHNOLOGY", class, {"delete"}),
   Only("PARTICIPANT", class, reads)}

Hackathon == HackathonGrants("hackathon", Read \cup {"count"})

\* The constructor first runs its superclass's; `readall' is the superclass's.
ActiveHackathon ==
  Hackathon \cup HackathonGrants("active-hackathon", {"read", "count"})

\* A mapper that the injector does not provide: participants inherit from volunteers.
TravelReimbursement ==
  {To("DIRECTOR", "travel-reimbursement", {"delete"}),
   Grant("PARTICIPANT", "travel-reimbursement", {"readall"}, {"VOLUNTEER"}),
   Only("PARTICIPANT", "travel-reimbursement", CRU)}

\* Mutant: the injector provides it.
ProvidedWithTravel ==
  {TravelReimbursement, Attendance, Admin, Url, Register, PreRegister, Scanner, Hackathon}

\* The mappers that the injector provides.
Provided ==
  {Attendance, ExtraCredit, Statistics, Admin, Url, Event, Location, Update, Register,
   PreRegister, Rsvp, Scanner, CheckoutItems, CheckoutObject, Hackathon, ActiveHackathon}

=============================================================================
