------------------------------ MODULE Listings ------------------------------
(***************************************************************************)
(* Lists and statistics: what a route asks of its data mapper, which table *)
(* and page and hackathon the mapper's SELECT is about, and what of its     *)
(* result the query cache gives to later requests while tables change.     *)
(*                                                                         *)
(* In a behaviour all requests are for one list: two lists have different   *)
(* texts of SQL, so the cache never gives one for the other.  Tables keep   *)
(* their rows in the order of insertion, which is that of their keys.      *)
(***************************************************************************)
EXTENDS Naturals, Sequences, SequencesExt

CONSTANTS
  Requests,    \* one value per HTTP request served
  Users,
  Events,      \* events, classes with extra credit, and equipment
  Hackathons,
  First, Second,\* the hackathon that is active, and the one activated after it
  None,        \* not given
  Queries,     \* what requests ask for: limit and offset (0: one that is refused),
               \* hackathon, allHackathons, whose rows, ignoreCache
  Before,      \* the rows of each table to begin with
  NewId,       \* the id of the first new row
  Categories,  \* how many columns registrations are counted by
  Inserted,    \* bound: of whom and of what events rows are inserted
  MaxWrites    \* bound: how often the tables change

Tables == {"registrations", "preregistrations", "rsvps", "wristbands", "scans",
           "attendance", "assignments", "classes", "locations", "hackathons",
           "checkout", "checkout_items"}
\* An id is of a version of a row; `with' has those of the rows joined to it.
Row    == [id : Nat, user : Users, event : Events, hackathon : Hackathons, with : Seq(Nat)]
Query  == [limit : Nat \cup {None}, offset : Nat \cup {None},
           hackathon : Hackathons \cup {None}, all : BOOLEAN,
           who : Users \cup Events \cup Nat \cup {None}, ignoreCache : BOOLEAN]

ASSUME ListingsAssumption ==
  /\ {First, Second} \subseteq Hackathons /\ None \notin Hackathons \cup Users \cup Events
  /\ Queries \subseteq Query /\ Queries # {}
  /\ Inserted \subseteq Users \X Events
  /\ Before \in [Tables -> Seq(Row)]
  /\ {NewId, Categories, MaxWrites} \subseteq Nat

-----------------------------------------------------------------------------
(***************************************************************************)
(* What data mappers select: of which tables, filtered by the hackathon how *)
(* many times (awaiting the active one each time, if none is given), of     *)
(* whom (in which column), which page, and whether the cache may answer.   *)
(***************************************************************************)
Select(table, o) ==
  [from |-> <<table>>, by |-> IF o.byHackathon THEN 1 ELSE 0, given |-> o.hackathon,
   who |-> o.uid, column |-> "user", limit |-> o.count, offset |-> o.startAt, cache |-> ~o.ignoreCache,
   shape |-> "rows"]

\* getCountQuery: neither of a page nor of anyone.
Count(table, o) ==
  [Select(table, o) EXCEPT !.limit = 0, !.offset = 0, !.who = None, !.shape = "count"]

RegisterGetCountQuery(o)    == Count("registrations", o)
PreRegisterGetCountQuery(o) == Count("preregistrations", o)
RsvpGetCountQuery(o)        == Count("rsvps", o)
ScannerGetCountQuery(o)     == Count("wristbands", o)

RegisterGetAll(o)    == Select("registrations", o)
RegisterGetCount(o)  == RegisterGetCountQuery(o)
PreRegisterGetAll(o) == Select("preregistrations", o)
PreRegisterGetCount(o) == PreRegisterGetCountQuery(o)
RsvpGetAll(o)        == Select("rsvps", o)
RsvpGetCount(o)      == RsvpGetCountQuery(o)
ScannerGetAll(o)     == Select("wristbands", o)
GetAllScans(o)       == Select("scans", o)
ExtraCreditGetAll(o) == Select("assignments", o)
\* By its id; of the options, of which its handler gives none, the cache is the only one.
ExtraCreditGet(o)    == [Select("assignments", o) EXCEPT !.column = "id"]
GetByUser(o)         == Select("assignments", o)
GetByClass(o)        == [Select("assignments", o) EXCEPT !.column = "event", !.cache = TRUE]
GetAllClasses(o)     == [Select("classes", o) EXCEPT !.by = 0, !.cache = TRUE]
LocationGetAll(o)    == [Select("locations", o) EXCEPT !.by = 0]

HackathonGetAll ==
  [from |-> <<"hackathons">>, by |-> 0, given |-> None, who |-> None,
   column |-> "user", limit |-> 0, offset |-> 0, cache |-> TRUE, shape |-> "rows"]
HackathonGetCount == [HackathonGetAll EXCEPT !.shape = "count"]

\* The filter is put on the attendance and on the registration joined to it.
GetAttendanceStatQuery(o) ==
  [Select("attendance", o) EXCEPT !.from = <<"attendance", "registrations">>, !.by = 2 * @]
AttendanceGetAll(o)     == [GetAttendanceStatQuery(o) EXCEPT !.who = None]
\* The order of the rows is that of the events' start times; here, of insertion.
GetAttendanceByUser(o)  == [GetAttendanceStatQuery(o) EXCEPT !.shape = "byUser"]
GetAttendanceByEvent(o) ==
  [GetAttendanceStatQuery(o) EXCEPT !.column = "event", !.shape = "byEvent"]

\* Each option of each category is counted by a SELECT of its own.
GetRegistrationStats(o) ==
  [Count("registrations", o) EXCEPT
     !.from = [i \in 1 .. Categories |-> "registrations"], !.by = Categories * @,
     !.cache = TRUE, !.shape = "options"]

GetUserCountByCategory(o) ==
  LET counts == <<PreRegisterGetCountQuery(o), RegisterGetCountQuery(o),
                  RsvpGetCountQuery(o), ScannerGetCountQuery(o)>>
  IN  [counts[1] EXCEPT !.from = [i \in 1 .. 4 |-> counts[i].from[1]], !.by = 4 * @]

\* Loans with the registrations of the borrower, in whichever hackathon.
CheckoutObjectGetAll(o) ==
  [Select("checkout", o) EXCEPT !.from = <<"checkout", "registrations">>]
CheckoutItemsGetAll(o) == [Select("checkout_items", o) EXCEPT !.by = 0]

\* Registrations with the pre-registrations (of the same email, which is one user's),
\* RSVPs and wristbands of the same user.
GetAllUserData(o) ==
  [Select("registrations", o) EXCEPT
     !.from = <<"registrations", "preregistrations", "rsvps", "wristbands">>, !.shape = "userData"]

-----------------------------------------------------------------------------
(***************************************************************************)
(* What route handlers ask data mappers for.                               *)
(***************************************************************************)
\* The plans of two routers.
Joined(f, g) ==
  [l \in DOMAIN f \cup DOMAIN g |-> IF l \in DOMAIN f THEN f[l] ELSE g[l]]

\* The middleware of /admin: absent numbers are NaN, which the mappers leave out.
OrNone(n) == IF n = None THEN 0 ELSE n

parseCommonRequestFields(q) ==
  [limit |-> OrNone(q.limit), offset |-> OrNone(q.offset), hackathon |-> q.hackathon,
   allHackathons |-> q.all, ignoreCache |-> q.ignoreCache]

\* A bug: ignoreCache is left out of the options.
OfLocalsCached(q) ==
  LET locals == parseCommonRequestFields(q)
  IN  [byHackathon |-> ~locals.allHackathons, hackathon |-> locals.hackathon,
       count |-> locals.limit, startAt |-> locals.offset, uid |-> None, ignoreCache |-> FALSE]

\* The options most handlers give: all of the locals.
OfLocals(q) ==
  LET locals == parseCommonRequestFields(q)
  IN  [byHackathon |-> ~locals.allHackathons, hackathon |-> locals.hackathon,
       count |-> locals.limit, startAt |-> locals.offset, uid |-> None,
       ignoreCache |-> locals.ignoreCache]

\* Routes outside /admin have no such middleware: nothing is given.
NoLocals ==
  [byHackathon |-> TRUE, hackathon |-> None, count |-> 0, startAt |-> 0, uid |-> None,
   ignoreCache |-> FALSE]

getRegistrationStatisticsHandler(q)      == GetAllUserData(OfLocals(q))
getRegistrationStatisticsCountHandler(q) == GetRegistrationStats(OfLocals(q))
getUserCountByCategoryHandler(q)         == GetUserCountByCategory(OfLocals(q))
getPreRegistrationCountHandler(q)        == PreRegisterGetCount(OfLocals(q))
getPreRegistrationHandler(q)             == PreRegisterGetAll(OfLocals(q))
getScansHandler(q)                       == GetAllScans(OfLocals(q))
getWidAssignments(q)                     == ScannerGetAll(OfLocals(q))
getExtraCreditAssignments(q)             == ExtraCreditGetAll(OfLocals(q))
getRsvpHandler(q)                        == RsvpGetAll(OfLocals(q))
getRsvpCountHandler(q)                   == RsvpGetCount(OfLocals(q))
getAttendanceHandler(q)                  == AttendanceGetAll(OfLocals(q))
getAttendanceByEventHandler(q) == GetAttendanceByEvent([OfLocals(q) EXCEPT !.uid = q.who])
getAttendanceByUserHandler(q)  == GetAttendanceByUser([OfLocals(q) EXCEPT !.uid = q.who])

\* GET /admin/data, by its type and aggregator.
getStatistics(q) ==
  [stats_count                 |-> getUserCountByCategoryHandler(q),
   preregistration_count       |-> getPreRegistrationCountHandler(q),
   preregistration             |-> getPreRegistrationHandler(q),
   registration_category_count |-> getRegistrationStatisticsCountHandler(q),
   registration_stats          |-> getRegistrationStatisticsHandler(q),
   rsvp                        |-> getRsvpHandler(q),
   scans                       |-> getScansHandler(q),
   wid_assignments             |-> getWidAssignments(q),
   extra_credit_assignments    |-> getExtraCreditAssignments(q),
   rsvp_count                  |-> getRsvpCountHandler(q),
   attendance                  |-> getAttendanceHandler(q),
   attendance_event            |-> getAttendanceByEventHandler(q),
   attendance_user             |-> getAttendanceByUserHandler(q)]

\* Does not hand over ignoreCache.
getAllRegistrationHandler(q) == RegisterGetAll([OfLocals(q) EXCEPT !.ignoreCache = FALSE])
countRegistrationHandler(q)  == RegisterGetCount(OfLocals(q))
getAllLocationsHandler(q)    == LocationGetAll([OfLocals(q) EXCEPT !.byHackathon = FALSE])
getAllHackathonHandler(q)    == HackathonGetAll
countHackathonHandler(q)     == HackathonGetCount

OfAdmin(q) == Joined(getStatistics(q),
  [register        |-> getAllRegistrationHandler(q),
   register_count  |-> countRegistrationHandler(q),
   location        |-> getAllLocationsHandler(q),
   hackathon       |-> getAllHackathonHandler(q),
   hackathon_count |-> countHackathonHandler(q)])

getExtraCreditClassesHandler(q) == GetAllClasses(NoLocals)
OfUser(q) == [NoLocals EXCEPT !.byHackathon = FALSE, !.uid = q.who]
getExtraCreditAssignmentHandler(q)         == ExtraCreditGet(OfUser(q))
getExtraCreditAssignmentsByUidHandler(q)   ==
  GetByUser([OfUser(q) EXCEPT !.ignoreCache = q.ignoreCache])
getExtraCreditAssignmentsByClassHandler(q) == GetByClass(OfUser(q))

\* GET /users/extra-credit/assignment, by its type.
getExtraCreditAssignmentMiddleware(q) ==
  [assignment      |-> getExtraCreditAssignmentHandler(q),
   assignments_of_user  |-> getExtraCreditAssignmentsByUidHandler(q),
   assignments_of_class |-> getExtraCreditAssignmentsByClassHandler(q)]

\* GET /scanner/registrations
getAllRegistrationsHandler == GetAllUserData([NoLocals EXCEPT !.ignoreCache = TRUE])

\* GET /admin/checkout and /items, which come before the middleware of /admin.
getAllCheckoutObjectHandler == CheckoutObjectGetAll(NoLocals)
getAllCheckoutItemsHandler  == CheckoutItemsGetAll(NoLocals)

Plans(q) == Joined(Joined(OfAdmin(q), getExtraCreditAssignmentMiddleware(q)),
  [classes        |-> getExtraCreditClassesHandler(q),
   registrations  |-> getAllRegistrationsHandler,
   checkout       |-> getAllCheckoutObjectHandler,
   checkout_items |-> getAllCheckoutItemsHandler])

AllPlans == [q \in Queries |-> Plans(q)]

AnyQuery    == CHOOSE q \in Queries : TRUE
Lists       == DOMAIN Plans(AnyQuery)
AdminLists  == DOMAIN OfAdmin(AnyQuery)
Assignments == DOMAIN getExtraCreditAssignmentMiddleware(AnyQuery)

Refused(l, q) ==
  \/ l \in AdminLists /\ 0 \in {q.limit, q.offset}
  \/ l \in Assignments /\ q.who = None
  \/ l = "assignment" /\ q.who \notin Nat \ {0}

-----------------------------------------------------------------------------
(***************************************************************************)
(* What the database answers a plan with, when the hackathons awaited for  *)
(* it were hs: a sequence of rows; for counts, the rows each one counts.   *)
(***************************************************************************)
OfWhom(row, p) == p.who = None \/ row[p.column] = p.who

\* What of a plan the database sees, once the hackathons are known.
Statement(p) == [from |-> p.from, by |-> p.by, who |-> p.who,
                 column |-> p.column, limit |-> p.limit, offset |-> p.offset, shape |-> p.shape]

\* Those of the rows that are wanted, in the order they are in.
Those(rows, wanted) ==
  LET upTo[n \in 0 .. Len(rows)] ==
        IF n = 0 THEN <<>>
        ELSE IF rows[n] \in wanted THEN Append(upTo[n - 1], rows[n])
        ELSE upTo[n - 1]
  IN  upTo[Len(rows)]

\* The i-th SELECT, filtered by the i-th of the hackathons if by any.
RowsOf(p, hs, i, tables) ==
  LET rows == tables[p.from[i]]
  IN  Those(rows, {row \in Range(rows) : (p.by = 0 \/ row.hackathon = hs[i]) /\ OfWhom(row, p)})

\* Of each row, the rows of a table that are of the same user.
Theirs(rows, table) ==
  [i \in DOMAIN rows |-> Those(table, {other \in Range(table) : other.user = rows[i].user})]

With(row, others) ==
  [j \in DOMAIN others |-> [row EXCEPT !.with = Append(@, others[j].id)]]

InnerJoin(rows, table) ==
  FlattenSeq([i \in DOMAIN rows |-> With(rows[i], Theirs(rows, table)[i])])

LeftJoin(rows, table) ==
  FlattenSeq([i \in DOMAIN rows |->
    IF Theirs(rows, table)[i] = <<>> THEN <<rows[i]>> ELSE With(rows[i], Theirs(rows, table)[i])])

AttendanceRows(p, hs, tables) ==
  LET registrations == tables["registrations"]
  IN  InnerJoin(RowsOf(p, hs, 1, tables),
                Those(registrations, {reg \in Range(registrations) :
                                        p.by = 0 \/ reg.hackathon = hs[2]}))

CheckoutRows(p, hs, tables) == InnerJoin(RowsOf(p, hs, 1, tables), tables["registrations"])

\* Of wristbands the wearer alone is selected: DISTINCT leaves one row for all (0).
Worn(rows, table) ==
  [i \in DOMAIN rows |->
    IF Theirs(rows, table)[i] = <<>> THEN rows[i] ELSE [rows[i] EXCEPT !.with = Append(@, 0)]]

\* The joined tables are not filtered by the hackathon.
UserDataRows(p, hs, tables) ==
  LET joined == LeftJoin(LeftJoin(RowsOf(p, hs, 1, tables), tables["preregistrations"]),
                         tables["rsvps"])
  IN  Worn(joined, tables["wristbands"])

Page(p, rows) ==
  SubSeq(rows, p.offset + 1,
         IF p.limit = 0 THEN Len(rows) ELSE Min({p.offset + p.limit, Len(rows)}))

Counts(p) == p.shape \in {"count", "options"}

Result(p, hs, tables) ==
  IF Counts(p) THEN [i \in DOMAIN p.from |-> RowsOf(p, hs, i, tables)]
  ELSE <<Page(p, CASE p.shape = "userData"     -> UserDataRows(p, hs, tables)
                   [] p.from[1] = "checkout"   -> CheckoutRows(p, hs, tables)
                   [] p.from[1] = "attendance" -> AttendanceRows(p, hs, tables)
                   [] OTHER                    -> RowsOf(p, hs, 1, tables))>>

\* A count of nothing is a row; the options of no registration are none.
IsEmpty(p, result) == p.shape # "count" /\ \A i \in DOMAIN result : result[i] = <<>>

\* A LIMIT is missing before an OFFSET.
IsIllFormed(p) == p.offset # 0 /\ p.limit = 0

\* A bug: what a group is made of is not listed in it.
PutFirstLost(groups, row, key, item) ==
  [k \in DOMAIN groups \cup {row[key]} |->
     IF k # row[key] THEN groups[k]
     ELSE IF k \in DOMAIN groups THEN Append(groups[k], row[item])
     ELSE <<>>]

\* A row adds to the group of its key, or makes one.
Put(groups, row, key, item) ==
  [k \in DOMAIN groups \cup {row[key]} |->
     IF k # row[key] THEN groups[k]
     ELSE IF k \in DOMAIN groups THEN Append(groups[k], row[item])
     ELSE <<row[item]>>]

\* What attendance is aggregated to: for each user the events, or the reverse.
Grouped(rows, key, item) ==
  LET upTo[n \in 0 .. Len(rows)] ==
        IF n = 0 THEN <<>> ELSE Put(upTo[n - 1], rows[n], key, item)
  IN  upTo[Len(rows)]

ByUser(rows)  == Grouped(rows, "user", "event")
ByEvent(rows) == Grouped(rows, "event", "user")

-----------------------------------------------------------------------------
VARIABLES
  list,      \* which list all requests are for
  versions,  \* the tables, now (the last) and before
  current,   \* the hackathon that is active, as the process remembers it
  cache,     \* what the process holds of the results of queries
  pc, plan,  \* of each request: what it waits for and what it asks the mapper for
  anew,      \* whether it asked to ignore the cache
  hs,        \* the hackathons it has awaited
  since,     \* the version of the tables when it arrived
  found,     \* the result that it was given
  reply      \* its answer, 0 if there is none yet
vars == <<list, versions, current, cache, pc, plan, anew, hs, since, found, reply>>

tables == Last(versions)

Init ==
  /\ list \in Lists
  /\ versions = <<Before>>
  /\ current = First
  /\ cache = {}
  /\ pc = [r \in Requests |-> "idle"]
  /\ plan = [r \in Requests |-> AllPlans[AnyQuery][list]]
  /\ anew = [r \in Requests |-> FALSE]
  /\ hs = [r \in Requests |-> <<>>]
  /\ since = [r \in Requests |-> 1]
  /\ found = [r \in Requests |-> <<>>]
  /\ reply = [r \in Requests |-> 0]

Answer(r, status, result) ==
  /\ pc' = [pc EXCEPT ![r] = "done"]
  /\ reply' = [reply EXCEPT ![r] = status]
  /\ found' = [found EXCEPT ![r] = result]

Ask(r, q) ==
  /\ pc[r] = "idle"
  /\ plan' = [plan EXCEPT ![r] = AllPlans[q][list]]
  /\ anew' = [anew EXCEPT ![r] = q.ignoreCache]
  /\ since' = [since EXCEPT ![r] = Len(versions)]
  /\ IF Refused(list, q) THEN Answer(r, 400, <<>>)
     ELSE pc' = [pc EXCEPT ![r] = "asking"] /\ UNCHANGED <<reply, found>>
  /\ UNCHANGED <<list, versions, current, cache, hs>>

\* A bug: the hackathon of the options is taken even if they have none.
GivenOnly(r) == plan[r].given

\* One WHERE clause: the hackathon given, or the active one once it is known.
GivenOrActive(r) == IF plan[r].given = None THEN current ELSE plan[r].given
AwaitHackathon(r) ==
  /\ pc[r] = "asking" /\ Len(hs[r]) < plan[r].by
  /\ hs' = [hs EXCEPT ![r] = Append(@, GivenOrActive(r))]
  /\ UNCHANGED <<list, versions, current, cache, pc, plan, anew, since, found, reply>>

Digits[n \in Nat] == IF n < 10 THEN <<n>> ELSE Digits[n \div 10] \o <<n % 10>>

\* The text of the query, which has a ? for what is given, and the values one after
\* another, without separators.  An id that is not a number is taken for one letter.
Key(p, bound) ==
  [by |-> p.by, who |-> p.who # None, limit |-> p.limit # 0, offset |-> p.offset # 0,
   values |-> bound \o (IF p.who = None THEN <<>>
                        ELSE IF p.who \in Nat THEN Digits[p.who] ELSE <<p.who>>)
              \o (IF p.limit = 0 THEN <<>> ELSE Digits[p.limit])
              \o (IF p.offset = 0 THEN <<>> ELSE Digits[p.offset])]

\* A bug: a result is looked for by the text of the query alone.
TextOf(key) == [key EXCEPT !.values = <<>>]
CachedOfText(r) ==
  {entry \in cache : plan[r].cache /\ TextOf(entry.key) = TextOf(Key(plan[r], hs[r]))}

Cached(r) ==
  {entry \in cache : plan[r].cache /\ entry.key = Key(plan[r], hs[r])}

\* With all hackathons known, the cache answers or the query goes to the database.
LookUp(r) ==
  /\ pc[r] = "asking" /\ Len(hs[r]) = plan[r].by
  /\ IF Cached(r) = {}
     THEN pc' = [pc EXCEPT ![r] = "missed"] /\ UNCHANGED <<reply, found>>
     ELSE \E entry \in Cached(r) : Answer(r, 200, entry.result)
  /\ UNCHANGED <<list, versions, current, cache, plan, anew, hs, since>>

RunSelect(r) ==
  /\ pc[r] = "missed"
  /\ LET result == Result(Statement(plan[r]), hs[r], tables)
     IN  \/ IsIllFormed(plan[r]) /\ Answer(r, 500, <<>>)
         \/ ~IsIllFormed(plan[r]) /\ IsEmpty(plan[r], result) /\ Answer(r, 404, <<>>)
         \/ /\ ~IsIllFormed(plan[r]) /\ ~IsEmpty(plan[r], result)
            /\ pc' = [pc EXCEPT ![r] = "selected"]
            /\ found' = [found EXCEPT ![r] = result]
            /\ UNCHANGED reply
  /\ UNCHANGED <<list, versions, current, cache, plan, anew, hs, since>>

\* The result is kept, whether or not the request may be answered from the cache.
Resolve(r) ==
  /\ pc[r] = "selected"
  /\ LET key == Key(plan[r], hs[r])
     IN  cache' = {entry \in cache : entry.key # key} \cup {[key |-> key, result |-> found[r]]}
  /\ Answer(r, 200, found[r])
  /\ UNCHANGED <<list, versions, current, plan, anew, hs, since>>

\* The active hackathon cannot be loaded, no connection is got, the query fails.
Fail(r) ==
  /\ pc[r] \in {"asking", "missed"}
  /\ Answer(r, 500, <<>>)
  /\ UNCHANGED <<list, versions, current, cache, plan, anew, hs, since>>

\* Entries leave the cache as other queries fill it.
Evict ==
  /\ \E entry \in cache : cache' = cache \ {entry}
  /\ UNCHANGED <<list, versions, current, pc, plan, anew, hs, since, found, reply>>

\* Another hackathon is activated, and the process remembers it.
Activate ==
  /\ current' = Second /\ current # Second
  /\ UNCHANGED <<list, versions, cache, pc, plan, anew, hs, since, found, reply>>

-----------------------------------------------------------------------------
(***************************************************************************)
(* What changes the tables: each handler ends in one statement, for the    *)
(* hackathon that was active when it awaited it.  Only tables that the     *)
(* list reads are changed.                                                 *)
(***************************************************************************)
Change(table, rows) ==
  /\ Len(versions) <= MaxWrites
  /\ table \in Range(AllPlans[AnyQuery][list].from)
  /\ versions' = Append(versions, [tables EXCEPT ![table] = rows])
  /\ UNCHANGED <<list, current, cache, pc, plan, anew, hs, since, found, reply>>

\* For the hackathon that the handler has awaited.
Insert(table) ==
  \E of \in Inserted, h \in {First, current} :
    Change(table, Append(tables[table], [id |-> NewId + Len(versions), user |-> of[1],
                                         event |-> of[2], hackathon |-> h, with |-> <<>>]))
Delete(table, gone) ==
  Change(table, Those(tables[table], Range(tables[table]) \ gone))

preRegistrationHandler          == Insert("preregistrations")
addExtraCreditClassHandler      == Insert("classes")
addExtraCreditAssignmentHandler == Insert("assignments")

deleteExtraCreditAssignmentHandler ==
  \E gone \in Range(tables["assignments"]) :
    Delete("assignments", {row \in Range(tables["assignments"]) : row.id = gone.id})

\* Of the hackathon given, or of the active one.
deleteExtraCreditAssignmentsByUserHandler ==
  \E user \in Users, h \in Hackathons :
    Delete("assignments",
           {row \in Range(tables["assignments"]) : row.user = user /\ row.hackathon = h})

createLocationHandler == Insert("locations")

updateLocationHandler ==
  \E i \in DOMAIN tables["locations"] :
    Change("locations", [tables["locations"] EXCEPT ![i].id = NewId + Len(versions)])

deleteLocationHandler ==
  \E gone \in Range(tables["locations"]) :
    Delete("locations", {row \in Range(tables["locations"]) : row.id = gone.id})

addCheckoutItemsHandler == Insert("checkout_items")

\* Registering, scanning and so on, which other modules describe.
OthersInsert ==
  \E table \in {"registrations", "rsvps", "wristbands", "scans", "attendance", "hackathons",
                "checkout"} :
    Insert(table)

Write ==
  \/ preRegistrationHandler
  \/ addExtraCreditClassHandler
  \/ addExtraCreditAssignmentHandler
  \/ deleteExtraCreditAssignmentHandler
  \/ deleteExtraCreditAssignmentsByUserHandler
  \/ createLocationHandler
  \/ updateLocationHandler
  \/ deleteLocationHandler
  \/ addCheckoutItemsHandler
  \/ OthersInsert

Next ==
  \/ \E r \in Requests :
       \/ \E q \in Queries : Ask(r, q)
       \/ AwaitHackathon(r) \/ LookUp(r) \/ RunSelect(r) \/ Resolve(r) \/ Fail(r)
  \/ Evict \/ Activate \/ Write

Spec == Init /\ [][Next]_vars

-----------------------------------------------------------------------------
\* Types, with the bound on the versions of the tables.
TypeOK ==
  /\ list \in Lists
  /\ versions \in Seq([Tables -> Seq(Row)]) /\ Len(versions) \in 1 .. MaxWrites + 1
  /\ current \in {First, Second}
  /\ pc \in [Requests -> {"idle", "asking", "missed", "selected", "done"}]
  /\ plan \in [Requests -> {AllPlans[q][list] : q \in Queries}]
  /\ anew \in [Requests -> BOOLEAN]
  /\ hs \in [Requests -> Seq(Hackathons)]
  /\ since \in [Requests -> 1 .. Len(versions)]
  /\ found \in [Requests -> Seq(Seq(Row))]
  /\ \A entry \in cache : entry.result \in Seq(Seq(Row))
  /\ \A r \in Requests : reply[r] \in {0, 200, 400, 404, 500} /\ (reply[r] # 0) = (pc[r] = "done")

\* A result that some version of the tables, of those numbered, has for a request.
IsOfVersion(r, numbers) ==
  \E i \in numbers : found[r] = Result(Statement(plan[r]), hs[r], versions[i])

\* Whichever results of which queries the cache holds, and whichever hackathons were
\* awaited for them, an answer is one result, as some version of the tables has it, of
\* a query for this list with the same conditions and, joined, the same values: that
\* is the request's own page, unless the numbers of another page have the same digits.
IsOfQuery(r, q) ==
  LET p == AllPlans[q][list]
  IN  \E bound \in [1 .. p.by -> Hackathons], i \in 1 .. Len(versions) :
        /\ Key(p, bound) = Key(plan[r], hs[r])
        /\ found[r] = Result(Statement(p), bound, versions[i])

AnswerIsOfQuery ==
  \A r \in Requests : reply[r] = 200 => \E q \in Queries : IsOfQuery(r, q)

\* Lists that drop the wish to ignore the cache, in the handler or the mapper.
Deaf == {"register", "hackathon", "hackathon_count", "classes", "assignment",
         "assignments_of_class", "registration_category_count", "checkout", "checkout_items"}

\* ignoreCache `forces a fresh query': in all other lists the answer is what the
\* tables had at some moment since the request arrived, however old the results
\* are that other requests have left in the cache meanwhile.
FreshWhenAsked ==
  \A r \in Requests :
    reply[r] = 200 /\ anew[r] /\ list \notin Deaf
      => IsOfVersion(r, since[r] .. Len(versions))

\* Attendance is aggregated without loss: each row that the query found is in
\* the group of its user (or event), in order, and there is no other group.
IsGroupedBy(groups, rows, key, item) ==
  /\ DOMAIN groups = {rows[i][key] : i \in DOMAIN rows}
  /\ \A k \in DOMAIN groups :
       LET own == Those(rows, {row \in Range(rows) : row[key] = k})
       IN  groups[k] = [i \in DOMAIN own |-> own[i][item]]

AggregationIsPartition ==
  \A r \in Requests : reply[r] = 200 =>
    /\ plan[r].shape = "byUser"  =>
         IsGroupedBy(ByUser(found[r][1]), found[r][1], "user", "event")
    /\ plan[r].shape = "byEvent" =>
         IsGroupedBy(ByEvent(found[r][1]), found[r][1], "event", "user")
=============================================================================
