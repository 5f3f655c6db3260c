--------------------------- MODULE ListingsProofs ---------------------------
(***************************************************************************)
(* What holds of Listings for all queries, tables and requests.            *)
(***************************************************************************)
EXTENDS Listings, SequenceTheorems, WellFoundedInduction, TLAPS

\* A plan asks for the hackathon and the page that the request gives, or for none.
Asks(p, q) ==
  /\ p.given \in {q.hackathon, None}
  /\ p.limit \in {OrNone(q.limit), 0} /\ p.offset \in {OrNone(q.offset), 0}

\* What of a plan depends on the list alone, whether the cache may answer, and what
\* the request gives.
Is(p, from, shape, mayCache, q) ==
  p.from = from /\ p.shape = shape /\ p.cache = mayCache /\ Asks(p, q)

\* The same of the options that a handler gives to a mapper.
Hands(o, q) ==
  /\ o.ignoreCache = q.ignoreCache /\ o.hackathon = q.hackathon
  /\ o.count = OrNone(q.limit) /\ o.startAt = OrNone(q.offset)

FourTables ==
  [i \in 1 .. 4 |-> <<"preregistrations", "registrations", "rsvps", "wristbands">>[i]]

LEMMA SelectPlan ==
  ASSUME NEW table, NEW o, NEW q, Hands(o, q)
  PROVE  /\ Is(Select(table, o), <<table>>, "rows", ~q.ignoreCache, q)
         /\ Is(Count(table, o), <<table>>, "count", ~q.ignoreCache, q)
  BY DEF Is, Asks, Hands, Select, Count

LEMMA LocalsCache ==
  ASSUME NEW q
  PROVE  Hands(OfLocals(q), q) /\ \A u : Hands([OfLocals(q) EXCEPT !.uid = u], q)
  BY DEF Hands, OfLocals, parseCommonRequestFields

\* Four counts in one SELECT.
LEMMA CategoryPlan ==
  ASSUME NEW q
  PROVE  Is(getUserCountByCategoryHandler(q), FourTables, "count", ~q.ignoreCache, q)
  <1> DEFINE o == OfLocals(q)
             cs == <<PreRegisterGetCountQuery(o), RegisterGetCountQuery(o),
                     RsvpGetCountQuery(o), ScannerGetCountQuery(o)>>
             fr == [i \in 1 .. 4 |-> cs[i].from[1]]
  <1>1. /\ Is(PreRegisterGetCountQuery(o), <<"preregistrations">>, "count", ~q.ignoreCache, q)
        /\ Is(RegisterGetCountQuery(o), <<"registrations">>, "count", ~q.ignoreCache, q)
        /\ Is(RsvpGetCountQuery(o), <<"rsvps">>, "count", ~q.ignoreCache, q)
        /\ Is(ScannerGetCountQuery(o), <<"wristbands">>, "count", ~q.ignoreCache, q)
    BY LocalsCache, SelectPlan
    DEF PreRegisterGetCountQuery, RegisterGetCountQuery, RsvpGetCountQuery, ScannerGetCountQuery
  <1>2. fr = FourTables
    BY <1>1 DEF Is, FourTables
  <1>3. getUserCountByCategoryHandler(q) = [cs[1] EXCEPT !.from = fr, !.by = 4 * @]
    BY DEF getUserCountByCategoryHandler, GetUserCountByCategory
  <1>4. cs[1] = PreRegisterGetCountQuery(o)
    OBVIOUS
  <1> HIDE DEF fr
  <1>5. getUserCountByCategoryHandler(q) =
          [PreRegisterGetCountQuery(o) EXCEPT !.from = fr, !.by = 4 * @]
    BY <1>3, <1>4
  <1> QED
    BY <1>1, <1>2, <1>5 DEF Is, Asks, PreRegisterGetCountQuery, Count, Select

\* The handlers of GET /admin/data that ask for rows or a count.
LEMMA PlainPlans ==
  ASSUME NEW q
  PROVE  /\ Is(getPreRegistrationCountHandler(q), <<"preregistrations">>, "count", ~q.ignoreCache, q)
         /\ Is(getPreRegistrationHandler(q), <<"preregistrations">>, "rows", ~q.ignoreCache, q)
         /\ Is(getScansHandler(q), <<"scans">>, "rows", ~q.ignoreCache, q)
         /\ Is(getWidAssignments(q), <<"wristbands">>, "rows", ~q.ignoreCache, q)
         /\ Is(getExtraCreditAssignments(q), <<"assignments">>, "rows", ~q.ignoreCache, q)
         /\ Is(getRsvpHandler(q), <<"rsvps">>, "rows", ~q.ignoreCache, q)
         /\ Is(getRsvpCountHandler(q), <<"rsvps">>, "count", ~q.ignoreCache, q)
  BY LocalsCache, SelectPlan
  DEF getPreRegistrationCountHandler, PreRegisterGetCount, PreRegisterGetCountQuery,
      getPreRegistrationHandler, PreRegisterGetAll, getScansHandler, GetAllScans,
      getWidAssignments, ScannerGetAll, getExtraCreditAssignments, ExtraCreditGetAll,
      getRsvpHandler, RsvpGetAll, getRsvpCountHandler, RsvpGetCount, RsvpGetCountQuery

\* Attendance: the filter is put twice.
LEMMA AttendancePlans ==
  ASSUME NEW q
  PROVE  /\ Is(getAttendanceHandler(q), <<"attendance", "registrations">>, "rows", ~q.ignoreCache, q)
         /\ Is(getAttendanceByEventHandler(q), <<"attendance", "registrations">>, "byEvent", ~q.ignoreCache, q)
         /\ Is(getAttendanceByUserHandler(q), <<"attendance", "registrations">>, "byUser", ~q.ignoreCache, q)
  <1>2. Is(getAttendanceHandler(q), <<"attendance", "registrations">>, "rows", ~q.ignoreCache, q)
    BY LocalsCache DEF getAttendanceHandler, AttendanceGetAll, Is, Asks, Hands, GetAttendanceStatQuery, Select
  <1>3. Is(getAttendanceByEventHandler(q), <<"attendance", "registrations">>, "byEvent", ~q.ignoreCache, q)
    BY LocalsCache DEF getAttendanceByEventHandler, GetAttendanceByEvent, Is, Asks, Hands, GetAttendanceStatQuery, Select
  <1>4. Is(getAttendanceByUserHandler(q), <<"attendance", "registrations">>, "byUser", ~q.ignoreCache, q)
    BY LocalsCache DEF getAttendanceByUserHandler, GetAttendanceByUser, Is, Asks, Hands, GetAttendanceStatQuery, Select
  <1> QED
    BY <1>2, <1>3, <1>4

LEMMA RegistrationPlans ==
  ASSUME NEW q
  PROVE  /\ Is(getRegistrationStatisticsHandler(q),
               <<"registrations", "preregistrations", "rsvps", "wristbands">>, "userData", ~q.ignoreCache, q)
         /\ Is(getRegistrationStatisticsCountHandler(q),
               [i \in 1 .. Categories |-> "registrations"], "options", TRUE, q)
  <1>1. Is(getRegistrationStatisticsHandler(q),
               <<"registrations", "preregistrations", "rsvps", "wristbands">>, "userData", ~q.ignoreCache, q)
    BY LocalsCache DEF getRegistrationStatisticsHandler, GetAllUserData, Is, Asks, Hands, Select
  <1>2. Is(getRegistrationStatisticsCountHandler(q),
               [i \in 1 .. Categories |-> "registrations"], "options", TRUE, q)
    BY LocalsCache DEF getRegistrationStatisticsCountHandler, GetRegistrationStats, Is, Asks, Hands, Count, Select
  <1> QED
    BY <1>1, <1>2

\* The other handlers under /admin; three of them are deaf to ignoreCache.
LEMMA AdminPlans ==
  ASSUME NEW q
  PROVE  /\ Is(getAllRegistrationHandler(q), <<"registrations">>, "rows", TRUE, q)
         /\ Is(countRegistrationHandler(q), <<"registrations">>, "count", ~q.ignoreCache, q)
         /\ Is(getAllLocationsHandler(q), <<"locations">>, "rows", ~q.ignoreCache, q)
         /\ Is(getAllHackathonHandler(q), <<"hackathons">>, "rows", TRUE, q)
         /\ Is(countHackathonHandler(q), <<"hackathons">>, "count", TRUE, q)
  <1>1. Is(getAllRegistrationHandler(q), <<"registrations">>, "rows", TRUE, q)
    BY DEF getAllRegistrationHandler, RegisterGetAll, Is, Asks, Select, OfLocals,
       parseCommonRequestFields
  <1>2. Is(countRegistrationHandler(q), <<"registrations">>, "count", ~q.ignoreCache, q)
    BY LocalsCache, SelectPlan
    DEF countRegistrationHandler, RegisterGetCount, RegisterGetCountQuery
  <1>3. Is(getAllLocationsHandler(q), <<"locations">>, "rows", ~q.ignoreCache, q)
    BY DEF getAllLocationsHandler, LocationGetAll, Is, Asks, Select, OfLocals,
       parseCommonRequestFields
  <1>4. /\ Is(getAllHackathonHandler(q), <<"hackathons">>, "rows", TRUE, q)
        /\ Is(countHackathonHandler(q), <<"hackathons">>, "count", TRUE, q)
    BY DEF getAllHackathonHandler, HackathonGetAll, countHackathonHandler,
       HackathonGetCount, Is, Asks
  <1> QED
    BY <1>1, <1>2, <1>3, <1>4

\* The handlers outside the middleware of /admin.
LEMMA OtherPlans ==
  ASSUME NEW q
  PROVE  /\ Is(getExtraCreditAssignmentHandler(q), <<"assignments">>, "rows", TRUE, q)
         /\ Is(getExtraCreditAssignmentsByUidHandler(q), <<"assignments">>, "rows", ~q.ignoreCache, q)
         /\ Is(getExtraCreditAssignmentsByClassHandler(q), <<"assignments">>, "rows", TRUE, q)
         /\ Is(getAllRegistrationsHandler,
               <<"registrations", "preregistrations", "rsvps", "wristbands">>, "userData", FALSE, q)
  <1>1. Is(getExtraCreditAssignmentHandler(q), <<"assignments">>, "rows", TRUE, q)
    BY DEF getExtraCreditAssignmentHandler, ExtraCreditGet, Is, Asks, Select, OfUser, NoLocals
  <1>2. Is(getExtraCreditAssignmentsByUidHandler(q), <<"assignments">>, "rows", ~q.ignoreCache, q)
    BY DEF getExtraCreditAssignmentsByUidHandler, GetByUser, Is, Asks, Select, OfUser, NoLocals
  <1>3. Is(getExtraCreditAssignmentsByClassHandler(q), <<"assignments">>, "rows", TRUE, q)
    BY DEF getExtraCreditAssignmentsByClassHandler, GetByClass, Is, Asks, Select, OfUser, NoLocals
  <1>4. Is(getAllRegistrationsHandler,
               <<"registrations", "preregistrations", "rsvps", "wristbands">>, "userData", FALSE, q)
    BY DEF getAllRegistrationsHandler, GetAllUserData, Is, Asks, Select, NoLocals
  <1> QED
    BY <1>1, <1>2, <1>3, <1>4

-----------------------------------------------------------------------------
\* Two records of plans for the same lists, which differ in nothing but whom, which
\* hackathon and which page they ask for.
SameLists(F, G) ==
  /\ DOMAIN F = DOMAIN G
  /\ \A l \in DOMAIN F : F[l].from = G[l].from /\ F[l].shape = G[l].shape

\* The plans of the lists that are not deaf, if the cache is to be ignored.
Heeds(F) == \A l \in DOMAIN F \ Deaf : F[l].cache = FALSE

\* Plans of what a request gives, each of tables that there are; only the options may
\* be of none.
Reads(p) == p.from \in Seq(Tables) /\ (p.shape = "options" \/ p.from # <<>>)

Gives(F, q) == \A l \in DOMAIN F : Asks(F[l], q) /\ Reads(F[l])

LEMMA JoinedPlans ==
  ASSUME NEW F, NEW G, NEW F2, NEW G2
  PROVE  /\ SameLists(F, F2) /\ SameLists(G, G2) => SameLists(Joined(F, G), Joined(F2, G2))
         /\ Heeds(F) /\ Heeds(G) => Heeds(Joined(F, G))
         /\ \A q : Gives(F, q) /\ Gives(G, q) => Gives(Joined(F, G), q)
  BY DEF SameLists, Heeds, Gives, Joined

\* The plans of GET /admin/data, which the cache may answer or not.
StatisticsNames ==
  {"stats_count", "preregistration_count", "preregistration", "registration_category_count",
   "registration_stats", "rsvp", "scans", "wid_assignments", "extra_credit_assignments",
   "rsvp_count", "attendance", "attendance_event", "attendance_user"}

Table(name)      == <<name>>
AttendanceTables == <<"attendance", "registrations">>
UserTables       == <<"registrations", "preregistrations", "rsvps", "wristbands">>
OptionTables     == [i \in 1 .. Categories |-> "registrations"]

LEMMA TablesRead ==
  /\ \A t \in Tables : <<t>> \in Seq(Tables) /\ <<t>> # <<>>
  /\ \A t \in Tables : Table(t) \in Seq(Tables) /\ Table(t) # <<>>
  /\ AttendanceTables \in Seq(Tables) /\ AttendanceTables # <<>>
  /\ UserTables \in Seq(Tables) /\ UserTables # <<>>
  /\ FourTables \in Seq(Tables) /\ FourTables # <<>>
  /\ OptionTables \in Seq(Tables)
  <1>1. \A t \in Tables : Table(t) \in Seq(Tables) /\ Table(t) # <<>>
    BY DEF Table
  <1>2. AttendanceTables \in Seq(Tables) /\ AttendanceTables # <<>>
    BY DEF AttendanceTables, Tables
  <1>3. UserTables \in Seq(Tables) /\ UserTables # <<>>
    BY DEF UserTables, Tables
  <1>4. FourTables \in Seq(Tables) /\ FourTables # <<>>
    BY DEF FourTables, Tables
  <1>5. OptionTables \in Seq(Tables)
    <2>1. Categories \in Nat
      BY ListingsAssumption
    <2>2. "registrations" \in Tables
      BY DEF Tables
    <2> QED
      BY <2>1, <2>2 DEF OptionTables
  <1> QED
    BY <1>1, <1>2, <1>3, <1>4, <1>5

AreStatistics(S, mayCache, q) ==
  /\ Is(S["stats_count"], FourTables, "count", mayCache, q)
  /\ Is(S["preregistration_count"], Table("preregistrations"), "count", mayCache, q)
  /\ Is(S["preregistration"], Table("preregistrations"), "rows", mayCache, q)
  /\ Is(S["registration_category_count"],
        OptionTables, "options", TRUE, q)
  /\ Is(S["registration_stats"],
        UserTables, "userData", mayCache, q)
  /\ Is(S["rsvp"], Table("rsvps"), "rows", mayCache, q)
  /\ Is(S["scans"], Table("scans"), "rows", mayCache, q)
  /\ Is(S["wid_assignments"], Table("wristbands"), "rows", mayCache, q)
  /\ Is(S["extra_credit_assignments"], Table("assignments"), "rows", mayCache, q)
  /\ Is(S["rsvp_count"], Table("rsvps"), "count", mayCache, q)
  /\ Is(S["attendance"], AttendanceTables, "rows", mayCache, q)
  /\ Is(S["attendance_event"], AttendanceTables, "byEvent", mayCache, q)
  /\ Is(S["attendance_user"], AttendanceTables, "byUser", mayCache, q)

LEMMA StatisticsAre ==
  ASSUME NEW q
  PROVE  DOMAIN getStatistics(q) = StatisticsNames /\ AreStatistics(getStatistics(q), ~q.ignoreCache, q)
  <1>1. DOMAIN getStatistics(q) = StatisticsNames
    BY DEF getStatistics, StatisticsNames
  <1>2. AreStatistics(getStatistics(q), ~q.ignoreCache, q)
    BY CategoryPlan, PlainPlans, AttendancePlans, RegistrationPlans
    DEF AreStatistics, getStatistics, Table, AttendanceTables, UserTables, OptionTables
  <1> QED
    BY <1>1, <1>2

LEMMA StatisticsSame ==
  ASSUME NEW S, NEW T, NEW c, NEW d, NEW q, NEW q2, AreStatistics(S, c, q), AreStatistics(T, d, q2),
         NEW l \in StatisticsNames
  PROVE  /\ S[l].from = T[l].from /\ S[l].shape = T[l].shape
         /\ l # "registration_category_count" => S[l].cache = c
         /\ Asks(S[l], q) /\ Reads(S[l])
  <1>1. S[l].from = T[l].from
    BY DEF StatisticsNames, AreStatistics, Is
  <1>2. S[l].shape = T[l].shape
    BY DEF StatisticsNames, AreStatistics, Is
  <1>3. l # "registration_category_count" => S[l].cache = c
    BY DEF StatisticsNames, AreStatistics, Is
  <1>4. Asks(S[l], q)
    BY DEF StatisticsNames, AreStatistics, Is
  <1>5. Reads(S[l])
    <2>1. {"preregistrations", "rsvps", "scans", "wristbands", "assignments"} \subseteq Tables
      BY DEF Tables
    <2>2. \A x, table, shape, may : Is(x, Table(table), shape, may, q) /\ table \in Tables => Reads(x)
      BY TablesRead DEF Is, Reads
    <2>3. /\ Reads(S["preregistration_count"]) /\ Reads(S["preregistration"])
          /\ Reads(S["rsvp"]) /\ Reads(S["scans"]) /\ Reads(S["wid_assignments"])
          /\ Reads(S["extra_credit_assignments"]) /\ Reads(S["rsvp_count"])
      BY <2>1, <2>2 DEF AreStatistics
    <2>4. /\ Reads(S["stats_count"]) /\ Reads(S["registration_category_count"])
          /\ Reads(S["registration_stats"]) /\ Reads(S["attendance"])
          /\ Reads(S["attendance_event"]) /\ Reads(S["attendance_user"])
      BY TablesRead DEF AreStatistics, Is, Reads
    <2> QED
      BY <2>3, <2>4 DEF StatisticsNames
  <1> QED
    BY <1>1, <1>2, <1>3, <1>4, <1>5

LEMMA StatisticsPlans ==
  ASSUME NEW q, NEW q2
  PROVE  /\ SameLists(getStatistics(q), getStatistics(q2))
         /\ q.ignoreCache => Heeds(getStatistics(q))
         /\ Gives(getStatistics(q), q)
  <1> DEFINE c == ~q.ignoreCache
             d == ~q2.ignoreCache
  <1>1. /\ AreStatistics(getStatistics(q), c, q) /\ DOMAIN getStatistics(q) = StatisticsNames
        /\ AreStatistics(getStatistics(q2), d, q2) /\ DOMAIN getStatistics(q2) = StatisticsNames
    BY StatisticsAre
  <1>2. q.ignoreCache => c = FALSE
    OBVIOUS
  <1> HIDE DEF c, d
  <1>3. \A l \in StatisticsNames :
          /\ getStatistics(q)[l].from = getStatistics(q2)[l].from
          /\ getStatistics(q)[l].shape = getStatistics(q2)[l].shape
          /\ l # "registration_category_count" => getStatistics(q)[l].cache = c
          /\ Asks(getStatistics(q)[l], q) /\ Reads(getStatistics(q)[l])
    BY <1>1, StatisticsSame
  <1> QED
    BY <1>1, <1>2, <1>3 DEF SameLists, Heeds, Gives, Deaf

\* The same of the other plans under /admin, of those for extra credit, and of the
\* rest.
AreAdmin(S, mayCache, q) ==
  /\ DOMAIN S = {"register", "register_count", "location", "hackathon", "hackathon_count"}
  /\ Is(S["register"], <<"registrations">>, "rows", TRUE, q)
  /\ Is(S["register_count"], <<"registrations">>, "count", mayCache, q)
  /\ Is(S["location"], <<"locations">>, "rows", mayCache, q)
  /\ Is(S["hackathon"], <<"hackathons">>, "rows", TRUE, q)
  /\ Is(S["hackathon_count"], <<"hackathons">>, "count", TRUE, q)

AreAssignments(S, mayCache, q) ==
  /\ DOMAIN S = {"assignment", "assignments_of_user", "assignments_of_class"}
  /\ Is(S["assignment"], <<"assignments">>, "rows", TRUE, q)
  /\ Is(S["assignments_of_user"], <<"assignments">>, "rows", mayCache, q)
  /\ Is(S["assignments_of_class"], <<"assignments">>, "rows", TRUE, q)

LEMMA RecordsSame ==
  ASSUME NEW S, NEW T, NEW c, NEW d, NEW q, NEW q2
  PROVE  /\ AreAdmin(S, c, q) /\ AreAdmin(T, d, q2) =>
              SameLists(S, T) /\ (c = FALSE => Heeds(S)) /\ Gives(S, q)
         /\ AreAssignments(S, c, q) /\ AreAssignments(T, d, q2) =>
              SameLists(S, T) /\ (c = FALSE => Heeds(S)) /\ Gives(S, q)
  <1>0. \A x, shape, may :
          \A table \in {"registrations", "locations", "hackathons", "assignments"} :
            Is(x, <<table>>, shape, may, q) => Asks(x, q) /\ Reads(x)
    <2>1. {"registrations", "locations", "hackathons", "assignments"} \subseteq Tables
      BY DEF Tables
    <2> QED
      BY <2>1, TablesRead DEF Is, Reads
  <1>1. ASSUME AreAdmin(S, c, q), AreAdmin(T, d, q2)
        PROVE  SameLists(S, T) /\ (c = FALSE => Heeds(S)) /\ Gives(S, q)
    <2>1. SameLists(S, T) /\ (c = FALSE => Heeds(S))
      BY <1>1 DEF AreAdmin, SameLists, Heeds, Deaf, Is
    <2>2. Gives(S, q)
      BY <1>0, <1>1 DEF AreAdmin, Gives
    <2> QED
      BY <2>1, <2>2
  <1>2. ASSUME AreAssignments(S, c, q), AreAssignments(T, d, q2)
        PROVE  SameLists(S, T) /\ (c = FALSE => Heeds(S)) /\ Gives(S, q)
    <2>1. SameLists(S, T) /\ (c = FALSE => Heeds(S))
      BY <1>2 DEF AreAssignments, SameLists, Heeds, Deaf, Is
    <2>2. Gives(S, q)
      BY <1>0, <1>2 DEF AreAssignments, Gives
    <2> QED
      BY <2>1, <2>2
  <1> QED
    BY <1>1, <1>2

LEMMA RouterPlans ==
  ASSUME NEW q, NEW q2
  PROVE  /\ SameLists(Plans(q), Plans(q2))
         /\ q.ignoreCache => Heeds(Plans(q))
         /\ Gives(Plans(q), q)
  <1> DEFINE
      A(x) == [register        |-> getAllRegistrationHandler(x),
               register_count  |-> countRegistrationHandler(x),
               location        |-> getAllLocationsHandler(x),
               hackathon       |-> getAllHackathonHandler(x),
               hackathon_count |-> countHackathonHandler(x)]
      U(x) == getExtraCreditAssignmentMiddleware(x)
      O(x) == [classes        |-> getExtraCreditClassesHandler(x),
               registrations  |-> getAllRegistrationsHandler,
               checkout       |-> getAllCheckoutObjectHandler,
               checkout_items |-> getAllCheckoutItemsHandler]
  <1>1. \A x : AreAdmin(A(x), ~x.ignoreCache, x) /\ AreAssignments(U(x), ~x.ignoreCache, x)
    <2> SUFFICES ASSUME NEW x
                 PROVE  AreAdmin(A(x), ~x.ignoreCache, x) /\ AreAssignments(U(x), ~x.ignoreCache, x)
      OBVIOUS
    <2>1. AreAdmin(A(x), ~x.ignoreCache, x)
      BY AdminPlans DEF AreAdmin
    <2>2. AreAssignments(U(x), ~x.ignoreCache, x)
      BY OtherPlans DEF AreAssignments, getExtraCreditAssignmentMiddleware
    <2> QED
      BY <2>1, <2>2
  <1>2. SameLists(O(q), O(q2)) /\ Heeds(O(q)) /\ Gives(O(q), q)
    <2>1. getExtraCreditClassesHandler(q) = getExtraCreditClassesHandler(q2)
      BY DEF getExtraCreditClassesHandler
    <2>2. getAllRegistrationsHandler.cache = FALSE
      BY OtherPlans DEF Is
    <2>3. O(q) = O(q2)
      BY <2>1
    <2>4. DOMAIN O(q) = {"classes", "registrations", "checkout", "checkout_items"}
          /\ O(q)["registrations"] = getAllRegistrationsHandler
      OBVIOUS
    <2>5. /\ Asks(getExtraCreditClassesHandler(q), q) /\ Asks(getAllRegistrationsHandler, q)
          /\ Asks(getAllCheckoutObjectHandler, q) /\ Asks(getAllCheckoutItemsHandler, q)
      BY DEF Asks, getExtraCreditClassesHandler, GetAllClasses, getAllRegistrationsHandler,
         GetAllUserData, getAllCheckoutObjectHandler, CheckoutObjectGetAll,
         getAllCheckoutItemsHandler, CheckoutItemsGetAll, Select, NoLocals
    <2>6. /\ Reads(getExtraCreditClassesHandler(q)) /\ Reads(getAllRegistrationsHandler)
          /\ Reads(getAllCheckoutObjectHandler) /\ Reads(getAllCheckoutItemsHandler)
      BY DEF Reads, Tables, getExtraCreditClassesHandler, GetAllClasses,
         getAllRegistrationsHandler, GetAllUserData, getAllCheckoutObjectHandler,
         CheckoutObjectGetAll, getAllCheckoutItemsHandler, CheckoutItemsGetAll, Select, NoLocals
    <2>7. \A l \in DOMAIN O(q) : Asks(O(q)[l], q) /\ Reads(O(q)[l])
      BY <2>5, <2>6
    <2> HIDE DEF O
    <2> QED
      BY <2>2, <2>3, <2>4, <2>7 DEF SameLists, Heeds, Gives, Deaf
  <1> DEFINE c == ~q.ignoreCache
             d == ~q2.ignoreCache
  <1>4. /\ OfAdmin(q) = Joined(getStatistics(q), A(q))
        /\ OfAdmin(q2) = Joined(getStatistics(q2), A(q2))
    BY DEF OfAdmin
  <1>5. /\ Plans(q) = Joined(Joined(OfAdmin(q), U(q)), O(q))
        /\ Plans(q2) = Joined(Joined(OfAdmin(q2), U(q2)), O(q2))
    BY DEF Plans
  <1> HIDE DEF A, U, O
  <1>6. /\ AreAdmin(A(q), c, q) /\ AreAssignments(U(q), c, q)
        /\ AreAdmin(A(q2), d, q2) /\ AreAssignments(U(q2), d, q2)
    BY <1>1
  <1>7. q.ignoreCache => c = FALSE
    OBVIOUS
  <1> HIDE DEF c, d
  <1>8. /\ SameLists(A(q), A(q2)) /\ SameLists(U(q), U(q2))
        /\ q.ignoreCache => Heeds(A(q)) /\ Heeds(U(q))
        /\ Gives(A(q), q) /\ Gives(U(q), q)
    BY <1>6, <1>7, RecordsSame
  <1>9. /\ SameLists(OfAdmin(q), OfAdmin(q2)) /\ (q.ignoreCache => Heeds(OfAdmin(q)))
        /\ Gives(OfAdmin(q), q)
    BY <1>4, <1>8, JoinedPlans, StatisticsPlans
  <1> QED
    BY <1>2, <1>5, <1>8, <1>9, JoinedPlans

-----------------------------------------------------------------------------
(***************************************************************************)
(* The invariant.  Versions of the tables are only ever added.  A request  *)
(* that has come so far as to have its result, from the database, has that *)
(* of a version since it arrived; so has one that was answered and that    *)
(* the cache might not answer.                                             *)
(***************************************************************************)
Stages == {"idle", "asking", "missed", "selected", "done"}

Shaped ==
  /\ list \in Lists
  /\ Len(versions) \in Nat \ {0} /\ versions \in Seq({versions[i] : i \in 1 .. Len(versions)})
  /\ current \in Hackathons
  /\ pc \in [Requests -> Stages]
  /\ plan \in [Requests -> {AllPlans[q][list] : q \in Queries}]
  /\ anew \in [Requests -> BOOLEAN]
  /\ hs \in [Requests -> Seq(Hackathons)]
  /\ since \in [Requests -> 1 .. Len(versions)]
  /\ found = [r \in Requests |-> found[r]]
  /\ reply \in [Requests -> {0, 200, 400, 404, 500}]

\* The plan of a request is that of a query, which wished what it wished.
Asked(r) == \E q \in Queries : plan[r] = AllPlans[q][list] /\ anew[r] = q.ignoreCache

FreshlyFound(r) == IsOfVersion(r, since[r] .. Len(versions))

RequestOK(r) ==
  /\ pc[r] # "idle" => Asked(r)
  /\ reply[r] = 200 => pc[r] = "done"
  /\ pc[r] \in {"missed", "selected"} \/ reply[r] = 200 => Len(hs[r]) = plan[r].by
  /\ pc[r] = "selected" => FreshlyFound(r)
  /\ reply[r] = 200 /\ ~plan[r].cache => FreshlyFound(r)

FreshInv == Shaped /\ \A r \in Requests : RequestOK(r)

LEMMA AnyQueryIsOne == AnyQuery \in Queries
  BY ListingsAssumption DEF AnyQuery

\* The plans of a list.
LEMMA PlanOf ==
  ASSUME NEW l \in Lists, NEW q \in Queries
  PROVE  /\ AllPlans[q][l].given \in Hackathons \cup {None} /\ Reads(AllPlans[q][l])
         /\ AllPlans[q][l].limit \in Nat /\ AllPlans[q][l].offset \in Nat
         /\ q.ignoreCache /\ l \notin Deaf => AllPlans[q][l].cache = FALSE
         /\ \A q2 \in Queries : /\ AllPlans[q][l].from = AllPlans[q2][l].from
                               /\ AllPlans[q][l].shape = AllPlans[q2][l].shape
  <1>1. \A x \in Queries : AllPlans[x] = Plans(x)
    BY DEF AllPlans
  <1>2. l \in DOMAIN Plans(q)
    BY RouterPlans DEF Lists, SameLists
  <1>3. q.hackathon \in Hackathons \cup {None}
    BY ListingsAssumption DEF Query
  <1>4. /\ AllPlans[q][l].given \in Hackathons \cup {None} /\ Reads(AllPlans[q][l])
        /\ AllPlans[q][l].limit \in Nat /\ AllPlans[q][l].offset \in Nat
    <2>1. OrNone(q.limit) \in Nat /\ OrNone(q.offset) \in Nat
      BY ListingsAssumption DEF Query, OrNone
    <2>2. Asks(AllPlans[q][l], q) /\ Reads(AllPlans[q][l])
      BY <1>1, <1>2, RouterPlans DEF Gives
    <2> QED
      BY <1>3, <2>1, <2>2 DEF Asks
  <1>5. q.ignoreCache /\ l \notin Deaf => AllPlans[q][l].cache = FALSE
    BY <1>1, <1>2, RouterPlans DEF Heeds
  <1>6. \A q2 \in Queries : /\ AllPlans[q][l].from = AllPlans[q2][l].from
                           /\ AllPlans[q][l].shape = AllPlans[q2][l].shape
    BY <1>1, <1>2, RouterPlans DEF SameLists
  <1> QED
    BY <1>4, <1>5, <1>6

LEMMA PlanHeeds ==
  \A l \in Lists : \A q \in Queries :
    q.ignoreCache = TRUE /\ l \notin Deaf => AllPlans[q][l].cache = FALSE
  BY PlanOf

LEMMA PlansAlike ==
  \A l \in Lists : \A q \in Queries :
    /\ Reads(AllPlans[q][l]) /\ AllPlans[q][l].limit \in Nat /\ AllPlans[q][l].offset \in Nat
    /\ AllPlans[q][l].shape = AllPlans[AnyQuery][l].shape
  <1> SUFFICES ASSUME NEW l \in Lists, NEW q \in Queries
               PROVE  /\ Reads(AllPlans[q][l])
                      /\ AllPlans[q][l].limit \in Nat /\ AllPlans[q][l].offset \in Nat
                      /\ AllPlans[q][l].shape = AllPlans[AnyQuery][l].shape
    OBVIOUS
  <1>1. \A q2 \in Queries : AllPlans[q][l].shape = AllPlans[q2][l].shape
    BY PlanOf
  <1>2. Reads(AllPlans[q][l]) /\ AllPlans[q][l].limit \in Nat /\ AllPlans[q][l].offset \in Nat
    BY PlanOf
  <1> QED
    BY <1>1, <1>2, AnyQueryIsOne

LEMMA InitFresh == Init => FreshInv
  <1> SUFFICES ASSUME Init PROVE FreshInv
    OBVIOUS
  <1>1. versions = <<Before>> /\ Len(versions) = 1 /\ versions[1] = Before
    BY DEF Init
  <1>2. versions \in Seq({versions[i] : i \in 1 .. Len(versions)})
    BY <1>1
  <1>3. current \in Hackathons
    BY ListingsAssumption DEF Init
  <1>4. plan \in [Requests -> {AllPlans[q][list] : q \in Queries}]
    BY AnyQueryIsOne DEF Init
  <1>5. hs \in [Requests -> Seq(Hackathons)]
    BY DEF Init
  <1>6. Shaped
    BY <1>1, <1>2, <1>3, <1>4, <1>5 DEF Init, Shaped, Stages
  <1>7. \A r \in Requests : RequestOK(r)
    BY DEF Init, RequestOK
  <1> QED
    BY <1>6, <1>7 DEF FreshInv

-----------------------------------------------------------------------------
\* A step of request r, in which the tables do not change: what is left to show is
\* what it makes of r.
Others(r) ==
  /\ UNCHANGED <<list, versions, current>>
  /\ \A x \in Requests \ {r} :
       /\ pc'[x] = pc[x] /\ plan'[x] = plan[x] /\ anew'[x] = anew[x] /\ hs'[x] = hs[x]
       /\ since'[x] = since[x] /\ found'[x] = found[x] /\ reply'[x] = reply[x]

LEMMA StepOfOne ==
  ASSUME FreshInv, NEW r \in Requests, Others(r), Shaped', RequestOK(r)'
  PROVE  FreshInv'
  <1> SUFFICES ASSUME NEW x \in Requests, x # r PROVE RequestOK(x)'
    BY DEF FreshInv
  <1>1. RequestOK(x)
    BY DEF FreshInv
  <1> QED
    BY <1>1 DEF Others, RequestOK, Asked, FreshlyFound, IsOfVersion

LEMMA Answering ==
  ASSUME Shaped, NEW r \in Requests, NEW status \in {200, 400, 404, 500}, NEW result,
         Answer(r, status, result)
  PROVE  /\ pc' \in [Requests -> Stages] /\ reply' \in [Requests -> {0, 200, 400, 404, 500}]
         /\ found' = [x \in Requests |-> found'[x]]
         /\ pc'[r] = "done" /\ reply'[r] = status /\ found'[r] = result
         /\ \A x \in Requests \ {r} :
              pc'[x] = pc[x] /\ found'[x] = found[x] /\ reply'[x] = reply[x]
  <1>1. pc' = [pc EXCEPT ![r] = "done"] /\ reply' = [reply EXCEPT ![r] = status]
        /\ found' = [found EXCEPT ![r] = result]
    BY DEF Answer
  <1>2. found = [x \in Requests |-> found[x]]
    BY DEF Shaped
  <1>3. /\ found' = [x \in Requests |-> found'[x]] /\ found'[r] = result
        /\ \A x \in Requests \ {r} : found'[x] = found[x]
    BY <1>1, <1>2
  <1> QED
    BY <1>1, <1>3 DEF Shaped, Stages

\* A refusal carries no result.
LEMMA Refusing ==
  ASSUME Shaped, NEW r \in Requests, NEW status \in {400, 404, 500}, Answer(r, status, <<>>)
  PROVE  /\ pc' \in [Requests -> Stages] /\ reply' \in [Requests -> {0, 200, 400, 404, 500}]
         /\ found' = [x \in Requests |-> found'[x]]
         /\ pc'[r] = "done" /\ reply'[r] = status /\ found'[r] = <<>>
         /\ \A x \in Requests \ {r} :
              pc'[x] = pc[x] /\ found'[x] = found[x] /\ reply'[x] = reply[x]
  <1> DEFINE none == <<>>
  <1>1. Answer(r, status, none) /\ status \in {200, 400, 404, 500}
    OBVIOUS
  <1> HIDE DEF none
  <1>2. /\ pc' \in [Requests -> Stages] /\ reply' \in [Requests -> {0, 200, 400, 404, 500}]
        /\ found' = [x \in Requests |-> found'[x]]
        /\ pc'[r] = "done" /\ reply'[r] = status /\ found'[r] = none
        /\ \A x \in Requests \ {r} :
             pc'[x] = pc[x] /\ found'[x] = found[x] /\ reply'[x] = reply[x]
    BY <1>1, Answering
  <1> QED
    BY <1>2 DEF none

LEMMA AskFresh ==
  ASSUME FreshInv, NEW r \in Requests, NEW q \in Queries, Ask(r, q)
  PROVE  FreshInv' /\ Others(r) /\ reply'[r] # 200
  <1> USE DEF FreshInv
  <1>1. /\ pc[r] = "idle" /\ reply[r] # 200
        /\ plan' = [plan EXCEPT ![r] = AllPlans[q][list]]
        /\ anew' = [anew EXCEPT ![r] = q.ignoreCache]
        /\ since' = [since EXCEPT ![r] = Len(versions)]
        /\ UNCHANGED <<list, versions, current, hs>>
    BY DEF Ask, RequestOK
  <1>2. q.ignoreCache \in BOOLEAN
    BY ListingsAssumption DEF Query
  <1>3. /\ pc' \in [Requests -> Stages] /\ reply' \in [Requests -> {0, 200, 400, 404, 500}]
        /\ found' = [x \in Requests |-> found'[x]]
        /\ pc'[r] \in {"done", "asking"} /\ reply'[r] # 200
        /\ \A x \in Requests \ {r} :
             pc'[x] = pc[x] /\ found'[x] = found[x] /\ reply'[x] = reply[x]
    <2>1. CASE Answer(r, 400, <<>>)
      BY <2>1, Refusing
    <2>2. CASE pc' = [pc EXCEPT ![r] = "asking"] /\ UNCHANGED <<reply, found>>
      BY <1>1, <2>2 DEF Shaped, Stages
    <2> QED
      BY <2>1, <2>2 DEF Ask
  <1>4. Shaped'
    <2>1. plan' \in [Requests -> {AllPlans[x][list] : x \in Queries}]
      BY <1>1 DEF Shaped
    <2>2. anew' \in [Requests -> BOOLEAN]
      BY <1>1, <1>2 DEF Shaped
    <2>3. since' \in [Requests -> 1 .. Len(versions)]
      BY <1>1 DEF Shaped
    <2> QED
      BY <1>1, <1>3, <2>1, <2>2, <2>3 DEF Shaped
  <1>5. plan'[r] = AllPlans[q][list] /\ anew'[r] = q.ignoreCache
    BY <1>1 DEF Shaped
  <1>6. Others(r)
    BY <1>1, <1>3 DEF Others, Shaped
  <1>7. RequestOK(r)'
    BY <1>1, <1>3, <1>5 DEF RequestOK, Asked
  <1> QED
    BY <1>3, <1>4, <1>6, <1>7, StepOfOne

LEMMA AwaitFresh ==
  ASSUME FreshInv, NEW r \in Requests, AwaitHackathon(r)
  PROVE  FreshInv' /\ Others(r) /\ reply'[r] # 200
  <1> USE DEF FreshInv
  <1>1. /\ pc[r] = "asking" /\ hs' = [hs EXCEPT ![r] = Append(hs[r], GivenOrActive(r))]
        /\ UNCHANGED <<list, versions, current, pc, plan, anew, since, found, reply>>
    BY DEF AwaitHackathon
  <1>2. GivenOrActive(r) \in Hackathons
    <2>1. list \in Lists /\ current \in Hackathons
      BY DEF Shaped
    <2>2. PICK q \in Queries : plan[r] = AllPlans[q][list]
      BY DEF Shaped
    <2>3. AllPlans[q][list].given \in Hackathons \cup {None}
      BY <2>1, PlanOf
    <2> QED
      BY <2>1, <2>2, <2>3 DEF GivenOrActive
  <1>3. hs' \in [Requests -> Seq(Hackathons)]
    <2>1. hs[r] \in Seq(Hackathons)
      BY DEF Shaped
    <2>2. Append(hs[r], GivenOrActive(r)) \in Seq(Hackathons)
      BY <1>2, <2>1, AppendProperties
    <2> QED
      BY <1>1, <2>2 DEF Shaped
  <1>4. Shaped'
    BY <1>1, <1>3 DEF Shaped
  <1>5. Others(r)
    BY <1>1 DEF Others, Shaped
  <1>6. RequestOK(r)'
    BY <1>1 DEF RequestOK, Asked
  <1>7. reply'[r] # 200
    BY <1>1 DEF RequestOK
  <1> QED
    BY <1>4, <1>5, <1>6, <1>7, StepOfOne

\* With a plan that the cache may not answer, nothing is cached.
LEMMA LookUpFresh ==
  ASSUME FreshInv, NEW r \in Requests, LookUp(r)
  PROVE  /\ FreshInv' /\ Others(r)
         /\ reply'[r] # 200 \/ \E entry \in Cached(r) : found'[r] = entry.result
  <1> USE DEF FreshInv
  <1>1. /\ pc[r] = "asking" /\ Len(hs[r]) = plan[r].by /\ reply[r] # 200
        /\ UNCHANGED <<list, versions, current, plan, anew, hs, since>>
    BY DEF LookUp, RequestOK
  <1>2. Asked(r)' <=> Asked(r)
    BY <1>1 DEF Asked
  <1>3. CASE pc' = [pc EXCEPT ![r] = "missed"] /\ UNCHANGED <<reply, found>>
    <2>1. Shaped' /\ Others(r) /\ pc'[r] = "missed"
      BY <1>1, <1>3 DEF Shaped, Others, Stages
    <2>2. RequestOK(r)'
      BY <1>1, <1>2, <1>3, <2>1 DEF RequestOK
    <2> QED
      BY <1>1, <1>3, <2>1, <2>2, StepOfOne
  <1>4. ASSUME NEW entry \in Cached(r), Answer(r, 200, entry.result)
        PROVE  FreshInv' /\ Others(r) /\ found'[r] = entry.result
    <2> DEFINE result == entry.result
    <2>0. Shaped /\ Answer(r, 200, result) /\ 200 \in {200, 400, 404, 500}
      BY <1>4
    <2> HIDE DEF result
    <2>1. /\ pc' \in [Requests -> Stages] /\ reply' \in [Requests -> {0, 200, 400, 404, 500}]
          /\ found' = [x \in Requests |-> found'[x]]
          /\ pc'[r] = "done" /\ reply'[r] = 200 /\ found'[r] = result
          /\ \A x \in Requests \ {r} :
               pc'[x] = pc[x] /\ found'[x] = found[x] /\ reply'[x] = reply[x]
      BY <2>0, Answering
    <2>2. Shaped' /\ Others(r)
      BY <1>1, <2>1 DEF Shaped, Others
    <2>3. plan[r].cache
      BY <1>4 DEF Cached
    <2>4. RequestOK(r)'
      BY <1>1, <1>2, <2>1, <2>3 DEF RequestOK
    <2> QED
      BY <2>1, <2>2, <2>4, StepOfOne DEF result
  <1> QED
    BY <1>3, <1>4 DEF LookUp

LEMMA RunSelectFresh ==
  ASSUME FreshInv, NEW r \in Requests, RunSelect(r)
  PROVE  FreshInv' /\ Others(r) /\ reply'[r] # 200
  <1> USE DEF FreshInv
  <1> DEFINE result == Result(Statement(plan[r]), hs[r], tables)
  <1>1. /\ pc[r] = "missed" /\ Len(hs[r]) = plan[r].by /\ reply[r] # 200
        /\ UNCHANGED <<list, versions, current, plan, anew, hs, since>>
    BY DEF RunSelect, RequestOK
  <1>2. Asked(r)' <=> Asked(r)
    BY <1>1 DEF Asked
  <1>3. ASSUME NEW status \in {404, 500}, Answer(r, status, <<>>)
        PROVE  FreshInv' /\ Others(r) /\ reply'[r] # 200
    <2>0. /\ pc' \in [Requests -> Stages] /\ reply' \in [Requests -> {0, 200, 400, 404, 500}]
          /\ found' = [x \in Requests |-> found'[x]]
          /\ pc'[r] = "done" /\ reply'[r] = status
          /\ \A x \in Requests \ {r} :
               pc'[x] = pc[x] /\ found'[x] = found[x] /\ reply'[x] = reply[x]
      <3>1. Shaped
        OBVIOUS
      <3> QED
        BY <1>3, <3>1, Refusing
    <2>1. Shaped' /\ Others(r)
      BY <1>1, <2>0 DEF Shaped, Others
    <2>2. RequestOK(r)'
      BY <1>1, <1>2, <2>0 DEF RequestOK
    <2> QED
      BY <2>0, <2>1, <2>2, StepOfOne
  <1>4. ASSUME pc' = [pc EXCEPT ![r] = "selected"], found' = [found EXCEPT ![r] = result],
               UNCHANGED reply
        PROVE  FreshInv' /\ Others(r) /\ reply'[r] # 200
    <2> HIDE DEF result
    <2>1. /\ found' = [x \in Requests |-> found'[x]] /\ found'[r] = result
          /\ \A x \in Requests \ {r} : found'[x] = found[x]
      <3>1. found = [x \in Requests |-> found[x]]
        BY DEF Shaped
      <3> QED
        BY <1>4, <3>1
    <2>2. Shaped' /\ Others(r) /\ pc'[r] = "selected"
      BY <1>1, <1>4, <2>1 DEF Shaped, Others, Stages
    <2>3. Len(versions) \in since[r] .. Len(versions) /\ tables = versions[Len(versions)]
      BY DEF Shaped, tables, Last
    <2>4. FreshlyFound(r)'
      BY <1>1, <2>1, <2>3 DEF FreshlyFound, IsOfVersion, result
    <2>5. RequestOK(r)'
      BY <1>1, <1>2, <1>4, <2>2, <2>4 DEF RequestOK
    <2> QED
      BY <1>1, <1>4, <2>2, <2>5, StepOfOne
  <1>5. \/ Answer(r, 500, <<>>)
        \/ Answer(r, 404, <<>>)
        \/ /\ pc' = [pc EXCEPT ![r] = "selected"] /\ found' = [found EXCEPT ![r] = result]
           /\ UNCHANGED reply
    BY DEF RunSelect
  <1> HIDE DEF result
  <1> QED
    BY <1>3, <1>4, <1>5

LEMMA ResolveFresh ==
  ASSUME FreshInv, NEW r \in Requests, Resolve(r)
  PROVE  FreshInv' /\ Others(r) /\ found'[r] = found[r] /\ FreshlyFound(r)
  <1> USE DEF FreshInv
  <1>1. /\ pc[r] = "selected" /\ Len(hs[r]) = plan[r].by /\ FreshlyFound(r)
        /\ Answer(r, 200, found[r])
        /\ UNCHANGED <<list, versions, current, plan, anew, hs, since>>
    BY DEF Resolve, RequestOK
  <1>0. /\ pc' \in [Requests -> Stages] /\ reply' \in [Requests -> {0, 200, 400, 404, 500}]
        /\ found' = [x \in Requests |-> found'[x]]
        /\ pc'[r] = "done" /\ reply'[r] = 200 /\ found'[r] = found[r]
        /\ \A x \in Requests \ {r} :
             pc'[x] = pc[x] /\ found'[x] = found[x] /\ reply'[x] = reply[x]
    <2> DEFINE result == found[r]
    <2>1. Shaped /\ Answer(r, 200, result) /\ 200 \in {200, 400, 404, 500}
      BY <1>1
    <2> HIDE DEF result
    <2>2. /\ pc' \in [Requests -> Stages] /\ reply' \in [Requests -> {0, 200, 400, 404, 500}]
          /\ found' = [x \in Requests |-> found'[x]]
          /\ pc'[r] = "done" /\ reply'[r] = 200 /\ found'[r] = result
          /\ \A x \in Requests \ {r} :
               pc'[x] = pc[x] /\ found'[x] = found[x] /\ reply'[x] = reply[x]
      BY <2>1, Answering
    <2> QED
      BY <2>2 DEF result
  <1>2. Shaped' /\ Others(r)
    BY <1>0, <1>1 DEF Shaped, Others
  <1>3. FreshlyFound(r)' /\ (Asked(r)' <=> Asked(r))
    BY <1>0, <1>1 DEF FreshlyFound, IsOfVersion, Asked
  <1>4. RequestOK(r)'
    BY <1>0, <1>1, <1>3 DEF RequestOK
  <1> QED
    BY <1>0, <1>1, <1>2, <1>4, StepOfOne

LEMMA FailFresh ==
  ASSUME FreshInv, NEW r \in Requests, Fail(r)
  PROVE  FreshInv' /\ Others(r) /\ reply'[r] # 200
  <1> USE DEF FreshInv
  <1>1. /\ pc[r] # "idle" /\ Answer(r, 500, <<>>)
        /\ UNCHANGED <<list, versions, current, plan, anew, hs, since>>
    BY DEF Fail
  <1>0. /\ pc' \in [Requests -> Stages] /\ reply' \in [Requests -> {0, 200, 400, 404, 500}]
        /\ found' = [x \in Requests |-> found'[x]]
        /\ pc'[r] = "done" /\ reply'[r] = 500
        /\ \A x \in Requests \ {r} :
             pc'[x] = pc[x] /\ found'[x] = found[x] /\ reply'[x] = reply[x]
    <2>1. Shaped
      OBVIOUS
    <2> QED
      BY <1>1, <2>1, Refusing
  <1>2. Shaped' /\ Others(r)
    BY <1>1, <1>0 DEF Shaped, Others
  <1>3. RequestOK(r)'
    BY <1>1, <1>0 DEF RequestOK, Asked
  <1> QED
    BY <1>0, <1>2, <1>3, StepOfOne

-----------------------------------------------------------------------------
\* The tables change: a version is added, and those there were keep their numbers.
Grows ==
  /\ \E rows : versions' = Append(versions, rows)
  /\ UNCHANGED <<list, current, cache, pc, plan, anew, hs, since, found, reply>>

LEMMA WritesGrow == Write => Grows
  <1>1. \A table, rows : Change(table, rows) => Grows
    BY DEF Change, Grows
  <1>2. \A table : Insert(table) => Grows
    BY <1>1 DEF Insert
  <1>3. ASSUME deleteExtraCreditAssignmentHandler PROVE Grows
    BY <1>1, <1>3 DEF deleteExtraCreditAssignmentHandler, Delete
  <1>4. ASSUME deleteExtraCreditAssignmentsByUserHandler PROVE Grows
    BY <1>1, <1>4 DEF deleteExtraCreditAssignmentsByUserHandler, Delete
  <1>5. ASSUME updateLocationHandler PROVE Grows
    BY <1>1, <1>5 DEF updateLocationHandler
  <1>6. ASSUME deleteLocationHandler PROVE Grows
    BY <1>1, <1>6 DEF deleteLocationHandler, Delete
  <1> QED
    BY <1>2, <1>3, <1>4, <1>5, <1>6
    DEF Write, preRegistrationHandler, addExtraCreditClassHandler,
        addExtraCreditAssignmentHandler, createLocationHandler, addCheckoutItemsHandler,
        OthersInsert

LEMMA Versions ==
  ASSUME Shaped, Grows
  PROVE  /\ Len(versions') = Len(versions) + 1
         /\ versions' \in Seq({versions'[i] : i \in 1 .. Len(versions')})
         /\ \A i \in 1 .. Len(versions) : versions'[i] = versions[i]
  <1>1. PICK rows : versions' = Append(versions, rows)
    BY DEF Grows
  <1> DEFINE T == {versions[i] : i \in 1 .. Len(versions)} \cup {rows}
  <1>2. versions \in Seq(T) /\ rows \in T
    BY DEF Shaped
  <1> HIDE DEF T
  <1>3. /\ versions' \in Seq(T) /\ Len(versions') = Len(versions) + 1
        /\ \A i \in 1 .. Len(versions) : versions'[i] = versions[i]
    BY <1>1, <1>2, AppendProperties DEF Shaped
  <1>4. versions' \in Seq({versions'[i] : i \in 1 .. Len(versions')})
    <2>1. versions' \in [1 .. Len(versions') -> T] /\ Len(versions') \in Nat
      BY <1>3, LenProperties
    <2> QED
      BY <2>1
  <1> QED
    BY <1>3, <1>4

LEMMA GrowsFresh ==
  ASSUME FreshInv, Grows
  PROVE  FreshInv'
  <1> USE DEF FreshInv
  <1>1. UNCHANGED <<list, current, pc, plan, anew, hs, since, found, reply>>
    BY DEF Grows
  <1>2. /\ Len(versions') = Len(versions) + 1
        /\ versions' \in Seq({versions'[i] : i \in 1 .. Len(versions')})
        /\ \A i \in 1 .. Len(versions) : versions'[i] = versions[i]
    BY Versions
  <1>3. Len(versions) \in Nat \ {0} /\ \A r \in Requests : since[r] \in 1 .. Len(versions)
    BY DEF Shaped
  <1>4. Shaped'
    <2>1. since' \in [Requests -> 1 .. Len(versions')]
      BY <1>1, <1>2, <1>3 DEF Shaped
    <2> QED
      BY <1>1, <1>2, <1>3, <2>1 DEF Shaped
  <1>5. ASSUME NEW r \in Requests PROVE RequestOK(r)'
    <2>1. FreshlyFound(r) => FreshlyFound(r)'
      <3> SUFFICES ASSUME FreshlyFound(r) PROVE FreshlyFound(r)'
        OBVIOUS
      <3>1. PICK i \in since[r] .. Len(versions) :
              found[r] = Result(Statement(plan[r]), hs[r], versions[i])
        BY DEF FreshlyFound, IsOfVersion
      <3>2. i \in 1 .. Len(versions) /\ i \in since'[r] .. Len(versions')
        BY <1>1, <1>2, <1>3
      <3>3. versions'[i] = versions[i]
        BY <1>2, <3>2
      <3> QED
        BY <1>1, <3>1, <3>2, <3>3 DEF FreshlyFound, IsOfVersion
    <2> QED
      BY <1>1, <2>1 DEF RequestOK, Asked
  <1> QED
    BY <1>4, <1>5

LEMMA QuietFresh ==
  ASSUME FreshInv, UNCHANGED <<list, versions, pc, plan, anew, hs, since, found, reply>>,
         current' \in Hackathons
  PROVE  FreshInv'
  BY DEF FreshInv, Shaped, RequestOK, Asked, FreshlyFound, IsOfVersion

LEMMA NextFresh == FreshInv /\ [Next]_vars => FreshInv'
  <1> SUFFICES ASSUME FreshInv, [Next]_vars PROVE FreshInv'
    OBVIOUS
  <1>1. CASE Evict
    BY <1>1, QuietFresh DEF Evict, FreshInv, Shaped
  <1>2. CASE Activate
    BY <1>2, QuietFresh, ListingsAssumption DEF Activate
  <1>3. CASE UNCHANGED vars
    BY <1>3, QuietFresh DEF vars, FreshInv, Shaped
  <1> QED
    BY <1>1, <1>2, <1>3, AskFresh, AwaitFresh, LookUpFresh, RunSelectFresh, ResolveFresh,
       FailFresh, GrowsFresh, WritesGrow DEF Next

\* In every list whose handler or mapper does not drop the wish, a request that asked
\* to ignore the cache is answered with what the tables had at some moment since it
\* arrived, whatever other requests leave in the cache meanwhile (MysqlUow.query).
THEOREM AskedIsFresh == Spec => []FreshWhenAsked
  <1>1. FreshInv => FreshWhenAsked
    <2> SUFFICES ASSUME FreshInv, NEW r \in Requests, reply[r] = 200, anew[r],
                        list \notin Deaf
                 PROVE  FreshlyFound(r)
      BY DEF FreshWhenAsked, FreshlyFound
    <2>1. PICK q \in Queries : plan[r] = AllPlans[q][list] /\ anew[r] = q.ignoreCache
      BY DEF FreshInv, RequestOK, Asked
    <2>2. q.ignoreCache = TRUE /\ list \in Lists
      BY <2>1 DEF FreshInv, Shaped
    <2>3. AllPlans[q][list].cache = FALSE
      BY <2>2, PlanHeeds
    <2>4. plan[r].cache = FALSE
      BY <2>1, <2>3
    <2> QED
      BY <2>4 DEF FreshInv, RequestOK
  <1> QED
    BY <1>1, InitFresh, NextFresh, PTL DEF Spec

-----------------------------------------------------------------------------
(***************************************************************************)
(* Answers of the cache.  An entry is under the key of some query for the  *)
(* list, with some hackathons put into it, and has what some version of the *)
(* tables has for that query and those hackathons: what a request finds    *)
(* under its key is of a query with the same key.                          *)
(***************************************************************************)
IsAnswerOf(entry, q, bound, i) ==
  /\ entry.key = Key(AllPlans[q][list], bound)
  /\ entry.result = Result(Statement(AllPlans[q][list]), bound, versions[i])

IsKept(entry) ==
  \E q \in Queries : \E bound \in [1 .. AllPlans[q][list].by -> Hackathons] :
    \E i \in 1 .. Len(versions) : IsAnswerOf(entry, q, bound, i)

CacheHolds == \A entry \in cache : IsKept(entry)

AnswerInv == FreshInv /\ CacheHolds /\ AnswerIsOfQuery

\* The hackathons that a request has awaited are those its query has a ? for.
LEMMA AwaitedAll ==
  ASSUME FreshInv, NEW r \in Requests, Len(hs[r]) = plan[r].by
  PROVE  \E q \in Queries : /\ plan[r] = AllPlans[q][list]
                            /\ hs[r] \in [1 .. AllPlans[q][list].by -> Hackathons]
  <1>1. PICK q \in Queries : plan[r] = AllPlans[q][list]
    BY DEF FreshInv, Shaped
  <1>2. hs[r] \in Seq(Hackathons)
    BY DEF FreshInv, Shaped
  <1>3. hs[r] \in [1 .. Len(hs[r]) -> Hackathons]
    BY <1>2, LenProperties
  <1> QED
    BY <1>1, <1>3

LEMMA CachedIsOfQuery ==
  ASSUME CacheHolds, NEW r \in Requests, NEW entry \in Cached(r)
  PROVE  \E q \in Queries : \E bound \in [1 .. AllPlans[q][list].by -> Hackathons] :
           \E i \in 1 .. Len(versions) :
             /\ Key(AllPlans[q][list], bound) = Key(plan[r], hs[r])
             /\ entry.result = Result(Statement(AllPlans[q][list]), bound, versions[i])
  <1>1. entry \in cache /\ entry.key = Key(plan[r], hs[r])
    BY DEF Cached
  <1> QED
    BY <1>1 DEF CacheHolds, IsKept, IsAnswerOf

\* The request's own query is one of those that its result may be of.
LEMMA OwnIsOfQuery ==
  ASSUME FreshInv, NEW r \in Requests, Len(hs[r]) = plan[r].by,
         IsOfVersion(r, 1 .. Len(versions))
  PROVE  \E q \in Queries : IsOfQuery(r, q)
  <1>1. PICK q \in Queries : /\ plan[r] = AllPlans[q][list]
                             /\ hs[r] \in [1 .. AllPlans[q][list].by -> Hackathons]
    BY AwaitedAll
  <1>2. PICK i \in 1 .. Len(versions) :
          found[r] = Result(Statement(plan[r]), hs[r], versions[i])
    BY DEF IsOfVersion
  <1>3. IsOfQuery(r, q)
    BY <1>1, <1>2 DEF IsOfQuery
  <1> QED
    BY <1>3

\* A step of request r that leaves the answers of the others as they were.
LEMMA StepKeeps ==
  ASSUME AnswerInv, NEW r \in Requests, Others(r), FreshInv', CacheHolds',
         reply'[r] = 200 => \E q \in Queries : IsOfQuery(r, q)'
  PROVE  AnswerInv'
  <1>1. ASSUME NEW x \in Requests, reply'[x] = 200
        PROVE  \E q \in Queries : IsOfQuery(x, q)'
    <2>1. CASE x # r
      <3>1. /\ reply[x] = 200 /\ plan'[x] = plan[x] /\ hs'[x] = hs[x] /\ found'[x] = found[x]
            /\ UNCHANGED <<list, versions>>
        BY <1>1, <2>1 DEF Others
      <3>2. PICK q \in Queries : IsOfQuery(x, q)
        BY <3>1 DEF AnswerInv, AnswerIsOfQuery
      <3>3. IsOfQuery(x, q)'
        BY <3>1, <3>2 DEF IsOfQuery
      <3> QED
        BY <3>3
    <2> QED
      BY <1>1, <2>1
  <1> QED
    BY <1>1 DEF AnswerInv, AnswerIsOfQuery

LEMMA CacheStays ==
  ASSUME CacheHolds, UNCHANGED <<list, versions>>, cache' \subseteq cache
  PROVE  CacheHolds'
  BY DEF CacheHolds, IsKept, IsAnswerOf

LEMMA LookUpKeeps ==
  ASSUME AnswerInv, NEW r \in Requests, LookUp(r)
  PROVE  AnswerInv'
  <1>1. UNCHANGED <<list, versions, cache, plan, hs>>
    BY DEF LookUp
  <1>2. /\ FreshInv' /\ Others(r)
        /\ reply'[r] # 200 \/ \E entry \in Cached(r) : found'[r] = entry.result
    BY LookUpFresh DEF AnswerInv
  <1>3. CacheHolds'
    BY <1>1, CacheStays DEF AnswerInv
  <1>4. ASSUME reply'[r] = 200
        PROVE  \E q \in Queries : IsOfQuery(r, q)'
    <2>1. PICK entry \in Cached(r) : found'[r] = entry.result
      BY <1>2, <1>4
    <2>2. PICK q \in Queries : \E bound \in [1 .. AllPlans[q][list].by -> Hackathons] :
            \E i \in 1 .. Len(versions) :
              /\ Key(AllPlans[q][list], bound) = Key(plan[r], hs[r])
              /\ entry.result = Result(Statement(AllPlans[q][list]), bound, versions[i])
      BY CachedIsOfQuery DEF AnswerInv
    <2>3. IsOfQuery(r, q)'
      BY <1>1, <2>1, <2>2 DEF IsOfQuery
    <2> QED
      BY <2>3
  <1> QED
    BY <1>2, <1>3, <1>4, StepKeeps

LEMMA ResolveKeeps ==
  ASSUME AnswerInv, NEW r \in Requests, Resolve(r)
  PROVE  AnswerInv'
  <1> DEFINE new == [key |-> Key(plan[r], hs[r]), result |-> found[r]]
  <1>1. /\ pc[r] = "selected" /\ cache' \subseteq cache \cup {new}
        /\ UNCHANGED <<list, versions, plan, hs>>
    BY DEF Resolve
  <1>2. FreshInv' /\ Others(r) /\ found'[r] = found[r] /\ FreshlyFound(r)
    BY ResolveFresh DEF AnswerInv
  <1>3. since[r] .. Len(versions) \subseteq 1 .. Len(versions)
    BY DEF AnswerInv, FreshInv, Shaped
  <1>4. PICK i \in 1 .. Len(versions) :
          found[r] = Result(Statement(plan[r]), hs[r], versions[i])
    BY <1>2, <1>3 DEF FreshlyFound, IsOfVersion
  <1>5. IsKept(new)
    <2>1. Len(hs[r]) = plan[r].by
      BY <1>1 DEF AnswerInv, FreshInv, RequestOK
    <2>2. PICK q \in Queries : /\ plan[r] = AllPlans[q][list]
                               /\ hs[r] \in [1 .. AllPlans[q][list].by -> Hackathons]
      BY <2>1, AwaitedAll DEF AnswerInv
    <2>3. IsAnswerOf(new, q, hs[r], i)
      BY <1>4, <2>2 DEF IsAnswerOf
    <2> QED
      BY <2>2, <2>3 DEF IsKept
  <1> HIDE DEF new
  <1>6. CacheHolds'
    BY <1>1, <1>5 DEF AnswerInv, CacheHolds, IsKept, IsAnswerOf
  <1>7. \E q \in Queries : IsOfQuery(r, q)'
    <2>1. Len(hs[r]) = plan[r].by /\ IsOfVersion(r, 1 .. Len(versions))
      BY <1>1, <1>4 DEF AnswerInv, FreshInv, RequestOK, IsOfVersion
    <2>2. PICK q \in Queries : IsOfQuery(r, q)
      BY <2>1, OwnIsOfQuery DEF AnswerInv
    <2>3. IsOfQuery(r, q)'
      BY <1>1, <1>2, <2>2 DEF IsOfQuery
    <2> QED
      BY <2>3
  <1> QED
    BY <1>2, <1>6, <1>7, StepKeeps

LEMMA GrowsKeeps ==
  ASSUME AnswerInv, Grows
  PROVE  AnswerInv'
  <1>1. UNCHANGED <<list, current, cache, pc, plan, anew, hs, since, found, reply>>
    BY DEF Grows
  <1>2. /\ Len(versions') = Len(versions) + 1 /\ Len(versions) \in Nat
        /\ \A i \in 1 .. Len(versions) : versions'[i] = versions[i]
    BY Versions DEF AnswerInv, FreshInv, Shaped
  <1>3. \A i \in 1 .. Len(versions) : i \in 1 .. Len(versions')
    BY <1>2
  <1>4. CacheHolds'
    BY <1>1, <1>2, <1>3 DEF AnswerInv, CacheHolds, IsKept, IsAnswerOf
  <1>5. ASSUME NEW r \in Requests, NEW q \in Queries, IsOfQuery(r, q)
        PROVE  IsOfQuery(r, q)'
    BY <1>1, <1>2, <1>3, <1>5 DEF IsOfQuery
  <1>6. AnswerIsOfQuery'
    BY <1>1, <1>5 DEF AnswerInv, AnswerIsOfQuery
  <1> QED
    BY <1>4, <1>6, GrowsFresh DEF AnswerInv

LEMMA QuietKeeps ==
  ASSUME AnswerInv, FreshInv', cache' \subseteq cache,
         UNCHANGED <<list, versions, pc, plan, anew, hs, since, found, reply>>
  PROVE  AnswerInv'
  <1>1. CacheHolds'
    BY CacheStays DEF AnswerInv
  <1> QED
    BY <1>1 DEF AnswerInv, AnswerIsOfQuery, IsOfQuery

LEMMA NextKeeps == AnswerInv /\ [Next]_vars => AnswerInv'
  <1> SUFFICES ASSUME AnswerInv, [Next]_vars PROVE AnswerInv'
    OBVIOUS
  <1>0. FreshInv'
    BY NextFresh DEF AnswerInv
  <1>1. ASSUME NEW r \in Requests, Others(r), reply'[r] # 200, cache' = cache
        PROVE  AnswerInv'
    <2>1. CacheHolds'
      BY <1>1, CacheStays DEF AnswerInv, Others
    <2> QED
      BY <1>0, <1>1, <2>1, StepKeeps
  <1>2. ASSUME NEW r \in Requests, NEW q \in Queries, Ask(r, q) PROVE AnswerInv'
    <2>1. cache' = cache
      BY <1>2 DEF Ask
    <2> QED
      BY <1>1, <1>2, <2>1, AskFresh DEF AnswerInv
  <1>3. ASSUME NEW r \in Requests, AwaitHackathon(r) PROVE AnswerInv'
    <2>1. cache' = cache
      BY <1>3 DEF AwaitHackathon
    <2> QED
      BY <1>1, <1>3, <2>1, AwaitFresh DEF AnswerInv
  <1>4. ASSUME NEW r \in Requests, RunSelect(r) PROVE AnswerInv'
    <2>1. cache' = cache
      BY <1>4 DEF RunSelect
    <2> QED
      BY <1>1, <1>4, <2>1, RunSelectFresh DEF AnswerInv
  <1>5. ASSUME NEW r \in Requests, Fail(r) PROVE AnswerInv'
    <2>1. cache' = cache
      BY <1>5 DEF Fail
    <2> QED
      BY <1>1, <1>5, <2>1, FailFresh DEF AnswerInv
  <1>6. CASE Evict
    BY <1>0, <1>6, QuietKeeps DEF Evict
  <1>7. CASE Activate
    BY <1>0, <1>7, QuietKeeps DEF Activate
  <1>8. CASE UNCHANGED vars
    BY <1>0, <1>8, QuietKeeps DEF vars
  <1> QED
    BY <1>2, <1>3, <1>4, <1>5, <1>6, <1>7, <1>8, LookUpKeeps, ResolveKeeps, GrowsKeeps,
       WritesGrow DEF Next

\* Whatever is asked and whatever the cache holds, an answer is the result, in some
\* version of the tables, of a query for the same list with the same conditions and
\* the same joined values as the request's (MysqlUow.query, which joins them without
\* separators, promises no more).
THEOREM AnswersAreOfQueries == Spec => []AnswerIsOfQuery
  <1>1. Init => AnswerInv
    <2> SUFFICES ASSUME Init PROVE AnswerInv
      OBVIOUS
    <2>1. FreshInv
      BY InitFresh
    <2>2. cache = {} /\ \A r \in Requests : reply[r] = 0
      BY DEF Init
    <2> QED
      BY <2>1, <2>2 DEF AnswerInv, CacheHolds, AnswerIsOfQuery
  <1>2. AnswerInv /\ [Next]_vars => AnswerInv'
    BY NextKeeps
  <1>3. AnswerInv => AnswerIsOfQuery
    BY DEF AnswerInv
  <1> QED
    BY <1>1, <1>2, <1>3, PTL DEF Spec

-----------------------------------------------------------------------------
Below == {p \in Nat \X Nat : p[1] < p[2]}

LEMMA BelowIsWellFounded == IsWellFoundedOn(Below, Nat)
  <1>1. Below = OpToRel(<, Nat)
    BY DEF Below, OpToRel
  <1> QED
    BY <1>1, NatLessThanWellFounded, Zenon

LEMMA Induction ==
  ASSUME NEW T, 0 \in T, \A n \in Nat : n \in T => n + 1 \in T
  PROVE  \A n \in Nat : n \in T
  <1> DEFINE Bad == {n \in Nat : n \notin T}
  <1>1. SUFFICES ASSUME Bad # {} PROVE FALSE
    OBVIOUS
  <1>2. PICK x \in Bad : \A y \in Bad : ~(<<y, x>> \in Below)
    BY <1>1, BelowIsWellFounded, WFMin, Zenon
  <1>3. x # 0 /\ x \in Nat
    OBVIOUS
  <1>4. x - 1 \in Nat /\ <<x - 1, x>> \in Below
    BY <1>3 DEF Below
  <1>5. x - 1 \in T
    BY <1>2, <1>4
  <1> QED
    BY <1>3, <1>4, <1>5

\* What is so of 0, and of n + 1 whenever of n, for the numbers up to a bound.
LEMMA InductionTo ==
  ASSUME NEW m \in Nat, NEW T, 0 \in T, \A n \in 0 .. m : n < m /\ n \in T => n + 1 \in T
  PROVE  \A n \in 0 .. m : n \in T
  <1> DEFINE U == T \cup {n \in Nat : n > m}
  <1>1. \A n \in Nat : n \in U
    <2>1. 0 \in U
      OBVIOUS
    <2>2. \A n \in Nat : n \in U => n + 1 \in U
      OBVIOUS
    <2> HIDE DEF U
    <2> QED
      BY <2>1, <2>2, Induction
  <1> QED
    BY <1>1

\* A function that is empty at 0, and at each next number what a step makes of it.
IsMadeBy(g, m, step) == g[0] = <<>> /\ \A n \in 1 .. m : g[n] = step[n][g[n - 1]]

\* A function that is given at 0, and at each next number by what it is before it:
\* there is one, and it stays in a set that a step does not leave.
LEMMA Recursion ==
  ASSUME NEW V, <<>> \in V, NEW m \in Nat, NEW step \in [1 .. m -> [V -> V]]
  PROVE  \E g \in [0 .. m -> V] : IsMadeBy(g, m, step)
  <1> DEFINE Good(g, n) == g[0] = <<>> /\ \A i \in 1 .. n : g[i] = step[i][g[i - 1]]
             T == {n \in 0 .. m : \E g \in [0 .. n -> V] : Good(g, n)}
  <1>1. 0 \in T
    <2> DEFINE g == [i \in 0 .. 0 |-> <<>>]
    <2>1. g \in [0 .. 0 -> V] /\ g[0] = <<>>
      OBVIOUS
    <2> HIDE DEF g
    <2>2. Good(g, 0)
      BY <2>1
    <2> HIDE DEF Good
    <2> QED
      BY <2>1, <2>2
  <1>2. \A n \in 0 .. m : n < m /\ n \in T => n + 1 \in T
    <2> SUFFICES ASSUME NEW n \in 0 .. m, n < m, n \in T PROVE n + 1 \in T
      OBVIOUS
    <2>1. PICK g \in [0 .. n -> V] : Good(g, n)
      OBVIOUS
    <2> DEFINE h == [i \in 0 .. n + 1 |-> IF i = n + 1 THEN step[n + 1][g[n]] ELSE g[i]]
    <2>2. g[n] \in V /\ n + 1 \in 1 .. m
      OBVIOUS
    <2>3. step[n + 1][g[n]] \in V
      BY <2>2
    <2>4. h \in [0 .. n + 1 -> V]
      BY <2>3
    <2>5. Good(h, n + 1)
      <3>1. h[0] = <<>>
        BY <2>1
      <3>2. \A i \in 1 .. n + 1 : h[i] = step[i][h[i - 1]]
        <4> SUFFICES ASSUME NEW i \in 1 .. n + 1 PROVE h[i] = step[i][h[i - 1]]
          OBVIOUS
        <4>1. CASE i = n + 1
          <5>1. i \in 0 .. n + 1 /\ i - 1 = n /\ n \in 0 .. n + 1 /\ n # n + 1
            BY <4>1
          <5>2. h[i] = step[n + 1][g[n]]
            BY <4>1, <5>1
          <5>3. h[n] = g[n]
            BY <5>1
          <5> HIDE DEF h
          <5> QED
            BY <4>1, <5>1, <5>2, <5>3
        <4>2. CASE i # n + 1
          <5>1. i \in 1 .. n /\ i - 1 \in 0 .. n
            BY <4>2
          <5>2. h[i] = g[i] /\ h[i - 1] = g[i - 1]
            BY <5>1
          <5> QED
            BY <2>1, <5>1, <5>2
        <4> QED
          BY <4>1, <4>2
      <3> HIDE DEF h
      <3> QED
        BY <3>1, <3>2
    <2> HIDE DEF h, Good
    <2> QED
      BY <2>4, <2>5
  <1> HIDE DEF T
  <1>3. \A n \in 0 .. m : n \in T
    BY <1>1, <1>2, InductionTo
  <1>4. m \in T
    BY <1>3
  <1> QED
    BY <1>4 DEF T, IsMadeBy

\* What Those makes of the first n rows, for each n.
IsSelection(f, rows, wanted, S) ==
  /\ f[0] = <<>> /\ Those(rows, wanted) = f[Len(rows)]
  /\ \A n \in 0 .. Len(rows) : f[n] \in Seq(S)
  /\ \A n \in 1 .. Len(rows) :
       f[n] = IF rows[n] \in wanted THEN Append(f[n - 1], rows[n]) ELSE f[n - 1]

LEMMA ThoseUpTo ==
  ASSUME NEW S, NEW rows \in Seq(S), NEW wanted
  PROVE  \E f : IsSelection(f, rows, wanted, S)
  <1> DEFINE m == Len(rows)
             E(f) == [n \in 0 .. m |->
                        IF n = 0 THEN <<>>
                        ELSE IF rows[n] \in wanted THEN Append(f[n - 1], rows[n])
                        ELSE f[n - 1]]
             upTo == CHOOSE f : f = E(f)
             V == Seq(S)
             step == [n \in 1 .. m |-> [s \in V |->
                        IF rows[n] \in wanted THEN Append(s, rows[n]) ELSE s]]
  <1>1. Those(rows, wanted) = upTo[m]
    BY DEF Those
  <1>2. m \in Nat /\ <<>> \in V /\ \A n \in 1 .. m : rows[n] \in S
    OBVIOUS
  <1>3. step \in [1 .. m -> [V -> V]]
    <2>1. \A n \in 1 .. m : \A s \in V : Append(s, rows[n]) \in V
      BY <1>2, AppendProperties
    <2> HIDE DEF m, V
    <2> QED
      BY <2>1
  <1>4. \A n \in 1 .. m : \A s \in V :
          step[n][s] = IF rows[n] \in wanted THEN Append(s, rows[n]) ELSE s
    OBVIOUS
  <1> HIDE DEF m, V, step, E, upTo
  <1>5. PICK g \in [0 .. m -> V] : IsMadeBy(g, m, step)
    <2>1. m \in Nat /\ <<>> \in V
      BY <1>2
    <2> QED
      BY <2>1, <1>3, Recursion
  <1>6. \A n \in 1 .. m : /\ n - 1 \in 0 .. m /\ g[n - 1] \in V
                          /\ g[n] = IF rows[n] \in wanted THEN Append(g[n - 1], rows[n])
                                    ELSE g[n - 1]
    BY <1>2, <1>4, <1>5 DEF IsMadeBy
  <1>7. g = E(g)
    <2>1. g = [n \in 0 .. m |-> g[n]]
      BY <1>5
    <2>2. \A n \in 0 .. m : n # 0 => n \in 1 .. m
      BY <1>2
    <2>3. \A n \in 0 .. m :
            g[n] = IF n = 0 THEN <<>>
                   ELSE IF rows[n] \in wanted THEN Append(g[n - 1], rows[n]) ELSE g[n - 1]
      BY <1>5, <1>6, <2>2 DEF IsMadeBy
    <2> QED
      BY <2>1, <2>3 DEF E
  <1>8. upTo = E(upTo)
    BY <1>7, Zenon DEF upTo
  <1>9. upTo[0] = <<>>
    BY <1>2, <1>8 DEF E
  <1>10. \A n \in 1 .. m :
           upTo[n] = IF rows[n] \in wanted THEN Append(upTo[n - 1], rows[n]) ELSE upTo[n - 1]
    <2>1. \A n \in 1 .. m : n \in 0 .. m /\ n # 0
      BY <1>2
    <2> QED
      BY <1>8, <2>1 DEF E
  <1>11. \A n \in 0 .. m : upTo[n] \in V
    <2> DEFINE T == {n \in 0 .. m : upTo[n] \in V}
    <2>1. 0 \in T
      BY <1>2, <1>9
    <2>2. \A n \in 0 .. m : n < m /\ n \in T => n + 1 \in T
      <3> SUFFICES ASSUME NEW n \in 0 .. m, n < m, upTo[n] \in V PROVE upTo[n + 1] \in V
        BY <1>2
      <3>1. n + 1 \in 1 .. m /\ (n + 1) - 1 = n
        BY <1>2
      <3>2. upTo[n + 1] = IF rows[n + 1] \in wanted THEN Append(upTo[n], rows[n + 1]) ELSE upTo[n]
        BY <1>10, <3>1
      <3>3. Append(upTo[n], rows[n + 1]) \in V
        BY <1>2, <3>1, AppendProperties DEF V
      <3> QED
        BY <3>2, <3>3
    <2> HIDE DEF T
    <2>3. \A n \in 0 .. m : n \in T
      BY <1>2, <2>1, <2>2, InductionTo
    <2> QED
      BY <2>3 DEF T
  <1> QED
    BY <1>1, <1>9, <1>10, <1>11 DEF m, V, IsSelection

LEMMA FlattenIsSeq ==
  ASSUME NEW S, NEW seqs \in Seq(Seq(S))
  PROVE  FlattenSeq(seqs) \in Seq(S)
  <1> DEFINE m == Len(seqs)
             E(f) == [i \in 1 .. m |-> IF i = 1 THEN seqs[i] ELSE f[i - 1] \o seqs[i]]
             flatten == CHOOSE f : f = E(f)
             V == Seq(S)
             step == [n \in 1 .. m |-> [s \in V |-> s \o seqs[n]]]
  <1>1. FlattenSeq(seqs) = IF m = 0 THEN seqs ELSE flatten[m]
    BY DEF FlattenSeq
  <1>2. m \in Nat /\ <<>> \in V /\ \A n \in 1 .. m : seqs[n] \in V
    OBVIOUS
  <1>3. CASE m = 0
    BY <1>1, <1>3
  <1>4. CASE m # 0
    <2>1. \A n \in 1 .. m : \A s \in V : s \o seqs[n] \in V
      BY <1>2, ConcatProperties
    <2>2. step \in [1 .. m -> [V -> V]]
      <3> HIDE DEF m, V
      <3> QED
        BY <2>1
    <2>3. \A n \in 1 .. m : \A s \in V : step[n][s] = s \o seqs[n]
      OBVIOUS
    <2>4. <<>> \o seqs[1] = seqs[1]
      BY <1>2, <1>4, ConcatEmptySeq
    <2> HIDE DEF m, V, step, E, flatten
    <2>5. PICK g \in [0 .. m -> V] : IsMadeBy(g, m, step)
      <3>1. m \in Nat /\ <<>> \in V
        BY <1>2
      <3> QED
        BY <3>1, <2>2, Recursion
    <2> DEFINE f == [n \in 1 .. m |-> g[n]]
    <2>6. \A n \in 1 .. m : g[n] = g[n - 1] \o seqs[n]
      <3>1. \A n \in 1 .. m : n - 1 \in 0 .. m /\ g[n - 1] \in V
        BY <1>2, <2>5
      <3> QED
        BY <2>3, <2>5, <3>1 DEF IsMadeBy
    <2>7. f = E(f)
      <3>1. \A n \in 1 .. m : f[n] = IF n = 1 THEN seqs[n] ELSE f[n - 1] \o seqs[n]
        <4> SUFFICES ASSUME NEW n \in 1 .. m
                     PROVE  f[n] = IF n = 1 THEN seqs[n] ELSE f[n - 1] \o seqs[n]
          OBVIOUS
        <4>1. CASE n = 1
          <5>1. n - 1 = 0
            BY <4>1
          <5>2. g[n] = g[n - 1] \o seqs[n]
            BY <2>6
          <5>3. g[n] = <<>> \o seqs[1]
            BY <2>5, <4>1, <5>1, <5>2 DEF IsMadeBy
          <5> QED
            BY <2>4, <4>1, <5>3
        <4>2. CASE n # 1
          <5>1. n - 1 \in 1 .. m
            BY <1>2, <4>2
          <5> QED
            BY <2>6, <4>2, <5>1
        <4> QED
          BY <4>1, <4>2
      <3>2. f = [n \in 1 .. m |-> f[n]]
        OBVIOUS
      <3> HIDE DEF f
      <3> QED
        BY <3>1, <3>2 DEF E
    <2>8. flatten = E(flatten)
      BY <2>7, Zenon DEF flatten
    <2>9. \A n \in 0 .. m : n = 0 \/ flatten[n] \in V
      <3> DEFINE T == {n \in 0 .. m : n = 0 \/ flatten[n] \in V}
      <3>1. 0 \in T
        BY <1>2
      <3>2. \A n \in 0 .. m : n < m /\ n \in T => n + 1 \in T
        <4> SUFFICES ASSUME NEW n \in 0 .. m, n < m, n = 0 \/ flatten[n] \in V
                     PROVE  flatten[n + 1] \in V
          BY <1>2
        <4>1. n + 1 \in 1 .. m /\ (n + 1) - 1 = n
          BY <1>2
        <4>2. flatten[n + 1] = IF n + 1 = 1 THEN seqs[n + 1] ELSE flatten[n] \o seqs[n + 1]
          BY <2>8, <4>1 DEF E
        <4>3. CASE n = 0
          BY <1>2, <4>1, <4>2, <4>3
        <4>4. CASE n # 0
          BY <2>1, <4>1, <4>2, <4>4
        <4> QED
          BY <4>3, <4>4
      <3> HIDE DEF T
      <3>3. \A n \in 0 .. m : n \in T
        BY <1>2, <3>1, <3>2, InductionTo
      <3> QED
        BY <3>3 DEF T
    <2>10. flatten[m] \in V
      BY <1>2, <1>4, <2>9
    <2> QED
      BY <1>1, <1>4, <2>10 DEF V
  <1> QED
    BY <1>3, <1>4

\* One column of rows.
Column(rows, item) == [i \in DOMAIN rows |-> rows[i][item]]

LEMMA ColumnOfAppend ==
  ASSUME NEW S, NEW rows \in Seq(S), NEW row \in S, NEW item
  PROVE  Column(Append(rows, row), item) = Append(Column(rows, item), row[item])
  <1> DEFINE U == {r[item] : r \in S}
             m == Len(rows)
             s == Column(rows, item)
             longer == Append(rows, row)
  <1>1. m \in Nat /\ DOMAIN rows = 1 .. m /\ \A i \in 1 .. m : rows[i] \in S
    OBVIOUS
  <1>2. s = [i \in 1 .. m |-> rows[i][item]] /\ row[item] \in U /\ \A i \in 1 .. m : rows[i][item] \in U
    BY <1>1 DEF Column
  <1>3. /\ longer \in Seq(S) /\ Len(longer) = m + 1 /\ DOMAIN longer = 1 .. m + 1
        /\ longer[m + 1] = row /\ \A i \in 1 .. m : longer[i] = rows[i]
    BY AppendProperties, LenProperties
  <1> HIDE DEF U, m, longer
  <1>4. s \in Seq(U) /\ Len(s) = m
    BY <1>1, <1>2
  <1>5. \A i \in 1 .. m : s[i] = rows[i][item]
    BY <1>2
  <1> HIDE DEF s
  <1>6. /\ Append(s, row[item]) \in Seq(U) /\ Len(Append(s, row[item])) = m + 1
        /\ Append(s, row[item])[m + 1] = row[item]
        /\ \A i \in 1 .. m : Append(s, row[item])[i] = s[i]
    <2> DEFINE u == row[item]
    <2>1. u \in U
      BY <1>2
    <2> HIDE DEF u
    <2>2. /\ Append(s, u) \in Seq(U) /\ Len(Append(s, u)) = Len(s) + 1
          /\ Append(s, u)[Len(s) + 1] = u
          /\ \A i \in 1 .. Len(s) : Append(s, u)[i] = s[i]
      BY <1>4, <2>1, AppendProperties
    <2> QED
      BY <1>4, <2>2 DEF u
  <1>7. Append(s, row[item]) = [i \in 1 .. m + 1 |-> Append(s, row[item])[i]]
    <2>1. Append(s, row[item]) \in [1 .. m + 1 -> U]
      BY <1>6, LenProperties
    <2> QED
      BY <2>1
  <1>8. \A i \in 1 .. m + 1 : Append(s, row[item])[i] = longer[i][item]
    <2> SUFFICES ASSUME NEW i \in 1 .. m + 1 PROVE Append(s, row[item])[i] = longer[i][item]
      OBVIOUS
    <2>1. CASE i = m + 1
      BY <1>3, <1>6, <2>1
    <2>2. CASE i # m + 1
      <3>1. i \in 1 .. m
        BY <1>1, <2>2
      <3> QED
        BY <1>3, <1>5, <1>6, <3>1
    <2> QED
      BY <2>1, <2>2
  <1>9. Column(longer, item) = [i \in 1 .. m + 1 |-> longer[i][item]]
    BY <1>3 DEF Column
  <1>10. Column(longer, item) = Append(s, row[item])
    BY <1>7, <1>8, <1>9
  <1> QED
    BY <1>10 DEF s, longer

\* The groups of rows: of some keys, sequences of items.
Groups(keys, items) == UNION {[K -> Seq(items)] : K \in SUBSET keys}

LEMMA PutInGroups ==
  ASSUME NEW keys, NEW items, NEW groups \in Groups(keys, items), NEW row, NEW key, NEW item,
         row[key] \in keys, row[item] \in items
  PROVE  /\ Put(groups, row, key, item) \in Groups(keys, items)
         /\ DOMAIN Put(groups, row, key, item) = DOMAIN groups \cup {row[key]}
  <1>1. PICK K \in SUBSET keys : groups \in [K -> Seq(items)]
    BY DEF Groups
  <1> DEFINE L == K \cup {row[key]}
             value(k) == IF k # row[key] THEN groups[k]
                         ELSE IF k \in DOMAIN groups THEN Append(groups[k], row[item])
                         ELSE <<row[item]>>
  <1>2. \A k \in L : value(k) \in Seq(items)
    <2> SUFFICES ASSUME NEW k \in L PROVE value(k) \in Seq(items)
      OBVIOUS
    <2>1. CASE k # row[key]
      BY <1>1, <2>1
    <2>2. CASE k = row[key] /\ k \in K
      <3>1. groups[k] \in Seq(items)
        BY <1>1, <2>2
      <3>2. Append(groups[k], row[item]) \in Seq(items)
        BY <3>1, AppendProperties
      <3> QED
        BY <1>1, <2>2, <3>2
    <2>3. CASE k = row[key] /\ k \notin K
      BY <1>1, <2>3
    <2> QED
      BY <2>1, <2>2, <2>3
  <1>3. Put(groups, row, key, item) = [k \in L |-> value(k)]
    BY <1>1 DEF Put
  <1> HIDE DEF value
  <1>4. Put(groups, row, key, item) \in [L -> Seq(items)]
    BY <1>2, <1>3
  <1> QED
    BY <1>1, <1>4 DEF Groups

\* What Grouped makes of the first n rows, for each n.
IsGrouping(g, rows, key, item, S) ==
  /\ g[0] = <<>> /\ Grouped(rows, key, item) = g[Len(rows)]
  /\ \A n \in 1 .. Len(rows) : g[n] = Put(g[n - 1], rows[n], key, item)
  /\ \A n \in 0 .. Len(rows) : g[n] \in Groups({r[key] : r \in S}, {r[item] : r \in S})

LEMMA GroupedUpTo ==
  ASSUME NEW S, NEW rows \in Seq(S), NEW key, NEW item
  PROVE  \E g : IsGrouping(g, rows, key, item, S)
  <1> DEFINE m == Len(rows)
             E(f) == [n \in 0 .. m |-> IF n = 0 THEN <<>> ELSE Put(f[n - 1], rows[n], key, item)]
             upTo == CHOOSE f : f = E(f)
             V == Groups({r[key] : r \in S}, {r[item] : r \in S})
             step == [n \in 1 .. m |-> [s \in V |-> Put(s, rows[n], key, item)]]
  <1>1. Grouped(rows, key, item) = upTo[m]
    BY DEF Grouped
  <1>2. m \in Nat /\ \A n \in 1 .. m : rows[n] \in S
    OBVIOUS
  <1>3. <<>> \in V
    <2>1. {} \in SUBSET {r[key] : r \in S} /\ <<>> \in [{} -> Seq({r[item] : r \in S})]
      OBVIOUS
    <2> QED
      BY <2>1 DEF Groups
  <1>4. \A n \in 1 .. m : \A s \in V : Put(s, rows[n], key, item) \in V
    BY <1>2, PutInGroups
  <1> HIDE DEF m, V, E, upTo
  <1>5. step \in [1 .. m -> [V -> V]]
    BY <1>4
  <1>6. \A n \in 1 .. m : \A s \in V : step[n][s] = Put(s, rows[n], key, item)
    OBVIOUS
  <1> HIDE DEF step
  <1>7. PICK g \in [0 .. m -> V] : IsMadeBy(g, m, step)
    <2>1. m \in Nat
      BY <1>2
    <2> QED
      BY <1>3, <1>5, <2>1, Recursion
  <1>8. \A n \in 1 .. m : g[n] = Put(g[n - 1], rows[n], key, item)
    <2>1. \A n \in 1 .. m : n - 1 \in 0 .. m /\ g[n - 1] \in V
      BY <1>2, <1>7
    <2> QED
      BY <1>6, <1>7, <2>1 DEF IsMadeBy
  <1>9. g = E(g)
    <2>1. g = [n \in 0 .. m |-> g[n]]
      BY <1>7
    <2>2. \A n \in 0 .. m : n # 0 => n \in 1 .. m
      BY <1>2
    <2>3. \A n \in 0 .. m : g[n] = IF n = 0 THEN <<>> ELSE Put(g[n - 1], rows[n], key, item)
      BY <1>7, <1>8, <2>2 DEF IsMadeBy
    <2> QED
      BY <2>1, <2>3 DEF E
  <1>10. upTo = E(upTo)
    BY <1>9, Zenon DEF upTo
  <1>11. upTo[0] = <<>>
    BY <1>2, <1>10 DEF E
  <1>12. \A n \in 1 .. m : upTo[n] = Put(upTo[n - 1], rows[n], key, item)
    <2>1. \A n \in 1 .. m : n \in 0 .. m /\ n # 0
      BY <1>2
    <2> QED
      BY <1>10, <2>1 DEF E
  <1>13. \A n \in 0 .. m : upTo[n] \in V
    <2> DEFINE T == {n \in 0 .. m : upTo[n] \in V}
    <2>1. 0 \in T
      BY <1>2, <1>3, <1>11
    <2>2. \A n \in 0 .. m : n < m /\ n \in T => n + 1 \in T
      <3> SUFFICES ASSUME NEW n \in 0 .. m, n < m, upTo[n] \in V PROVE upTo[n + 1] \in V
        BY <1>2
      <3>1. n + 1 \in 1 .. m /\ (n + 1) - 1 = n
        BY <1>2
      <3>2. upTo[n + 1] = Put(upTo[n], rows[n + 1], key, item)
        BY <1>12, <3>1
      <3> QED
        BY <1>4, <3>1, <3>2
    <2> HIDE DEF T
    <2>3. \A n \in 0 .. m : n \in T
      BY <1>2, <2>1, <2>2, InductionTo
    <2> QED
      BY <2>3 DEF T
  <1> QED
    BY <1>1, <1>11, <1>12, <1>13 DEF m, V, IsGrouping

LEMMA ThoseAreSeq ==
  ASSUME NEW S, NEW rows \in Seq(S), NEW wanted
  PROVE  Those(rows, wanted) \in Seq(S)
  <1>1. Len(rows) \in 0 .. Len(rows)
    OBVIOUS
  <1> QED
    BY <1>1, ThoseUpTo DEF IsSelection

\* Aggregation loses nothing and mixes nothing: induction over the rows met so far.
LEMMA GroupedIsPartition ==
  ASSUME NEW S, NEW rows \in Seq(S), NEW key, NEW item
  PROVE  IsGroupedBy(Grouped(rows, key, item), rows, key, item)
  <1> DEFINE m == Len(rows)
  <1>1. m \in Nat /\ DOMAIN rows = 1 .. m /\ \A n \in 1 .. m : rows[n] \in S /\ rows[n] \in Range(rows)
    BY DEF Range
  <1>0. PICK g : IsGrouping(g, rows, key, item, S)
    BY GroupedUpTo
  <1>2. /\ g[0] = <<>> /\ Grouped(rows, key, item) = g[m]
        /\ \A n \in 1 .. m : g[n] = Put(g[n - 1], rows[n], key, item)
    BY <1>0 DEF IsGrouping
  <1> HIDE DEF m
  <1> DEFINE met(n) == {rows[i][key] : i \in 1 .. n}
  <1>3. \A n \in 0 .. m : DOMAIN g[n] = met(n)
    <2> DEFINE T == {n \in 0 .. m : DOMAIN g[n] = met(n)}
    <2>1. 0 \in T
      BY <1>1, <1>2
    <2>2. \A n \in 0 .. m : n < m /\ n \in T => n + 1 \in T
      <3> SUFFICES ASSUME NEW n \in 0 .. m, n < m, DOMAIN g[n] = met(n)
                   PROVE  DOMAIN g[n + 1] = met(n + 1)
        BY <1>1
      <3>1. n + 1 \in 1 .. m /\ (n + 1) - 1 = n /\ rows[n + 1] \in S
        BY <1>1
      <3>2. g[n + 1] = Put(g[n], rows[n + 1], key, item)
        BY <1>2, <3>1
      <3>3. DOMAIN g[n + 1] = met(n) \cup {rows[n + 1][key]}
        BY <3>2 DEF Put
      <3>4. met(n + 1) = met(n) \cup {rows[n + 1][key]}
        BY <1>1
      <3> QED
        BY <3>3, <3>4
    <2> HIDE DEF T
    <2>3. \A n \in 0 .. m : n \in T
      BY <1>1, <2>1, <2>2, InductionTo
    <2> QED
      BY <2>3 DEF T
  <1>4. ASSUME NEW k \in met(m)
        PROVE  g[m][k] = Column(Those(rows, {row \in Range(rows) : row[key] = k}), item)
    <2> DEFINE wanted == {row \in Range(rows) : row[key] = k}
    <2>0. PICK f : IsSelection(f, rows, wanted, S)
      BY ThoseUpTo
    <2>1. /\ f[0] = <<>> /\ Those(rows, wanted) = f[m]
          /\ \A n \in 0 .. m : f[n] \in Seq(S)
          /\ \A n \in 1 .. m :
               f[n] = IF rows[n] \in wanted THEN Append(f[n - 1], rows[n]) ELSE f[n - 1]
      BY <2>0 DEF IsSelection, m
    <2>2. \A n \in 1 .. m : rows[n] \in wanted <=> rows[n][key] = k
      BY <1>1
    <2> HIDE DEF wanted
    <2> DEFINE Same(n) == IF k \in met(n) THEN g[n][k] = Column(f[n], item) ELSE f[n] = <<>>
               T == {n \in 0 .. m : Same(n)}
    <2>3. 0 \in T
      BY <1>1, <2>1
    <2>4. \A n \in 0 .. m : n < m /\ n \in T => n + 1 \in T
      <3> SUFFICES ASSUME NEW n \in 0 .. m, n < m, Same(n) PROVE Same(n + 1)
        BY <1>1
      <3>1. n + 1 \in 1 .. m /\ n + 1 \in 0 .. m /\ (n + 1) - 1 = n /\ rows[n + 1] \in S
        BY <1>1
      <3>2. met(n + 1) = met(n) \cup {rows[n + 1][key]}
        BY <1>1
      <3>3. g[n + 1] = Put(g[n], rows[n + 1], key, item) /\ DOMAIN g[n] = met(n)
        BY <1>2, <1>3, <3>1
      <3>4. f[n + 1] = IF rows[n + 1] \in wanted THEN Append(f[n], rows[n + 1]) ELSE f[n]
        BY <2>1, <3>1
      <3> HIDE DEF met
      <3>5. CASE rows[n + 1][key] # k
        <4>1. f[n + 1] = f[n] /\ (k \in met(n + 1) <=> k \in met(n))
          BY <2>2, <3>1, <3>2, <3>4, <3>5
        <4>2. k \in met(n) => g[n + 1][k] = g[n][k]
          BY <3>3, <3>5 DEF Put
        <4> QED
          BY <4>1, <4>2
      <3>6. CASE rows[n + 1][key] = k
        <4>1. /\ f[n + 1] = Append(f[n], rows[n + 1]) /\ k \in met(n + 1)
              /\ g[n + 1][k] = IF k \in met(n) THEN Append(g[n][k], rows[n + 1][item])
                               ELSE <<rows[n + 1][item]>>
          BY <2>2, <3>1, <3>2, <3>3, <3>4, <3>6 DEF Put
        <4>2. Column(f[n + 1], item) = Append(Column(f[n], item), rows[n + 1][item])
          <5> DEFINE own == f[n]
                     row == rows[n + 1]
          <5>1. own \in Seq(S) /\ row \in S
            BY <2>1, <3>1
          <5> HIDE DEF own, row
          <5>2. Column(Append(own, row), item) = Append(Column(own, item), row[item])
            BY <5>1, ColumnOfAppend
          <5> QED
            BY <4>1, <5>2 DEF own, row
        <4>3. CASE k \in met(n)
          BY <4>1, <4>2, <4>3
        <4>4. CASE k \notin met(n)
          <5>1. Column(f[n], item) = <<>>
            BY <4>4 DEF Column
          <5> QED
            BY <4>1, <4>2, <4>4, <5>1
        <4> QED
          BY <4>3, <4>4
      <3> QED
        BY <3>5, <3>6
    <2> HIDE DEF T
    <2>5. \A n \in 0 .. m : n \in T
      BY <1>1, <2>3, <2>4, InductionTo
    <2>6. Same(m)
      BY <1>1, <2>5 DEF T
    <2> QED
      BY <2>1, <2>6 DEF wanted
  <1>5. DOMAIN g[m] = met(m) /\ met(m) = {rows[i][key] : i \in DOMAIN rows}
    BY <1>1, <1>3
  <1> HIDE DEF met
  <1> QED
    BY <1>2, <1>4, <1>5 DEF IsGroupedBy, Column

-----------------------------------------------------------------------------
(***************************************************************************)
(* Types.  What is found and kept is a sequence of results of rows, of one *)
(* result unless the list counts.                                          *)
(***************************************************************************)
LEMMA WithIsSeq ==
  ASSUME NEW row \in Row, NEW others \in Seq(Row)
  PROVE  With(row, others) \in Seq(Row)
  <1>1. Len(others) \in Nat /\ DOMAIN others = 1 .. Len(others)
    OBVIOUS
  <1>2. ASSUME NEW j \in 1 .. Len(others)
        PROVE  [row EXCEPT !.with = Append(@, others[j].id)] \in Row
    <2>1. others[j].id \in Nat /\ row.with \in Seq(Nat)
      <3>1. others[j] \in Row
        BY ElementOfSeq
      <3> QED
        BY <3>1 DEF Row
    <2>2. Append(row.with, others[j].id) \in Seq(Nat)
      BY <2>1, AppendProperties
    <2> QED
      BY <2>2 DEF Row
  <1>3. With(row, others) = [j \in 1 .. Len(others) |-> [row EXCEPT !.with = Append(@, others[j].id)]]
    BY <1>1 DEF With
  <1>4. With(row, others) \in [1 .. Len(others) -> Row]
    BY <1>2, <1>3
  <1> QED
    BY <1>1, <1>4

LEMMA JoinsAreSeq ==
  ASSUME NEW rows \in Seq(Row), NEW table \in Seq(Row)
  PROVE  InnerJoin(rows, table) \in Seq(Row) /\ LeftJoin(rows, table) \in Seq(Row)
  <1> DEFINE m == Len(rows)
             own(i) == Theirs(rows, table)[i]
             left(i) == IF own(i) = <<>> THEN <<rows[i]>> ELSE With(rows[i], own(i))
  <1>1. m \in Nat /\ DOMAIN rows = 1 .. m /\ \A i \in 1 .. m : rows[i] \in Row
    OBVIOUS
  <1> HIDE DEF m
  <1>2. \A i \in 1 .. m : own(i) \in Seq(Row)
    BY <1>1, ThoseAreSeq DEF Theirs
  <1>3. \A i \in 1 .. m : With(rows[i], own(i)) \in Seq(Row)
    BY <1>1, <1>2, WithIsSeq
  <1>4. \A i \in 1 .. m : left(i) \in Seq(Row)
    BY <1>1, <1>3
  <1>5. InnerJoin(rows, table) = FlattenSeq([i \in 1 .. m |-> With(rows[i], own(i))])
    BY <1>1 DEF InnerJoin
  <1>6. LeftJoin(rows, table) = FlattenSeq([i \in 1 .. m |-> left(i)])
    BY <1>1 DEF LeftJoin
  <1> HIDE DEF own, left
  <1>7. [i \in 1 .. m |-> With(rows[i], own(i))] \in Seq(Seq(Row))
    BY <1>1, <1>3
  <1>8. [i \in 1 .. m |-> left(i)] \in Seq(Seq(Row))
    BY <1>1, <1>4
  <1> QED
    BY <1>5, <1>6, <1>7, <1>8, FlattenIsSeq

LEMMA WornIsSeq ==
  ASSUME NEW rows \in Seq(Row), NEW table
  PROVE  Worn(rows, table) \in Seq(Row)
  <1> DEFINE m == Len(rows)
             bare(i) == Theirs(rows, table)[i] = <<>>
             worn(i) == IF bare(i) THEN rows[i] ELSE [rows[i] EXCEPT !.with = Append(@, 0)]
  <1>1. m \in Nat /\ DOMAIN rows = 1 .. m /\ \A i \in 1 .. m : rows[i] \in Row
    OBVIOUS
  <1>2. Worn(rows, table) = [i \in 1 .. m |-> worn(i)]
    BY <1>1 DEF Worn
  <1> HIDE DEF m, bare
  <1>3. ASSUME NEW i \in 1 .. m PROVE worn(i) \in Row
    <2>1. rows[i] \in Row /\ rows[i].with \in Seq(Nat)
      BY <1>1 DEF Row
    <2>2. Append(rows[i].with, 0) \in Seq(Nat)
      BY <2>1, AppendProperties
    <2> QED
      BY <2>1, <2>2 DEF Row
  <1> HIDE DEF worn
  <1> QED
    BY <1>1, <1>2, <1>3

LEMMA PageIsSeq ==
  ASSUME NEW p, p.limit \in Nat, p.offset \in Nat, NEW rows \in Seq(Row)
  PROVE  Page(p, rows) \in Seq(Row)
  <1> DEFINE m == p.offset + 1
             n == IF p.limit = 0 THEN Len(rows) ELSE Min({p.offset + p.limit, Len(rows)})
  <1>1. n \in Int /\ n <= Len(rows)
    <2>1. Min({p.offset + p.limit, Len(rows)}) \in {p.offset + p.limit, Len(rows)}
          /\ Min({p.offset + p.limit, Len(rows)}) <= Len(rows)
      <3> DEFINE a == p.offset + p.limit
                 b == Len(rows)
      <3>1. a \in Nat /\ b \in Nat
        OBVIOUS
      <3>2. \E x \in {a, b} : \A y \in {a, b} : x =< y
        BY <3>1
      <3> HIDE DEF a, b
      <3>3. Min({a, b}) \in {a, b} /\ \A y \in {a, b} : Min({a, b}) =< y
        BY <3>2 DEF Min
      <3> QED
        BY <3>1, <3>3 DEF a, b
    <2> QED
      BY <2>1
  <1>2. Page(p, rows) = SubSeq(rows, m, n)
    BY DEF Page
  <1>3. m \in Int /\ m >= 1
    OBVIOUS
  <1> HIDE DEF m, n
  <1>4. \A i \in m .. n : rows[i] \in Row
    BY <1>1, <1>3
  <1> QED
    BY <1>1, <1>2, <1>3, <1>4, SubSeqProperties

AllTables == [Tables -> Seq(Row)]

LEMMA RowsOfIsSeq ==
  ASSUME NEW p, NEW bound, NEW T \in AllTables, NEW i, p.from[i] \in Tables
  PROVE  RowsOf(p, bound, i, T) \in Seq(Row)
  <1>1. T[p.from[i]] \in Seq(Row)
    BY DEF AllTables
  <1> QED
    BY <1>1, ThoseAreSeq DEF RowsOf

LEMMA ResultIsTyped ==
  ASSUME NEW p, Reads(p), p.limit \in Nat, p.offset \in Nat, NEW bound, NEW T \in AllTables
  PROVE  /\ Result(p, bound, T) \in Seq(Seq(Row))
         /\ Counts(p) \/ Len(Result(p, bound, T)) = 1
  <1>1. CASE Counts(p)
    <2>1. Len(p.from) \in Nat /\ DOMAIN p.from = 1 .. Len(p.from)
      BY DEF Reads
    <2>2. \A i \in 1 .. Len(p.from) : RowsOf(p, bound, i, T) \in Seq(Row)
      BY RowsOfIsSeq DEF Reads
    <2>3. Result(p, bound, T) = [i \in 1 .. Len(p.from) |-> RowsOf(p, bound, i, T)]
      BY <1>1, <2>1 DEF Result
    <2> QED
      BY <1>1, <2>1, <2>2, <2>3
  <1>2. CASE ~Counts(p)
    <2> DEFINE one == RowsOf(p, bound, 1, T)
    <2>1. one \in Seq(Row)
      <3>1. p.from[1] \in Tables
        BY <1>2 DEF Reads, Counts
      <3> QED
        BY <3>1, RowsOfIsSeq
    <2>2. /\ T["registrations"] \in Seq(Row) /\ T["preregistrations"] \in Seq(Row)
          /\ T["rsvps"] \in Seq(Row) /\ T["wristbands"] \in Seq(Row)
      BY DEF AllTables, Tables
    <2>3. UserDataRows(p, bound, T) \in Seq(Row)
      <3>1. LeftJoin(one, T["preregistrations"]) \in Seq(Row)
        BY <2>1, <2>2, JoinsAreSeq
      <3>2. LeftJoin(LeftJoin(one, T["preregistrations"]), T["rsvps"]) \in Seq(Row)
        BY <2>2, <3>1, JoinsAreSeq
      <3> QED
        BY <2>2, <3>2, WornIsSeq DEF UserDataRows
    <2>4. CheckoutRows(p, bound, T) \in Seq(Row)
      BY <2>1, <2>2, JoinsAreSeq DEF CheckoutRows
    <2>5. AttendanceRows(p, bound, T) \in Seq(Row)
      <3> DEFINE some == Those(T["registrations"], {reg \in Range(T["registrations"]) :
                                                      p.by = 0 \/ reg.hackathon = bound[2]})
      <3>1. some \in Seq(Row)
        BY <2>2, ThoseAreSeq
      <3>2. AttendanceRows(p, bound, T) = InnerJoin(one, some)
        BY DEF AttendanceRows
      <3> HIDE DEF some, one
      <3> QED
        BY <2>1, <3>1, <3>2, JoinsAreSeq
    <2> HIDE DEF one
    <2>6. \E rows \in Seq(Row) : Result(p, bound, T) = <<Page(p, rows)>>
      <3>1. Result(p, bound, T) \in {<<Page(p, UserDataRows(p, bound, T))>>,
                                     <<Page(p, CheckoutRows(p, bound, T))>>,
                                     <<Page(p, AttendanceRows(p, bound, T))>>,
                                     <<Page(p, one)>>}
        BY <1>2 DEF Result, one
      <3> QED
        BY <2>1, <2>3, <2>4, <2>5, <3>1
    <2>7. PICK rows \in Seq(Row) : Result(p, bound, T) = <<Page(p, rows)>>
      BY <2>6
    <2>8. Page(p, rows) \in Seq(Row)
      BY PageIsSeq
    <2> QED
      BY <2>7, <2>8
  <1> QED
    BY <1>1, <1>2

\* Of one result, unless the list counts.
Paged(result) == Counts(AllPlans[AnyQuery][list]) \/ Len(result) = 1

RequestTyped(r) ==
  /\ found[r] \in Seq(Seq(Row))
  /\ pc[r] = "selected" \/ reply[r] = 200 => Paged(found[r])
  /\ (reply[r] # 0) = (pc[r] = "done")

VersionsTyped == versions \in Seq(AllTables) /\ Len(versions) \in 1 .. MaxWrites + 1

CacheTyped == \A entry \in cache : entry.result \in Seq(Seq(Row)) /\ Paged(entry.result)

TypeInv ==
  /\ FreshInv
  /\ VersionsTyped
  /\ current \in {First, Second}
  /\ CacheTyped
  /\ \A r \in Requests : RequestTyped(r)

LEMMA InitTypes == Init => TypeInv
  <1> SUFFICES ASSUME Init PROVE TypeInv
    OBVIOUS
  <1>1. versions = <<Before>> /\ Before \in AllTables /\ MaxWrites \in Nat
    BY ListingsAssumption DEF Init, AllTables
  <1>2. VersionsTyped
    BY <1>1 DEF VersionsTyped
  <1>3. CacheTyped /\ current = First
    BY DEF Init, CacheTyped
  <1>4. \A r \in Requests : RequestTyped(r)
    BY DEF Init, RequestTyped
  <1> QED
    BY <1>2, <1>3, <1>4, InitFresh DEF TypeInv

\* A step of request r.
LEMMA StepTypes ==
  ASSUME TypeInv, FreshInv', NEW r \in Requests, Others(r), RequestTyped(r)', CacheTyped'
  PROVE  TypeInv'
  <1>1. VersionsTyped' /\ (current \in {First, Second})'
    BY DEF TypeInv, Others, VersionsTyped
  <1>2. ASSUME NEW x \in Requests, x # r PROVE RequestTyped(x)'
    <2>1. RequestTyped(x)
      BY DEF TypeInv
    <2> QED
      BY <1>2, <2>1 DEF Others, RequestTyped, Paged
  <1> QED
    BY <1>1, <1>2 DEF TypeInv

LEMMA CacheKeepsTypes ==
  ASSUME CacheTyped, UNCHANGED list, cache' \subseteq cache
  PROVE  CacheTyped'
  BY DEF CacheTyped, Paged

LEMMA AnswerTypes ==
  ASSUME FreshInv, NEW r \in Requests, NEW status \in {200, 400, 404, 500},
         NEW result \in Seq(Seq(Row)), Answer(r, status, result), UNCHANGED list,
         status # 200 \/ Paged(result)
  PROVE  RequestTyped(r)'
  <1>1. pc'[r] = "done" /\ reply'[r] = status /\ found'[r] = result
    BY Answering DEF FreshInv
  <1> QED
    BY <1>1 DEF RequestTyped, Paged

LEMMA RefusedTypes ==
  ASSUME FreshInv, NEW r \in Requests, NEW status \in {400, 404, 500}, Answer(r, status, <<>>)
  PROVE  RequestTyped(r)'
  <1>1. pc'[r] = "done" /\ reply'[r] = status /\ found'[r] = <<>>
    BY Refusing DEF FreshInv
  <1> QED
    BY <1>1 DEF RequestTyped

LEMMA AskTypes ==
  ASSUME TypeInv, NEW r \in Requests, NEW q \in Queries, Ask(r, q)
  PROVE  TypeInv'
  <1>1. FreshInv /\ FreshInv' /\ Others(r)
    BY AskFresh DEF TypeInv
  <1>2. UNCHANGED <<list, cache>> /\ pc[r] = "idle" /\ RequestTyped(r)
    BY DEF Ask, TypeInv
  <1>3. RequestTyped(r)'
    <2>1. CASE Answer(r, 400, <<>>)
      BY <1>1, <2>1, RefusedTypes
    <2>2. CASE pc' = [pc EXCEPT ![r] = "asking"] /\ UNCHANGED <<reply, found>>
      BY <1>1, <1>2, <2>2 DEF RequestTyped, Paged, FreshInv, Shaped
    <2> QED
      BY <2>1, <2>2 DEF Ask
  <1>4. CacheTyped'
    BY <1>2, CacheKeepsTypes DEF TypeInv
  <1> QED
    BY <1>1, <1>3, <1>4, StepTypes

LEMMA AwaitTypes ==
  ASSUME TypeInv, NEW r \in Requests, AwaitHackathon(r)
  PROVE  TypeInv'
  <1>1. FreshInv' /\ Others(r)
    BY AwaitFresh DEF TypeInv
  <1>2. UNCHANGED <<list, cache, pc, found, reply>>
    BY DEF AwaitHackathon
  <1>3. RequestTyped(r)' /\ CacheTyped'
    BY <1>2 DEF TypeInv, RequestTyped, CacheTyped, Paged
  <1> QED
    BY <1>1, <1>3, StepTypes

LEMMA LookUpTypes ==
  ASSUME TypeInv, NEW r \in Requests, LookUp(r)
  PROVE  TypeInv'
  <1>1. FreshInv /\ FreshInv' /\ Others(r)
    BY LookUpFresh DEF TypeInv
  <1>2. UNCHANGED <<list, cache>> /\ pc[r] = "asking" /\ RequestTyped(r) /\ CacheTyped
    BY DEF LookUp, TypeInv
  <1>3. RequestTyped(r)'
    <2>1. CASE pc' = [pc EXCEPT ![r] = "missed"] /\ UNCHANGED <<reply, found>>
      BY <1>1, <1>2, <2>1 DEF RequestTyped, Paged, FreshInv, Shaped
    <2>2. ASSUME NEW entry \in Cached(r), Answer(r, 200, entry.result)
          PROVE  RequestTyped(r)'
      <3>1. entry.result \in Seq(Seq(Row)) /\ Paged(entry.result)
        BY <1>2 DEF Cached, CacheTyped
      <3> QED
        BY <1>1, <1>2, <2>2, <3>1, AnswerTypes
    <2> QED
      BY <2>1, <2>2 DEF LookUp
  <1>4. CacheTyped'
    BY <1>2, CacheKeepsTypes
  <1> QED
    BY <1>1, <1>3, <1>4, StepTypes

LEMMA RunSelectTypes ==
  ASSUME TypeInv, NEW r \in Requests, RunSelect(r)
  PROVE  TypeInv'
  <1> DEFINE result == Result(Statement(plan[r]), hs[r], tables)
  <1>1. FreshInv /\ FreshInv' /\ Others(r)
    BY RunSelectFresh DEF TypeInv
  <1>2. UNCHANGED <<list, cache>> /\ pc[r] = "missed" /\ RequestTyped(r) /\ CacheTyped
    BY DEF RunSelect, TypeInv
  <1>3. result \in Seq(Seq(Row)) /\ Paged(result)
    <2> DEFINE p == plan[r]
    <2>1. PICK q \in Queries : p = AllPlans[q][list]
      BY <1>1 DEF FreshInv, Shaped
    <2>2. list \in Lists
      BY <1>1 DEF FreshInv, Shaped
    <2>3. /\ Reads(p) /\ p.limit \in Nat /\ p.offset \in Nat
          /\ p.shape = AllPlans[AnyQuery][list].shape
      BY <2>1, <2>2, PlansAlike
    <2>4. tables \in AllTables
      BY DEF TypeInv, VersionsTyped, tables, Last
    <2> HIDE DEF p
    <2>5. /\ Reads(Statement(p)) /\ Statement(p).limit \in Nat /\ Statement(p).offset \in Nat
          /\ Counts(Statement(p)) <=> Counts(AllPlans[AnyQuery][list])
      BY <2>3 DEF Statement, Reads, Counts
    <2>6. /\ Result(Statement(p), hs[r], tables) \in Seq(Seq(Row))
          /\ Counts(Statement(p)) \/ Len(Result(Statement(p), hs[r], tables)) = 1
      BY <2>4, <2>5, ResultIsTyped
    <2> QED
      BY <2>5, <2>6 DEF Paged, p
  <1> HIDE DEF result
  <1>4. RequestTyped(r)'
    <2>1. ASSUME NEW status \in {404, 500}, Answer(r, status, <<>>) PROVE RequestTyped(r)'
      BY <1>1, <2>1, RefusedTypes
    <2>2. CASE /\ pc' = [pc EXCEPT ![r] = "selected"] /\ found' = [found EXCEPT ![r] = result]
               /\ UNCHANGED reply
      <3>1. pc'[r] = "selected" /\ found'[r] = result
        BY <1>1, <2>2 DEF FreshInv, Shaped
      <3>2. reply'[r] = 0
        BY <1>2, <2>2 DEF RequestTyped
      <3> QED
        BY <1>2, <1>3, <3>1, <3>2 DEF RequestTyped, Paged
    <2>3. \/ Answer(r, 500, <<>>) \/ Answer(r, 404, <<>>)
          \/ /\ pc' = [pc EXCEPT ![r] = "selected"] /\ found' = [found EXCEPT ![r] = result]
             /\ UNCHANGED reply
      BY DEF RunSelect, result
    <2> QED
      BY <2>1, <2>2, <2>3
  <1>5. CacheTyped'
    BY <1>2, CacheKeepsTypes
  <1> QED
    BY <1>1, <1>4, <1>5, StepTypes

LEMMA ResolveTypes ==
  ASSUME TypeInv, NEW r \in Requests, Resolve(r)
  PROVE  TypeInv'
  <1>1. FreshInv /\ FreshInv' /\ Others(r)
    BY ResolveFresh DEF TypeInv
  <1>2. /\ UNCHANGED list /\ pc[r] = "selected" /\ RequestTyped(r) /\ CacheTyped
        /\ Answer(r, 200, found[r])
    BY DEF Resolve, TypeInv
  <1>3. found[r] \in Seq(Seq(Row)) /\ Paged(found[r])
    BY <1>2 DEF RequestTyped
  <1>4. RequestTyped(r)'
    <2> DEFINE result == found[r]
    <2>1. result \in Seq(Seq(Row)) /\ Paged(result) /\ Answer(r, 200, result) /\ UNCHANGED list
      BY <1>2, <1>3
    <2> HIDE DEF result
    <2> QED
      BY <1>1, <2>1, AnswerTypes
  <1>5. CacheTyped'
    BY <1>2, <1>3 DEF Resolve, CacheTyped, Paged
  <1> QED
    BY <1>1, <1>4, <1>5, StepTypes

LEMMA FailTypes ==
  ASSUME TypeInv, NEW r \in Requests, Fail(r)
  PROVE  TypeInv'
  <1>1. FreshInv /\ FreshInv' /\ Others(r)
    BY FailFresh DEF TypeInv
  <1>2. UNCHANGED <<list, cache>> /\ Answer(r, 500, <<>>) /\ CacheTyped
    BY DEF Fail, TypeInv
  <1>3. RequestTyped(r)'
    BY <1>1, <1>2, RefusedTypes
  <1>4. CacheTyped'
    BY <1>2, CacheKeepsTypes
  <1> QED
    BY <1>1, <1>3, <1>4, StepTypes

-----------------------------------------------------------------------------
\* What a write makes of the tables is tables, of rows.
Changes(T) == Len(versions) <= MaxWrites /\ versions' = Append(versions, T)

LEMMA ChangeTypes ==
  ASSUME TypeInv, NEW table, NEW rows \in Seq(Row), Change(table, rows)
  PROVE  \E T \in AllTables : Changes(T)
  <1>1. tables \in AllTables
    BY DEF TypeInv, VersionsTyped, tables, Last
  <1>2. [tables EXCEPT ![table] = rows] \in AllTables
    BY <1>1 DEF AllTables
  <1> QED
    BY <1>2 DEF Change, Changes

LEMMA TableTypes ==
  ASSUME TypeInv, NEW table \in Tables
  PROVE  /\ tables[table] \in Seq(Row)
         /\ \A i \in DOMAIN tables[table] : tables[table][i] \in Row
  <1>1. tables \in AllTables
    BY DEF TypeInv, VersionsTyped, tables, Last
  <1>2. tables[table] \in Seq(Row)
    BY <1>1 DEF AllTables
  <1> HIDE DEF tables
  <1> QED
    BY <1>2

LEMMA InsertTypes ==
  ASSUME TypeInv, NEW table \in Tables, Insert(table)
  PROVE  \E T \in AllTables : Changes(T)
  <1> DEFINE row(of, h) == [id |-> NewId + Len(versions), user |-> of[1], event |-> of[2],
                            hackathon |-> h, with |-> <<>>]
  <1>1. PICK of \in Inserted, h \in {First, current} :
          Change(table, Append(tables[table], row(of, h)))
    BY DEF Insert
  <1>2. row(of, h) \in Row
    <2>1. of[1] \in Users /\ of[2] \in Events /\ h \in Hackathons /\ NewId \in Nat
      BY ListingsAssumption DEF TypeInv
    <2>2. NewId + Len(versions) \in Nat /\ <<>> \in Seq(Nat)
      BY <2>1 DEF TypeInv, VersionsTyped
    <2> QED
      BY <2>1, <2>2 DEF Row
  <1> HIDE DEF row
  <1>3. Append(tables[table], row(of, h)) \in Seq(Row)
    BY <1>2, TableTypes, AppendProperties
  <1> QED
    BY <1>1, <1>3, ChangeTypes

LEMMA DeleteTypes ==
  ASSUME TypeInv, NEW table \in Tables, NEW gone, Delete(table, gone)
  PROVE  \E T \in AllTables : Changes(T)
  <1>1. Those(tables[table], Range(tables[table]) \ gone) \in Seq(Row)
    BY TableTypes, ThoseAreSeq
  <1> QED
    BY <1>1, ChangeTypes DEF Delete

LEMMA WriteTypes ==
  ASSUME TypeInv, Write
  PROVE  \E T \in AllTables : Changes(T)
  <1>0. {"preregistrations", "classes", "assignments", "locations", "checkout_items",
         "registrations", "rsvps", "wristbands", "scans", "attendance", "hackathons",
         "checkout"} \subseteq Tables
    BY DEF Tables
  <1>1. ASSUME NEW table \in Tables, Insert(table) PROVE \E T \in AllTables : Changes(T)
    BY <1>1, InsertTypes
  <1>2. ASSUME NEW table \in Tables, NEW gone, Delete(table, gone)
        PROVE  \E T \in AllTables : Changes(T)
    BY <1>2, DeleteTypes
  <1>3. ASSUME updateLocationHandler PROVE \E T \in AllTables : Changes(T)
    <2> DEFINE rows == tables["locations"]
    <2>1. PICK i \in DOMAIN rows :
            Change("locations", [rows EXCEPT ![i].id = NewId + Len(versions)])
      BY <1>3 DEF updateLocationHandler
    <2>2. rows \in Seq(Row) /\ rows[i] \in Row
      BY <1>0, TableTypes
    <2>3. NewId + Len(versions) \in Nat
      BY ListingsAssumption DEF TypeInv, VersionsTyped
    <2> HIDE DEF rows
    <2>4. [rows[i] EXCEPT !.id = NewId + Len(versions)] \in Row
      BY <2>2, <2>3 DEF Row
    <2>5. [rows EXCEPT ![i].id = NewId + Len(versions)] \in Seq(Row)
      BY <2>2, <2>4
    <2> QED
      BY <2>1, <2>5, ChangeTypes
  <1>4. CASE \/ preRegistrationHandler \/ addExtraCreditClassHandler
             \/ addExtraCreditAssignmentHandler \/ createLocationHandler
             \/ addCheckoutItemsHandler \/ OthersInsert
    BY <1>0, <1>1, <1>4
    DEF preRegistrationHandler, addExtraCreditClassHandler, addExtraCreditAssignmentHandler,
        createLocationHandler, addCheckoutItemsHandler, OthersInsert
  <1>5. CASE deleteExtraCreditAssignmentHandler
    BY <1>0, <1>2, <1>5 DEF deleteExtraCreditAssignmentHandler
  <1>6. CASE deleteExtraCreditAssignmentsByUserHandler
    BY <1>0, <1>2, <1>6 DEF deleteExtraCreditAssignmentsByUserHandler
  <1>7. CASE deleteLocationHandler
    BY <1>0, <1>2, <1>7 DEF deleteLocationHandler
  <1> QED
    BY <1>3, <1>4, <1>5, <1>6, <1>7 DEF Write

LEMMA WritesKeepTypes ==
  ASSUME TypeInv, Write
  PROVE  TypeInv'
  <1>1. FreshInv' /\ UNCHANGED <<list, current, cache, pc, found, reply>>
    BY GrowsFresh, WritesGrow DEF TypeInv, Grows
  <1>2. PICK T \in AllTables : Changes(T)
    BY WriteTypes
  <1>3. VersionsTyped'
    <2>1. versions \in Seq(AllTables) /\ Len(versions) \in Nat /\ MaxWrites \in Nat
      BY ListingsAssumption DEF TypeInv, VersionsTyped
    <2>2. versions' \in Seq(AllTables) /\ Len(versions') = Len(versions) + 1
      BY <1>2, <2>1, AppendProperties DEF Changes
    <2> QED
      BY <1>2, <2>1, <2>2 DEF Changes, VersionsTyped
  <1>4. CacheTyped' /\ \A r \in Requests : RequestTyped(r)'
    BY <1>1 DEF TypeInv, CacheTyped, RequestTyped, Paged
  <1> QED
    BY <1>1, <1>3, <1>4 DEF TypeInv

LEMMA QuietTypes ==
  ASSUME TypeInv, FreshInv', cache' \subseteq cache, current' \in {First, Second},
         UNCHANGED <<list, versions, pc, found, reply>>
  PROVE  TypeInv'
  <1>1. CacheTyped'
    BY CacheKeepsTypes DEF TypeInv
  <1> QED
    BY <1>1 DEF TypeInv, VersionsTyped, RequestTyped, Paged

LEMMA NextTypes == TypeInv /\ [Next]_vars => TypeInv'
  <1> SUFFICES ASSUME TypeInv, [Next]_vars PROVE TypeInv'
    OBVIOUS
  <1>0. FreshInv' /\ current \in {First, Second}
    BY NextFresh DEF TypeInv
  <1>1. CASE Evict
    BY <1>0, <1>1, QuietTypes DEF Evict
  <1>2. CASE Activate
    BY <1>0, <1>2, QuietTypes DEF Activate
  <1>3. CASE UNCHANGED vars
    BY <1>0, <1>3, QuietTypes DEF vars
  <1> QED
    BY <1>1, <1>2, <1>3, AskTypes, AwaitTypes, LookUpTypes, RunSelectTypes, ResolveTypes,
       FailTypes, WritesKeepTypes DEF Next

LEMMA AlwaysTyped == Spec => []TypeInv
  BY InitTypes, NextTypes, PTL DEF Spec

\* The type invariant: whatever is read, joined, filtered, cut into pages, kept and given
\* out is sequences of rows; it needs what the recursive definitions of the model compute
\* for sequences of every length.
THEOREM TypeCorrect == Spec => []TypeOK
  <1>1. TypeInv => TypeOK
    <2> SUFFICES ASSUME TypeInv PROVE TypeOK
      OBVIOUS
    <2>1. found \in [Requests -> Seq(Seq(Row))]
      <3>1. found = [r \in Requests |-> found[r]]
        BY DEF TypeInv, FreshInv, Shaped
      <3>2. \A r \in Requests : found[r] \in Seq(Seq(Row))
        BY DEF TypeInv, RequestTyped
      <3> QED
        BY <3>1, <3>2
    <2>2. /\ versions \in Seq([Tables -> Seq(Row)]) /\ Len(versions) \in 1 .. MaxWrites + 1
          /\ current \in {First, Second}
          /\ \A entry \in cache : entry.result \in Seq(Seq(Row))
      BY DEF TypeInv, VersionsTyped, AllTables, CacheTyped
    <2>3. \A r \in Requests : /\ reply[r] \in {0, 200, 400, 404, 500}
                              /\ (reply[r] # 0) = (pc[r] = "done")
      BY DEF TypeInv, FreshInv, Shaped, RequestTyped
    <2>4. /\ list \in Lists
          /\ pc \in [Requests -> Stages]
          /\ plan \in [Requests -> {AllPlans[q][list] : q \in Queries}]
          /\ anew \in [Requests -> BOOLEAN]
          /\ hs \in [Requests -> Seq(Hackathons)]
          /\ since \in [Requests -> 1 .. Len(versions)]
      BY DEF TypeInv, FreshInv, Shaped
    <2> QED
      BY <2>1, <2>2, <2>3, <2>4 DEF TypeOK, Stages
  <1> QED
    BY <1>1, AlwaysTyped, PTL

\* Attendance is aggregated without loss: of any number of rows, found in the tables or in
\* the cache, each is in the group of its user (or event), once and in order, and there is
\* no other group (getAttendanceByUser and getAttendanceByEvent, which reduce the rows).
THEOREM AggregatesAll == Spec => []AggregationIsPartition
  <1>1. TypeInv => AggregationIsPartition
    <2> SUFFICES ASSUME TypeInv, NEW r \in Requests, reply[r] = 200,
                        plan[r].shape \in {"byUser", "byEvent"}
                 PROVE  found[r][1] \in Seq(Row)
      BY GroupedIsPartition DEF AggregationIsPartition, ByUser, ByEvent
    <2>1. found[r] \in Seq(Seq(Row)) /\ Paged(found[r])
      BY DEF TypeInv, RequestTyped
    <2>2. plan[r].shape = AllPlans[AnyQuery][list].shape
      <3>1. list \in Lists /\ \E q \in Queries : plan[r] = AllPlans[q][list]
        BY DEF TypeInv, FreshInv, Shaped
      <3> QED
        BY <3>1, PlansAlike
    <2>3. Len(found[r]) = 1
      BY <2>1, <2>2 DEF Paged, Counts
    <2> QED
      BY <2>1, <2>3
  <1> QED
    BY <1>1, AlwaysTyped, PTL

=============================================================================
