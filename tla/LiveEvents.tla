----------------------------- MODULE LiveEvents -----------------------------
(***************************************************************************)
(* Events and the URLs of their materials: the handlers of /live/events    *)
(* over the tables EVENTS and URLS and the query cache of one process.     *)
(*                                                                         *)
(* A handler runs alone between two awaits.  The URLs of an event are      *)
(* inserted one by one by calls that the handler does not await: they are  *)
(* `inserting' after it has answered, in any order with everything else.   *)
(*                                                                         *)
(* A write takes effect when it commits.  DELETE and INSERT of one event's *)
(* URLs exclude each other from execution to COMMIT (URLS has no index on  *)
(* event_id, so the DELETE locks the table), hence each is one step here;  *)
(* a write that is answered and whose COMMIT is then lost has no effect.   *)
(***************************************************************************)
EXTENDS Naturals, FiniteSets

CONSTANTS
  Events,       \* uids of events
  Hackathons,   \* uids of hackathons
  Nowhere,      \* no hackathon: the event has no row
  Links,        \* URLs that a request may carry
  Requests,     \* one value per HTTP request served
  Kinds,        \* what requests ask for: "post", "update", "delete", "get"
  Clients,      \* when the next request arrives, one of Arrivals
  KnownOnly,    \* do updates and deletes name stored events, deletes their hackathon?
  Faults        \* may statements fail, COMMITs be lost, the process restart?

\* Requests arrive at any time, once all others are answered, or once these
\* have also inserted all their URLs.
Arrivals == {"anytime", "answered", "settled"}

ASSUME ConstantsAssumption ==
  /\ Nowhere \notin Hackathons
  /\ Kinds \subseteq {"post", "update", "delete", "get"}
  /\ Clients \in Arrivals
  /\ KnownOnly \in BOOLEAN
  /\ Faults \in BOOLEAN

VARIABLES
  hackathonOf,  \* EVENTS: the hackathon of each stored event, or Nowhere
  urls,         \* URLS: rows, marked with the request that inserted them
  inserting,    \* rows whose INSERT was called and not awaited
  cachedEvents, \* query cache: the events of the last cached SELECT
  cachedUrls,   \* query cache: the rows of each cached SELECT of URLS
  pc,           \* where each request's handler stands
  req,          \* its parameters
  reply,        \* the URLs its answer carries
  cleared,      \* history: requests whose DELETE of URLs had its effect
  before,       \* history: the requests that had settled when it started
  promised      \* history: the URLs each event has by the answers given

dbVars    == <<hackathonOf, urls, inserting>>
cacheVars == <<cachedEvents, cachedUrls>>
history   == <<cleared, before, promised>>
vars      == <<dbVars, cacheVars, pc, req, reply, history>>

Url     == [event : Events, by : Requests, link : Links]
Request == [kind : Kinds, event : Events, hackathon : Hackathons,
            links : SUBSET Links, ignoreCache : BOOLEAN]
NoRequest == [kind |-> "none"]

\* The SELECTs of URLS: those of one event (getByEvent) and all (getAll).
Selects == {{e} : e \in Events} \cup {Events}

Ended  == {"done", "failed"}
Stages == Ended \cup {"idle", "called", "clear", "read"}

TypeOK ==
  /\ hackathonOf \in [Events -> Hackathons \cup {Nowhere}]
  /\ urls \in SUBSET Url
  /\ inserting \in SUBSET Url
  /\ cachedEvents \in SUBSET Events
  /\ cachedUrls \in [Selects -> SUBSET Url]
  /\ pc \in [Requests -> Stages]
  /\ req \in [Requests -> Request \cup {NoRequest}]
  /\ \A r \in Requests : pc[r] # "idle" => req[r] \in Request
  /\ reply \in [Requests -> SUBSET Url]
  /\ cleared \in SUBSET Requests
  /\ before \in [Requests -> SUBSET Requests]
  /\ promised \in [Events -> SUBSET Url]

\* Events that exist, and the rows that SELECT s returns.
Stored  == {e \in Events : hackathonOf[e] # Nowhere}
Rows(s) == {u \in urls : u.event \in s}

\* Requests that have ended and left no INSERT under way.
Settled == {r \in Requests : pc[r] \in Ended /\ \A u \in inserting : u.by # r}

\* Mutant: without the test for wsUrls, the empty text is split into one empty URL.
PostedAlways(r) ==
  [event : {req[r].event}, by : {r},
   link : IF req[r].links = {} THEN {"empty"} ELSE req[r].links]

\* The rows that request r inserts: one for each of its URLs.
Posted(r) == [event : {req[r].event}, by : {r}, link : req[r].links]

Init ==
  /\ hackathonOf = [e \in Events |-> Nowhere]
  /\ urls = {}
  /\ inserting = {}
  /\ cachedEvents = {}
  /\ cachedUrls = [s \in Selects |-> {}]
  /\ pc = [r \in Requests |-> "idle"]
  /\ req = [r \in Requests |-> NoRequest]
  /\ reply = [r \in Requests |-> {}]
  /\ cleared = {}
  /\ before = [r \in Requests |-> {}]
  /\ promised = [e \in Events |-> {}]

-----------------------------------------------------------------------------
\* Request r arrives, is valid, and calls its first statement.
Arrive(r) ==
  /\ pc[r] = "idle"
  /\ CASE Clients = "anytime"  -> TRUE
       [] Clients = "answered" -> \A q \in Requests : pc[q] \in {"idle"} \cup Ended
       [] Clients = "settled"  -> \A q \in Requests : pc[q] = "idle" \/ q \in Settled
  /\ \E q \in Request :
       /\ q.kind = "update" /\ KnownOnly => q.event \in Stored
       /\ q.kind = "delete" /\ KnownOnly => hackathonOf[q.event] = q.hackathon
       /\ q.kind \in {"delete", "get"} => q.links = {}
       /\ q.kind # "get" => ~q.ignoreCache
       /\ req' = [req EXCEPT ![r] = q]
       /\ pc' = [pc EXCEPT ![r] = IF q.kind = "delete" THEN "clear" ELSE "called"]
  /\ before' = [before EXCEPT ![r] = Settled]
  /\ UNCHANGED <<dbVars, cacheVars, reply, cleared, promised>>

\* Request r is answered with a success that carries the URLs us; after it, ps
\* are the URLs that its event has according to the documentation.
Answer(r, us, ps) ==
  /\ pc' = [pc EXCEPT ![r] = "done"]
  /\ reply' = [reply EXCEPT ![r] = us]
  /\ promised' = [promised EXCEPT ![req[r].event] = ps]

\* The handler of r catches an error and answers with it.
Fail(r) ==
  /\ pc' = [pc EXCEPT ![r] = "failed"]
  /\ UNCHANGED <<dbVars, cacheVars, req, reply, history>>

\* INSERT INTO EVENTS
EventStored(r) == [hackathonOf EXCEPT ![req[r].event] = req[r].hackathon]

\* postEventHandler: the event is stored (or its COMMIT lost); its URLs are sent
\* to be inserted and the answer lists them.  A uid that is taken is refused.
InsertEvent(r) ==
  /\ pc[r] = "called" /\ req[r].kind = "post" /\ req[r].event \notin Stored
  /\ \/ hackathonOf' = EventStored(r)
     \/ Faults /\ UNCHANGED hackathonOf
  /\ inserting' = inserting \cup Posted(r)
  /\ Answer(r, Posted(r), Posted(r))
  /\ UNCHANGED <<urls, cacheVars, req, cleared, before>>

\* updateEventHandler: the UPDATE succeeds whether or not it finds the event.
UpdateEvent(r) ==
  /\ pc[r] = "called" /\ req[r].kind = "update"
  /\ pc' = [pc EXCEPT ![r] = IF req[r].links = {} THEN "read" ELSE "clear"]
  /\ UNCHANGED <<dbVars, cacheVars, req, reply, history>>

\* Mutants: the DELETE matches the new URLs instead of the event; it has no WHERE.
RowsClearedByUrl(r) == {u \in urls : u.event = req[r].event => u.link \notin req[r].links}
RowsClearedAll(r)   == {}

\* DELETE FROM URLS WHERE event_id = ?
RowsCleared(r) == urls \ Rows({req[r].event})
ClearAndInsert(r) == inserting \cup Posted(r)

\* updateEventHandler: the event's URLs are deleted and the new ones are sent to
\* be inserted, unawaited.  An error of the DELETE is ignored.
ReplaceUrls(r) ==
  /\ pc[r] = "clear" /\ req[r].kind = "update"
  /\ \/ urls' = RowsCleared(r) /\ cleared' = cleared \cup {r}
     \/ Faults /\ UNCHANGED <<urls, cleared>>
  /\ inserting' = ClearAndInsert(r)
  /\ Answer(r, Posted(r), Posted(r))
  /\ UNCHANGED <<hackathonOf, cacheVars, req, before>>

\* What SELECT s answers: what is cached of it, or the table.  An empty result
\* is an error and is not cached.
Selected(s) == IF cachedUrls[s] # {} THEN cachedUrls[s] ELSE Rows(s)
AfterSelect(s) == [cachedUrls EXCEPT ![s] = Selected(s)]

\* updateEventHandler without URLs: the answer carries the old ones.  An error
\* (none found, or a failure) is ignored.
ReadOldUrls(r) ==
  LET s == {req[r].event} IN
  /\ pc[r] = "read" /\ req[r].kind = "update"
  /\ \/ /\ cachedUrls' = AfterSelect(s)
        /\ Answer(r, Selected(s), promised[req[r].event])
     \/ /\ Faults
        /\ Answer(r, {}, promised[req[r].event])
        /\ UNCHANGED cachedUrls
  /\ UNCHANGED <<dbVars, cachedEvents, req, cleared, before>>

\* deleteEventHandler: first the event's URLs ...
DeleteUrls(r) ==
  /\ pc[r] = "clear" /\ req[r].kind = "delete"
  /\ \/ urls' = RowsCleared(r) /\ cleared' = cleared \cup {r}
     \/ Faults /\ UNCHANGED <<urls, cleared>>
  /\ pc' = [pc EXCEPT ![r] = "called"]
  /\ UNCHANGED <<hackathonOf, inserting, cacheVars, req, reply, before, promised>>

\* ... then the event, if it is one of the given (or the current) hackathon.
DeleteEvent(r) ==
  LET e == req[r].event
      hits == hackathonOf[e] = req[r].hackathon
  IN
  /\ pc[r] = "called" /\ req[r].kind = "delete"
  /\ \/ hackathonOf' = IF hits THEN [hackathonOf EXCEPT ![e] = Nowhere] ELSE hackathonOf
     \/ Faults /\ UNCHANGED hackathonOf
  /\ Answer(r, {}, IF hits THEN {} ELSE promised[e])
  /\ UNCHANGED <<urls, inserting, cacheVars, req, cleared, before>>

\* getEventHandler: the events, from the cache unless it is to be ignored.  No
\* events is an error.
FoundEvents(r) ==
  IF cachedEvents # {} /\ ~req[r].ignoreCache THEN cachedEvents ELSE Stored

GetEvents(r) ==
  /\ pc[r] = "called" /\ req[r].kind = "get" /\ FoundEvents(r) # {}
  /\ cachedEvents' = FoundEvents(r)
  /\ pc' = [pc EXCEPT ![r] = "read"]
  /\ UNCHANGED <<dbVars, cachedUrls, req, reply, history>>

\* getEventHandler: then all URLs, from the cache in any case, which the answer
\* joins to the events found (the join is left out); an error is ignored.
GetUrls(r) ==
  /\ pc[r] = "read" /\ req[r].kind = "get"
  /\ \/ /\ cachedUrls' = AfterSelect(Events)
        /\ Answer(r, Selected(Events), promised[req[r].event])
     \/ /\ Faults
        /\ Answer(r, {}, promised[req[r].event])
        /\ UNCHANGED cachedUrls
  /\ UNCHANGED <<dbVars, cachedEvents, req, cleared, before>>

\* A statement whose error the handler reports: the first one of each handler,
\* and both of deleteEventHandler; a SELECT of no events; a uid that is taken.
StatementFails(r) ==
  /\ \/ pc[r] = "called"
     \/ pc[r] = "clear" /\ req[r].kind = "delete"
  /\ \/ Faults
     \/ pc[r] = "called" /\ req[r].kind = "post" /\ req[r].event \in Stored
     \/ pc[r] = "called" /\ req[r].kind = "get" /\ FoundEvents(r) = {}
  /\ Fail(r)

\* urls.forEach(url => insert(url)): an INSERT that nobody waits for ends, with
\* or without effect.
InsertUrl(u) ==
  /\ u \in inserting
  /\ inserting' = inserting \ {u}
  /\ \/ urls' = urls \cup {u}
     \/ Faults /\ UNCHANGED urls
  /\ UNCHANGED <<hackathonOf, cacheVars, pc, req, reply, history>>

\* The process stops and starts: its requests and its cache are gone.
Restart ==
  /\ Faults
  /\ pc' = [r \in Requests |-> IF pc[r] \in {"idle"} \cup Ended THEN pc[r] ELSE "failed"]
  /\ inserting' = {}
  /\ cachedEvents' = {}
  /\ cachedUrls' = [s \in Selects |-> {}]
  /\ UNCHANGED <<hackathonOf, urls, req, reply, history>>

Serve(r) ==
  \/ InsertEvent(r) \/ UpdateEvent(r) \/ ReplaceUrls(r) \/ ReadOldUrls(r)
  \/ DeleteUrls(r) \/ DeleteEvent(r) \/ GetEvents(r) \/ GetUrls(r)
  \/ StatementFails(r)

Next ==
  \/ \E r \in Requests : Arrive(r) \/ Serve(r)
  \/ \E u \in inserting : InsertUrl(u)
  \/ Restart

Spec == Init /\ [][Next]_vars

-----------------------------------------------------------------------------
\* Once the URLs of an event were deleted for a request, no URL is left, and none
\* will be stored, of a request that had settled before that one started: what
\* overlapping updates leave behind is only ever their own.
\* (updateEventHandler, deleteEventHandler, deleteByEvent)
SettledUrlsAreReplaced ==
  \A r \in cleared : \A u \in urls \cup inserting :
    u.event = req[r].event => u.by \notin before[r]

\* When nothing is under way, each event has exactly the URLs of the last request
\* that posted some, and a deleted event has none.
\* (events.ts: wsUrls "Replaces all old urls", "The hackathon to delete the event from")
UrlsAsPosted ==
  (\A r \in Requests : pc[r] = "idle" \/ r \in Settled)
    => \A e \in Events : Rows({e}) = promised[e]

=============================================================================
