# A TLA+ verification project for hackPSU-api

hackPSU-api is the HTTP service behind a university hackathon: users register
and get a pin, organisers activate hackathons, hand out wristbands and scan
them, lend equipment, send emails, push updates.  It is written in TypeScript
(Express, injection-js, rxjs) over MySQL, Firebase (authentication, Firestore,
realtime database), SendGrid and a few other services.  On App Engine several
processes of it run at once and are started and stopped at will
(`app.yaml`, `automatic_scaling`).

Inside a process one event loop runs; a handler is interrupted where it awaits
something and nowhere else.  What is hard to test is therefore what other
requests, of this or of another process, do between two awaits of a handler,
and what a failed or late answer of the database leaves behind.  These modules
are about that.

## 1. Inventory

Paths are under `src/src/`.  "Keeps" is state that outlives a request.

| component | keeps | operations that change state | depends on |
|---|---|---|---|
| Active hackathon (`models/hackathon/`, `router/routes/admin/admin-hackathon.ts`) | table HACKATHON; per process, `hackathonObservable` | create, make active, update | unit of work, REGISTRATION (for `base_pin`) |
| Registration and pins (`models/register/`, `processors/registration-processor.ts`, `router/routes/users.ts`, `router/routes/admin/admin-register.ts`) | table REGISTRATION with its AUTO_INCREMENT pin | insert, submit, update | active hackathon, email, storage |
| MySQL unit of work (`services/database/svc/mysql-uow.service.ts`) | pool of connections, their transactions | query | pool, query cache |
| Query cache (`services/database/cache/memcache-impl.service.ts`) | a `Map` of 100 results per process | get, set | - |
| Scanner pins and API keys (`services/auth/apikey-auth.ts`, `services/common/rate-limiter/`) | Firestore collections `pins`, `apikey`; token bucket | generate a pin, confirm a pin, check a key | Firestore |
| Wristbands and scans (`models/scanner/`, `processors/scanner-processor.ts`) | tables RFID_ASSIGNMENTS, SCANS; `searchAmount` | assign and scan, one or a batch | active hackathon, unit of work |
| Events and locations (`models/event/`, `models/url/`, `models/location/`, `router/routes/live/events.ts`) | tables EVENTS, EVENT_URLS, LOCATIONS | create, update, delete | unit of work |
| Equipment checkout (`models/checkout-object/`, `models/checkout-items/`) | tables CHECKOUT_DATA, CHECKOUT_ITEMS | check out, return, add an item | wristbands |
| Admin email (`processors/admin-processor.ts`, `models/admin/`) | table EMAIL_HISTORY | validate, send, record | SendGrid |
| Authentication and permissions (`services/auth/firebase-auth.ts`, `services/auth/RBAC/`) | custom claims in Firebase; the ACL registered at start | elevate | Firebase |
| Live updates (`services/database/svc/rtdb-uow.service.ts`, `models/update/`) | realtime database `/updates` | post an update and push it, delete one | push notifications |
| RSVP, extra credit, attendance, projects, categories, travel reimbursement, pre-registration | a table each | single statements | unit of work |
| Statistics, storage, push notifications, mailing list, router, injector, logging | - | none, or one call to a service | - |

Interactions that matter:

- every data mapper reaches MySQL through `MysqlUow.query`, which takes a pooled
  connection, looks into the query cache, opens a transaction, runs one call's
  statements, caches the result, sends COMMIT and answers without waiting for it;
- every mapper that says "this hackathon" reads `activeHackathon`, an observable
  that a process loads once and then replays, until the same process activates a
  hackathon or is restarted;
- activation computes `base_pin` from REGISTRATION, and pins shown at the desk are
  relative to it.

Hard behaviours: reads before an await used after it (`Hackathon.update`,
`Registration.update`, the memo), writes in several transactions (registration,
events with URLs), answers before COMMIT, errors ignored (COMMIT, URL inserts,
push notifications), caches without invalidation, queues without a timeout.
PROJECT.json lists them line by line under `hazards`.

What makes each component correct, in a sentence: exactly one hackathon is
active, and pins are positive in it; a registration is stored, submitted and in
a hackathon that was opened, and its row holds only what was posted for it; a
query is applied at most once, never after an error, and its connection always
returns; the cache serves what was last put into it; a pin that has made a key is
gone for good; an item of a batch that was refused is not stored, and may be sent
again; an event's URLs are those last posted; what is lent to a band is lent to its
wearer; a mailing is recorded in full or not at all, and its answer counts only
what was sent; an update that was acknowledged is there until somebody deletes it;
a list shows one result, of a query with the caller's conditions and values, and a
fresh one to who asks for it; privileges only go down by those who may lower them, or
to nothing at all.

## 2. Modules

| module | models | form |
|---|---|---|
| `HackathonLifecycle` | what organisers are promised: one current hackathon, replaced in one step; enrolment | abstract specification |
| `ActiveHackathon` | hackathons, the memo, `update`, registration, pin lookup, over a database with executed-but-uncommitted writes | specification, properties, refinement of `HackathonLifecycle` |
| `Participants` | the rest of a registration: resume, columns, lookups through the cache, updates merged from copies | specification |
| `Scanners` | pins and API keys over Firestore | specification that `Desk` extends |
| `Desk` | scanners with their keys: batches of assignments and scans, lookups of bands, loans and availability | specification, extends `Scanners` |
| `Broadcasts` | emails, sent and then recorded; live updates, recorded and then pushed | specification |
| `Listings` | 25 lists and statistics, from the route to the key in the query cache | specification |
| `RecencyMap` | the JavaScript `Map` of the cache, `get` and `set` as functions of it | operators |
| `UnitOfWork` | what `IUow` promises a caller | abstract specification |
| `MysqlUow` | `MysqlUow.query` with pool, queue, query cache, transaction, failures | specification, refinement of `UnitOfWork` |
| `LiveEvents` | `/live/events`: events, their URLs, INSERTs nobody awaits, cached reads | specification |
| `AclTable` | who may do what: the `addRBAC` calls of the data mappers | a table |
| `RoleMaps` | registering and merging roles, and what inheritance allows | operators |
| `Rbac` | the construction of the access control list, and the recursion of `can` | specification |
| `Permissions` | POST /admin/makeadmin over claims in Firebase | specification |
| `MCAccess` | a process from its start: `Rbac` until the list is complete, then `Permissions` with the levels that this list lets elevate | composition, for TLC |
| `MCActiveHackathon`, `MCDesk`, `MCParticipants`, `MCListings`, `MCLiveEvents` | instances and symmetry for TLC; in `MCLiveEvents` also a variable that tells whether clients were careful and nothing failed | model-checking modules |
| `ActiveHackathonProofs`, `ParticipantsProofs`, `DeskProofs`, `BroadcastsProofs`, `MysqlUowProofs`, `LiveEventsProofs`, `ListingsProofs` | theorems about the module of that name | proofs |
| `AccessProofs` | theorems about `Rbac`, `Permissions` and the two together in `MCAccess` | proofs |

In the modules about requests, `pc` says where a request's handler stands, an
action is the code between two awaits, `reply` is the status it answered with, and
`served` the process that serves it.

### ActiveHackathon

One process value per instance of the service, one value per HTTP request.  A
request is served by a fixed process and moves through `pc`; each action is the
code between two awaits.

| state | in the code |
|---|---|
| `table` | HACKATHON rows: `active`, `base_pin`, whether `end_time` is set |
| `writer`, `dirty` | a statement that was executed and whose COMMIT is on its way |
| `registration`, `lastPin` | REGISTRATION rows and the AUTO_INCREMENT counter of `pin` |
| `lost` | history variable: registrations whose INSERT or UPDATE was answered with success and whose COMMIT failed |
| `hackathonObservable`, `outcome` | the memo of each process and what it replays |
| `cached` | HACKATHON rows that the query cache of a process holds (`get` in `update` asks for the cache) |
| `source`, `target`, `who`, `row`, `asked` | local variables of the handlers |
| `opened` | history variable: hackathons that were ever active |

Statements that change HACKATHON are executed (`ExecuteWrite`), answered, and
committed or lost later (`Commit`, `CommitLost`), because `query()` sends COMMIT
and does not wait.  Writers and locking reads exclude each other, as InnoDB's row
locks make them; plain reads see the committed table.  An update of one row does
not block a write of another row in InnoDB while the model lets one writer in at a
time: two such writes commit the same tables in either order, and both orders are
in the model.

`insert` and `submit` of a registration are statements like any other: `complete()`
ignores the error of COMMIT, so each of them may end with success and no effect
(`lost`), and the handler goes on to the email.

The columns that no guard looks at (names, start times) are left out, and
`end_time` is reduced to whether it is set.  The MAX(pin) subqueries of
`makeActive` and `insert` are `IsMaxPin`.

### Participants

`ActiveHackathon` has what pins and activations need of a registration; this
module has the rest of the row.  One column stands for all that are treated alike:
`major` for those a form gives or leaves undefined, `allergies` for those the
constructor turns into null, `travel` for the flags that are normalised, besides
`submitted`, `time` and `resume`.  A column holds the request that wrote it, so
that one can see whose data it is.

| state | in the code |
|---|---|
| `rows` | table REGISTRATION, by user and hackathon |
| `files`, `upload` | the bucket of resumes; the name under which multer uploads this form's file, made from the uid in the *form* |
| `resume` | what is stored as resume: the name in the URL, made from the uid in the *token*, or, without a file, the text that the form gives (the request that gave it) |
| `cache` | what `RegisterDataMapperImpl.get` has cached in each process |
| `base`, `posted`, `target` | the row an update merges into, the columns it gives, the row it writes |
| `todo` | the hackathons of a user whose registrations are still to be read |

The file is uploaded while the form is parsed, before anything is validated, and
stays if validation fails.  `Locate` and the file name await the active
hackathon outside of every `try`: if that fails the request stays `unanswered`.

### Scanners and Desk

A pin is a Firestore document that any process overwrites, reads and deletes.
Each pin generated has a number, its *issue*, so that a document that was drawn
again can be told from the one that was read; a key is known by the request that
made it.  There are no clocks: whether a document has expired, or the rate limiter
of a process is exhausted, is a choice made anew at each look.

| state | in the code |
|---|---|
| `pins`, `issued`, `apikeys` | Firestore collections; how many pins were generated |
| `pin`, `found` | the pin that a request confirms, the issue that it read |
| `assigned`, `scanned`, `loan` | tables RFID_ASSIGNMENTS, SCANS, CHECKOUT_DATA |
| `available` | the answer of `getAllAvailable` that a process has cached |
| `current` | the active hackathon that a process remembers |
| `batch`, `report` | the items of a request and what became of each so far |
| `key` | the API key the request was let in with, unless it carries an ID token |
| `wid`, `userId`, `wearer` | to lend: the band or the name given, and the user that the band leads to |

All items of a batch are under way at once, each in a transaction of its own; they
end in any order.  An INSERT may be refused, fail, or be reported as stored while
its COMMIT is lost.  Lending looks up the band, then the registration of its
wearer, then inserts the loan: three statements, each with the hackathon that the
process remembers at that moment.  Availability is counted as the code counts it,
returned loans included.

### Broadcasts

| state | in the code |
|---|---|
| `mailed` | emails that SendGrid has taken |
| `history` | table EMAIL_HISTORY |
| `to`, `left`, `successful` | the recipients of a request, those whose email is under way, `successfulEmails` |
| `updates` | realtime database, by hackathon and the request that posted (`uid` is new) |
| `announced`, `push` | updates that OneSignal has pushed; whether a request asks for it |
| `target` | the key to set or remove |

The texts and their substitutions are left out; which recipients the schema
refuses is the constant `Malformed`.  The INSERT of the history may fail with 500, or
with 400 for a row that MySQL refuses (a name that is NULL), and in both cases emails
have gone out.

### Listings

A behaviour is about one list, because SELECTs of two lists have different texts
and share no entry of the cache.  What a handler asks for is a *plan*: the tables, by how
many hackathons it filters (each is awaited on its own), whose rows, which page,
whether the cache may answer, and what is made of the rows.  `Select` is what the
mappers have in common, and each mapper's and handler's definition is its
difference from it, the handlers that drop `ignoreCache` included (`Deaf`).  `Statement`
is what of a plan the database sees, and `Key`
is the key of the cache as the code joins it from the text of the SQL (which has a `?`
for each condition) and the parameters: the digits of numbers one after another, an id
that is not a number as one letter.  What a SELECT finds (`Those`), joins (`InnerJoin`, `LeftJoin`) and what
attendance is reduced to (`Grouped`, which puts one row after another into its group) are
first-order: sets of wanted rows, and recursive functions over the numbers of the rows,
so that the theorems can speak of them.  `versions` holds the tables after each write; a new or changed row has
an id of its own, so that the answer tells which version it is of.

### MysqlUow

All queries are about one row: a write locks it, a read returns how often it was
written (`ReadAfter`: some SELECTs find the row to begin with, others only after a
write).  Commands of one connection are processed in order, which is why
the ROLLBACK that nobody waits for precedes the next user's BEGIN.  A failing
statement may have changed the row before it fails (a call may hold several
statements); a connection may break at any stage.  The pool serves its queue in
order and never times out.

The cache is the `Map` of `RecencyMap`, looked into and filled without an await
inside of `query`; `Capacity` stands for the 100 of the code.

### LiveEvents

| state | in the code |
|---|---|
| `hackathonOf` | table EVENTS: which events exist, and for which hackathon |
| `urls` | table URLS; a row also carries the request that inserted it |
| `inserting` | `urls.forEach(url => insert(url))`: calls that nobody awaits |
| `cachedEvents`, `cachedUrls` | results of the SELECTs in the query cache |
| `pc`, `req`, `reply` | handlers, their parameters, the URLs they answer with |
| `cleared`, `before`, `promised` | history: DELETEs that had an effect; who had settled when a request started; what the answers given promise |

A write is one step that happens or is lost: URLS has no index on `event_id`, so a
DELETE locks the table and nothing of another writer comes between it and its
COMMIT.  `Clients` says when the next request arrives: at any time, after the
answer of the previous one, or after all its effects.  `KnownOnly` (updates and
deletes name stored events, deletes the hackathon of the event) and `Faults`
are there so that one can ask what holds of careful clients without failures.
A request may choose the uid of a new event (`event.ts:59` draws one otherwise): a
post of a uid that is taken is refused by MySQL.

### Rbac and AclTable

Every data mapper registers roles while it is constructed; all of them are
constructed while `routerConfig` builds the controllers, before a route exists.
`roles` is the map of `RBAC`, `constructed` the mappers built so far, `question`
what `can` was asked, `stack` its call stack, each frame with the inherited roles
that `some` has yet to try, and `answer` what it returned.  `AclTable` transcribes the `addRBAC` calls,
those with an `undefined` operation included; no mapper passes an `action`, so
roles have none.  A mapper of travel reimbursements exists and is not provided:
with it, the inheritance would have a cycle and `can` would not end.

### Permissions and MCAccess

`claims` is what Firebase stores, `token` the level in the ID token of each user,
`asked` a request's parameters and its caller's level, `privilege` the level it has
read.  The handler only asks that the posted level is not falsy, so it may be any
integer, 0 and negative ones included (`"0"` is a text that is not falsy), or `NaN`, what
`parseInt` makes of other texts.  Every comparison with `NaN` is false, and so is that
with the claim of a user who has none; `NaN` stands for both (`IsBelow`).  A `NaN` that
is written becomes null in JSON and counts as 0 (`OrZero`).  Which levels may create admins
and reduce levels `MCAccess` computes by `RoleMaps` from `AclTable`, in the state
that the construction ends in.  `Exclusive` says that no two requests about a user
overlap; the run is without it, one theorem is with it.

## 3. Runs

Bounds are the constants in the cfg files.  "pass" runs finish without an error.

| run | question | instance |
|---|---|---|
| `activation` | do overlapping activations, creations and registrations, lost commits and restarts keep one hackathon active and implement the lifecycle? | 3 hackathons (one created), 2 processes, 3 requests, 2 users |
| `editing` | and with updates: pins above `base_pin`, registrations in opened hackathons, an email for what insert stored and submit marked, an ended hackathon has an end | 2 hackathons, of which one is activated and both are updated, 2 processes, 3 requests, 2 users |
| `settling` | is every request answered? (fairness) | 2 hackathons, 2 processes, 2 requests |
| `two_active` | finding 1 below | 2 hackathons, 1 process, 4 requests |
| `participants` | is a resume its owner's file or text, and does a row hold only what was posted for it, whatever copies are merged? | 3 requests, 1 process, 2 users, 2 hackathons, 2 forms, 3 kinds of update |
| `stale_update` | finding 2 | 2 requests of the same |
| `desk` | is a pin spent by its key, is a refused item not stored, is what is lent to a band lent to its wearer? | 3 requests, 1 process, 1 pin drawn twice (`Issues`), 2 devices, 3 users, 2 bands, 1 item |
| `broadcasts` | do answers, history and announcements agree with what was sent and what is there, and is every request answered? (fairness) | 2 requests, 2 processes, 3 recipients of whom one is malformed |
| `listings` | is each answer one result of a query like the request's, fresh where asked, aggregated without loss? | 25 lists, 2 requests, 8 queries, 2 users, 2 hackathons, one change of the tables |
| `uow` | no open transaction in the pool, fresh reads, an atomic unit of work, a cache that serves what was set last; does every call end and return its connection? (fairness) | 3 calls, each one of two SELECTs or a write, 2 connections, a cache of 2 |
| `event_urls` | do overlapping updates leave behind only their own URLs, and careful clients get what they posted? | 2 events, 2 hackathons, 3 requests, with failures |
| `access` | is nothing lost that mappers register, is `can` right, does it end, do levels rise; and who then reduces levels when requests overlap? | the 16 mappers that are provided, in any order; 3 users, one without claims, 2 requests that post a level, 0, a negative one, one above all or no number |

Why the instances are enough.  Three requests have the interesting cases of
`ActiveHackathon`: a registration that makes a pin, an activation, and a third
request that overlaps both; the second process is there for a memo that nobody
refreshes.  Three hackathons let one be replaced twice or created meanwhile; with
updates, two hackathons suffice for a row that is read before it is replaced and
written back after.  Requests, processes and users are alike (symmetry).  In
`Participants` the three are a registration and two updates of one row, of which
one starts from a copy that the other has made old; of the two forms one gives
another user's uid and is invalid, so that its file stays; one row dates from
before.  In `Desk` two confirmations of one pin and a new draw between them take
one pin with two issues; a batch has one band twice, or a user who is not
registered (`guest`) with one who is; the third request lends.  All requests meet
in one process because what processes do not share, the remembered hackathon and
the cached availability, no property of the run compares; the theorems have any
number of processes.  In `Broadcasts` two requests are a post
and a deletion of the same update, or a mailing with a good, another good and a
malformed recipient.  In `Listings` one request leaves in the cache what the other
may be given, and the tables change once in between (`MaxWrites`; a new row is of
one user and event, `Inserted`, and gets an id from `NewId` on; registrations are
counted in `Categories` columns); the rows of each table in `Before` differ in user, event or hackathon,
so that two queries have different results.  Two of its queries have pages whose
numbers have the same digits in a row, 1 and 11, 11 and 1, and share a key.  In `MysqlUow` three calls on two connections have a queue, a reused
connection and a writer that waits for a lock, and a cache of two places is full
after the two SELECTs.  In `LiveEvents` three requests are a post and
two that overlap; the second event shows that only the event's own URLs go, and the
second hackathon lets a delete name the wrong one.  `Rbac`
is checked with the whole table, one call of `can` after the other: nothing there
is concurrent but the order of construction.  In `Permissions` a reduction that
nobody authorised takes two requests about one user, one that has looked and one
that writes meanwhile.

Each property of a passing run has a mutant of the model that violates it, a bug
that this code could plausibly have (PROJECT.json, `mutants`; the mutated
definition stands next to the original).

### What the code does not keep

1. `two_active`: an update of the hackathon that is being replaced writes its old
   row back, `active` included, and two hackathons are active.
   (`hackathon-data-mapper-impl.ts:130`, `hackathon.ts:43`)
2. `stale_update`: an update of a registration merges into a row read before,
   perhaps from the cache, and so writes back columns that it was not given.
   (`register-data-mapper-impl.ts:243`)

Two more disagreements with what the repository says are plain from the definitions and
have no run of their own:

3. nine lists drop the wish to ignore the cache on the way from the request to the
   query (`Deaf`), while the apidoc blocks `RequestOpts` and `RequestOptsCount` say
   `ignoreCache`: "Force a fresh query to retrieve data"
   (`router/doc_constants.ts:65`, `:73`).  These blocks are used by the routes of four
   of the nine: `classes`, `assignment` and `assignments_of_class` (`users.ts:284`,
   `:432`, `:498`) and `registration_category_count` (`admin-statistics.ts:99`).
   `FreshWhenAsked` is about the other lists.
4. a posted level that is not a number passes the comparison with the level a user has,
   so that whoever may create admins makes a participant of anybody
   (`admin-data-mapper-impl.ts:159`), while the comment above it says "Verify that if
   the permission is reduced, the user has the authority to do so" (`:148`).  `MayLower`
   makes the exception in `ReducesOnlyUnseen` and `OnlyReducersReduce`.

The models also show the following, of which nothing in the repository says
otherwise clearly enough to be called a disagreement, or which is one step of
theirs to see:

- a process that remembers the old hackathon answers a pin of the new one with a
  registration of the old one (`active-hackathon-data-mapper-impl.ts:20`), and
  deletes an update given without a hackathon from the old one: nothing, which is
  answered with success (`update-data-mapper-impl.ts:53`);
- a write is reported as successful, its connection breaks before COMMIT, and the
  error is ignored (`mysql-uow.service.ts:120`); so the confirmation email of a
  registration may go out although its row is not stored or not submitted;
- a form without a file may give any text as resume, another user's URL included, and it
  is stored as it is (`registration.ts:133`);
- the reply to an activation may carry the previous hackathon, read before the COMMIT;
- an update that follows the answer of another one deletes the URLs of an event
  before the INSERTs of that one have run; both sets stay (`events.ts:147`);
  deleting an event of another hackathon than the current one removes its URLs
  only; URLs come from the cache even if it is to be ignored;
- a set of a key that a full cache holds evicts another one, so the cache is not LRU;
- pages with the same digits share an entry of the cache: `LIMIT 1 OFFSET 11` and
  `LIMIT 11 OFFSET 1` are answered with each other's page (`mysql-uow.service.ts:62`);
- two confirmations that both read a pin before either deletes it make two keys; a
  late delete removes a newer pin of the same number; a pin of 0 cannot be
  confirmed (`apikey-auth.ts:76`, `scanner.ts:244`);
- a scan that is sent again is stored again, for SCANS has no unique key; the
  availability of an item counts returned loans as out, and two desks lend the
  last piece;
- a failed history after emails were sent is answered as an error, of the client
  (400) or the server (500), and a retry
  sends them again (`admin-processor.ts:129`); an update whose push failed is
  reported as sent;
- a registration with a file, or a lookup by an organiser, is never answered if the
  active hackathon cannot be loaded (`users.ts:248`, `admin-register.ts:180`);
- a director's request that looked before another one raised a user puts the user
  back down.

### Fairness

`ActiveHackathon!FairSpec` is weakly fair to each request's own steps and to the
end of a transaction: the event loop runs every continuation whose promise is
settled, and the server processes every command or breaks the connection.
`MysqlUow!FairSpec` is weakly fair to the pool and to each call's steps for the same
reason, `Broadcasts!FairSpec` to each request's own steps and to each email: SendGrid,
Firebase, OneSignal and MySQL answer, or the connection to them breaks.
Nothing is fair to the arrival of requests, to evictions, failures or
restarts.  No strong fairness is needed: a call that waits for a lock or for a
connection is enabled from the moment its holder is done and, in these instances,
until it is taken.  There is no such property of `Participants`, where requests are
left unanswered.

## 4. Proofs

The theorems hold for every value of the constants that satisfies the modules'
assumptions (sets of any size, any capacity).

| theorem | states | under |
|---|---|---|
| `TypeCorrect` (`ActiveHackathonProofs`, `ParticipantsProofs`, `BroadcastsProofs`, `MysqlUowProofs`, `LiveEventsProofs`, `ListingsProofs`, `AccessProofs` for `Permissions`) | `[]TypeOK` | the assumptions |
| `DeskProofs!TypeCorrect` | `[]TypeOK` | there are finitely many requests |
| `AclTypeCorrect` | `[]AclTypeOK`, types of `Rbac` | the assumptions |
| `OneActive` | `[]AtMostOneActive` | nothing is edited |
| `SomeActive` | `[]SomeHackathonActive` | nothing is edited, activations name stored hackathons |
| `OnlyOpened` | `[]OnlyOpenedHackathons` | the assumptions, with edits |
| `PinsPositive` | `[]PinsAboveBase` | no hackathon is activated twice, no base pin is typed in |
| `EndsWhenReplaced` | `EndedWhenReplaced` | the assumptions, with edits |
| `MailFollowsSubmit` | `[]MailedIsSubmitted` | the assumptions, with edits |
| `ActiveHackathonProofs!Refinement` | `Spec => ImplementsLifecycle` | nothing is edited |
| `ResumesAreOwned`, `RowsKeepApart` | `[]ResumeIsOwn`, `[]ColumnsAreOwn` | the assumptions |
| `PinsSpent` | `[]PinsAreSpent` | the assumptions |
| `RefusedAreNotStored` | `[]RefusedIsNotStored` | the assumptions |
| `WearerBorrows` | `[]LentToWearer` | the assumptions |
| `Recorded`, `Named` | `[]RecordedTogether`, `[]AnswerNamesSent` | the assumptions |
| `Announced` | `[]PostedOrRefused` | the assumptions |
| `CleanPool` | `[]NoOpenTransactionInPool` | the assumptions |
| `MysqlUowProofs!Refinement` | `Spec => ImplementsUnitOfWork` | the assumptions |
| `ReadsAreFresh` | `[]FreshReads` | the assumptions, failures included |
| `LastSetIsServed` | `ServesLastSet` | the assumptions |
| `UrlsReplaced` | `[]SettledUrlsAreReplaced` | the assumptions, failures included |
| `UrlsPostedIfCalm` | `CalmSpec => []UrlsAsPostedIfCalm` | the assumptions |
| `AskedIsFresh` | `[]FreshWhenAsked` | the assumptions |
| `AnswersAreOfQueries` | `[]AnswerIsOfQuery` | the assumptions, whatever keys collide |
| `AggregatesAll` | `[]AggregationIsPartition` | the assumptions, tables of any size |
| `AnyOrder` | `[]OrderIsIrrelevant` | the assumptions |
| `CanIsRight` | `[]CanIsAllowed` | the assumptions, cycles of inheritance included |
| `NeverDeeper` | `[]NoRoleTwice` | roles inherit only from roles of a lower rank |
| `ReducesUnseen` | `ReducesOnlyUnseen` | the assumptions |
| `OnlyReducers` | `OnlyReducersReduce` | no two requests about a user overlap |
| `AccessIsBoth` | `AccessSpec => AclSpec /\ Spec` | the assumptions |
| `LevelsAreRising` | `AccessSpec => []LevelsRise` | the mappers are those provided |
| `ProvidedNeverDeeper` | `AccessSpec => []NoRoleTwice` | the mappers are those provided |

The conditions are needed: with edits `AtMostOneActive` is false (run `two_active`),
and activating the active hackathon again moves its `base_pin` above pins already
given out.  A client that names the wrong hackathon deletes the URLs of an event and
not the event, and is not careful in the sense of `UrlsAsPostedIfCalm`.

`AtMostOneActive` is not inductive: the next table is `dirty`, so the invariant
says the same of `dirty`.  `OnlyOpenedHackathons` needs that what an observable replays is a
hackathon that was opened, and that the active rows of `table` are.  `PinsAboveBase` needs a bound that
relates every base_pin anywhere (the table, the dirty table, the rows in the
caches and in flight in an update) to the pins, and that hackathons that were
never opened have no registrations.  `EndedWhenReplaced` needs that a row an update
is about to write back has an end time, since a row without one is not merged
(`EndedInv`).  `MailedIsSubmitted` needs what a memo is (`MemoInv`): an observable
was made by a request of the same process and settles once, and a restart, which
forgets it, ends the requests that subscribed to it; and that rows of REGISTRATION
are only added and only become submitted (`RegistrationGrows`), as COMMITs that were lost
are only added (`LostStays`).

`ResumeIsOwn` and `ColumnsAreOwn` speak of stored rows, and a row is stored from
a copy of a copy.  `Fits` says what makes a row belong to its key, and the
invariant has it of the table, of every cached row and of the row that each update
starts from; what makes it last is that a request that has written does not change
its `target` any more (`Settles`).

`PinsAreSpent` needs `SpentOnce`: issues are numbered upwards, and a request that has
a key, or is about to make it, read an issue that was generated and that its pin's
document no longer holds.  A new draw writes an issue that nobody has read.
`RefusedIsNotStored` needs that a stored item was reported a success in the step
that stored it (`StoredIsTold`), that a status of a batch fits the reports it was made
from, and that a single request has one item (`BatchInv`).
`LentToWearer` needs that an assignment is never changed once it is made, and hence that
what a request has looked up stays true until it has lent (`WearerIsKnown`).

`RecordedTogether` and `AnswerNamesSent` need to know how the recipients of a request are
split into those sent, those refused and those malformed at each stage
(`MailingOf`, `RecordOf`), and that a request that mails nothing has no recipients.
`PostedOrRefused` needs that a key is made by one request, and that an update once in
the database is there still unless a request that is over named it as its target.

`NoOpenTransactionInPool` needs to know
at which stages a connection's open transaction is its holder's own, and
`ImplementsUnitOfWork` that a query has an effect only while it is committing or
ended, and at most once.

`SettledUrlsAreReplaced` needs that URLs stored or on their way are those of requests that were
answered, and that requests that had settled when another one started have settled
still: they insert nothing any more.  `CanIsAllowed` needs an invariant of the
stack: the role of each frame lacks the operation and the outermost role leads to
it (`Frames`); what it inherits is still to be tried, is being tried by the next
frame, or is `Barren`: some set closed under inheritance holds it and has no role
with the operation (`Tried`).  When a frame returns false, the union of these sets
shows that its own role is barren.  `NoRoleTwice` is proved for ranked inheritance; the
table that is provided is ranked by the order of the levels (`RankOf`, `Descends`).
`AccessIsBoth` is what lets these theorems speak of a process from its start: a step
of the composition is a step of the list or of the levels and leaves the other
alone.  `LevelsRise` follows from `OrderIsIrrelevant` and the table: what a level of
the team inherits is the level below it.  `ReducesOnlyUnseen`
needs that a request about to write was permitted with the level it saw, and
`OnlyReducersReduce` that, with one request for each user, what it saw is what is
stored.

`FreshReads` and `ServesLastSet` need that the `Map` of the cache holds a key once and
no more entries than its capacity (`CacheInv`); what `get` and `set` do is then said of
the *set* of entries: an entry comes for the key that was set, and of the others one
may go (`AfterGetEntries`, `AfterSetEntries`); a step changes the cache by a hit, by a
result, or not at all (`CacheStep`).  A read that does not ask for the cache reads the row after it
was called, and the row's writes are only added to (`FreshInv`).

`UrlsAsPostedIfCalm` needs that, as long as the steps are calm, one request at most has
not settled, that a delete under way names the hackathon its event is of, and that the
URLs of an event, stored or being inserted, are those
promised but between the two statements of a delete (`CalmInv`).

In `Listings` versions of the tables are only added, so that a result that is of a version
since a request arrived stays one; the lists that heed the wish are shown to, handler
by handler, from the definitions of their plans (`Heeds`), and a request whose plan does not
ask for the cache gets its rows from the database (`FreshInv`).  `AnswerIsOfQuery` needs
that every entry of the cache is the result of some query for this list, with some hackathons, in some
version (`CacheHolds`).  A request that finds an entry under its
key is thus answered with the result of a query with the same conditions and, joined,
the same values.  It cannot be more: `query()` joins the parameters to a key without
separators (`mysql-uow.service.ts:62`), so the theorem says nothing against `LIMIT 1
OFFSET 11` and `LIMIT 11 OFFSET 1` being served each other's page, and they are.

The types of `Desk` need that a loan is of a wearer (`WearerIsKnown`), that a report
that is still to be filled is empty, and, for the number of loans to be a number, that
there are finitely many requests; those of `Participants` that a file about to be uploaded
has a name (`Named`), and those of `Broadcasts` that a request about to set or remove an
update has a key (`Aimed`).

`AggregationIsPartition` and the types of `Listings` are about what recursive functions
compute for sequences of any length.  The library's induction theorems take an operator as
a parameter, which the provers cannot instantiate; `Induction` is their first-order form, about a
*set* of numbers (a number that is missing has a least one among the missing, by
`WFMin`), and from it follow that a recursive function over `0 .. n` exists
(`Recursion`) and what it computes: `ThoseUpTo`, that the rows wanted of the first n
are a sequence of them (`IsSelection`); `GroupedUpTo`, that the groups of the first n
are those made by putting one row after another (`IsGrouping`); `FlattenIsSeq`, that
joined rows are rows.  `GroupedIsPartition` then compares, after each row, every group
with the column of the rows of its key.  The theorem needs besides that what is found is
*one* sequence of rows unless the list counts (`Paged`): of what the database answers,
of what lies in the cache and of what a request has (`TypeInv`), and hence that
queries of one list have plans of one shape (`PlansAlike`), handler by handler.

Only model-checked: the liveness properties (`RequestsSettle` of two modules,
`CallsEnd`), which are out of the prover's reach.  Every other property of a run that
passes is a theorem, with the conditions in the table.

## 5. Plan

Done: activation, registrations and their resumes, scanners and the desk, emails
and updates, lists and statistics, events, the unit of work, access control.  Left,
in this order:

1. A batch as an abstract specification: any order of single inserts, with what the
   scanner is told of each.
2. The operations that each route asks `can` about, so that `MCAccess` can say which
   routes a level reaches.

## 6. Not modelled

- Relevant events (`scanner-processor.ts`): the search widens a window around the
  time of day until it finds an event; it changes nothing, and there is no clock here.
- Redis cache: the injector does not provide it.  `commit` of the unit of work, the
  switch of the global cache flag, `getCount` of updates and the mailing list: no
  caller.
- Projects, categories and travel reimbursement: no route that the router builds.
  RSVPs and attendance are listed and counted (`Listings`); no route writes them.
- Substitutions in emails, limits and types of uploaded files, validation of
  request bodies, SQL texts and column lists, formats of answers: none of the
  properties depends on them, except where a handler's control does, and there they
  are guards.
- Which operation each route asks of the access control list, and the debug
  environment that allows everything.
- The injector, the router and logging: they run before the first request or change
  nothing, and what depends on the order of construction is in `Rbac`.
- Scripts, templates and JSON schemas.
