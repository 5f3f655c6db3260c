--------------------------- MODULE ActiveHackathon ---------------------------
(***************************************************************************)
(* The active hackathon and what hangs on it: the HACKATHON table, the     *)
(* registrations with their pins, and the `activeHackathon' observable     *)
(* that every process of the service memoises and that every data mapper   *)
(* reads.                                                                  *)
(*                                                                         *)
(* Several processes (Instances) serve requests against one database.  A   *)
(* request is served once, by one process, in the steps between which its  *)
(* handler awaits something: another request, of any process, may run at   *)
(* each of these points.                                                   *)
(*                                                                         *)
(* The database.  `table' is the committed HACKATHON table, what a plain   *)
(* SELECT reads.  A statement that writes HACKATHON has been executed, its *)
(* locks held and its result handed to the caller, before its COMMIT is    *)
(* processed (MysqlUow.query does not await complete()): between the two   *)
(* `writer' is its request and `dirty' the table it will commit.  Writers  *)
(* and locking reads wait for `writer' to be Nobody.  That is exact for    *)
(* makeActive, which scans (so locks) every row and the end of the pin     *)
(* index; two uncommitted single-row writes of different rows, which InnoDB*)
(* lets overlap, commit the same tables in one order or the other.         *)
(***************************************************************************)
EXTENDS Integers

CONSTANTS
  Hackathons,       \* uids that a HACKATHON row has or may get
  FirstHackathon,   \* the hackathon that is active to begin with
  StoredAtStart,    \* the uids whose row exists to begin with
  Targets,          \* uids that POST /admin/hackathon/active requests name
  Editable,         \* uids that POST /admin/hackathon/update requests name
  Creatable,        \* uids that POST /admin/hackathon requests create
  GivenPins,        \* base pins an organiser may type in
  Reactivate,       \* may a request activate a hackathon a second time?
  Users,            \* users that register
  LookupPins,       \* relative pins that scanners look up
  Instances,        \* processes of the service
  Requests,         \* one value per HTTP request served
  Nobody            \* no request

ASSUME HackathonsAssumption ==
  /\ StoredAtStart \subseteq Hackathons
  /\ FirstHackathon \in StoredAtStart
  /\ Targets \subseteq Hackathons
  /\ Editable \subseteq Hackathons
  /\ Creatable \subseteq Hackathons

ASSUME InputsAssumption ==
  /\ GivenPins \subseteq Nat
  /\ LookupPins \subseteq Nat
  /\ Reactivate \in BOOLEAN
  /\ Nobody \notin Requests
  /\ Users # {}

VARIABLES
  table,                \* the committed HACKATHON rows
  dirty,                \* the rows once the executed write commits
  writer,               \* the request whose write is executed, uncommitted
  registration,         \* the REGISTRATION rows, by user and hackathon
  lastPin,              \* the AUTO_INCREMENT counter of REGISTRATION.pin
  lost,                 \* history: COMMITs on REGISTRATION that were lost
  opened,               \* history: hackathons that were ever active
  hackathonObservable,  \* per process: the request that created the memo
  outcome,              \* what the observable a request created replays
  cached,               \* per process: HACKATHON rows in the query cache
  pc,                   \* where each request's handler stands
  at,                   \* the process that serves it
  target,               \* the hackathon it is about
  who,                  \* the user it is about
  source,               \* the request whose observable it subscribed to
  row,                  \* the row an update will write
  asked                 \* the relative pin a lookup asks for

dbVars   == <<table, dirty, writer, opened>>
regVars  == <<registration, lastPin, lost>>
memoVars == <<hackathonObservable, outcome>>
argVars  == <<at, target, who, source, row, asked>>
vars     == <<dbVars, regVars, memoVars, cached, pc, argVars>>

NotGiven == -1

\* A HACKATHON row: the columns that control depends on.  `ended' says that
\* end_time is not NULL; pins are the absolute ones of REGISTRATION.
Row == [stored : BOOLEAN, active : BOOLEAN, basePin : Nat, ended : BOOLEAN]

AbsentRow == [stored |-> FALSE, active |-> FALSE, basePin |-> 0, ended |-> FALSE]

\* A REGISTRATION row; pin 0 stands for no row (AUTO_INCREMENT starts above 0).
Entry == [pin : Nat, submitted : BOOLEAN]

Outcome == [state : {"none", "running", "ready", "error"},
            uid : Hackathons, basePin : Nat]

\* An outcome that carries no hackathon.
Without(s) == [state |-> s, uid |-> FirstHackathon, basePin |-> 0]

NoOutcome == Without("none")

\* Who is registered where, and the pins in use.
Registered == {e \in Users \X Hackathons : registration[e].pin # 0}
Pins == {registration[e].pin : e \in Registered}

IsMaxPin(m) == m \in Pins /\ \A p \in Pins : p <= m

Settled == {"done", "found", "failed", "dead"}
Stages  == Settled \cup
           {"idle", "executed", "refreshed", "subscribed", "inserted",
            "submitting", "submitted", "looking", "fetched"}

TypeOK ==
  /\ table \in [Hackathons -> Row]
  /\ dirty \in [Hackathons -> Row]
  /\ writer \in Requests \cup {Nobody}
  /\ registration \in [Users \X Hackathons -> Entry]
  /\ lastPin \in Nat
  /\ lost \in SUBSET (Requests \X {"insert", "submit"})
  /\ opened \in SUBSET Hackathons
  /\ hackathonObservable \in [Instances -> Requests \cup {Nobody}]
  /\ outcome \in [Requests -> Outcome]
  /\ cached \in [Instances -> [Hackathons -> Row]]
  /\ pc \in [Requests -> Stages]
  /\ at \in [Requests -> Instances]
  /\ target \in [Requests -> Hackathons]
  /\ who \in [Requests -> Users]
  /\ source \in [Requests -> Requests]
  /\ row \in [Requests -> Row]
  /\ asked \in [Requests -> Nat]

-----------------------------------------------------------------------------
(***************************************************************************)
(* Initial state: one active hackathon without registrations, processes    *)
(* just started.                                                           *)
(***************************************************************************)
InitialRow(h) ==
  [stored |-> h \in StoredAtStart, active |-> h = FirstHackathon,
   basePin |-> 0, ended |-> FALSE]

Init ==
  /\ table = [h \in Hackathons |-> InitialRow(h)]
  /\ dirty = table
  /\ writer = Nobody
  /\ registration = [e \in Users \X Hackathons |-> [pin |-> 0, submitted |-> FALSE]]
  /\ lastPin = 0
  /\ lost = {}
  /\ opened = {FirstHackathon}
  /\ hackathonObservable = [i \in Instances |-> Nobody]
  /\ outcome = [r \in Requests |-> NoOutcome]
  /\ cached = [i \in Instances |-> [h \in Hackathons |-> AbsentRow]]
  /\ pc = [r \in Requests |-> "idle"]
  /\ at \in [Requests -> Instances]
  /\ target = [r \in Requests |-> FirstHackathon]
  /\ \E u \in Users : who = [r \in Requests |-> u]
  /\ source = [r \in Requests |-> r]
  /\ row = [r \in Requests |-> AbsentRow]
  /\ asked = [r \in Requests |-> 0]

Goto(r, stage) == pc' = [pc EXCEPT ![r] = stage]

-----------------------------------------------------------------------------
(***************************************************************************)
(* Transactions on HACKATHON.                                              *)
(***************************************************************************)

\* r's statement is executed: its effect is `rows', its COMMIT is under way.
ExecuteWrite(r, rows) ==
  /\ writer = Nobody
  /\ writer' = r
  /\ dirty' = rows
  /\ UNCHANGED <<table, opened>>

\* The server processes the COMMIT that complete() sent.
Commit ==
  /\ writer # Nobody
  /\ table' = dirty
  /\ opened' = opened \cup {h \in Hackathons : dirty[h].active}
  /\ writer' = Nobody
  /\ UNCHANGED <<dirty, regVars, memoVars, cached, pc, argVars>>

\* The connection is lost before the COMMIT is processed.  complete() ignores
\* the error, so nobody is told.
CommitLost ==
  /\ writer # Nobody
  /\ dirty' = table
  /\ writer' = Nobody
  /\ UNCHANGED <<table, opened, regVars, memoVars, cached, pc, argVars>>

-----------------------------------------------------------------------------
(***************************************************************************)
(* The activeHackathon getter.  The first access of a process creates the  *)
(* observable, which runs the query once and replays its outcome to every  *)
(* later subscriber; it is identified by the request that created it.      *)
(***************************************************************************)
Subscribe(r, i) ==
  IF hackathonObservable[i] = Nobody
  THEN /\ hackathonObservable' = [hackathonObservable EXCEPT ![i] = r]
       /\ outcome' = [outcome EXCEPT ![r] = Without("running")]
       /\ source' = [source EXCEPT ![r] = r]
  ELSE /\ source' = [source EXCEPT ![r] = hackathonObservable[i]]
       /\ UNCHANGED memoVars

\* SELECT ... WHERE active = true.
ActiveRowsDirty == {h \in Hackathons : dirty[h].active}  \* mutant: READ UNCOMMITTED
ActiveRows == {h \in Hackathons : table[h].active}

\* The query runs; hackathons[0] is any active row if there are several, and no
\* row is a 404, which shareReplay keeps as it keeps a value.
LoadActive(r) ==
  /\ outcome[r].state = "running"
  /\ \/ \E h \in ActiveRows : outcome' = [outcome EXCEPT ![r] =
          [state |-> "ready", uid |-> h, basePin |-> table[h].basePin]]
     \/ /\ ActiveRows = {}
        /\ outcome' = [outcome EXCEPT ![r] = Without("error")]
  /\ UNCHANGED <<dbVars, regVars, hackathonObservable, cached, pc, argVars>>

\* The query fails: no connection, a lost connection.
LoadFails(r) ==
  /\ outcome[r].state = "running"
  /\ outcome' = [outcome EXCEPT ![r] = Without("error")]
  /\ UNCHANGED <<dbVars, regVars, hackathonObservable, cached, pc, argVars>>

\* What a subscriber of r's source is given.
Given(r) == outcome[source[r]]

-----------------------------------------------------------------------------
(***************************************************************************)
(* POST /admin/hackathon/active                                            *)
(***************************************************************************)

\* UPDATE HACKATHON SET active = false, end_time = now WHERE active = true
Deactivated(old) ==
  [stored |-> old.stored, active |-> FALSE, basePin |-> old.basePin,
   ended |-> old.ended \/ old.active]

\* The rows after the two UPDATEs of makeActive(h), the second of which sets
\* base_pin to m; a uid without a row is not an error, it updates 0 rows.
\* Mutants: the first UPDATE is missing; it runs last; the pin is off by one.
ActivatedOnTop(h, m) ==
  [table EXCEPT ![h] = IF table[h].stored
                       THEN [@ EXCEPT !.active = TRUE, !.basePin = m] ELSE @]
ActivatedThenEnded(h, m) ==
  [k \in Hackathons |-> Deactivated(ActivatedOnTop(h, m)[k])]
ActivatedOffByOne(h, m) ==
  [k \in Hackathons |->
     IF k = h /\ table[h].stored
     THEN [Deactivated(table[h]) EXCEPT !.active = TRUE, !.basePin = m + 1]
     ELSE Deactivated(table[k])]
Activated(h, m) ==
  [k \in Hackathons |->
     IF k = h /\ table[h].stored
     THEN [stored |-> TRUE, active |-> TRUE, basePin |-> m,
           ended |-> Deactivated(table[h]).ended]
     ELSE Deactivated(table[k])]

MakeActive(r, h) ==
  /\ pc[r] = "idle"
  /\ Reactivate \/ h \notin opened
  /\ target' = [target EXCEPT ![r] = h]
  /\ \/ /\ \E m \in Pins : IsMaxPin(m) /\ ExecuteWrite(r, Activated(h, m))
        /\ Goto(r, "executed")
     \/ /\ Pins = {} /\ ~table[h].stored
        /\ ExecuteWrite(r, Activated(h, 0))
        /\ Goto(r, "executed")
     \/ \* The statements fail and are rolled back: base_pin is NOT NULL and
        \* there is no pin yet, a deadlock, a lost connection.
        /\ Goto(r, "failed")
        /\ UNCHANGED dbVars
  /\ UNCHANGED <<regVars, memoVars, cached, at, who, source, row, asked>>

\* switchMap: the process forgets its observable and subscribes to a new one,
\* whose query takes another connection of the pool.
RefreshObservable(r) ==
  /\ pc[r] = "executed"
  /\ hackathonObservable' = [hackathonObservable EXCEPT ![at[r]] = r]
  /\ outcome' = [outcome EXCEPT ![r] = Without("running")]
  /\ source' = [source EXCEPT ![r] = r]
  /\ Goto(r, "refreshed")
  /\ UNCHANGED <<dbVars, regVars, cached, at, target, who, row, asked>>

\* Mutant: the observable's error is dropped.
ReplyActivatedOnly(r) ==
  /\ pc[r] = "refreshed"
  /\ Given(r).state = "ready" /\ Goto(r, "done")
  /\ UNCHANGED <<dbVars, regVars, memoVars, cached, argVars>>

ReplyActivated(r) ==
  /\ pc[r] = "refreshed"
  /\ \/ Given(r).state = "ready" /\ Goto(r, "done")
     \/ Given(r).state = "error" /\ Goto(r, "failed")
  /\ UNCHANGED <<dbVars, regVars, memoVars, cached, argVars>>

-----------------------------------------------------------------------------
(***************************************************************************)
(* POST /admin/hackathon and POST /admin/hackathon/update                  *)
(***************************************************************************)

\* base_pin defaults to MAX(pin), which is NULL while there is none.
InsertedPinsAsGiven(given) == {given}  \* mutant: no default
InsertedPins(given) ==
  IF given = NotGiven THEN {m \in Pins : IsMaxPin(m)} ELSE {given}

InsertHackathon(r, h, given, ends) ==
  /\ pc[r] = "idle"
  /\ ~table[h].stored
  /\ target' = [target EXCEPT ![r] = h]
  /\ \/ \E m \in InsertedPins(given) :
          /\ ExecuteWrite(r, [table EXCEPT ![h] =
                 [stored |-> TRUE, active |-> FALSE, basePin |-> m, ended |-> ends]])
          /\ Goto(r, "done")
     \/ /\ Goto(r, "failed")
        /\ UNCHANGED dbVars
  /\ UNCHANGED <<regVars, memoVars, cached, at, who, source, row, asked>>

\* merge() keeps `active', and base_pin and end_time unless they are given (0
\* counts as not given).
Merged(old, given, ends) ==
  [stored |-> old.stored, active |-> old.active, ended |-> ends \/ old.ended,
   basePin |-> IF given > 0 THEN given ELSE old.basePin]

\* Without either end_time it merges parseInt(null), NaN, which MySQL refuses.
MergeableWithNull(old, ends) == old.stored  \* mutant: NULL is kept
Mergeable(old, ends) == old.stored /\ (ends \/ old.ended)

\* update() starts with get(id): the query cache of the process answers when it
\* holds the row, else the database does and the cache keeps the answer.
FetchRow(r, h, given, ends) ==
  LET i   == at[r]
      old == IF cached[i][h].stored THEN cached[i][h] ELSE table[h]
  IN /\ pc[r] = "idle"
     /\ target' = [target EXCEPT ![r] = h]
     /\ cached' = [cached EXCEPT ![i][h] = old]
     /\ \/ /\ Mergeable(old, ends)
           /\ row' = [row EXCEPT ![r] = Merged(old, given, ends)]
           /\ Goto(r, "fetched")
        \/ /\ ~Mergeable(old, ends)
           /\ Goto(r, "failed")
           /\ UNCHANGED row
     /\ UNCHANGED <<dbVars, regVars, memoVars, at, who, source, asked>>

\* ... and then every column of the merged row is written back.
WriteRow(r) ==
  /\ pc[r] = "fetched"
  /\ ExecuteWrite(r, [table EXCEPT ![target[r]] = row[r]])
  /\ Goto(r, "done")
  /\ UNCHANGED <<regVars, memoVars, cached, argVars>>

\* The query cache drops the row.
Evict(i, h) ==
  /\ cached[i][h].stored
  /\ cached' = [cached EXCEPT ![i][h] = AbsentRow]
  /\ UNCHANGED <<dbVars, regVars, memoVars, pc, argVars>>

-----------------------------------------------------------------------------
(***************************************************************************)
(* POST /users/register: insert, submit, send the email.                   *)
(***************************************************************************)
StartRegister(r, u) ==
  /\ pc[r] = "idle"
  /\ Subscribe(r, at[r])
  /\ who' = [who EXCEPT ![r] = u]
  /\ Goto(r, "subscribed")
  /\ UNCHANGED <<dbVars, regVars, cached, at, target, row, asked>>

\* INSERT INTO REGISTRATION with the hackathon the process remembers.  The pin
\* counter advances even when the key (uid, hackathon) is taken (409), and when
\* the COMMIT is lost: complete() ignores its error, and the handler goes on.
InsertRegistration(r) ==
  LET h == Given(r).uid
      e == <<who[r], h>>
  IN /\ pc[r] = "subscribed"
     /\ Given(r).state = "ready"
     /\ writer = Nobody
     /\ target' = [target EXCEPT ![r] = h]
     /\ lastPin' = lastPin + 1
     /\ \/ /\ e \notin Registered
           /\ registration' = [registration EXCEPT ![e] =
                                 [pin |-> lastPin + 1, submitted |-> FALSE]]
           /\ Goto(r, "inserted")
           /\ UNCHANGED lost
        \/ /\ e \notin Registered
           /\ lost' = lost \cup {<<r, "insert">>}
           /\ Goto(r, "inserted")
           /\ UNCHANGED registration
        \/ /\ e \in Registered
           /\ Goto(r, "failed")
           /\ UNCHANGED <<registration, lost>>
     /\ UNCHANGED <<dbVars, memoVars, cached, at, who, source, row, asked>>

\* submit() reads the observable of the process again ...
StartSubmit(r) ==
  /\ pc[r] = "inserted"
  /\ Subscribe(r, at[r])
  /\ Goto(r, "submitting")
  /\ UNCHANGED <<dbVars, regVars, cached, at, target, who, row, asked>>

\* ... and updates the row of that hackathon, if there is one and the COMMIT is
\* not lost; in each of these cases the caller is told that it succeeded.
SubmitHitsLast(e) == registration[e].pin = lastPin  \* mutant: LAST_INSERT_ID()
SubmitHits(e) == e \in Registered

Submit(r) ==
  LET e == <<who[r], Given(r).uid>>
  IN /\ pc[r] = "submitting"
     /\ Given(r).state = "ready"
     /\ \/ /\ SubmitHits(e)
           /\ registration' = [registration EXCEPT ![e] =
                                 [pin |-> registration[e].pin, submitted |-> TRUE]]
           /\ UNCHANGED lost
        \/ /\ ~SubmitHits(e)
           /\ UNCHANGED <<registration, lost>>
        \/ /\ lost' = lost \cup {<<r, "submit">>}
           /\ UNCHANGED registration
     /\ Goto(r, "submitted")
     /\ UNCHANGED <<dbVars, lastPin, memoVars, cached, argVars>>

\* The confirmation email is sent, or fails: then the request fails although
\* the user is registered.
SendRegistrationEmail(r) ==
  /\ pc[r] = "submitted"
  /\ Goto(r, "done") \/ Goto(r, "failed")
  /\ UNCHANGED <<dbVars, regVars, memoVars, cached, argVars>>

-----------------------------------------------------------------------------
(***************************************************************************)
(* GET /scanner/getpin                                                     *)
(***************************************************************************)
StartLookup(r, p) ==
  /\ pc[r] = "idle"
  /\ Subscribe(r, at[r])
  /\ asked' = [asked EXCEPT ![r] = p]
  /\ Goto(r, "looking")
  /\ UNCHANGED <<dbVars, regVars, cached, at, target, who, row>>

\* getByPin: hackathon and base_pin are the remembered ones.
GetByPin(r) ==
  LET g == Given(r)
      hits == {u \in Users : /\ <<u, g.uid>> \in Registered
                             /\ registration[<<u, g.uid>>].pin = g.basePin + asked[r]}
  IN /\ pc[r] = "looking"
     /\ g.state = "ready"
     /\ \/ /\ \E u \in hits : who' = [who EXCEPT ![r] = u]
           /\ Goto(r, "found")
        \/ /\ hits = {}
           /\ Goto(r, "failed")
           /\ UNCHANGED who
     /\ UNCHANGED <<dbVars, regVars, memoVars, cached, at, target, source, row, asked>>

-----------------------------------------------------------------------------
(***************************************************************************)
(* Failures.                                                               *)
(***************************************************************************)

\* A subscriber is handed the observable's error, or its own statement fails
\* (lost connection, deadlock victim) and is rolled back.
RequestFails(r) ==
  /\ \/ pc[r] = "fetched"
     \/ /\ pc[r] \in {"subscribed", "submitting", "looking"}
        /\ Given(r).state \in {"ready", "error"}
  /\ Goto(r, "failed")
  /\ UNCHANGED <<dbVars, regVars, memoVars, cached, argVars>>

\* A process is stopped and started again: its memory is gone, and so are the
\* requests it was serving.
Restart(i) ==
  /\ hackathonObservable' = [hackathonObservable EXCEPT ![i] = Nobody]
  /\ cached' = [cached EXCEPT ![i] = [h \in Hackathons |-> AbsentRow]]
  /\ outcome' = [r \in Requests |-> IF at[r] = i THEN NoOutcome ELSE outcome[r]]
  /\ pc' = [r \in Requests |->
              IF at[r] = i /\ pc[r] \notin Settled \cup {"idle"} THEN "dead" ELSE pc[r]]
  /\ UNCHANGED <<dbVars, regVars, argVars>>

-----------------------------------------------------------------------------
Serve(r) ==
  \/ \E h \in Targets : MakeActive(r, h)
  \/ \E h \in Creatable, given \in GivenPins \cup {NotGiven}, ends \in BOOLEAN :
        InsertHackathon(r, h, given, ends)
  \/ \E h \in Editable, given \in GivenPins \cup {NotGiven}, ends \in BOOLEAN :
        FetchRow(r, h, given, ends)
  \/ \E u \in Users : StartRegister(r, u)
  \/ \E p \in LookupPins : StartLookup(r, p)

Proceed(r) ==
  \/ RefreshObservable(r)
  \/ ReplyActivated(r)
  \/ WriteRow(r)
  \/ InsertRegistration(r)
  \/ StartSubmit(r)
  \/ Submit(r)
  \/ SendRegistrationEmail(r)
  \/ GetByPin(r)
  \/ RequestFails(r)
  \/ LoadActive(r)
  \/ LoadFails(r)

EndTransaction == Commit \/ CommitLost

Next ==
  \/ \E r \in Requests : Serve(r) \/ Proceed(r)
  \/ EndTransaction
  \/ \E i \in Instances, h \in Hackathons : Evict(i, h)
  \/ \E i \in Instances : Restart(i)

Spec == Init /\ [][Next]_vars

(***************************************************************************)
(* Fairness.  The event loop runs every continuation that is ready and the *)
(* server answers every statement, one way or another; nobody promises     *)
(* that requests arrive, that rows are evicted or that processes restart.  *)
(***************************************************************************)
FairSpec ==
  /\ Spec
  /\ \A r \in Requests : WF_vars(Proceed(r))
  /\ WF_vars(EndTransaction)

-----------------------------------------------------------------------------
(***************************************************************************)
(* Properties.                                                             *)
(***************************************************************************)

\* Two hackathons are never active at once, whatever activations overlap, fail,
\* lose their COMMIT or are cut off by a restart (makeActive's two statements
\* are one transaction).  Holds as long as nothing is edited.
AtMostOneActive ==
  \A g, h \in Hackathons : table[g].active /\ table[h].active => g = h

\* ... and one is active at any time, if activations name existing hackathons:
\* no reader ever sees the gap between makeActive's two statements.
SomeHackathonActive == \E h \in Hackathons : table[h].active

\* The pin that a user shows at the desk is relative to base_pin: it is
\* positive for every registration, in whatever order hackathons are created,
\* edited and activated by whichever process, if no hackathon is activated twice
\* and no base pin is typed in.
PinsAboveBase ==
  \A e \in Registered : table[e[2]].basePin < registration[e].pin

\* Nobody is registered for a hackathon that was never active, even by a process
\* whose remembered hackathon is out of date.
OnlyOpenedHackathons == \A e \in Registered : e[2] \in opened

\* The confirmation email goes out for a row that is not stored only if the
\* COMMIT of its INSERT was lost, and for one that is not marked as submitted only
\* if one of the two COMMITs was lost or the process was given another active
\* hackathon in between: whoever else registers, activates or restarts does not
\* make it wrong.  (RegistrationProcessor.processRegistration)
MailedIsSubmitted ==
  \A r \in Requests : pc[r] = "submitted" =>
     LET e == <<who[r], target[r]>>
     IN /\ e \in Registered \/ <<r, "insert">> \in lost
        /\ \/ e \in Registered /\ registration[e].submitted
           \/ \E s \in {"insert", "submit"} : <<r, s>> \in lost
           \/ Given(r).uid # target[r]

\* A hackathon that stops being active has an end time from then on, whether
\* makeActive ended it or an edit wrote a stale row over it.
EndedWhenReplaced ==
  [][\A h \in Hackathons :
        table[h].active /\ ~table'[h].active => table'[h].ended]_vars

\* Every request is answered, or dies with its process: nobody waits for ever
\* for an observable or for a lock.
RequestsSettle == \A r \in Requests : pc[r] # "idle" ~> pc[r] \in Settled

(***************************************************************************)
(* What organisers are promised: see HackathonLifecycle.                   *)
(***************************************************************************)
Lifecycle == INSTANCE HackathonLifecycle WITH
  current <- {h \in Hackathons : table[h].active},
  roster  <- Registered

\* The implementation, with its processes, memos and lost commits, is one
\* shared board on which a single hackathon is current.
ImplementsLifecycle == Lifecycle!Spec

=============================================================================
