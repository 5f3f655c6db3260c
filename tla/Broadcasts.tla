----------------------------- MODULE Broadcasts -----------------------------
(***************************************************************************)
(* What organisers send out: emails, which are sent and then recorded, and *)
(* live updates, which are recorded and then announced.  An update is known *)
(* by the request that posted it, for its uid is new.                       *)
(***************************************************************************)
EXTENDS Naturals

CONSTANTS
  Requests,    \* one value per HTTP request served
  Instances,   \* the processes of the service
  Recipients,  \* addresses in the bodies of POST /admin/email
  Malformed,   \* those that the schema refuses
  Hackathons,
  First, Second\* the hackathon that is active, and the one activated after it

ASSUME BroadcastsAssumption ==
  /\ Malformed \subseteq Recipients
  /\ {First, Second} \subseteq Hackathons

VARIABLES
  mailed,      \* SendGrid: the emails on their way, <<request, recipient>>
  history,     \* table EMAIL_HISTORY
  updates,     \* realtime database: the keys of the updates
  announced,   \* OneSignal: the updates pushed to phones
  current,     \* per process: the active hackathon it remembers
  pc,          \* where a request's handler stands
  reply,       \* the status it answered; 0: none yet
  served,      \* the process that serves it
  to,          \* the recipients of a mailing
  left,        \* those whose email is being sent
  successful,  \* successfulEmails
  push,        \* pushNotification
  target       \* the key of the update to set or remove

world    == <<mailed, history, updates, announced, current>>
mailing  == <<to, left, successful>>
posting  == <<push, target>>
vars     == <<world, pc, reply, served, mailing, posting>>

NoKey == <<>>
Keys  == Hackathons \X Requests
Row   == [request : Requests, recipient : Recipients, status : {"200", "207", "validation failed"}]

\* The stages at which a handler awaits something, but for "send" and "record".
OfUpdates == {"post", "set", "notify", "locate", "remove", "read"}

TypeOK ==
  /\ mailed \in SUBSET (Requests \X Recipients)
  /\ history \in SUBSET Row
  /\ updates \in SUBSET Keys
  /\ announced \in SUBSET Requests
  /\ current \in [Instances -> Hackathons]
  /\ pc \in [Requests -> OfUpdates \cup {"idle", "send", "record", "answered"}]
  /\ reply \in [Requests -> {0, 200, 207, 400, 500, 501}]
  /\ served \in [Requests -> Instances]
  /\ to \in [Requests -> SUBSET Recipients]
  /\ left \in [Requests -> SUBSET Recipients]
  /\ successful \in [Requests -> SUBSET Recipients]
  /\ push \in [Requests -> BOOLEAN]
  /\ target \in [Requests -> Keys \cup {NoKey}]

Init ==
  /\ mailed = {}
  /\ history = {}
  /\ updates = {}
  /\ announced = {}
  /\ current = [i \in Instances |-> First]
  /\ pc = [r \in Requests |-> "idle"]
  /\ reply = [r \in Requests |-> 0]
  /\ served \in [Requests -> Instances]
  /\ to = [r \in Requests |-> {}]
  /\ left = [r \in Requests |-> {}]
  /\ successful = [r \in Requests |-> {}]
  /\ push = [r \in Requests |-> FALSE]
  /\ target = [r \in Requests |-> NoKey]

Goto(r, stage) == pc' = [pc EXCEPT ![r] = stage]

Answer(r, status) ==
  /\ Goto(r, "answered")
  /\ reply' = [reply EXCEPT ![r] = status]

\* A process activates a hackathon, or loads the active one anew (ActiveHackathon).
Remember(i) ==
  /\ current[i] # Second
  /\ current' = [current EXCEPT ![i] = Second]
  /\ UNCHANGED <<mailed, history, updates, announced, pc, reply, served, mailing, posting>>

-----------------------------------------------------------------------------
(***************************************************************************)
(* POST /admin/email.                                                      *)
(***************************************************************************)

\* validateEmails: those that the schema refuses, and those that it lets through.
BadEmails(list)  == list \cap Malformed
GoodEmails(list) == list \ Malformed

\* Something is missing from the body, or no email is good: 400.
SendEmailHandler(r, list) ==
  /\ pc[r] = "idle"
  /\ to' = [to EXCEPT ![r] = list]
  /\ \/ Answer(r, 400) /\ UNCHANGED left
     \/ /\ GoodEmails(list) # {}
        /\ left' = [left EXCEPT ![r] = GoodEmails(list)]
        /\ Goto(r, "send") /\ UNCHANGED reply
  /\ UNCHANGED <<world, served, successful, posting>>

\* Mutant: nothing is awaited.
SentUnawaited(r, x) ==
  /\ successful' = [successful EXCEPT ![r] = @ \cup {x}]
  /\ mailed' = mailed \cup {<<r, x>>} \/ UNCHANGED mailed

\* One of the emails, all under way together: it cannot be put together, SendGrid
\* refuses it, accepts it, or accepts it and its answer is lost.  A failure is that
\* of a good email which is no longer under way and not successful.
Sent(r, x) ==
  \/ /\ mailed' = mailed \cup {<<r, x>>}
     /\ successful' = [successful EXCEPT ![r] = @ \cup {x}] \/ UNCHANGED successful
  \/ UNCHANGED <<mailed, successful>>

SendEmail(r, x) ==
  /\ pc[r] = "send" /\ x \in left[r]
  /\ Sent(r, x)
  /\ left' = [left EXCEPT ![r] = @ \ {x}]
  /\ UNCHANGED <<history, updates, announced, current, pc, reply, served, to, posting>>

FailedEmails(r)  == GoodEmails(to[r]) \ (left[r] \cup successful[r])
TotalFailures(r) == BadEmails(to[r]) \cup FailedEmails(r)

\* Mutant: Promise.all gives up when one has failed.
AllSucceeded(r) == left[r] = {} /\ FailedEmails(r) = {}

\* Promise.all of what never rejects.
AllDone(r) == left[r] = {}

SendEmails(r) ==
  /\ pc[r] = "send" /\ AllDone(r)
  /\ \/ successful[r] = {} /\ Answer(r, 500)
     \/ successful[r] # {} /\ Goto(r, "record") /\ UNCHANGED reply
  /\ UNCHANGED <<world, served, mailing, posting>>

RowsOf(r, list, status) ==
  {[request |-> r, recipient |-> x, status |-> status] : x \in list}

\* Mutant: those that were refused at first are forgotten.
RowsOfGood(r) ==
  RowsOf(r, successful[r], "200") \cup RowsOf(r, FailedEmails(r), "207")

\* What is recorded of a mailing.
Rows(r) ==
  RowsOf(r, successful[r], "200") \cup RowsOf(r, FailedEmails(r), "207")
    \cup RowsOf(r, BadEmails(to[r]), "validation failed")

\* One INSERT, whose COMMIT may be lost (MysqlUow).  It fails, among other reasons,
\* for a row without a name, or of a status that the column does not know; sqlErrorHandler
\* makes a 400 of what it takes for the client's mistake.
AddEmailHistory(r) ==
  /\ pc[r] = "record"
  /\ \/ /\ history' = history \cup Rows(r) \/ UNCHANGED history
        /\ Answer(r, IF TotalFailures(r) = {} THEN 200 ELSE 207)
     \/ \E status \in {400, 500} : Answer(r, status) /\ UNCHANGED history
  /\ UNCHANGED <<mailed, updates, announced, current, served, mailing, posting>>

-----------------------------------------------------------------------------
(***************************************************************************)
(* /live/updates.                                                          *)
(***************************************************************************)

\* Title or text are missing, or the schema refuses them; the latter is taken for
\* an error of the server.
PostUpdateHandler(r, notify) ==
  /\ pc[r] = "idle"
  /\ push' = [push EXCEPT ![r] = notify]
  /\ \/ Answer(r, 400) \/ Answer(r, 500)
     \/ Goto(r, "post") /\ UNCHANGED reply
  /\ UNCHANGED <<world, served, mailing, target>>

\* Mutant: the uid goes first.
SwappedReference(r) == <<r, current[served[r]]>>

\* The place of a new update in the database.
Reference(r) == <<current[served[r]], r>>

\* The process knows its active hackathon; the transaction is sent.
ChooseReference(r) ==
  /\ pc[r] = "post"
  /\ target' = [target EXCEPT ![r] = Reference(r)]
  /\ Goto(r, "set")
  /\ UNCHANGED <<world, reply, served, mailing, push>>

\* Mutant: the push does not wait for the database.
SetWithPush(r) ==
  /\ pc[r] = "set"
  /\ announced' = IF push[r] THEN announced \cup {r} ELSE announced
  /\ \/ updates' = updates \cup {target[r]} /\ Answer(r, 200)
     \/ UNCHANGED updates /\ Answer(r, 500)
  /\ UNCHANGED <<mailed, history, current, served, mailing, posting>>

\* The transaction is done.
Set(r) ==
  /\ pc[r] = "set"
  /\ updates' = updates \cup {target[r]}
  /\ \/ push[r] /\ Goto(r, "notify") /\ UNCHANGED reply
     \/ ~push[r] /\ Answer(r, 200)
  /\ UNCHANGED <<mailed, history, announced, current, served, mailing, posting>>

\* A push that fails is logged, and one whose request fails counts as sent.
SendNotification(r) ==
  /\ pc[r] = "notify"
  /\ announced' = announced \cup {r} \/ UNCHANGED announced
  /\ Answer(r, 200)
  /\ UNCHANGED <<mailed, history, updates, current, served, mailing, posting>>

\* The uid of an update that somebody has seen: with its hackathon or without.
DeleteUpdateHandler(r, k, named) ==
  /\ pc[r] = "idle"
  /\ k \in updates
  /\ \/ /\ target' = [target EXCEPT ![r] = k]
        /\ Goto(r, IF named THEN "remove" ELSE "locate")
        /\ UNCHANGED reply
     \/ Answer(r, 400) /\ UNCHANGED target
  /\ UNCHANGED <<world, served, mailing, push>>

\* The default is the active hackathon, whichever one the update was posted in.
ChooseHackathon(r) ==
  /\ pc[r] = "locate"
  /\ target' = [target EXCEPT ![r] = <<current[served[r]], target[r][2]>>]
  /\ Goto(r, "remove")
  /\ UNCHANGED <<world, reply, served, mailing, push>>

\* It is a success too if nothing is there.
Remove(r) ==
  /\ pc[r] = "remove"
  /\ updates' = updates \ {target[r]}
  /\ Answer(r, 200)
  /\ UNCHANGED <<mailed, history, announced, current, served, mailing, posting>>

\* The updates, or the reference at which clients listen for them.
GetUpdateHandler(r) ==
  /\ pc[r] = "idle"
  /\ Goto(r, "read")
  /\ UNCHANGED <<world, reply, served, mailing, posting>>

GetAll(r) ==
  /\ pc[r] = "read"
  /\ Answer(r, 200)
  /\ UNCHANGED <<world, served, mailing, posting>>

UpdateUpdateHandler(r) ==
  /\ pc[r] = "idle"
  /\ Answer(r, 501)
  /\ UNCHANGED <<world, served, mailing, posting>>

\* The active hackathon cannot be loaded, or the database refuses.
Fail(r) ==
  /\ pc[r] \in OfUpdates \ {"notify"}
  /\ Answer(r, 500)
  /\ UNCHANGED <<world, served, mailing, posting>>

-----------------------------------------------------------------------------
Start(r) ==
  \/ \E list \in SUBSET Recipients : SendEmailHandler(r, list)
  \/ \E b \in BOOLEAN : PostUpdateHandler(r, b) \/ \E k \in updates : DeleteUpdateHandler(r, k, b)
  \/ GetUpdateHandler(r) \/ UpdateUpdateHandler(r)

Proceed(r) ==
  \/ SendEmails(r) \/ AddEmailHistory(r)
  \/ ChooseReference(r) \/ Set(r) \/ SendNotification(r)
  \/ ChooseHackathon(r) \/ Remove(r) \/ GetAll(r) \/ Fail(r)

\* Every request that the instance allows has been made.
AllServed == (\A r \in Requests : pc[r] = "answered") /\ UNCHANGED vars

Next ==
  \/ \E r \in Requests :
       Start(r) \/ Proceed(r) \/ \E x \in Recipients : SendEmail(r, x)
  \/ \E i \in Instances : Remember(i)
  \/ AllServed

Spec == Init /\ [][Next]_vars

\* SendGrid, Firebase, OneSignal and MySQL answer, or the connection to them breaks.
FairSpec ==
  /\ Spec
  /\ \A r \in Requests :
       WF_vars(Proceed(r)) /\ \A x \in Recipients : WF_vars(SendEmail(r, x))

-----------------------------------------------------------------------------
Rejected(r) == reply[r] >= 400

\* What is recorded of a mailing is recorded of all of it, and nothing if the sender
\* is told of an error: sending the rest again by the history leaves nobody out.
\* (AdminProcessor.sendEmails, AdminDataMapperImpl.addEmailHistory)
RecordedTogether ==
  \A r \in Requests : LET rows == {row \in history : row.request = r} IN
    rows # {} => ~Rejected(r) /\ {row.recipient : row \in rows} = to[r]

\* Whom an answer calls successful has been sent the email, everyone at a 200 and
\* somebody at a 207, and after either of them none is sent any more: although they are
\* sent all at once and finish in any order.  An error says nothing of that, a 400 not
\* either, for the history is only written afterwards.  (AdminDataMapperImpl.sendEmails)
AnswerNamesSent ==
  \A r \in Requests : \A x \in Recipients :
    /\ x \in successful[r] => <<r, x>> \in mailed
    /\ reply[r] = 200 /\ x \in to[r] => <<r, x>> \in mailed
    /\ reply[r] \in {200, 207} /\ x \in to[r] =>
         left[r] = {} /\ \E y \in to[r] : <<r, y>> \in mailed

\* An update that is announced, or whose sender is told of success, is there unless
\* somebody deleted it; one whose sender is told of an error is neither there nor
\* announced, and may be posted again.  (UpdateProcessor.processUpdate)
PostedOrRefused ==
  \A r \in Requests :
    LET keys == {k \in Keys : k[2] = r} IN
    /\ r \in announced \/ (reply[r] = 200 /\ target[r] \in keys) =>
         \E k \in keys : k \in updates \/ \E d \in Requests \ {r} : target[d] = k
    /\ Rejected(r) => r \notin announced /\ keys \cap updates = {}

\* Every request is answered, whichever emails fail.
RequestsSettle ==
  \A r \in Requests : pc[r] \notin {"idle", "answered"} ~> pc[r] = "answered"
=============================================================================
