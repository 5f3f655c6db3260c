---------------------------- MODULE Participants ----------------------------
(***************************************************************************)
(* A participant's registration after and beside its pin (ActiveHackathon): *)
(* the resume that is uploaded with it, its columns, and the updates that   *)
(* organisers make from a copy which may come from the query cache.         *)
(*                                                                         *)
(* A column holds the request that wrote it, Nobody if it dates from before *)
(* or is NULL.  One column stands for those of its kind: `major' for what a *)
(* form gives or leaves undefined, `allergies' for what the constructor     *)
(* turns into null instead, `travel' for the flags that are normalised.     *)
(* A key is a pair of a user and a hackathon; files are named by such pairs *)
(* too.  The resume of a row is the URL of a file, or a text that a body    *)
(* gave in its place, whatever it says: as the other columns, the text is   *)
(* the request that gave it.                                               *)
(***************************************************************************)
EXTENDS Naturals

CONSTANTS
  Requests,   \* one value per HTTP request served
  Instances,  \* the processes of the service
  Users, Hackathons,
  Before,     \* the keys of the rows there are to begin with
  First, Second,\* the hackathon that is active, and the one activated after it
  Forms,      \* bodies of registrations: [uid, file, resume (a text), valid]
  Updates,    \* what updates give: sets of columns
  Lookups,    \* keys that organisers look up or update
  Nobody      \* no request

Keys    == Users \X Hackathons
Columns == {"major", "allergies", "travel", "submitted", "time", "resume"}

ASSUME ParticipantsAssumption ==
  /\ Before \subseteq Keys /\ Lookups \subseteq Keys
  /\ {First, Second} \subseteq Hackathons
  /\ Users # {} /\ Forms # {}
  /\ Forms \subseteq [uid : Users, file : BOOLEAN, resume : BOOLEAN, valid : BOOLEAN]
  /\ Updates \subseteq SUBSET Columns
  /\ Nobody \notin Requests

VARIABLES
  rows,      \* table REGISTRATION
  files,     \* the bucket of resumes: the names that are stored
  current,   \* per process: the active hackathon it remembers
  cache,     \* per process: the rows that RegisterDataMapperImpl.get has cached
  pc,        \* where a request's handler stands
  reply,     \* the status it answered; 0: none yet
  served,    \* the process that serves it
  me,        \* the user whose ID token it carries
  form,      \* the body of a registration
  upload,    \* the name under which its file is uploaded
  resume,    \* the resume that its row gets
  target,    \* the key of the row that it writes
  posted,    \* the columns that an update gives
  base,      \* the row that an update merges them into
  todo       \* the hackathons that a user's own listing has yet to read

stores   == <<rows, files, current, cache>>
request  == <<served, me, form, posted>>
progress == <<upload, resume, target, base, todo>>
vars     == <<stores, pc, reply, request, progress>>

NoRow  == [major |-> "none"]
NoFile == <<>>
NoKey  == <<>>
Resumes == Keys \cup Requests \cup {NoFile}
Row    == [major : Requests \cup {Nobody}, allergies : Requests \cup {Nobody},
           travel : BOOLEAN, submitted : BOOLEAN, resume : Resumes]

\* Once here, a handler is in its try block, or in code that passes its errors on.
Tried  == {"upload", "validate", "insert", "submit", "mail", "read", "write", "look", "list"}
Stages == Tried \cup {"idle", "url", "locate", "unanswered", "answered"}

TypeOK ==
  /\ rows \in [Keys -> Row \cup {NoRow}]
  /\ files \in SUBSET Keys
  /\ current \in [Instances -> Hackathons]
  /\ cache \in [Instances -> [Keys -> Row \cup {NoRow}]]
  /\ pc \in [Requests -> Stages]
  /\ reply \in [Requests -> {0, 200, 400, 404, 409, 500}]
  /\ served \in [Requests -> Instances]
  /\ me \in [Requests -> Users]
  /\ form \in [Requests -> Forms]
  /\ upload \in [Requests -> Keys \cup {NoFile}]
  /\ resume \in [Requests -> Resumes]
  /\ target \in [Requests -> Keys \cup {NoKey}]
  /\ posted \in [Requests -> SUBSET Columns]
  /\ base \in [Requests -> Row \cup {NoRow}]
  /\ todo \in [Requests -> SUBSET Hackathons]

OldRow == [major |-> Nobody, allergies |-> Nobody, travel |-> FALSE,
           submitted |-> TRUE, resume |-> NoFile]

Init ==
  /\ rows = [k \in Keys |-> IF k \in Before THEN OldRow ELSE NoRow]
  /\ files = {}
  /\ current = [i \in Instances |-> First]
  /\ cache = [i \in Instances |-> [k \in Keys |-> NoRow]]
  /\ pc = [r \in Requests |-> "idle"]
  /\ reply = [r \in Requests |-> 0]
  /\ served \in [Requests -> Instances]
  /\ me = [r \in Requests |-> CHOOSE u \in Users : TRUE]
  /\ form = [r \in Requests |-> CHOOSE f \in Forms : TRUE]
  /\ upload = [r \in Requests |-> NoFile]
  /\ resume = [r \in Requests |-> NoFile]
  /\ target = [r \in Requests |-> NoKey]
  /\ posted = [r \in Requests |-> {}]
  /\ base = [r \in Requests |-> NoRow]
  /\ todo = [r \in Requests |-> {}]

Goto(r, stage) == pc' = [pc EXCEPT ![r] = stage]

Answer(r, status) ==
  /\ Goto(r, "answered")
  /\ reply' = [reply EXCEPT ![r] = status]

\* A process activates a hackathon, or loads the active one anew (ActiveHackathon).
Remember(i) ==
  /\ current[i] # Second
  /\ current' = [current EXCEPT ![i] = Second]
  /\ UNCHANGED <<rows, files, cache, pc, reply, request, progress>>

\* The cache drops a row to make room.
Evict(i, k) ==
  /\ cache[i][k] # NoRow
  /\ cache' = [cache EXCEPT ![i] = [@ EXCEPT ![k] = NoRow]]
  /\ UNCHANGED <<rows, files, current, pc, reply, request, progress>>

-----------------------------------------------------------------------------
(***************************************************************************)
(* POST /users/register.                                                   *)
(***************************************************************************)

\* generateFileName: for a user, and the hackathon that is active by now.
FileName(r, user) == <<user, current[served[r]]>>

\* The file is named for the uid that the form gives.
UploadName(r, f) == FileName(r, f.uid)

\* The upload comes before anything else.  A form whose fields do not precede its
\* file, or a file that is not a PDF, is refused, or the latter ignored.
StartRegister(r, user, f) ==
  /\ pc[r] = "idle"
  /\ me' = [me EXCEPT ![r] = user]
  /\ form' = [form EXCEPT ![r] = f]
  /\ \/ /\ f.file /\ Goto(r, "upload") /\ UNCHANGED reply
        /\ upload' = [upload EXCEPT ![r] = UploadName(r, f)]
     \/ f.file /\ Answer(r, 400) /\ UNCHANGED upload
     \/ Goto(r, "validate") /\ UNCHANGED <<reply, upload>>
  /\ UNCHANGED <<stores, served, posted, resume, target, base, todo>>

\* _handleFile: the stream ends and the file is there, in place of any of its name.
FinishUpload(r) ==
  /\ pc[r] = "upload"
  /\ files' = files \cup {upload[r]}
  /\ Goto(r, "validate")
  /\ UNCHANGED <<rows, current, cache, reply, request, progress>>

ValidateRegistrationFields(r) == form[r].valid

\* The user of the token goes in the place of the one in the body.
ValidateRegistrationFieldsMiddleware(r) ==
  /\ pc[r] = "validate"
  /\ \/ ValidateRegistrationFields(r) /\ Goto(r, "url") /\ UNCHANGED reply
     \/ ~ValidateRegistrationFields(r) /\ Answer(r, 400)
  /\ UNCHANGED <<stores, request, progress>>

\* Mutant: the name of the file is taken as it was when it was uploaded.
UploadedUrl(r) == upload[r]

\* registrationHandler names the file again.
FileUrl(r) == FileName(r, me[r])

\* The text that the body gives for a resume, if any.
GivenResume(r) == IF form[r].resume THEN r ELSE NoFile

\* The URL takes the place of such a text only if a file was uploaded.  If the active
\* hackathon cannot be loaded, no one catches the error.
RegistrationHandler(r) ==
  /\ pc[r] = "url"
  /\ \/ /\ resume' = [resume EXCEPT ![r] = IF upload[r] = NoFile THEN GivenResume(r) ELSE FileUrl(r)]
        /\ Goto(r, "insert")
     \/ upload[r] # NoFile /\ Goto(r, "unanswered") /\ UNCHANGED resume
  /\ UNCHANGED <<stores, reply, request, upload, target, base, todo>>

\* Mutant: the uid is stored in the wrong column.
ShiftedRow(r) == [major |-> r, allergies |-> me[r], travel |-> FALSE, submitted |-> FALSE,
                  resume |-> resume[r]]

\* What a form gives, its flags normalised, and the default of `submitted'.
NewRow(r) == [major |-> r, allergies |-> r, travel |-> FALSE, submitted |-> FALSE,
              resume |-> resume[r]]

\* A statement is executed: its effect is committed, or its COMMIT is lost (MysqlUow).
Execute(k, row) == rows' = [rows EXCEPT ![k] = row] \/ UNCHANGED rows

\* The primary key is the user and the hackathon.
IsFree(k) == rows[k] = NoRow

Insert(r) ==
  LET k == <<me[r], current[served[r]]>> IN
  /\ pc[r] = "insert"
  /\ \/ /\ IsFree(k)
        /\ Execute(k, NewRow(r))
        /\ target' = [target EXCEPT ![r] = k]
        /\ Goto(r, "submit") /\ UNCHANGED reply
     \/ ~IsFree(k) /\ Answer(r, 409) /\ UNCHANGED <<rows, target>>
     \/ Answer(r, 400) /\ UNCHANGED <<rows, target>>     \* the schema
  /\ UNCHANGED <<files, current, cache, request, upload, resume, base, todo>>

\* In the hackathon that is active by now, whether or not there is such a row.
Submit(r) ==
  LET k == <<me[r], current[served[r]]>> IN
  /\ pc[r] = "submit"
  /\ IF rows[k] = NoRow THEN UNCHANGED rows
     ELSE Execute(k, [rows[k] EXCEPT !.submitted = TRUE])
  /\ Goto(r, "mail")
  /\ UNCHANGED <<files, current, cache, reply, request, progress>>

SendRegistrationEmail(r) ==
  /\ pc[r] = "mail"
  /\ Answer(r, 200)
  /\ UNCHANGED <<stores, request, progress>>

-----------------------------------------------------------------------------
(***************************************************************************)
(* Reading a registration, through the cache.                              *)
(***************************************************************************)

\* Mutant: the key of the cache leaves out the hackathon.
CachedOfUser(i, k) ==
  {cache[i][j] : j \in {j \in Keys : j[1] = k[1] /\ cache[i][j] # NoRow}}

\* What the cache holds for the query of key k: one row or none.
Cached(i, k) == {cache[i][j] : j \in {j \in {k} : cache[i][j] # NoRow}}

\* get: `row' is what the cache has, or else the table; what the table has is
\* cached, even by a reader that ignores the cache.
Get(i, k, row, ignoreCache) ==
  \/ ~ignoreCache /\ row \in Cached(i, k) /\ UNCHANGED cache
  \/ /\ ignoreCache \/ Cached(i, k) = {}
     /\ row = rows[k]
     /\ cache' = IF row = NoRow THEN cache ELSE [cache EXCEPT ![i] = [@ EXCEPT ![k] = row]]

\* GET /admin/register?uid=, with a hackathon or in the active one.
StartLookup(r, k) ==
  /\ pc[r] = "idle"
  /\ target' = [target EXCEPT ![r] = k]
  /\ Goto(r, "locate")
  /\ UNCHANGED <<stores, reply, request, upload, resume, base, todo>>

\* getRegistrationHandler loads the active hackathon and the uid of an email
\* address, and no one catches the error of either.
Locate(r) ==
  /\ pc[r] = "locate"
  /\ \E stage \in {"look", "unanswered"} : Goto(r, stage)
  /\ UNCHANGED <<stores, reply, request, progress>>

Look(r) ==
  /\ pc[r] = "look"
  /\ \E row \in Cached(served[r], target[r]) \cup {rows[target[r]]} :
       /\ Get(served[r], target[r], row, FALSE)
       /\ Answer(r, IF row = NoRow THEN 404 ELSE 200)
  /\ UNCHANGED <<rows, files, current, request, progress>>

\* GET /users/register: a query for each hackathon, those that fail left out.
StartGetAllRegistrations(r, user) ==
  /\ pc[r] = "idle"
  /\ me' = [me EXCEPT ![r] = user]
  /\ todo' = [todo EXCEPT ![r] = Hackathons]
  /\ Goto(r, "list")
  /\ UNCHANGED <<stores, reply, served, form, posted, upload, resume, target, base>>

GetAllRegistrationsByUser(r, h) ==
  /\ pc[r] = "list" /\ h \in todo[r]
  /\ \/ \E row \in Cached(served[r], <<me[r], h>>) \cup {rows[<<me[r], h>>]},
           ignoreCache \in BOOLEAN : Get(served[r], <<me[r], h>>, row, ignoreCache)
     \/ UNCHANGED cache
  /\ todo' = [todo EXCEPT ![r] = @ \ {h}]
  /\ \/ todo[r] = {h} /\ Answer(r, 200)
     \/ todo[r] # {h} /\ UNCHANGED <<pc, reply>>
  /\ UNCHANGED <<rows, files, current, request, upload, resume, target, base>>

-----------------------------------------------------------------------------
(***************************************************************************)
(* POST /admin/register/update.                                            *)
(***************************************************************************)
StartUpdate(r, k, columns) ==
  /\ pc[r] = "idle"
  /\ target' = [target EXCEPT ![r] = k]
  /\ posted' = [posted EXCEPT ![r] = columns]
  /\ \/ Goto(r, "read") /\ UNCHANGED reply
     \/ Answer(r, 400)          \* no registration, uid or hackathon in the body
  /\ UNCHANGED <<stores, served, me, form, upload, resume, base, todo>>

\* validate: the time of a stored row is a string, which the schema refuses.
Validates(r) == "time" \in posted[r]

ReadForUpdate(r) ==
  /\ pc[r] = "read"
  /\ \E row \in Cached(served[r], target[r]) \cup {rows[target[r]]} :
       /\ Get(served[r], target[r], row, FALSE)
       /\ base' = [base EXCEPT ![r] = row]
       /\ \/ row # NoRow /\ Validates(r) /\ Goto(r, "write") /\ UNCHANGED reply
          \/ row # NoRow /\ ~Validates(r) /\ Answer(r, 400)
          \/ row = NoRow /\ Answer(r, 404)
  /\ UNCHANGED <<rows, files, current, request, upload, resume, target, todo>>

\* merge(), then dbRepresentation over `row', the stored one: a column that is not
\* given is written back as it was read, and one that is null not written.
Merged(r, row) ==
  [major     |-> IF "major" \in posted[r] THEN r ELSE base[r].major,
   allergies |-> IF "allergies" \in posted[r] THEN r ELSE row.allergies,
   travel    |-> "travel" \in posted[r],
   submitted |-> "submitted" \in posted[r] \/ base[r].submitted,
   resume    |-> CASE "resume" \in posted[r]    -> r
                   [] base[r].resume # NoFile -> base[r].resume
                   [] OTHER                   -> row.resume]

Update(r) ==
  LET k == target[r] IN
  /\ pc[r] = "write"
  /\ IF rows[k] = NoRow THEN UNCHANGED rows ELSE Execute(k, Merged(r, rows[k]))
  /\ Answer(r, 200)
  /\ UNCHANGED <<files, current, cache, request, progress>>

-----------------------------------------------------------------------------
\* What a handler waits for fails; the error becomes an answer.
Fail(r) ==
  /\ pc[r] \in Tried
  /\ Answer(r, 500)
  /\ UNCHANGED <<stores, request, progress>>

Start(r) ==
  \/ \E user \in Users, f \in Forms : StartRegister(r, user, f)
  \/ \E user \in Users : StartGetAllRegistrations(r, user)
  \/ \E k \in Lookups : StartLookup(r, k) \/ \E columns \in Updates : StartUpdate(r, k, columns)

Proceed(r) ==
  \/ FinishUpload(r) \/ ValidateRegistrationFieldsMiddleware(r) \/ RegistrationHandler(r)
  \/ Insert(r) \/ Submit(r) \/ SendRegistrationEmail(r)
  \/ Locate(r) \/ Look(r) \/ ReadForUpdate(r) \/ Update(r)
  \/ \E h \in Hackathons : GetAllRegistrationsByUser(r, h)
  \/ Fail(r)

\* Every request that the instance allows has been made.
AllServed == (\A r \in Requests : pc[r] \in {"answered", "unanswered"}) /\ UNCHANGED vars

Next ==
  \/ \E r \in Requests : Start(r) \/ Proceed(r)
  \/ \E i \in Instances : Remember(i) \/ \E k \in Keys : Evict(i, k)
  \/ AllServed

Spec == Init /\ [][Next]_vars

-----------------------------------------------------------------------------
\* A stored resume is the URL of a file named for the registered user, although the
\* file was uploaded under the uid that the form gave, before the token's took its
\* place; or it is a text, and then it was given for this very row.  Old copies that
\* were merged since change nothing of that.
\* (validateRegistrationFieldsMiddleware, registrationHandler, merge)
ResumeIsOwn ==
  \A k \in Keys : rows[k] # NoRow =>
    \/ rows[k].resume \in {NoFile} \cup {<<k[1], h>> : h \in Hackathons}
    \/ rows[k].resume \in {r \in Requests : target[r] = k}

\* Whatever copies updates merge, a row only holds what was posted for that user
\* and that hackathon.  (RegisterDataMapperImpl.get, update)
ColumnsAreOwn ==
  \A k \in Keys : rows[k] # NoRow =>
    \A r \in {rows[k].major, rows[k].allergies} \ {Nobody} : target[r] = k

\* The columns that an update does not give stay as they are.
\* (BaseObject.merge: "New instance with updated fields")
OthersStay ==
  [][\A r \in Requests :
       pc[r] = "write" /\ pc'[r] # "write" /\ "major" \notin posted[r] =>
         \A k \in Keys : rows[k] # NoRow => rows'[k].major = rows[k].major]_vars
=============================================================================
