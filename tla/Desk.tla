-------------------------------- MODULE Desk --------------------------------
(***************************************************************************)
(* What scanners do at the desk: assign wristbands to users and scan them,  *)
(* one or a batch in a request, and lend equipment to whoever wears a       *)
(* band.  The tables are MySQL's, one transaction for each statement.       *)
(***************************************************************************)
EXTENDS Scanners, Integers, Sequences, FiniteSets

CONSTANTS
  Users, Hackathons,
  Registered,  \* <<user, hackathon>>: the keys of REGISTRATION
  First, Second,\* the hackathon that is active, and the one activated after it
  Bands,       \* wristbands
  Assignments, \* the batches of assignments that scanners send,
  Scans,       \* and of scans
  Borrowers,   \* <<wid, userId>> of requests to lend
  Items,       \* equipment
  Quantity,    \* how many pieces there are of each
  NoBand

ASSUME DeskAssumption ==
  /\ Registered \subseteq Users \X Hackathons
  /\ {First, Second} \subseteq Hackathons
  /\ Assignments \subseteq Seq([band : Bands, user : Users])
  /\ Scans \subseteq Seq([band : Bands])
  /\ Borrowers \subseteq (Bands \cup {NoBand}) \X (Users \cup {Nobody})
  /\ Quantity \in [Items -> Nat]
  /\ Nobody \notin Users \cup Requests
  /\ NoBand \notin Bands

VARIABLES
  current,    \* per process: the active hackathon it remembers
  assigned,   \* table RFID_ASSIGNMENTS: what is stored for each band
  scanned,    \* table SCANS: the request and the place in its batch
  loan,       \* table CHECKOUT_DATA: the row made by a request
  available,  \* per process: the cached answer of getAllAvailable
  job,        \* what a request is about
  key,        \* the API key it was let in with; Nobody: an ID token
  batch,      \* req.body.assignments, or req.body.scans
  report,     \* what became of each item of the batch
  wid,        \* req.body.wid
  userId,     \* req.body.userId
  wearer,     \* the user that the band leads to
  shown       \* the availability that it answered

tables   == <<current, assigned, scanned, loan, available>>
request  == <<job, key, batch, wid, userId>>
deskVars == <<tables, request, report, wearer, shown>>
vars     == <<scannerVars, deskVars>>

NoLoan   == [item |-> "none"]
NoCount  == <<>>
Jobs     == {"none", "assign", "assignOne", "scan", "scanOne", "lend", "return", "list"}
Results  == {"Success", "Duplicate", "BadInput", "Error"}
Row      == [user : Users, hackathon : Hackathons, by : Requests, nr : Nat]
Loan     == [item : Items, user : Users, hackathon : Hackathons, returned : BOOLEAN]
Stages   == {"idle", "readPin", "deletePin", "deleteStalePin", "generateKey",
             "insert", "getBand", "getRegistration", "checkOut", "answered"}

TypeOK ==
  /\ ScannersTypeOK
  /\ pc \in [Requests -> Stages]
  /\ current \in [Instances -> Hackathons]
  /\ assigned \in [Bands -> Row \cup {Nobody}]
  /\ scanned \in SUBSET (Requests \X Nat)
  /\ loan \in [Requests -> Loan \cup {NoLoan}]
  /\ available \in [Instances -> [Items -> Int] \cup {NoCount}]
  /\ job \in [Requests -> Jobs]
  /\ key \in [Requests -> Requests \cup {Nobody}]
  /\ batch \in [Requests -> Assignments \cup Scans \cup {<<>>}]
  /\ \A r \in Requests : DOMAIN report[r] \subseteq DOMAIN batch[r]
  /\ \A r \in Requests : \A i \in DOMAIN report[r] : report[r][i] \in Results
  /\ wid \in [Requests -> Bands \cup {NoBand}]
  /\ userId \in [Requests -> Users \cup {Nobody}]
  /\ wearer \in [Requests -> Users \cup {Nobody}]
  /\ shown \in [Requests -> [Items -> Int] \cup {NoCount}]

Init ==
  /\ ScannersInit
  /\ current = [i \in Instances |-> First]
  /\ assigned = [w \in Bands |-> Nobody]
  /\ scanned = {}
  /\ loan = [r \in Requests |-> NoLoan]
  /\ available = [i \in Instances |-> NoCount]
  /\ job = [r \in Requests |-> "none"]
  /\ key = [r \in Requests |-> Nobody]
  /\ batch = [r \in Requests |-> <<>>]
  /\ report = [r \in Requests |-> <<>>]
  /\ wid = [r \in Requests |-> NoBand]
  /\ userId = [r \in Requests |-> Nobody]
  /\ wearer = [r \in Requests |-> Nobody]
  /\ shown = [r \in Requests |-> NoCount]

\* A process activates a hackathon, or loads the active one anew (ActiveHackathon).
Remember(i) ==
  /\ current[i] # Second
  /\ current' = [current EXCEPT ![i] = Second]
  /\ UNCHANGED <<scannerVars, assigned, scanned, loan, available, request, report, wearer, shown>>

-----------------------------------------------------------------------------
\* verifyScannerPermissionsMiddleware lets in an ID token that may, or a key that
\* belongs to the MAC address it comes with.
LetIn(r, what) ==
  /\ pc[r] = "idle"
  /\ job' = [job EXCEPT ![r] = what]
  /\ \/ UNCHANGED <<device, key>>
     \/ \E d \in Devices, k \in Requests :
          /\ CheckAuthentication(k, d)
          /\ device' = [device EXCEPT ![r] = d]
          /\ key' = [key EXCEPT ![r] = k]
  /\ UNCHANGED <<firestore, served, pin, found>>

\* Neither (or a key that has expired), or no MAC address.
Refuse(r) ==
  /\ pc[r] = "idle"
  /\ \E status \in {400, 401} : Answer(r, status)
  /\ UNCHANGED <<firestore, caller, pin, found, deskVars>>

-----------------------------------------------------------------------------
\* The error of a query, as its status, becomes the result of its item.
HandleInsertionError(status) ==
  CASE status = 400 -> "BadInput"
    [] status = 409 -> "Duplicate"
    [] OTHER -> "Error"

\* The status of one item of a batch, and that of a request of a single one.
StatusOf(result) ==
  CASE result = "Success" -> 200
    [] result = "Duplicate" -> 409
    [] result = "BadInput" -> 400
    [] OTHER -> 500
SingleStatus(result) == IF result = "Success" THEN 200 ELSE 400

\* The status of a batch: that of all its items, or Multi-status.
CommonStatus(results) ==
  IF \A i \in DOMAIN results : StatusOf(results[i]) = StatusOf(results[1])
  THEN StatusOf(results[1]) ELSE 207

\* Mutants: places counted from one too high; results in the order in which the
\* statements end.
NextPlace(r, i, result) ==
  [j \in DOMAIN report[r] \cup {i + 1} |-> IF j = i + 1 THEN result ELSE report[r][j]]
InOrderOfEnd(r, i, result) == Append(report[r], result)

\* Promise.all: each result in its item's place.
InPlace(r, i, result) ==
  [j \in DOMAIN report[r] \cup {i} |-> IF j = i THEN result ELSE report[r][j]]

\* An item has been dealt with; the last one ends the request.
Report(r, i, result) ==
  LET results == InPlace(r, i, result) IN
  /\ report' = [report EXCEPT ![r] = results]
  /\ \/ DOMAIN results # DOMAIN batch[r] /\ UNCHANGED <<pc, reply>>
     \/ /\ DOMAIN results = DOMAIN batch[r]
        /\ Answer(r, IF job[r] \in {"assignOne", "scanOne"} THEN SingleStatus(result)
                     ELSE CommonStatus(results))

\* processRfidAssignments, and processScans likewise.  The status of an empty batch
\* is that of its first item: there is none.
StartBatch(r, what, items) ==
  /\ LetIn(r, what)
  /\ batch' = [batch EXCEPT ![r] = items]
  /\ \/ items = <<>> /\ Answer(r, 500)
     \/ items # <<>> /\ Goto(r, "insert") /\ UNCHANGED reply
  /\ UNCHANGED <<tables, report, wid, userId, wearer, shown>>

\* A request with a batch, or with a single item, which is not in an array.
Posts(r, one, many, items) ==
  \/ StartBatch(r, many, items)
  \/ Len(items) = 1 /\ StartBatch(r, one, items)

AddRfidAssignments(r, items) == Posts(r, "assignOne", "assign", items)
AddScans(r, items)           == Posts(r, "scanOne", "scan", items)

\* The items of a batch are stored side by side, each in its own transaction.
Waiting(r, i) == pc[r] = "insert" /\ i \in DOMAIN batch[r] \ DOMAIN report[r]

\* An assignment is stored (or its COMMIT is lost after the answer), or refused: the
\* band is taken, the user unknown, or something fails.
InsertAssignment(r, i) ==
  LET it == batch[r][i] IN
  /\ job[r] \in {"assign", "assignOne"} /\ Waiting(r, i)
  /\ \/ /\ assigned[it.band] = Nobody
        /\ \E h \in Hackathons : <<it.user, h>> \in Registered
        /\ \/ assigned' = [assigned EXCEPT ![it.band] =
                 [user |-> it.user, hackathon |-> current[served[r]], by |-> r, nr |-> i]]
           \/ UNCHANGED assigned
        /\ Report(r, i, "Success")
     \/ /\ UNCHANGED assigned
        /\ \E status \in {400, 409, 500} :
             /\ status = 409 => assigned[it.band] # Nobody
             /\ status = 400 => /\ assigned[it.band] = Nobody
                               /\ \A h \in Hackathons : <<it.user, h>> \notin Registered
             /\ Report(r, i, HandleInsertionError(status))
  /\ UNCHANGED <<firestore, caller, pin, found, current, scanned, loan, available,
                 request, wearer, shown>>

\* A scan is stored if its band is assigned, however often it has been scanned.
InsertScan(r, i) ==
  /\ job[r] \in {"scan", "scanOne"} /\ Waiting(r, i)
  /\ \/ /\ assigned[batch[r][i].band] # Nobody
        /\ scanned' = scanned \cup {<<r, i>>} \/ UNCHANGED scanned
        /\ Report(r, i, "Success")
     \/ /\ UNCHANGED scanned
        /\ \E status \in {400, 500} :
             /\ status = 400 => assigned[batch[r][i].band] = Nobody
             /\ Report(r, i, HandleInsertionError(status))
  /\ UNCHANGED <<firestore, caller, pin, found, current, assigned, loan, available,
                 request, wearer, shown>>

-----------------------------------------------------------------------------
\* POST /admin/checkout: for a user, or for whoever wears a band.  A user who is
\* named goes before the wearer.  Without either the request is refused.
StartLend(r, w, u) ==
  /\ LetIn(r, "lend")
  /\ wid' = [wid EXCEPT ![r] = w]
  /\ userId' = [userId EXCEPT ![r] = u]
  /\ \/ w # NoBand /\ Goto(r, "getBand") /\ UNCHANGED reply
     \/ w = NoBand /\ u # Nobody /\ Goto(r, "checkOut") /\ UNCHANGED reply
     \/ w = NoBand /\ u = Nobody /\ Answer(r, 400)
  /\ UNCHANGED <<tables, batch, report, wearer, shown>>

\* Mutant: the band is not in the condition.
WearersOfAny(w, h) == {assigned[v].user : v \in {v \in Bands :
                         assigned[v] # Nobody /\ assigned[v].hackathon = h}}

\* getUserByRfidBand: the assignment of the band, in the active hackathon.
Wearers(w, h) == {assigned[v].user : v \in {v \in {w} :
                    assigned[v] # Nobody /\ assigned[v].hackathon = h}}

GetBand(r) ==
  /\ pc[r] = "getBand"
  /\ \/ \E u \in Wearers(wid[r], current[served[r]]) :
          /\ wearer' = [wearer EXCEPT ![r] = u]
          /\ Goto(r, "getRegistration") /\ UNCHANGED reply
     \/ /\ Wearers(wid[r], current[served[r]]) = {}
        /\ Answer(r, 404) /\ UNCHANGED wearer
  /\ UNCHANGED <<firestore, caller, pin, found, tables, request, report, shown>>

\* Then that user's registration, in the hackathon that is active by now.
GetRegistration(r) ==
  /\ pc[r] = "getRegistration"
  /\ \/ /\ <<wearer[r], current[served[r]]>> \in Registered
        /\ Goto(r, "checkOut") /\ UNCHANGED reply
     \/ /\ <<wearer[r], current[served[r]]>> \notin Registered
        /\ Answer(r, 404)
  /\ UNCHANGED <<firestore, caller, pin, found, deskVars>>

\* The user that the body names, or else the wearer.
Borrower(r) == IF userId[r] # Nobody THEN userId[r] ELSE wearer[r]

\* The loan is stored: nothing looks at how many pieces are left.
CheckOut(r, item) ==
  /\ pc[r] = "checkOut"
  /\ \/ /\ \E h \in Hackathons : <<Borrower(r), h>> \in Registered
        /\ loan' = [loan EXCEPT ![r] = [item |-> item, user |-> Borrower(r),
                      hackathon |-> current[served[r]], returned |-> FALSE]]
        /\ Answer(r, 200)
     \/ /\ \A h \in Hackathons : <<Borrower(r), h>> \notin Registered
        /\ Answer(r, 400) /\ UNCHANGED loan
  /\ UNCHANGED <<firestore, caller, pin, found, current, assigned, scanned, available,
                 request, report, wearer, shown>>

\* The loans once l has been returned, again perhaps; or none of them, unnoticed.
ReturnItem(l) == IF loan[l] = NoLoan THEN loan ELSE [loan EXCEPT ![l].returned = TRUE]

\* POST /admin/checkout/return
Return(r, l) ==
  /\ LetIn(r, "return")
  /\ loan' = ReturnItem(l)
  /\ Answer(r, 200)
  /\ UNCHANGED <<current, assigned, scanned, available, batch, wid, userId, report, wearer, shown>>

LoansOf(item) == {l \in Requests : loan[l] # NoLoan /\ loan[l].item = item}

\* getAllAvailable: the pieces there are, less the loans there have ever been.
Counted == [item \in Items |-> Quantity[item] - Cardinality(LoansOf(item))]

\* GET /admin/checkout/items/availability, from the cache if it has an answer.
GetAllAvailable(r) ==
  /\ LetIn(r, "list")
  /\ LET i == served[r] IN
     /\ shown' = [shown EXCEPT ![r] = IF available[i] = NoCount THEN Counted ELSE available[i]]
     /\ available' = [available EXCEPT ![i] = IF @ = NoCount THEN Counted ELSE @]
  /\ Answer(r, 200)
  /\ UNCHANGED <<current, assigned, scanned, loan, batch, wid, userId, report, wearer>>

\* The cache drops the answer to make room.
Evict(i) ==
  /\ available[i] # NoCount
  /\ available' = [available EXCEPT ![i] = NoCount]
  /\ UNCHANGED <<scannerVars, current, assigned, scanned, loan, request, report, wearer, shown>>

\* A query of a loan fails.
QueryFails(r) ==
  /\ pc[r] \in {"getBand", "getRegistration", "checkOut"}
  /\ Answer(r, 500)
  /\ UNCHANGED <<firestore, caller, pin, found, deskVars>>

-----------------------------------------------------------------------------
Handle(r) ==
  \/ Refuse(r)
  \/ \E items \in Assignments : AddRfidAssignments(r, items)
  \/ \E items \in Scans : AddScans(r, items)
  \/ \E i \in DOMAIN batch[r] : InsertAssignment(r, i) \/ InsertScan(r, i)
  \/ \E b \in Borrowers : StartLend(r, b[1], b[2])
  \/ GetBand(r) \/ GetRegistration(r) \/ QueryFails(r)
  \/ \E item \in Items : CheckOut(r, item)
  \/ \E l \in Requests : Return(r, l)
  \/ GetAllAvailable(r)

\* Every request that the instance allows has been made and answered.
AllAnswered == (\A r \in Requests : pc[r] = "answered") /\ UNCHANGED vars

Next ==
  \/ ScannersNext /\ UNCHANGED deskVars
  \/ \E r \in Requests : Handle(r)
  \/ \E i \in Instances : Remember(i) \/ Evict(i)
  \/ AllAnswered

Spec == Init /\ [][Next]_vars

-----------------------------------------------------------------------------
Stored(r, i) ==
  \/ <<r, i>> \in scanned
  \/ \E w \in Bands : assigned[w] # Nobody /\ assigned[w].by = r /\ assigned[w].nr = i

\* What a scanner is told was refused is not in the tables, in a batch or alone, by
\* the result of the item or by the status of them all: it may send just those items
\* again, whatever the others did meanwhile.  With a status of success it need not.
\* (addRfidAssignments, addScans: "Handle any insertion errors here", and "Find
\* response status to send" of processScans)
RefusedIsNotStored ==
  \A r \in Requests : \A i \in DOMAIN report[r] :
    /\ report[r][i] # "Success" \/ reply[r] \in {400, 409, 500} => ~Stored(r, i)
    /\ reply[r] = 200 => report[r][i] = "Success"

\* What is lent to a band is lent to the user who wears it, although the band was
\* looked up two queries earlier and the active hackathon may have changed since.
\* (getUserByRfidBand, then createCheckoutRequestHandler)
LentToWearer ==
  \A r \in Requests :
    loan[r] # NoLoan /\ userId[r] = Nobody =>
      assigned[wid[r]] # Nobody /\ loan[r].user = assigned[wid[r]].user
=============================================================================
