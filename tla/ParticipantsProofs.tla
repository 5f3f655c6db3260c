------------------------- MODULE ParticipantsProofs -------------------------
(***************************************************************************)
(* What holds of Participants for any requests, processes, users and       *)
(* hackathons.                                                             *)
(*                                                                         *)
(* A row is copied: from the table into caches, from there into the row    *)
(* that an update starts from, and back.  What makes a row belong to its   *)
(* key (Fits) therefore has to hold of all three kinds of copies, and to   *)
(* stay true of a copy while others go on: it does, because a request that *)
(* has written a column does not change its target any more (Settles).     *)
(***************************************************************************)
EXTENDS Participants, TLAPS

\* Where a request stands that has written a row.
Done == {"submit", "mail", "answered"}

\* What a resume of key k may be, other than a text.
OwnUrls(k) == {NoFile} \cup {<<k[1], h>> : h \in Hackathons}

\* A row that belongs to key k, given what the requests are about and where they stand.
Fits(k, row, targets, stages) ==
  /\ row \in Row \cup {NoRow}
  /\ row # NoRow =>
       /\ row.resume \in OwnUrls(k) \cup {x \in Requests : targets[x] = k /\ stages[x] \in Done}
       /\ \A x \in {row.major, row.allergies} \ {Nobody} : targets[x] = k /\ stages[x] \in Done

Typed ==
  /\ DOMAIN pc = Requests
  /\ DOMAIN target = Requests
  /\ DOMAIN base = Requests
  /\ DOMAIN resume = Requests
  /\ DOMAIN rows = Keys
  /\ DOMAIN cache = Instances
  /\ \A i \in Instances : DOMAIN cache[i] = Keys
  /\ current \in [Instances -> Hackathons]
  /\ served \in [Requests -> Instances]
  /\ me \in [Requests -> Users]

\* A request that reads or writes a row knows which; a URL is of the user's own file,
\* and a text the request's own.
OnCourse ==
  \A r \in Requests :
    /\ pc[r] \in {"locate", "look", "read", "write"} => target[r] \in Keys
    /\ pc[r] = "insert" => resume[r] \in {r, NoFile} \cup {<<me[r], h>> : h \in Hackathons}

Fitting ==
  /\ \A k \in Keys : Fits(k, rows[k], target, pc)
  /\ \A i \in Instances, k \in Keys : Fits(k, cache[i][k], target, pc)
  /\ \A r \in Requests : pc[r] = "write" =>
       base[r] # NoRow /\ Fits(target[r], base[r], target, pc)

Inv == Typed /\ OnCourse /\ Fitting

\* What was written stays written for the same key.
Settles ==
  \A x \in Requests : pc[x] \in Done => pc'[x] \in Done /\ target'[x] = target[x]

\* Where a handler goes: nobody else moves.
LEMMA Moves ==
  ASSUME Typed, NEW r \in Requests, NEW stage, Goto(r, stage)
  PROVE  /\ DOMAIN pc' = Requests
         /\ pc'[r] = stage
         /\ \A q \in Requests \ {r} : pc'[q] = pc[q]
  BY DEF Typed, Goto

LEMMA FitsStays ==
  ASSUME Settles
  PROVE  \A k, row : Fits(k, row, target, pc) => Fits(k, row, target', pc')
  <1> SUFFICES ASSUME NEW k, NEW row, Fits(k, row, target, pc)
               PROVE  Fits(k, row, target', pc')
    OBVIOUS
  <1>1. row # NoRow => {row.major, row.allergies} \ {Nobody} \subseteq Requests
    BY DEF Fits, Row
  <1> QED
    BY <1>1 DEF Fits, Settles

LEMMA NoRowFits == \A k, targets, stages : Fits(k, NoRow, targets, stages)
  BY DEF Fits

\* How a step may change the copies.
LEMMA Copies ==
  ASSUME Inv, Settles,
         \A k \in Keys : rows'[k] = rows[k] \/ Fits(k, rows'[k], target', pc'),
         \A i \in Instances, k \in Keys : cache'[i][k] \in {cache[i][k], NoRow, rows[k]},
         \A r \in Requests : pc'[r] = "write" =>
           \/ pc[r] = "write" /\ base'[r] = base[r] /\ target'[r] = target[r]
           \/ Fits(target'[r], base'[r], target, pc) /\ base'[r] # NoRow
  PROVE  Fitting'
  <1> USE DEF Inv, Fitting
  <1>1. \A k \in Keys : Fits(k, rows'[k], target', pc')
    BY FitsStays
  <1>2. \A i \in Instances, k \in Keys : Fits(k, cache'[i][k], target', pc')
    <2> TAKE i \in Instances, k \in Keys
    <2>1. cache'[i][k] \in {cache[i][k], NoRow, rows[k]}
      OBVIOUS
    <2>2. Fits(k, cache[i][k], target, pc) /\ Fits(k, rows[k], target, pc)
      OBVIOUS
    <2> QED
      BY <2>1, <2>2, FitsStays, NoRowFits
  <1>3. \A r \in Requests : pc'[r] = "write" =>
          base'[r] # NoRow /\ Fits(target'[r], base'[r], target', pc')
    BY FitsStays
  <1> QED
    BY <1>1, <1>2, <1>3

LEMMA InvInit == Init => Inv
  <1> SUFFICES ASSUME Init PROVE Inv
    OBVIOUS
  <1>1. Typed
    <2>1. (CHOOSE u \in Users : TRUE) \in Users
      BY ParticipantsAssumption
    <2> QED
      BY <2>1, ParticipantsAssumption DEF Init, Typed
  <1>2. OnCourse
    BY DEF Init, OnCourse
  <1>3. OldRow \in Row /\ \A k : Fits(k, OldRow, target, pc)
    BY DEF OldRow, Row, Resumes, OwnUrls, Fits
  <1>4. Fitting
    BY <1>3, NoRowFits DEF Init, Fitting
  <1> QED
    BY <1>1, <1>2, <1>4 DEF Inv

-----------------------------------------------------------------------------
LEMMA TypedGet ==
  ASSUME Typed, NEW i \in Instances, NEW k \in Keys, NEW row, NEW ignoreCache,
         Get(i, k, row, ignoreCache)
  PROVE  /\ DOMAIN cache' = Instances
         /\ \A j \in Instances : DOMAIN cache'[j] = Keys
         /\ \A j \in Instances, l \in Keys :
              cache'[j][l] = cache[j][l] \/ (j = i /\ l = k /\ cache'[j][l] = row /\ row = rows[k])
         /\ row \in {cache[i][k], rows[k]}
  <1>1. CASE row \in Cached(i, k) /\ UNCHANGED cache
    BY <1>1 DEF Cached, Typed
  <1>2. CASE row = rows[k] /\ UNCHANGED cache
    BY <1>2 DEF Typed
  <1>3. CASE row = rows[k] /\ cache' = [cache EXCEPT ![i] = [@ EXCEPT ![k] = row]]
    <2> DEFINE mine == [cache[i] EXCEPT ![k] = row]
    <2>1. cache' = [cache EXCEPT ![i] = mine]
      BY <1>3
    <2>2. DOMAIN mine = Keys /\ mine[k] = row /\ \A l \in Keys \ {k} : mine[l] = cache[i][l]
      BY DEF Typed
    <2> HIDE DEF mine
    <2>3. /\ DOMAIN cache' = Instances /\ cache'[i] = mine
          /\ \A j \in Instances \ {i} : cache'[j] = cache[j]
      BY <2>1 DEF Typed
    <2> QED
      BY <1>3, <2>2, <2>3 DEF Typed
  <1> QED
    BY <1>1, <1>2, <1>3 DEF Get

LEMMA TypedEvict ==
  ASSUME Typed, NEW i \in Instances, NEW k \in Keys, Evict(i, k)
  PROVE  /\ DOMAIN cache' = Instances
         /\ \A j \in Instances : DOMAIN cache'[j] = Keys
         /\ \A j \in Instances, l \in Keys : cache'[j][l] \in {cache[j][l], NoRow}
  <1> DEFINE mine == [cache[i] EXCEPT ![k] = NoRow]
  <1>1. cache' = [cache EXCEPT ![i] = mine]
    BY DEF Evict
  <1>2. DOMAIN mine = Keys /\ mine[k] = NoRow /\ \A l \in Keys \ {k} : mine[l] = cache[i][l]
    BY DEF Typed
  <1> HIDE DEF mine
  <1>3. /\ DOMAIN cache' = Instances /\ cache'[i] = mine
        /\ \A j \in Instances \ {i} : cache'[j] = cache[j]
    BY <1>1 DEF Typed
  <1> QED
    BY <1>2, <1>3 DEF Typed

\* A request that touches no row: it goes on, or ends.
LEMMA NoCopy ==
  ASSUME Inv, NEW r \in Requests, NEW stage, Goto(r, stage), stage # "write",
         pc[r] \in Done => stage \in Done,
         UNCHANGED <<rows, cache, base>>,
         pc[r] \notin Done \/ UNCHANGED target,
         DOMAIN target' = Requests,
         \A q \in Requests \ {r} : target'[q] = target[q]
  PROVE  Fitting'
  <1>1. pc'[r] = stage /\ \A q \in Requests \ {r} : pc'[q] = pc[q]
    BY Moves DEF Inv
  <1>2. Settles
    BY <1>1 DEF Settles
  <1>3. \A q \in Requests : pc'[q] = "write" =>
          pc[q] = "write" /\ base'[q] = base[q] /\ target'[q] = target[q]
    BY <1>1
  <1> QED
    BY <1>2, <1>3, Copies

\* Steps of requests that register or read without writing a row.
LEMMA PlainKept ==
  ASSUME Inv, NEW r \in Requests,
         \/ \E user \in Users, f \in Forms : StartRegister(r, user, f)
         \/ \E user \in Users : StartGetAllRegistrations(r, user)
         \/ \E k \in Lookups : StartLookup(r, k)
         \/ FinishUpload(r) \/ ValidateRegistrationFieldsMiddleware(r) \/ RegistrationHandler(r)
         \/ SendRegistrationEmail(r) \/ Locate(r) \/ Fail(r)
  PROVE  OnCourse' /\ Fitting'
  <1> USE DEF Inv
  <1>0. Lookups \subseteq Keys
    BY ParticipantsAssumption
  <1>1. ASSUME NEW user \in Users, NEW f \in Forms, StartRegister(r, user, f)
        PROVE  OnCourse' /\ Fitting'
    <2>1. /\ pc[r] = "idle" /\ UNCHANGED <<rows, cache, base, target, resume>>
          /\ \A q \in Requests \ {r} : me'[q] = me[q]
      BY <1>1 DEF StartRegister, stores, Typed
    <2>2. \E stage \in {"upload", "answered", "validate"} : Goto(r, stage)
      BY <1>1 DEF StartRegister, Answer
    <2>3. Fitting'
      BY <2>1, <2>2, NoCopy DEF Done, Typed
    <2> QED
      BY <2>1, <2>2, <2>3, Moves DEF OnCourse
  <1>2. ASSUME NEW user \in Users, StartGetAllRegistrations(r, user)
        PROVE  OnCourse' /\ Fitting'
    <2>1. /\ pc[r] = "idle" /\ UNCHANGED <<rows, cache, base, target, resume>>
          /\ \A q \in Requests \ {r} : me'[q] = me[q]
          /\ Goto(r, "list")
      BY <1>2 DEF StartGetAllRegistrations, stores, Typed
    <2>2. Fitting'
      BY <2>1, NoCopy DEF Done, Typed
    <2> QED
      BY <2>1, <2>2, Moves DEF OnCourse
  <1>3. ASSUME NEW k \in Lookups, StartLookup(r, k)
        PROVE  OnCourse' /\ Fitting'
    <2>1. /\ pc[r] = "idle" /\ UNCHANGED <<rows, cache, base, resume, me>>
          /\ target'[r] = k /\ DOMAIN target' = Requests
          /\ \A q \in Requests \ {r} : target'[q] = target[q]
          /\ Goto(r, "locate")
      BY <1>3 DEF StartLookup, stores, request, Typed
    <2>2. Fitting'
      BY <2>1, NoCopy DEF Done
    <2> QED
      BY <1>0, <2>1, <2>2, Moves DEF OnCourse
  <1>4. CASE RegistrationHandler(r)
    <2>1. /\ pc[r] = "url" /\ UNCHANGED <<rows, cache, base, target, me>>
          /\ \A q \in Requests \ {r} : resume'[q] = resume[q]
      BY <1>4 DEF RegistrationHandler, stores, request, Typed
    <2>2. \E stage \in {"insert", "unanswered"} : Goto(r, stage)
      BY <1>4 DEF RegistrationHandler
    <2>3. Goto(r, "unanswered") \/ resume'[r] \in {r, NoFile, FileUrl(r)}
      BY <1>4 DEF RegistrationHandler, GivenResume, Typed
    <2>4. FileUrl(r) \in {<<me[r], h>> : h \in Hackathons}
      BY DEF FileUrl, FileName, Typed
    <2>5. Fitting'
      BY <2>1, <2>2, NoCopy DEF Done, Typed
    <2> QED
      BY <2>1, <2>2, <2>3, <2>4, <2>5, Moves DEF OnCourse
  <1>5. CASE \/ FinishUpload(r) \/ ValidateRegistrationFieldsMiddleware(r)
             \/ SendRegistrationEmail(r) \/ Locate(r) \/ Fail(r)
    <2> USE <1>5 DEF FinishUpload, ValidateRegistrationFieldsMiddleware, SendRegistrationEmail,
                     Locate, Fail, Answer
    <2>1. UNCHANGED <<rows, cache, base, target, me, resume>>
      BY DEF stores, request, progress
    <2>2. \E stage : /\ Goto(r, stage)
                     /\ \/ stage \in {"answered", "unanswered"} /\ (stage = "unanswered" => pc[r] = "locate")
                        \/ pc[r] \in {"upload", "validate"} /\ stage \in {"validate", "url"}
                        \/ pc[r] = "locate" /\ stage = "look"
      OBVIOUS
    <2>3. PICK stage :
            /\ Goto(r, stage)
            /\ \/ stage \in {"answered", "unanswered"} /\ (stage = "unanswered" => pc[r] = "locate")
               \/ pc[r] \in {"upload", "validate"} /\ stage \in {"validate", "url"}
               \/ pc[r] = "locate" /\ stage = "look"
      BY <2>2
    <2>4. Fitting'
      BY <2>1, <2>3, NoCopy DEF Done, Typed
    <2> QED
      BY <2>1, <2>3, <2>4, Moves DEF OnCourse
  <1> QED
    BY <1>1, <1>2, <1>3, <1>4, <1>5

\* The new row is of the user that the token names, and so is its file.
LEMMA InsertKept ==
  ASSUME Inv, NEW r \in Requests, Insert(r)
  PROVE  OnCourse' /\ Fitting'
  <1> USE DEF Inv
  <1> DEFINE k == <<me[r], current[served[r]]>>
  <1>1. pc[r] = "insert" /\ UNCHANGED <<cache, base, me, resume>>
    BY DEF Insert, request
  <1>2. k \in Keys /\ k[1] = me[r]
    BY DEF Keys, Typed
  <1>3. CASE UNCHANGED <<rows, target>> /\ Goto(r, "answered")
    <2>1. Fitting'
      BY <1>1, <1>3, NoCopy DEF Done, Typed
    <2> QED
      BY <1>1, <1>3, <2>1, Moves DEF OnCourse
  <1>4. CASE /\ Execute(k, NewRow(r))
             /\ target' = [target EXCEPT ![r] = k]
             /\ Goto(r, "submit")
    <2>1. pc'[r] = "submit" /\ \A q \in Requests \ {r} : pc'[q] = pc[q]
      BY <1>4, Moves
    <2>2. target'[r] = k /\ \A q \in Requests \ {r} : target'[q] = target[q]
      BY <1>4 DEF Typed
    <2>3. Settles
      BY <1>1, <2>1, <2>2 DEF Settles, Done
    <2>4. NewRow(r) \in Row
      BY <1>1 DEF NewRow, Row, Resumes, OnCourse, Keys, Typed
    <2>5. /\ NewRow(r).major = r /\ NewRow(r).allergies = r
          /\ NewRow(r).resume \in OwnUrls(k) \cup {r}
      BY <1>1, <1>2 DEF NewRow, OwnUrls, OnCourse
    <2>6. Fits(k, NewRow(r), target', pc')
      BY <2>1, <2>2, <2>4, <2>5 DEF Fits, Done
    <2>7. \A j \in Keys : rows'[j] = rows[j] \/ (j = k /\ rows'[j] = NewRow(r))
      BY <1>4 DEF Execute, Typed
    <2>8. \A q \in Requests : pc'[q] = "write" =>
            pc[q] = "write" /\ base'[q] = base[q] /\ target'[q] = target[q]
      BY <1>1, <2>1, <2>2
    <2> HIDE DEF k
    <2>9. \A j \in Keys : rows'[j] = rows[j] \/ Fits(j, rows'[j], target', pc')
      BY <2>6, <2>7
    <2>10. Fitting'
      BY <1>1, <2>3, <2>8, <2>9, Copies
    <2> QED
      BY <1>1, <2>1, <2>2, <2>10 DEF OnCourse
  <1> QED
    BY <1>3, <1>4 DEF Insert, Answer

\* A column that is set in place leaves the others.
LEMMA SubmittedFits ==
  ASSUME NEW k, NEW row, NEW targets, NEW stages, row # NoRow, Fits(k, row, targets, stages)
  PROVE  Fits(k, [row EXCEPT !.submitted = TRUE], targets, stages)
  <1> DEFINE new == [row EXCEPT !.submitted = TRUE]
  <1>1. row \in Row
    BY DEF Fits
  <1>2. /\ new \in Row
        /\ new.major = row.major /\ new.allergies = row.allergies /\ new.resume = row.resume
    BY <1>1 DEF Row
  <1> HIDE DEF new
  <1>3. Fits(k, new, targets, stages)
    BY <1>2 DEF Fits
  <1> QED
    BY <1>3 DEF new

LEMMA SubmitKept ==
  ASSUME Inv, NEW r \in Requests, Submit(r)
  PROVE  OnCourse' /\ Fitting'
  <1> USE DEF Inv
  <1> DEFINE k == <<me[r], current[served[r]]>>
             new == [rows[k] EXCEPT !.submitted = TRUE]
  <1>1. /\ pc[r] = "submit" /\ UNCHANGED <<cache, base, me, resume, target>>
        /\ Goto(r, "mail")
    BY DEF Submit, request, progress
  <1>2. pc'[r] = "mail" /\ \A q \in Requests \ {r} : pc'[q] = pc[q]
    BY <1>1, Moves
  <1>3. Settles
    BY <1>1, <1>2 DEF Settles, Done
  <1>4. k \in Keys
    BY DEF Keys, Typed
  <1>5. UNCHANGED rows \/ (rows[k] # NoRow /\ rows' = [rows EXCEPT ![k] = new])
    BY DEF Submit, Execute
  <1>6. rows[k] # NoRow => Fits(k, new, target, pc)
    BY <1>4, SubmittedFits DEF Fitting
  <1> HIDE DEF k, new
  <1>7. \A j \in Keys : rows'[j] = rows[j] \/ (j = k /\ rows[k] # NoRow /\ rows'[j] = new)
    BY <1>5 DEF Typed
  <1>8. rows[k] # NoRow => Fits(k, new, target', pc')
    BY <1>3, <1>6, FitsStays
  <1>9. \A j \in Keys : rows'[j] = rows[j] \/ Fits(j, rows'[j], target', pc')
    BY <1>7, <1>8
  <1>10. \A q \in Requests : pc'[q] = "write" =>
           pc[q] = "write" /\ base'[q] = base[q] /\ target'[q] = target[q]
    BY <1>1, <1>2
  <1>11. Fitting'
    BY <1>1, <1>3, <1>9, <1>10, Copies
  <1> QED
    BY <1>1, <1>2, <1>11 DEF OnCourse

\* Readers copy rows into caches.
LEMMA ReadersKept ==
  ASSUME Inv, NEW r \in Requests,
         Look(r) \/ \E h \in Hackathons : GetAllRegistrationsByUser(r, h)
  PROVE  OnCourse' /\ Fitting'
  <1> USE DEF Inv
  <1>1. /\ UNCHANGED <<rows, base, me, resume, target>>
        /\ pc[r] \in {"look", "list"} /\ (UNCHANGED pc \/ Goto(r, "answered"))
    BY DEF Look, GetAllRegistrationsByUser, Answer, request, progress
  <1>2. /\ pc'[r] \in {pc[r], "answered"} /\ \A q \in Requests \ {r} : pc'[q] = pc[q]
    BY <1>1, Moves DEF Typed
  <1>3. Settles
    BY <1>1, <1>2 DEF Settles, Done
  <1>4. \/ UNCHANGED cache
        \/ \E k \in Keys : \E row, ignoreCache : Get(served[r], k, row, ignoreCache)
    <2>1. CASE Look(r)
      <3>1. target[r] \in Keys
        BY <2>1 DEF Look, OnCourse
      <3> QED
        BY <2>1, <3>1 DEF Look
    <2>2. ASSUME NEW h \in Hackathons, GetAllRegistrationsByUser(r, h)
          PROVE  \/ UNCHANGED cache
                 \/ \E k \in Keys : \E row, ignoreCache : Get(served[r], k, row, ignoreCache)
      <3>1. <<me[r], h>> \in Keys
        BY DEF Keys, Typed
      <3> QED
        BY <2>2, <3>1 DEF GetAllRegistrationsByUser
    <2> QED
      BY <2>1, <2>2
  <1>5. \A i \in Instances, j \in Keys : cache'[i][j] \in {cache[i][j], NoRow, rows[j]}
    BY <1>4, TypedGet DEF Typed
  <1>6. \A q \in Requests : pc'[q] = "write" =>
          pc[q] = "write" /\ base'[q] = base[q] /\ target'[q] = target[q]
    BY <1>1, <1>2
  <1>7. Fitting'
    BY <1>1, <1>3, <1>5, <1>6, Copies
  <1> QED
    BY <1>1, <1>2, <1>7 DEF OnCourse

\* The copy that an update starts from belongs to the key that it writes.
LEMMA ReadForUpdateKept ==
  ASSUME Inv, NEW r \in Requests, ReadForUpdate(r)
  PROVE  OnCourse' /\ Fitting'
  <1> USE DEF Inv
  <1>1. /\ pc[r] = "read" /\ UNCHANGED <<rows, me, resume, target>>
        /\ \E stage \in {"write", "answered"} : Goto(r, stage)
    BY DEF ReadForUpdate, Answer, request
  <1>2. pc'[r] \in {"write", "answered"} /\ \A q \in Requests \ {r} : pc'[q] = pc[q]
    BY <1>1, Moves
  <1>3. target[r] \in Keys /\ served[r] \in Instances
    BY <1>1 DEF OnCourse, Typed
  <1>4. PICK i, k, row, ignoreCache :
          /\ i = served[r] /\ i \in Instances
          /\ k = target[r] /\ k \in Keys
          /\ Get(i, k, row, ignoreCache)
          /\ base' = [base EXCEPT ![r] = row]
          /\ row # NoRow \/ Goto(r, "answered")
    <2>1. \E row : /\ Get(served[r], target[r], row, FALSE)
                   /\ base' = [base EXCEPT ![r] = row]
                   /\ row # NoRow \/ Goto(r, "answered")
      BY DEF ReadForUpdate, Answer
    <2> QED
      BY <1>3, <2>1
  <1>5. /\ base'[r] \in {cache[served[r]][target[r]], rows[target[r]]}
        /\ \A q \in Requests \ {r} : base'[q] = base[q]
        /\ pc'[r] = "write" => base'[r] # NoRow
        /\ \A h \in Instances, j \in Keys : cache'[h][j] \in {cache[h][j], NoRow, rows[j]}
    <2>1. /\ row \in {cache[i][k], rows[k]}
          /\ \A h \in Instances, j \in Keys : cache'[h][j] \in {cache[h][j], NoRow, rows[j]}
      BY <1>4, TypedGet
    <2>2. base'[r] = row /\ \A q \in Requests \ {r} : base'[q] = base[q]
      BY <1>4 DEF Typed
    <2>3. pc'[r] = "write" => row # NoRow
      BY <1>4, Moves
    <2> QED
      BY <1>4, <2>1, <2>2, <2>3
  <1>6. Settles
    BY <1>1, <1>2 DEF Settles, Done
  <1>7. Fits(target[r], base'[r], target, pc) /\ (pc'[r] = "write" => base'[r] # NoRow)
    BY <1>3, <1>5 DEF Fitting
  <1>8. \A q \in Requests : pc'[q] = "write" =>
          \/ pc[q] = "write" /\ base'[q] = base[q] /\ target'[q] = target[q]
          \/ Fits(target'[q], base'[q], target, pc) /\ base'[q] # NoRow
    BY <1>1, <1>2, <1>5, <1>7
  <1>9. Fitting'
    BY <1>1, <1>5, <1>6, <1>8, Copies
  <1> QED
    BY <1>1, <1>2, <1>3, <1>9 DEF OnCourse

\* What two rows of one key are merged into belongs to it as well.
LEMMA MergedFits ==
  ASSUME NEW r \in Requests, NEW row, row # NoRow, base[r] # NoRow,
         Fits(target[r], row, target, pc), Fits(target[r], base[r], target, pc),
         Settles, pc'[r] \in Done, UNCHANGED target
  PROVE  Fits(target[r], Merged(r, row), target', pc')
  <1> DEFINE new == Merged(r, row)
  <1>1. /\ Fits(target[r], row, target', pc') /\ Fits(target[r], base[r], target', pc')
        /\ row \in Row /\ base[r] \in Row
    BY FitsStays DEF Fits
  <1>2. ("travel" \in posted[r]) \in BOOLEAN /\ ("submitted" \in posted[r] \/ base[r].submitted) \in BOOLEAN
    OBVIOUS
  <1>3. /\ (IF "major" \in posted[r] THEN r ELSE base[r].major) \in Requests \cup {Nobody}
        /\ (IF "allergies" \in posted[r] THEN r ELSE row.allergies) \in Requests \cup {Nobody}
        /\ new.resume \in Resumes
    BY <1>1 DEF Row, Resumes, Merged
  <1>4. new \in Row
    BY <1>2, <1>3 DEF Merged, Row
  <1>5. /\ new.major \in {r, base[r].major}
        /\ new.allergies \in {r, row.allergies}
        /\ new.resume \in {r, row.resume, base[r].resume}
    BY DEF Merged
  <1> HIDE DEF new
  <1>6. Fits(target[r], new, target', pc')
    BY <1>1, <1>4, <1>5 DEF Fits
  <1> QED
    BY <1>6 DEF new

LEMMA UpdateKept ==
  ASSUME Inv, NEW r \in Requests, Update(r)
  PROVE  OnCourse' /\ Fitting'
  <1> USE DEF Inv
  <1> DEFINE k == target[r]
  <1>1. /\ pc[r] = "write" /\ UNCHANGED <<cache, base, me, resume, target>>
        /\ Goto(r, "answered")
    BY DEF Update, Answer, request, progress
  <1>2. pc'[r] = "answered" /\ \A q \in Requests \ {r} : pc'[q] = pc[q]
    BY <1>1, Moves
  <1>3. Settles
    BY <1>1, <1>2 DEF Settles, Done
  <1>4. k \in Keys /\ base[r] # NoRow /\ Fits(k, base[r], target, pc) /\ Fits(k, rows[k], target, pc)
    BY <1>1 DEF OnCourse, Fitting
  <1>5. CASE UNCHANGED rows
    <2>1. \A q \in Requests : pc'[q] = "write" =>
            pc[q] = "write" /\ base'[q] = base[q] /\ target'[q] = target[q]
      BY <1>1, <1>2
    <2>2. Fitting'
      BY <1>1, <1>3, <1>5, <2>1, Copies
    <2> QED
      BY <1>1, <1>2, <2>2 DEF OnCourse
  <1>6. CASE rows[k] # NoRow /\ rows' = [rows EXCEPT ![k] = Merged(r, rows[k])]
    <2>1. Fits(k, Merged(r, rows[k]), target', pc')
      BY <1>1, <1>2, <1>3, <1>4, <1>6, MergedFits DEF Done
    <2> DEFINE new == Merged(r, rows[k])
    <2>2. Fits(k, new, target', pc')
      BY <2>1
    <2>3. rows' = [rows EXCEPT ![k] = new]
      BY <1>6
    <2> HIDE DEF k, new
    <2>4. \A j \in Keys : rows'[j] = rows[j] \/ (j = k /\ rows'[j] = new)
      BY <2>3 DEF Typed
    <2>5. \A j \in Keys : rows'[j] = rows[j] \/ Fits(j, rows'[j], target', pc')
      BY <2>2, <2>4
    <2>6. \A q \in Requests : pc'[q] = "write" =>
            pc[q] = "write" /\ base'[q] = base[q] /\ target'[q] = target[q]
      BY <1>1, <1>2
    <2>7. Fitting'
      BY <1>1, <1>3, <2>5, <2>6, Copies
    <2> QED
      BY <1>1, <1>2, <2>7 DEF OnCourse
  <1> QED
    BY <1>5, <1>6 DEF Update, Execute

LEMMA StartUpdateKept ==
  ASSUME Inv, NEW r \in Requests, NEW k \in Lookups, NEW columns, StartUpdate(r, k, columns)
  PROVE  OnCourse' /\ Fitting'
  <1> USE DEF Inv
  <1>1. /\ pc[r] = "idle" /\ UNCHANGED <<rows, cache, base, resume, me>>
        /\ target'[r] = k /\ DOMAIN target' = Requests
        /\ \A q \in Requests \ {r} : target'[q] = target[q]
        /\ \E stage \in {"read", "answered"} : Goto(r, stage)
    BY DEF StartUpdate, Answer, stores, Typed
  <1>2. Fitting'
    BY <1>1, NoCopy DEF Done
  <1>3. k \in Keys
    BY ParticipantsAssumption
  <1> QED
    BY <1>1, <1>2, <1>3, Moves DEF OnCourse

\* Processes forget rows, and take up the new hackathon.
LEMMA ProcessesKept ==
  ASSUME Inv, NEW i \in Instances, Remember(i) \/ \E k \in Keys : Evict(i, k)
  PROVE  OnCourse' /\ Fitting'
  <1> USE DEF Inv
  <1>1. UNCHANGED <<rows, base, pc, target, me, resume>>
    BY DEF Remember, Evict, request, progress
  <1>2. \A j \in Instances, l \in Keys : cache'[j][l] \in {cache[j][l], NoRow}
    BY TypedEvict DEF Remember
  <1>3. Settles
    BY <1>1 DEF Settles
  <1>4. Fitting'
    BY <1>1, <1>2, <1>3, Copies
  <1> QED
    BY <1>1, <1>4 DEF OnCourse

LEMMA TypedStep == Inv /\ [Next]_vars => Typed'
  <1> SUFFICES ASSUME Inv, [Next]_vars PROVE Typed'
    OBVIOUS
  <1> USE DEF Inv, Goto, Answer, stores, request, progress
  <1>1. ASSUME NEW r \in Requests, Start(r) PROVE Typed'
    BY <1>1 DEF Start, StartRegister, StartGetAllRegistrations, StartLookup, StartUpdate, Typed
  <1>2. ASSUME NEW r \in Requests,
               \/ FinishUpload(r) \/ ValidateRegistrationFieldsMiddleware(r)
               \/ RegistrationHandler(r) \/ SendRegistrationEmail(r) \/ Locate(r) \/ Fail(r)
        PROVE  Typed'
    BY <1>2 DEF FinishUpload, ValidateRegistrationFieldsMiddleware, RegistrationHandler,
                SendRegistrationEmail, Locate, Fail, Typed
  <1>3. ASSUME NEW r \in Requests, Insert(r) \/ Submit(r) \/ Update(r) PROVE Typed'
    BY <1>3 DEF Insert, Submit, Update, Execute, Typed
  <1>4. ASSUME NEW i \in Instances, Remember(i) PROVE Typed'
    BY <1>4, ParticipantsAssumption DEF Remember, Typed
  <1>5. ASSUME NEW i \in Instances, NEW k \in Keys, Evict(i, k) PROVE Typed'
    BY <1>5, TypedEvict DEF Evict, Typed
  <1>6. ASSUME NEW r \in Requests,
               Look(r) \/ ReadForUpdate(r) \/ \E h \in Hackathons : GetAllRegistrationsByUser(r, h)
        PROVE  Typed'
    <2>1. \/ UNCHANGED cache
          \/ \E i \in Instances, k \in Keys : \E row, ignoreCache : Get(i, k, row, ignoreCache)
      <3>1. served[r] \in Instances /\ \A h \in Hackathons : <<me[r], h>> \in Keys
        BY DEF Keys, Typed
      <3>2. Look(r) \/ ReadForUpdate(r) => target[r] \in Keys
        BY DEF Look, ReadForUpdate, OnCourse
      <3>3. CASE Look(r) \/ ReadForUpdate(r)
        BY <3>1, <3>2, <3>3 DEF Look, ReadForUpdate
      <3>4. CASE \E h \in Hackathons : GetAllRegistrationsByUser(r, h)
        BY <3>1, <3>4 DEF GetAllRegistrationsByUser
      <3> QED
        BY <1>6, <3>3, <3>4
    <2>2. DOMAIN cache' = Instances /\ \A j \in Instances : DOMAIN cache'[j] = Keys
      BY <2>1, TypedGet DEF Typed
    <2>3. UNCHANGED <<rows, current, served, me, resume, target>>
      BY <1>6 DEF Look, ReadForUpdate, GetAllRegistrationsByUser
    <2>4. DOMAIN pc' = Requests /\ DOMAIN base' = Requests
      BY <1>6 DEF Look, ReadForUpdate, GetAllRegistrationsByUser, Typed
    <2> QED
      BY <2>2, <2>3, <2>4 DEF Typed
  <1>7. CASE UNCHANGED vars
    BY <1>7 DEF vars, Typed
  <1> QED
    BY <1>1, <1>2, <1>3, <1>4, <1>5, <1>6, <1>7 DEF Next, Proceed, AllServed

LEMMA InvStep == Inv /\ [Next]_vars => Inv'
  <1> SUFFICES ASSUME Inv, [Next]_vars PROVE OnCourse' /\ Fitting'
    BY TypedStep DEF Inv
  <1>1. ASSUME NEW r \in Requests, Start(r) \/ Proceed(r) PROVE OnCourse' /\ Fitting'
    BY <1>1, PlainKept, StartUpdateKept, InsertKept, SubmitKept, ReadersKept, ReadForUpdateKept,
       UpdateKept DEF Start, Proceed
  <1>2. ASSUME NEW i \in Instances, Remember(i) \/ \E k \in Keys : Evict(i, k)
        PROVE  OnCourse' /\ Fitting'
    BY <1>2, ProcessesKept
  <1>3. CASE UNCHANGED vars
    <2>1. UNCHANGED <<rows, cache, base, pc, target, me, resume>>
      BY <1>3 DEF vars, stores, request, progress
    <2> QED
      BY <2>1 DEF Inv, OnCourse, Fitting
  <1> QED
    BY <1>1, <1>2, <1>3 DEF Next, AllServed

\* A stored resume is always the URL of a file named for the user whose row it is in, or
\* a text that a body gave for that row, whichever uid the form gave and whichever copies
\* were merged.
\* (validateRegistrationFieldsMiddleware, registrationHandler, merge)
THEOREM ResumesAreOwned == Spec => []ResumeIsOwn
  <1>1. Inv => ResumeIsOwn
    BY DEF Inv, Fitting, Fits, OwnUrls, ResumeIsOwn
  <1> QED
    BY InvInit, InvStep, <1>1, PTL DEF Spec

\* However rows travel through the caches, what is posted for one user and hackathon
\* is never found in the row of another.  (RegisterDataMapperImpl.get, update)
THEOREM RowsKeepApart == Spec => []ColumnsAreOwn
  <1>1. Inv => ColumnsAreOwn
    BY DEF Inv, Fitting, Fits, ColumnsAreOwn
  <1> QED
    BY InvInit, InvStep, <1>1, PTL DEF Spec

-----------------------------------------------------------------------------
(***************************************************************************)
(* Types.  What is uploaded has a name (Named); rows are only made of what  *)
(* requests have and of rows (Inv).                                        *)
(***************************************************************************)
AnyRow == Row \cup {NoRow}

RowsTyped ==
  /\ rows \in [Keys -> AnyRow]
  /\ cache \in [Instances -> [Keys -> AnyRow]]
  /\ base \in [Requests -> AnyRow]

CallsTyped ==
  /\ pc \in [Requests -> Stages]
  /\ reply \in [Requests -> {0, 200, 400, 404, 409, 500}]

AboutTyped ==
  /\ files \in SUBSET Keys
  /\ current \in [Instances -> Hackathons]
  /\ served \in [Requests -> Instances]
  /\ me \in [Requests -> Users]
  /\ form \in [Requests -> Forms]
  /\ upload \in [Requests -> Keys \cup {NoFile}]
  /\ resume \in [Requests -> Resumes]
  /\ target \in [Requests -> Keys \cup {NoKey}]
  /\ posted \in [Requests -> SUBSET Columns]
  /\ todo \in [Requests -> SUBSET Hackathons]

Named == \A r \in Requests : pc[r] = "upload" => upload[r] \in Keys

TypeInv == RowsTyped /\ CallsTyped /\ AboutTyped /\ Named

LEMMA TypeInit == Init => TypeInv
  <1> SUFFICES ASSUME Init PROVE TypeInv
    OBVIOUS
  <1>1. (CHOOSE u \in Users : TRUE) \in Users /\ (CHOOSE f \in Forms : TRUE) \in Forms
    BY ParticipantsAssumption
  <1>2. OldRow \in Row
    BY DEF OldRow, Row, Resumes
  <1>3. RowsTyped
    BY <1>2 DEF Init, RowsTyped, AnyRow
  <1>4. CallsTyped
    BY DEF Init, CallsTyped, Stages
  <1>5. AboutTyped
    BY <1>1, ParticipantsAssumption DEF Init, AboutTyped, Resumes
  <1>6. Named
    BY DEF Init, Named
  <1> QED
    BY <1>3, <1>4, <1>5, <1>6 DEF TypeInv

LEMMA TypedGoto ==
  ASSUME CallsTyped, NEW r \in Requests, NEW stage \in Stages, Goto(r, stage), UNCHANGED reply
  PROVE  CallsTyped' /\ pc'[r] = stage /\ \A q \in Requests \ {r} : pc'[q] = pc[q]
  BY DEF CallsTyped, Goto

LEMMA TypedAnswer ==
  ASSUME CallsTyped, NEW r \in Requests, NEW status \in {200, 400, 404, 409, 500},
         Answer(r, status)
  PROVE  CallsTyped' /\ pc'[r] = "answered" /\ \A q \in Requests \ {r} : pc'[q] = pc[q]
  BY DEF CallsTyped, Answer, Goto, Stages

LEMMA NothingNamed ==
  ASSUME Named, NEW r \in Requests, UNCHANGED upload, pc'[r] # "upload",
         \A q \in Requests \ {r} : pc'[q] = pc[q]
  PROVE  Named'
  BY DEF Named

\* A handler goes on or ends, without storing a row.
LEMMA HandlerTyped ==
  ASSUME TypeInv, NEW r \in Requests, UNCHANGED <<rows, cache, base, upload>>, AboutTyped',
         \/ \E stage \in Stages \ {"upload"} : Goto(r, stage) /\ UNCHANGED reply
         \/ \E status \in {200, 400, 404, 409, 500} : Answer(r, status)
  PROVE  TypeInv'
  <1>1. CallsTyped' /\ pc'[r] # "upload" /\ \A q \in Requests \ {r} : pc'[q] = pc[q]
    BY TypedGoto, TypedAnswer DEF TypeInv
  <1> QED
    BY <1>1, NothingNamed DEF TypeInv, RowsTyped

LEMMA StartTyped ==
  ASSUME TypeInv, NEW r \in Requests, Start(r)
  PROVE  TypeInv'
  <1>0. AboutTyped /\ RowsTyped /\ CallsTyped
    BY DEF TypeInv
  <1>1. ASSUME NEW user \in Users, NEW f \in Forms, StartRegister(r, user, f) PROVE TypeInv'
    <2>1. /\ UNCHANGED <<rows, files, current, cache, served, posted, resume, target, base, todo>>
          /\ me' \in [Requests -> Users] /\ form' \in [Requests -> Forms]
      BY <1>0, <1>1 DEF StartRegister, stores, AboutTyped
    <2>2. CASE UNCHANGED upload
      <3>1. AboutTyped'
        BY <1>0, <2>1, <2>2 DEF AboutTyped
      <3>2. \/ Goto(r, "validate") /\ UNCHANGED reply
            \/ Answer(r, 400)
            \/ Goto(r, "upload") /\ UNCHANGED reply /\ upload' = [upload EXCEPT ![r] = UploadName(r, f)]
        BY <1>1 DEF StartRegister
      <3>3. CASE (Goto(r, "validate") /\ UNCHANGED reply) \/ Answer(r, 400)
        BY <2>1, <2>2, <3>1, <3>3, HandlerTyped DEF Stages, Tried
      <3>4. CASE /\ Goto(r, "upload") /\ UNCHANGED reply
                 /\ upload' = [upload EXCEPT ![r] = UploadName(r, f)]
        <4>1. UploadName(r, f) \in Keys
          BY <1>0, ParticipantsAssumption DEF UploadName, FileName, Keys, AboutTyped
        <4>2. upload'[r] \in Keys /\ \A q \in Requests \ {r} : upload'[q] = upload[q]
          BY <1>0, <3>4, <4>1 DEF AboutTyped
        <4>3. CallsTyped' /\ \A q \in Requests \ {r} : pc'[q] = pc[q]
          BY <1>0, <3>4, TypedGoto DEF Stages, Tried
        <4> QED
          BY <1>0, <2>1, <3>1, <4>2, <4>3 DEF TypeInv, RowsTyped, Named
      <3> QED
        BY <3>2, <3>3, <3>4
    <2>3. CASE /\ Goto(r, "upload") /\ UNCHANGED reply
               /\ upload' = [upload EXCEPT ![r] = UploadName(r, f)]
      <3>1. UploadName(r, f) \in Keys
        BY <1>0, ParticipantsAssumption DEF UploadName, FileName, Keys, AboutTyped
      <3>2. /\ upload' \in [Requests -> Keys \cup {NoFile}]
            /\ upload'[r] \in Keys /\ \A q \in Requests \ {r} : upload'[q] = upload[q]
        BY <1>0, <2>3, <3>1 DEF AboutTyped
      <3>3. CallsTyped' /\ \A q \in Requests \ {r} : pc'[q] = pc[q]
        BY <1>0, <2>3, TypedGoto DEF Stages, Tried
      <3>4. AboutTyped'
        BY <1>0, <2>1, <3>2 DEF AboutTyped
      <3> QED
        BY <1>0, <2>1, <3>2, <3>3, <3>4 DEF TypeInv, RowsTyped, Named
    <2> QED
      BY <1>1, <2>2, <2>3 DEF StartRegister
  <1>2. ASSUME NEW user \in Users, StartGetAllRegistrations(r, user) PROVE TypeInv'
    <2>1. AboutTyped' /\ UNCHANGED <<rows, cache, base, upload>>
      BY <1>0, <1>2 DEF StartGetAllRegistrations, stores, AboutTyped
    <2> QED
      BY <1>2, <2>1, HandlerTyped DEF StartGetAllRegistrations, Stages, Tried
  <1>3. ASSUME NEW k \in Lookups, StartLookup(r, k) PROVE TypeInv'
    <2>1. AboutTyped' /\ UNCHANGED <<rows, cache, base, upload>>
      BY <1>0, <1>3, ParticipantsAssumption DEF StartLookup, stores, request, AboutTyped
    <2> QED
      BY <1>3, <2>1, HandlerTyped DEF StartLookup, Stages, Tried
  <1>4. ASSUME NEW k \in Lookups, NEW columns \in Updates, StartUpdate(r, k, columns)
        PROVE  TypeInv'
    <2>1. AboutTyped' /\ UNCHANGED <<rows, cache, base, upload>>
      BY <1>0, <1>4, ParticipantsAssumption DEF StartUpdate, stores, AboutTyped
    <2> QED
      BY <1>4, <2>1, HandlerTyped DEF StartUpdate, Stages, Tried
  <1> QED
    BY <1>1, <1>2, <1>3, <1>4 DEF Start

\* Statements that store a row: what is stored is one.
LEMMA StoreTyped ==
  ASSUME TypeInv, Inv, NEW r \in Requests, Insert(r) \/ Submit(r) \/ Update(r)
  PROVE  TypeInv'
  <1>0. AboutTyped /\ RowsTyped /\ CallsTyped /\ Typed
    BY DEF TypeInv, Inv
  <1>1. <<me[r], current[served[r]]>> \in Keys
    BY <1>0 DEF Keys, AboutTyped
  <1>2. UNCHANGED <<files, current, cache, served, me, form, posted, upload, resume, base, todo>>
    BY DEF Insert, Submit, Update, request, progress
  <1>3. ASSUME NEW k \in Keys, NEW row \in AnyRow, Execute(k, row) PROVE rows' \in [Keys -> AnyRow]
    BY <1>0, <1>3 DEF Execute, RowsTyped
  <1>4. rows' \in [Keys -> AnyRow]
    <2>1. CASE Insert(r)
      <3>1. NewRow(r) \in AnyRow
        BY <1>0 DEF NewRow, Row, AnyRow, AboutTyped
      <3> QED
        BY <1>0, <1>1, <1>3, <2>1, <3>1 DEF Insert, RowsTyped
    <2>2. CASE Submit(r)
      <3> DEFINE k == <<me[r], current[served[r]]>>
      <3>1. rows[k] # NoRow => [rows[k] EXCEPT !.submitted = TRUE] \in AnyRow
        BY <1>0, <1>1 DEF RowsTyped, AnyRow, Row
      <3> QED
        BY <1>0, <1>1, <1>3, <2>2, <3>1 DEF Submit, RowsTyped
    <2>3. CASE Update(r)
      <3>1. pc[r] = "write" /\ target[r] \in Keys /\ base[r] \in Row
        BY <1>0, <2>3 DEF Update, Inv, OnCourse, Fitting, Fits
      <3>2. rows[target[r]] # NoRow => Merged(r, rows[target[r]]) \in AnyRow
        <4> SUFFICES ASSUME rows[target[r]] # NoRow PROVE Merged(r, rows[target[r]]) \in Row
          BY DEF AnyRow
        <4>1. rows[target[r]] \in Row
          BY <1>0, <3>1 DEF RowsTyped, AnyRow
        <4> DEFINE own == rows[target[r]]
        <4>2. /\ own.allergies \in Requests \cup {Nobody} /\ own.resume \in Resumes
              /\ base[r].major \in Requests \cup {Nobody} /\ base[r].submitted \in BOOLEAN
              /\ base[r].resume \in Resumes
          BY <3>1, <4>1 DEF Row
        <4> HIDE DEF own
        <4>3. Merged(r, own) \in Row
          BY <4>2 DEF Merged, Row, Resumes
        <4> QED
          BY <4>3 DEF own
      <3> QED
        BY <1>0, <1>3, <2>3, <3>1, <3>2 DEF Update, RowsTyped
    <2> QED
      BY <2>1, <2>2, <2>3
  <1>5. target' \in [Requests -> Keys \cup {NoKey}]
    BY <1>0, <1>1 DEF Insert, Submit, Update, progress, AboutTyped
  <1>6. CallsTyped' /\ pc'[r] # "upload" /\ \A q \in Requests \ {r} : pc'[q] = pc[q]
    <2>1. \/ \E stage \in {"submit", "mail"} : Goto(r, stage) /\ UNCHANGED reply
          \/ \E status \in {200, 400, 409} : Answer(r, status)
      BY DEF Insert, Submit, Update
    <2> QED
      BY <1>0, <2>1, TypedGoto, TypedAnswer DEF Stages, Tried
  <1> QED
    BY <1>0, <1>2, <1>4, <1>5, <1>6, NothingNamed DEF TypeInv, RowsTyped, AboutTyped

LEMMA GetTyped ==
  ASSUME RowsTyped, NEW i \in Instances, NEW k \in Keys, NEW row, NEW ignoreCache,
         Get(i, k, row, ignoreCache)
  PROVE  row \in AnyRow /\ cache' \in [Instances -> [Keys -> AnyRow]]
  <1>1. CASE row \in Cached(i, k) /\ UNCHANGED cache
    BY <1>1 DEF Cached, RowsTyped
  <1>2. CASE row = rows[k] /\ cache' = IF row = NoRow THEN cache
                                       ELSE [cache EXCEPT ![i] = [@ EXCEPT ![k] = row]]
    BY <1>2 DEF RowsTyped
  <1> QED
    BY <1>1, <1>2 DEF Get

LEMMA ReaderTyped ==
  ASSUME TypeInv, Inv, NEW r \in Requests,
         Look(r) \/ ReadForUpdate(r) \/ \E h \in Hackathons : GetAllRegistrationsByUser(r, h)
  PROVE  TypeInv'
  <1>0. AboutTyped /\ RowsTyped /\ CallsTyped
    BY DEF TypeInv
  <1>1. served[r] \in Instances /\ \A h \in Hackathons : <<me[r], h>> \in Keys
    BY <1>0 DEF Keys, AboutTyped
  <1>2. CASE Look(r)
    <2>1. target[r] \in Keys
      BY <1>2 DEF Look, Inv, OnCourse
    <2>2. cache' \in [Instances -> [Keys -> AnyRow]]
      BY <1>0, <1>1, <1>2, <2>1, GetTyped DEF Look
    <2>3. /\ UNCHANGED <<rows, files, current, request, progress>>
          /\ \E status \in {200, 404} : Answer(r, status)
      BY <1>2 DEF Look
    <2>4. CallsTyped' /\ pc'[r] # "upload" /\ \A q \in Requests \ {r} : pc'[q] = pc[q]
      BY <1>0, <2>3, TypedAnswer
    <2> QED
      BY <1>0, <2>2, <2>3, <2>4, NothingNamed DEF TypeInv, RowsTyped, AboutTyped, request, progress
  <1>3. CASE ReadForUpdate(r)
    <2>1. target[r] \in Keys
      BY <1>3 DEF ReadForUpdate, Inv, OnCourse
    <2>2. PICK row : /\ Get(served[r], target[r], row, FALSE)
                     /\ base' = [base EXCEPT ![r] = row]
      BY <1>3 DEF ReadForUpdate
    <2>3. row \in AnyRow /\ cache' \in [Instances -> [Keys -> AnyRow]]
      BY <1>0, <1>1, <2>1, <2>2, GetTyped
    <2>4. base' \in [Requests -> AnyRow]
      BY <1>0, <2>2, <2>3 DEF RowsTyped
    <2>5. /\ UNCHANGED <<rows, files, current, request, upload, resume, target, todo>>
          /\ \/ Goto(r, "write") /\ UNCHANGED reply
             \/ \E status \in {400, 404} : Answer(r, status)
      BY <1>3 DEF ReadForUpdate
    <2>6. CallsTyped' /\ pc'[r] # "upload" /\ \A q \in Requests \ {r} : pc'[q] = pc[q]
      BY <1>0, <2>5, TypedGoto, TypedAnswer DEF Stages, Tried
    <2> QED
      BY <1>0, <2>3, <2>4, <2>5, <2>6, NothingNamed DEF TypeInv, RowsTyped, AboutTyped, request
  <1>4. ASSUME NEW h \in Hackathons, GetAllRegistrationsByUser(r, h) PROVE TypeInv'
    <2>1. \/ UNCHANGED cache
          \/ \E row, ignoreCache : Get(served[r], <<me[r], h>>, row, ignoreCache)
      BY <1>4 DEF GetAllRegistrationsByUser
    <2>2. cache' \in [Instances -> [Keys -> AnyRow]]
      <3>1. CASE UNCHANGED cache
        BY <1>0, <3>1 DEF RowsTyped
      <3>2. ASSUME NEW row, NEW ignoreCache, Get(served[r], <<me[r], h>>, row, ignoreCache)
            PROVE  cache' \in [Instances -> [Keys -> AnyRow]]
        BY <1>0, <1>1, <3>2, GetTyped
      <3> QED
        BY <2>1, <3>1, <3>2
    <2>3. /\ UNCHANGED <<rows, files, current, request, upload, resume, target, base>>
          /\ todo' = [todo EXCEPT ![r] = todo[r] \ {h}]
          /\ Answer(r, 200) \/ UNCHANGED <<pc, reply>>
      BY <1>4 DEF GetAllRegistrationsByUser
    <2>4. todo' \in [Requests -> SUBSET Hackathons]
      BY <1>0, <2>3 DEF AboutTyped
    <2>5. pc[r] # "upload"
      BY <1>4 DEF GetAllRegistrationsByUser
    <2>6. CallsTyped' /\ pc'[r] # "upload" /\ \A q \in Requests \ {r} : pc'[q] = pc[q]
      <3>1. CASE Answer(r, 200)
        BY <1>0, <3>1, TypedAnswer
      <3>2. CASE UNCHANGED <<pc, reply>>
        BY <1>0, <2>5, <3>2 DEF CallsTyped
      <3> QED
        BY <2>3, <3>1, <3>2
    <2> QED
      BY <1>0, <2>2, <2>3, <2>4, <2>6, NothingNamed DEF TypeInv, RowsTyped, AboutTyped, request
  <1> QED
    BY <1>2, <1>3, <1>4

\* The other steps of a handler.
LEMMA ProceedTyped ==
  ASSUME TypeInv, Inv, NEW r \in Requests, Proceed(r)
  PROVE  TypeInv'
  <1>0. AboutTyped /\ RowsTyped /\ CallsTyped /\ Named
    BY DEF TypeInv
  <1>1. CASE FinishUpload(r)
    <2>1. /\ upload[r] \in Keys /\ files' = files \cup {upload[r]}
          /\ UNCHANGED <<rows, current, cache, request, progress>>
      BY <1>0, <1>1 DEF FinishUpload, Named
    <2>2. AboutTyped'
      BY <1>0, <2>1 DEF AboutTyped, request, progress
    <2> QED
      BY <1>1, <2>1, <2>2, HandlerTyped DEF FinishUpload, progress, Stages, Tried
  <1>2. CASE RegistrationHandler(r)
    <2>1. FileUrl(r) \in Keys
      BY <1>0 DEF FileUrl, FileName, Keys, AboutTyped
    <2>2. resume' \in [Requests -> Resumes]
      BY <1>0, <1>2, <2>1 DEF RegistrationHandler, GivenResume, AboutTyped, Resumes
    <2>3. AboutTyped' /\ UNCHANGED <<rows, cache, base, upload>>
      BY <1>0, <1>2, <2>2 DEF RegistrationHandler, AboutTyped, stores, request
    <2> QED
      BY <1>2, <2>3, HandlerTyped DEF RegistrationHandler, Stages, Tried
  <1>3. CASE \/ ValidateRegistrationFieldsMiddleware(r) \/ SendRegistrationEmail(r) \/ Locate(r)
             \/ Fail(r)
    <2>1. UNCHANGED <<stores, request, progress>>
      BY <1>3 DEF ValidateRegistrationFieldsMiddleware, SendRegistrationEmail, Locate, Fail
    <2>2. AboutTyped' /\ UNCHANGED <<rows, cache, base, upload>>
      BY <1>0, <2>1 DEF AboutTyped, stores, request, progress
    <2>3. \/ \E stage \in {"url", "look", "unanswered"} : Goto(r, stage) /\ UNCHANGED reply
          \/ \E status \in {200, 400, 500} : Answer(r, status)
      BY <1>3 DEF ValidateRegistrationFieldsMiddleware, SendRegistrationEmail, Locate, Fail
    <2> QED
      BY <2>2, <2>3, HandlerTyped DEF Stages, Tried
  <1> QED
    BY <1>1, <1>2, <1>3, StoreTyped, ReaderTyped DEF Proceed

LEMMA TypeStep == TypeInv /\ Inv /\ [Next]_vars => TypeInv'
  <1> SUFFICES ASSUME TypeInv, Inv, [Next]_vars PROVE TypeInv'
    OBVIOUS
  <1>1. ASSUME NEW i \in Instances, Remember(i) PROVE TypeInv'
    BY <1>1, ParticipantsAssumption DEF Remember, TypeInv, RowsTyped, CallsTyped, AboutTyped, Named,
       request, progress
  <1>2. ASSUME NEW i \in Instances, NEW k \in Keys, Evict(i, k) PROVE TypeInv'
    <2>1. cache' \in [Instances -> [Keys -> AnyRow]]
      BY <1>2 DEF Evict, TypeInv, RowsTyped, AnyRow
    <2> QED
      BY <1>2, <2>1 DEF Evict, TypeInv, RowsTyped, CallsTyped, AboutTyped, Named, request, progress
  <1>3. CASE UNCHANGED vars
    BY <1>3 DEF vars, stores, request, progress, TypeInv, RowsTyped, CallsTyped, AboutTyped, Named
  <1> QED
    BY <1>1, <1>2, <1>3, StartTyped, ProceedTyped DEF Next, AllServed

\* Rows, copies of rows and everything else that requests and processes remember stay
\* within their types, for whatever forms, updates and interleavings.
THEOREM TypeCorrect == Spec => []TypeOK
  <1>1. TypeInv => TypeOK
    BY DEF TypeInv, RowsTyped, CallsTyped, AboutTyped, TypeOK, AnyRow
  <1> QED
    BY <1>1, TypeInit, TypeStep, InvInit, InvStep, PTL DEF Spec

=============================================================================
