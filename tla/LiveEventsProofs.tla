-------------------------- MODULE LiveEventsProofs --------------------------
(***************************************************************************)
(* What holds of LiveEvents for every set of events, URLs and requests.    *)
(*                                                                         *)
(* SettledUrlsAreReplaced is not inductive: an INSERT that is under way    *)
(* when the DELETE takes effect must not be of a request that had settled  *)
(* before.  Urls belong to requests that were answered (Answered), and a   *)
(* request that had settled when another one started has stayed so         *)
(* (StaysSettled).                                                         *)
(*                                                                         *)
(* While clients have been careful and nothing failed, one request at most *)
(* is under way, and the URLs of an event, stored or being inserted, are   *)
(* those promised, but between the two statements of a delete (CalmInv).   *)
(* That takes a single hackathon: a delete that names another one than the *)
(* event's removes the URLs and leaves the event.                          *)
(***************************************************************************)
EXTENDS MCLiveEvents, TLAPS

Answered == \A u \in urls \cup inserting : pc[u.by] \in Ended

StaysSettled ==
  \A r \in Requests : \A q \in before[r] :
    pc[q] \in Ended /\ \A u \in inserting : u.by # q

ClearedStarted == \A r \in cleared : pc[r] # "idle"

IInv == TypeOK /\ Answered /\ StaysSettled /\ ClearedStarted /\ SettledUrlsAreReplaced

\* The rows that a request inserts are URLs of its event.
LEMMA PostedTyped ==
  ASSUME NEW r \in Requests, req[r] \in Request
  PROVE  Posted(r) \subseteq Url /\ \A u \in Posted(r) : u.by = r /\ u.event = req[r].event
  BY DEF Posted, Url, Request

\* What a SELECT of URLS answers is rows of URLS.
LEMMA SelectedTyped ==
  ASSUME TypeOK, NEW s \in Selects
  PROVE  Selected(s) \subseteq Url /\ AfterSelect(s) \in [Selects -> SUBSET Url]
  <1>1. Rows(s) \subseteq Url
    BY DEF Rows, TypeOK
  <1>2. cachedUrls[s] \subseteq Url
    BY DEF TypeOK
  <1>3. Selected(s) \subseteq Url
    BY <1>1, <1>2 DEF Selected
  <1> QED
    BY <1>3 DEF AfterSelect, TypeOK

LEMMA InitIInv == Init => IInv
  <1> SUFFICES ASSUME Init PROVE IInv
    OBVIOUS
  <1> USE DEF Init
  <1>1. TypeOK
    BY DEF TypeOK, Stages, Ended
  <1>2. Answered /\ StaysSettled /\ ClearedStarted /\ SettledUrlsAreReplaced
    BY DEF Answered, StaysSettled, ClearedStarted, SettledUrlsAreReplaced
  <1> QED
    BY <1>1, <1>2 DEF IInv

-----------------------------------------------------------------------------
\* Type correctness, one lemma per action that changes more than pc.
LEMMA AnswerTyped ==
  ASSUME TypeOK, NEW r \in Requests, pc[r] # "idle",
         NEW us \in SUBSET Url, NEW ps \in SUBSET Url, Answer(r, us, ps)
  PROVE  /\ pc' \in [Requests -> Stages]
         /\ reply' \in [Requests -> SUBSET Url]
         /\ promised' \in [Events -> SUBSET Url]
         /\ \A x \in Requests : pc'[x] # "idle" <=> pc[x] # "idle"
         /\ \A x \in Requests : pc[x] \in Ended => pc'[x] \in Ended
         /\ pc'[r] \in Ended
  <1>1. pc' = [pc EXCEPT ![r] = "done"]
    BY DEF Answer
  <1>2. reply' = [reply EXCEPT ![r] = us]
    BY DEF Answer
  <1>3. promised' = [promised EXCEPT ![req[r].event] = ps]
    BY DEF Answer
  <1>4. pc \in [Requests -> Stages] /\ reply \in [Requests -> SUBSET Url]
        /\ promised \in [Events -> SUBSET Url]
    BY DEF TypeOK
  <1>5. pc' \in [Requests -> Stages]
    BY <1>1, <1>4 DEF Stages, Ended
  <1>6. reply' \in [Requests -> SUBSET Url]
    BY <1>2, <1>4
  <1>7. promised' \in [Events -> SUBSET Url]
    BY <1>3, <1>4
  <1>8. \A x \in Requests : (pc'[x] # "idle" <=> pc[x] # "idle")
                            /\ (pc[x] \in Ended => pc'[x] \in Ended)
    BY <1>1, <1>4 DEF Ended
  <1>9. pc'[r] \in Ended
    BY <1>1, <1>4 DEF Ended
  <1> QED
    BY <1>5, <1>6, <1>7, <1>8, <1>9


-----------------------------------------------------------------------------
\* Every step but an arrival: rows come into URLS from INSERTs under way, INSERTs
\* are started by a request that ends with this step, and a request is recorded as
\* cleared when URLS has no row of its event.
StepOf(r) ==
  /\ urls' \subseteq urls \cup inserting
  /\ \A u \in inserting' :
       \/ u \in inserting
       \/ u.by = r /\ pc[r] \notin {"idle"} \cup Ended /\ pc'[r] \in Ended
  /\ before' = before
  /\ req' = req
  /\ \A x \in Requests : (pc[x] # "idle" => pc'[x] # "idle")
                         /\ (pc[x] \in Ended => pc'[x] \in Ended)
  /\ \/ cleared' = cleared
     \/ /\ cleared' = cleared \cup {r}
        /\ pc[r] # "idle"
        /\ \A u \in urls' : u.event # req[r].event

LEMMA StepKeeps ==
  ASSUME IInv, NEW r \in Requests, StepOf(r)
  PROVE  Answered' /\ StaysSettled' /\ ClearedStarted' /\ SettledUrlsAreReplaced'
  <1> USE DEF IInv
  <1>1. \A u \in urls \cup inserting : u.by \in Requests
    BY DEF TypeOK, Url
  <1>2. Answered'
    BY <1>1 DEF Answered, StepOf
  <1>3. \A q \in Requests : before[q] \subseteq Requests
    BY DEF TypeOK
  <1>4. StaysSettled'
    <2> SUFFICES ASSUME NEW x \in Requests, NEW q \in before'[x]
                 PROVE  pc'[q] \in Ended /\ \A u \in inserting' : u.by # q
      BY DEF StaysSettled
    <2>1. q \in before[x] /\ q \in Requests
      BY <1>3 DEF StepOf
    <2>2. pc[q] \in Ended /\ \A u \in inserting : u.by # q
      BY <2>1 DEF StaysSettled
    <2> QED
      BY <2>1, <2>2 DEF StepOf
  <1>5. cleared \subseteq Requests
    BY DEF TypeOK
  <1>6. ClearedStarted'
    BY <1>5 DEF ClearedStarted, StepOf
  <1>7. SettledUrlsAreReplaced'
    <2> SUFFICES ASSUME NEW x \in cleared', NEW u \in urls' \cup inserting',
                        u.event = req'[x].event
                 PROVE  u.by \notin before'[x]
      BY DEF SettledUrlsAreReplaced
    <2>1. x \in Requests /\ u.event = req[x].event /\ before' = before
      BY <1>5 DEF StepOf
    <2>2. CASE u \in inserting' /\ u \notin inserting
      BY <2>1, <2>2 DEF StepOf, StaysSettled
    <2>3. CASE u \in urls \cup inserting /\ x \in cleared
      BY <2>1, <2>3 DEF SettledUrlsAreReplaced
    <2>4. CASE u \in inserting /\ x \notin cleared
      BY <2>1, <2>4 DEF StepOf, StaysSettled
    <2>5. CASE u \in urls' /\ x \notin cleared
      BY <2>1, <2>5 DEF StepOf
    <2> QED
      BY <2>2, <2>3, <2>4, <2>5 DEF StepOf
  <1> QED
    BY <1>2, <1>4, <1>6, <1>7

\* An arrival records which requests have settled.
LEMMA ArriveKeeps ==
  ASSUME IInv, NEW r \in Requests, Arrive(r)
  PROVE  IInv'
  <1> USE DEF IInv
  <1>1. PICK q \in Request :
          /\ req' = [req EXCEPT ![r] = q]
          /\ pc' = [pc EXCEPT ![r] = IF q.kind = "delete" THEN "clear" ELSE "called"]
    BY DEF Arrive
  <1>2. pc[r] = "idle" /\ before' = [before EXCEPT ![r] = Settled]
    BY DEF Arrive
  <1>3. UNCHANGED <<urls, inserting, cleared>>
    BY DEF Arrive, dbVars
  <1>4. pc \in [Requests -> Stages] /\ before \in [Requests -> SUBSET Requests]
        /\ Settled \subseteq Requests
    BY DEF TypeOK, Settled
  <1>5. \A x \in Requests : x # r => pc'[x] = pc[x] /\ before'[x] = before[x]
    BY <1>1, <1>2, <1>4
  <1>6. pc'[r] \in {"clear", "called"} /\ before'[r] = Settled
    BY <1>1, <1>2, <1>4
  <1>7. TypeOK'
    <2>1. \A x \in Requests : pc'[x] # "idle" => req'[x] \in Request
      <3> SUFFICES ASSUME NEW x \in Requests, pc'[x] # "idle" PROVE req'[x] \in Request
        OBVIOUS
      <3>1. CASE x = r
        BY <3>1, <1>1 DEF TypeOK
      <3>2. CASE x # r
        BY <3>2, <1>1, <1>5 DEF TypeOK
      <3> QED
        BY <3>1, <3>2
    <2> QED
      BY <2>1, <1>1, <1>2, <1>4, <1>3
      DEF TypeOK, Stages, Ended, Arrive, dbVars, cacheVars
  <1>8. r \notin Settled /\ r \notin cleared
    BY <1>2 DEF Settled, ClearedStarted, Ended
  <1>9. Answered'
    <2> SUFFICES ASSUME NEW u \in urls \cup inserting PROVE pc'[u.by] \in Ended
      BY <1>3 DEF Answered
    <2>1. pc[u.by] \in Ended /\ u.by \in Requests
      BY DEF Answered, TypeOK, Url
    <2> QED
      BY <2>1, <1>2, <1>5 DEF Ended
  <1>10. StaysSettled'
    <2> SUFFICES ASSUME NEW x \in Requests, NEW y \in before'[x]
                 PROVE  pc'[y] \in Ended /\ \A u \in inserting : u.by # y
      BY <1>3 DEF StaysSettled
    <2>1. pc[y] \in Ended /\ y \in Requests /\ \A u \in inserting : u.by # y
      <3>1. CASE x = r
        BY <3>1, <1>6 DEF Settled
      <3>2. CASE x # r
        BY <3>2, <1>5, <1>4 DEF StaysSettled
      <3> QED
        BY <3>1, <3>2
    <2> QED
      BY <2>1, <1>2, <1>5 DEF Ended
  <1>11. ClearedStarted'
    BY <1>3, <1>5, <1>8 DEF ClearedStarted, TypeOK
  <1>12. SettledUrlsAreReplaced'
    <2> SUFFICES ASSUME NEW x \in cleared, NEW u \in urls \cup inserting,
                        u.event = req'[x].event
                 PROVE  u.by \notin before'[x]
      BY <1>3 DEF SettledUrlsAreReplaced
    <2>1. x # r /\ x \in Requests
      BY <1>8 DEF TypeOK
    <2>2. u.event = req[x].event
      BY <2>1, <1>1 
    <2> QED
      BY <2>1, <2>2, <1>5 DEF SettledUrlsAreReplaced
  <1> QED
    BY <1>7, <1>9, <1>10, <1>11, <1>12


-----------------------------------------------------------------------------
(***************************************************************************)
(* Each action of a request that was under way is such a step.             *)
(***************************************************************************)

\* A request moves on to a stage other than "idle".
LEMMA PcMoves ==
  ASSUME TypeOK, NEW r \in Requests, pc[r] \notin {"idle"} \cup Ended,
         NEW st \in Stages \ {"idle"}, pc' = [pc EXCEPT ![r] = st]
  PROVE  /\ pc' \in [Requests -> Stages]
         /\ \A x \in Requests : pc[x] # "idle" <=> pc'[x] # "idle"
         /\ \A x \in Requests : pc[x] \in Ended => pc'[x] \in Ended
         /\ pc'[r] = st
  <1>1. pc \in [Requests -> Stages]
    BY DEF TypeOK
  <1> QED
    BY <1>1

\* The parameters and histories that no step but an arrival and an answer changes.
LEMMA Unchanged ==
  ASSUME TypeOK, pc' \in [Requests -> Stages], UNCHANGED <<req, before>>,
         \A x \in Requests : pc[x] # "idle" <=> pc'[x] # "idle"
  PROVE  /\ req' \in [Requests -> Request \cup {NoRequest}]
         /\ \A x \in Requests : pc'[x] # "idle" => req'[x] \in Request
         /\ before' \in [Requests -> SUBSET Requests]
  BY DEF TypeOK

LEMMA InsertEventStep ==
  ASSUME IInv, NEW r \in Requests, InsertEvent(r)
  PROVE  TypeOK' /\ StepOf(r)
  <1> USE DEF IInv
  <1>1. pc[r] = "called" /\ req[r] \in Request
    BY DEF InsertEvent, TypeOK
  <1>2. inserting' = inserting \cup Posted(r) /\ Answer(r, Posted(r), Posted(r))
    BY DEF InsertEvent
  <1>3. UNCHANGED <<urls, cachedEvents, cachedUrls, req, cleared, before>>
    BY DEF InsertEvent, cacheVars
  <1>4. Posted(r) \subseteq Url /\ \A u \in Posted(r) : u.by = r
    BY <1>1, PostedTyped
  <1>5. /\ pc' \in [Requests -> Stages]
        /\ reply' \in [Requests -> SUBSET Url]
        /\ promised' \in [Events -> SUBSET Url]
        /\ \A x \in Requests : pc'[x] # "idle" <=> pc[x] # "idle"
        /\ \A x \in Requests : pc[x] \in Ended => pc'[x] \in Ended
        /\ pc'[r] \in Ended
    BY <1>1, <1>2, <1>4, AnswerTyped
  <1>6. hackathonOf' \in [Events -> Hackathons \cup {Nowhere}]
    BY <1>1 DEF InsertEvent, EventStored, TypeOK, Request
  <1>7. inserting' \in SUBSET Url
    BY <1>2, <1>4 DEF TypeOK
  <1>8. TypeOK'
    BY <1>3, <1>5, <1>6, <1>7, Unchanged DEF TypeOK
  <1>9. StepOf(r)
    BY <1>1, <1>2, <1>3, <1>4, <1>5 DEF StepOf, Ended
  <1> QED
    BY <1>8, <1>9

LEMMA UpdateEventStep ==
  ASSUME IInv, NEW r \in Requests, UpdateEvent(r)
  PROVE  TypeOK' /\ StepOf(r)
  <1> USE DEF IInv
  <1>1. pc[r] = "called"
    BY DEF UpdateEvent
  <1>2. PICK st \in {"read", "clear"} : pc' = [pc EXCEPT ![r] = st]
    BY DEF UpdateEvent
  <1>3. UNCHANGED <<dbVars, cacheVars, req, reply, history>>
    BY DEF UpdateEvent
  <1>4. /\ pc' \in [Requests -> Stages]
        /\ \A x \in Requests : pc[x] # "idle" <=> pc'[x] # "idle"
        /\ \A x \in Requests : pc[x] \in Ended => pc'[x] \in Ended
    BY <1>1, <1>2, PcMoves DEF Stages, Ended
  <1>5. TypeOK'
    BY <1>3, <1>4, Unchanged DEF TypeOK, dbVars, cacheVars, history
  <1>6. StepOf(r)
    BY <1>3, <1>4 DEF StepOf, dbVars, history
  <1> QED
    BY <1>5, <1>6

\* No row of the request's event is left once its URLs were deleted.
LEMMA RowsClearedTyped ==
  ASSUME TypeOK, NEW r \in Requests
  PROVE  /\ RowsCleared(r) \subseteq urls
         /\ \A u \in RowsCleared(r) : u.event # req[r].event
  BY DEF RowsCleared, Rows

LEMMA ReplaceUrlsStep ==
  ASSUME IInv, NEW r \in Requests, ReplaceUrls(r)
  PROVE  TypeOK' /\ StepOf(r)
  <1> USE DEF IInv
  <1>1. pc[r] = "clear" /\ req[r] \in Request
    BY DEF ReplaceUrls, TypeOK
  <1>2. inserting' = inserting \cup Posted(r) /\ Answer(r, Posted(r), Posted(r))
    BY DEF ReplaceUrls, ClearAndInsert
  <1>3. UNCHANGED <<hackathonOf, cachedEvents, cachedUrls, req, before>>
    BY DEF ReplaceUrls, cacheVars
  <1>4. Posted(r) \subseteq Url /\ \A u \in Posted(r) : u.by = r
    BY <1>1, PostedTyped
  <1>5. /\ pc' \in [Requests -> Stages]
        /\ reply' \in [Requests -> SUBSET Url]
        /\ promised' \in [Events -> SUBSET Url]
        /\ \A x \in Requests : pc'[x] # "idle" <=> pc[x] # "idle"
        /\ \A x \in Requests : pc[x] \in Ended => pc'[x] \in Ended
        /\ pc'[r] \in Ended
    BY <1>1, <1>2, <1>4, AnswerTyped
  <1>6. \/ urls' = RowsCleared(r) /\ cleared' = cleared \cup {r}
        \/ UNCHANGED <<urls, cleared>>
    BY DEF ReplaceUrls
  <1>7. urls' \subseteq urls
    BY <1>6, RowsClearedTyped
  <1>8. \/ cleared' = cleared
        \/ cleared' = cleared \cup {r} /\ \A u \in urls' : u.event # req[r].event
    BY <1>6, RowsClearedTyped
  <1>9. TypeOK'
    BY <1>2, <1>3, <1>4, <1>5, <1>7, <1>8, Unchanged DEF TypeOK
  <1>10. StepOf(r)
    BY <1>1, <1>2, <1>3, <1>4, <1>5, <1>7, <1>8 DEF StepOf, Ended
  <1> QED
    BY <1>9, <1>10

\* The two actions that answer with rows SELECTed from URLS, and store nothing.
LEMMA SelectStep ==
  ASSUME IInv, NEW r \in Requests, pc[r] \notin {"idle"} \cup Ended, req[r] \in Request,
         NEW s \in Selects, NEW us \in {Selected(s), {}},
         cachedUrls' \in {cachedUrls, AfterSelect(s)},
         Answer(r, us, promised[req[r].event]),
         UNCHANGED <<dbVars, cachedEvents, req, cleared, before>>
  PROVE  TypeOK' /\ StepOf(r)
  <1> USE DEF IInv
  <1>1. us \in SUBSET Url /\ cachedUrls' \in [Selects -> SUBSET Url]
    BY SelectedTyped DEF TypeOK
  <1>2. promised[req[r].event] \in SUBSET Url
    BY DEF TypeOK, Request
  <1>3. /\ pc' \in [Requests -> Stages]
        /\ reply' \in [Requests -> SUBSET Url]
        /\ promised' \in [Events -> SUBSET Url]
        /\ \A x \in Requests : pc'[x] # "idle" <=> pc[x] # "idle"
        /\ \A x \in Requests : pc[x] \in Ended => pc'[x] \in Ended
    BY <1>1, <1>2, AnswerTyped
  <1>4. TypeOK'
    BY <1>1, <1>3, Unchanged DEF TypeOK, dbVars
  <1>5. StepOf(r)
    BY <1>3 DEF StepOf, dbVars
  <1> QED
    BY <1>4, <1>5

LEMMA ReadOldUrlsStep ==
  ASSUME IInv, NEW r \in Requests, ReadOldUrls(r)
  PROVE  TypeOK' /\ StepOf(r)
  <1>1. pc[r] \notin {"idle"} \cup Ended /\ req[r] \in Request
    BY DEF IInv, TypeOK, ReadOldUrls, Ended
  <1>2. {req[r].event} \in Selects
    BY <1>1 DEF Selects, Request
  <1> QED
    BY <1>1, <1>2, SelectStep DEF ReadOldUrls

LEMMA GetUrlsStep ==
  ASSUME IInv, NEW r \in Requests, GetUrls(r)
  PROVE  TypeOK' /\ StepOf(r)
  <1>1. pc[r] \notin {"idle"} \cup Ended /\ req[r] \in Request
    BY DEF IInv, TypeOK, GetUrls, Ended
  <1>2. Events \in Selects
    BY DEF Selects
  <1> QED
    BY <1>1, <1>2, SelectStep DEF GetUrls


LEMMA DeleteUrlsStep ==
  ASSUME IInv, NEW r \in Requests, DeleteUrls(r)
  PROVE  TypeOK' /\ StepOf(r)
  <1> USE DEF IInv
  <1>1. pc[r] = "clear" /\ pc' = [pc EXCEPT ![r] = "called"]
    BY DEF DeleteUrls
  <1>2. /\ pc' \in [Requests -> Stages]
        /\ \A x \in Requests : pc[x] # "idle" <=> pc'[x] # "idle"
        /\ \A x \in Requests : pc[x] \in Ended => pc'[x] \in Ended
    BY <1>1, PcMoves DEF Stages, Ended
  <1>3. UNCHANGED <<hackathonOf, inserting, cachedEvents, cachedUrls, req, reply, before, promised>>
    BY DEF DeleteUrls, cacheVars
  <1>4. \/ urls' = RowsCleared(r) /\ cleared' = cleared \cup {r}
        \/ UNCHANGED <<urls, cleared>>
    BY DEF DeleteUrls
  <1>5. urls' \subseteq urls
    BY <1>4, RowsClearedTyped
  <1>6. \/ cleared' = cleared
        \/ cleared' = cleared \cup {r} /\ \A u \in urls' : u.event # req[r].event
    BY <1>4, RowsClearedTyped
  <1>7. TypeOK'
    BY <1>2, <1>3, <1>5, <1>6, Unchanged DEF TypeOK
  <1>8. StepOf(r)
    BY <1>1, <1>2, <1>3, <1>5, <1>6 DEF StepOf
  <1> QED
    BY <1>7, <1>8

LEMMA DeleteEventStep ==
  ASSUME IInv, NEW r \in Requests, DeleteEvent(r)
  PROVE  TypeOK' /\ StepOf(r)
  <1> USE DEF IInv
  <1>1. pc[r] = "called" /\ req[r] \in Request
    BY DEF DeleteEvent, TypeOK
  <1>2. PICK ps \in {{}, promised[req[r].event]} : Answer(r, {}, ps)
    BY DEF DeleteEvent
  <1>3. ps \in SUBSET Url
    BY <1>1 DEF TypeOK, Request
  <1>4. /\ pc' \in [Requests -> Stages]
        /\ reply' \in [Requests -> SUBSET Url]
        /\ promised' \in [Events -> SUBSET Url]
        /\ \A x \in Requests : pc'[x] # "idle" <=> pc[x] # "idle"
        /\ \A x \in Requests : pc[x] \in Ended => pc'[x] \in Ended
    BY <1>1, <1>2, <1>3, AnswerTyped
  <1>5. UNCHANGED <<urls, inserting, cachedEvents, cachedUrls, req, cleared, before>>
    BY DEF DeleteEvent, cacheVars
  <1>6. hackathonOf' \in [Events -> Hackathons \cup {Nowhere}]
    <2>1. hackathonOf' \in {hackathonOf, [hackathonOf EXCEPT ![req[r].event] = Nowhere]}
      BY DEF DeleteEvent
    <2> QED
      BY <2>1, <1>1 DEF TypeOK
  <1>7. TypeOK'
    BY <1>4, <1>5, <1>6, Unchanged DEF TypeOK
  <1>8. StepOf(r)
    BY <1>4, <1>5 DEF StepOf
  <1> QED
    BY <1>7, <1>8

LEMMA GetEventsStep ==
  ASSUME IInv, NEW r \in Requests, GetEvents(r)
  PROVE  TypeOK' /\ StepOf(r)
  <1> USE DEF IInv
  <1>1. pc[r] = "called" /\ pc' = [pc EXCEPT ![r] = "read"]
    BY DEF GetEvents
  <1>2. /\ pc' \in [Requests -> Stages]
        /\ \A x \in Requests : pc[x] # "idle" <=> pc'[x] # "idle"
        /\ \A x \in Requests : pc[x] \in Ended => pc'[x] \in Ended
    BY <1>1, PcMoves DEF Stages, Ended
  <1>3. cachedEvents' \in SUBSET Events
    BY DEF GetEvents, FoundEvents, Stored, TypeOK
  <1>4. UNCHANGED <<hackathonOf, urls, inserting, cachedUrls, req, reply, cleared, before, promised>>
    BY DEF GetEvents, dbVars, history
  <1>5. TypeOK'
    BY <1>2, <1>3, <1>4, Unchanged DEF TypeOK
  <1>6. StepOf(r)
    BY <1>2, <1>4 DEF StepOf
  <1> QED
    BY <1>5, <1>6

LEMMA StatementFailsStep ==
  ASSUME IInv, NEW r \in Requests, StatementFails(r)
  PROVE  TypeOK' /\ StepOf(r)
  <1> USE DEF IInv
  <1>1. pc[r] \in {"called", "clear"} /\ pc' = [pc EXCEPT ![r] = "failed"]
    BY DEF StatementFails, Fail
  <1>2. /\ pc' \in [Requests -> Stages]
        /\ \A x \in Requests : pc[x] # "idle" <=> pc'[x] # "idle"
        /\ \A x \in Requests : pc[x] \in Ended => pc'[x] \in Ended
    BY <1>1, PcMoves DEF Stages, Ended
  <1>3. UNCHANGED <<hackathonOf, urls, inserting, cachedEvents, cachedUrls, req, reply, cleared, before, promised>>
    BY DEF StatementFails, Fail, dbVars, cacheVars, history
  <1>4. TypeOK'
    BY <1>2, <1>3, Unchanged DEF TypeOK
  <1>5. StepOf(r)
    BY <1>2, <1>3 DEF StepOf
  <1> QED
    BY <1>4, <1>5

\* An INSERT that ends, whichever request r it is of.
LEMMA InsertUrlStep ==
  ASSUME IInv, NEW u \in inserting, InsertUrl(u), NEW r \in Requests
  PROVE  TypeOK' /\ StepOf(r)
  <1> USE DEF IInv
  <1>1. inserting' \subseteq inserting /\ urls' \subseteq urls \cup inserting
    BY DEF InsertUrl
  <1>2. UNCHANGED <<hackathonOf, cachedEvents, cachedUrls, pc, req, reply, cleared, before, promised>>
    BY DEF InsertUrl, cacheVars, history
  <1>3. TypeOK'
    BY <1>1, <1>2 DEF TypeOK
  <1>4. StepOf(r)
    BY <1>1, <1>2 DEF StepOf
  <1> QED
    BY <1>3, <1>4

LEMMA RestartStep ==
  ASSUME IInv, Restart, NEW r \in Requests
  PROVE  TypeOK' /\ StepOf(r)
  <1> USE DEF IInv
  <1>1. pc' = [x \in Requests |-> IF pc[x] \in {"idle"} \cup Ended THEN pc[x] ELSE "failed"]
    BY DEF Restart
  <1>2. pc \in [Requests -> Stages]
    BY DEF TypeOK
  <1>3. /\ pc' \in [Requests -> Stages]
        /\ \A x \in Requests : pc[x] # "idle" <=> pc'[x] # "idle"
        /\ \A x \in Requests : pc[x] \in Ended => pc'[x] \in Ended
    BY <1>1, <1>2 DEF Stages, Ended
  <1>4. UNCHANGED <<hackathonOf, urls, req, reply, cleared, before, promised>>
    BY DEF Restart, history
  <1>5. inserting' = {} /\ cachedEvents' = {} /\ cachedUrls' \in [Selects -> SUBSET Url]
    BY DEF Restart
  <1>6. TypeOK'
    BY <1>3, <1>4, <1>5, Unchanged DEF TypeOK
  <1>7. StepOf(r)
    BY <1>3, <1>4, <1>5 DEF StepOf
  <1> QED
    BY <1>6, <1>7

-----------------------------------------------------------------------------
LEMMA NextKeeps == IInv /\ [Next]_vars => IInv'
  <1> SUFFICES ASSUME IInv, [Next]_vars PROVE IInv'
    OBVIOUS
  <1>1. ASSUME NEW r \in Requests, Arrive(r) PROVE IInv'
    BY <1>1, ArriveKeeps
  <1>2. ASSUME NEW r \in Requests, Serve(r) PROVE IInv'
    <2>1. TypeOK' /\ StepOf(r)
      BY <1>2, InsertEventStep, UpdateEventStep, ReplaceUrlsStep, ReadOldUrlsStep,
         DeleteUrlsStep, DeleteEventStep, GetEventsStep, GetUrlsStep, StatementFailsStep
      DEF Serve
    <2> QED
      BY <2>1, StepKeeps DEF IInv
  <1>3. ASSUME NEW u \in inserting, InsertUrl(u) PROVE IInv'
    <2>1. u.by \in Requests
      BY DEF IInv, TypeOK, Url
    <2> QED
      BY <1>3, <2>1, InsertUrlStep, StepKeeps DEF IInv
  <1>4. ASSUME Restart, NEW r \in Requests PROVE IInv'
    BY <1>4, RestartStep, StepKeeps DEF IInv
  <1>5. CASE Restart /\ Requests = {}
    <2>1. pc' \in [Requests -> Stages]
      BY <1>5 DEF Restart
    <2>2. UNCHANGED <<hackathonOf, urls, req, reply, cleared, before, promised>>
          /\ inserting' = {} /\ cachedEvents' = {} /\ cachedUrls' \in [Selects -> SUBSET Url]
      BY <1>5 DEF Restart, history
    <2>3. urls = {} /\ cleared = {}
      BY <1>5 DEF IInv, TypeOK, Url
    <2> QED
      BY <1>5, <2>1, <2>2, <2>3
      DEF IInv, TypeOK, Answered, StaysSettled, ClearedStarted, SettledUrlsAreReplaced
  <1>6. CASE UNCHANGED vars
    BY <1>6 DEF IInv, TypeOK, Answered, StaysSettled, ClearedStarted,
       SettledUrlsAreReplaced, vars, dbVars, cacheVars, history
  <1> QED
    BY <1>1, <1>2, <1>3, <1>4, <1>5, <1>6 DEF Next

\* Every reachable state is well typed (requests, tables, caches, histories).
THEOREM TypeCorrect == Spec => []TypeOK
  <1>1. IInv => TypeOK
    BY DEF IInv
  <1> QED
    BY <1>1, InitIInv, NextKeeps, PTL DEF Spec

\* However requests to update and delete events overlap, fail, lose a COMMIT or
\* die with the process, the URLs of a request that had settled are gone from an
\* event once they were deleted for a later one, and do not come back
\* (updateEventHandler, deleteEventHandler).
THEOREM UrlsReplaced == Spec => []SettledUrlsAreReplaced
  <1>1. IInv => SettledUrlsAreReplaced
    BY DEF IInv
  <1> QED
    BY <1>1, InitIInv, NextKeeps, PTL DEF Spec

-----------------------------------------------------------------------------
(***************************************************************************)
(* Careful clients.  While the steps are calm, at most one request has not *)
(* settled, so nothing is being inserted while a handler is under way; the *)
(* rows of an event, stored or being inserted, are those promised, but     *)
(* between the two statements of a delete.                                 *)
(***************************************************************************)
Busy(r)     == pc[r] # "idle" /\ r \notin Settled
UnderWay(r) == pc[r] \notin {"idle"} \cup Ended
RowsOf(e)   == {u \in urls \cup inserting : u.event = e}

\* The URLs of event e were deleted by a request that will delete e.
Deleting(e) == \E r \in Requests :
  pc[r] = "called" /\ req[r].kind = "delete" /\ req[r].event = e

OneBusy     == \A r, q \in Requests : Busy(r) /\ Busy(q) => r = q
RowsPromised == \A e \in Events : RowsOf(e) = IF Deleting(e) THEN {} ELSE promised[e]
NonePromised == \A e \in Events \ Stored : promised[e] = {}
KnownNamed  == \A r \in Requests :
  /\ UnderWay(r) /\ req[r].kind = "update" => req[r].event \in Stored
  /\ UnderWay(r) /\ req[r].kind = "delete" => hackathonOf[req[r].event] = req[r].hackathon

CalmInv == OneBusy /\ RowsPromised /\ NonePromised /\ KnownNamed
CInv    == IInv /\ (calm => CalmInv)

\* What the instance for careful clients shares with the specification.
LEMMA CarefulSame ==
  ASSUME NEW r \in Requests
  PROVE  /\ Careful!Stored = Stored
         /\ Careful!Settled = Settled
         /\ Careful!Posted(r) = Posted(r)
         /\ Careful!RowsCleared(r) = RowsCleared(r)
         /\ \A us, ps : Careful!Answer(r, us, ps) <=> Answer(r, us, ps)
  <1>1. Careful!Stored = Stored
    BY DEF Careful!Stored, Stored
  <1>2. Careful!Settled = Settled
    BY DEF Careful!Settled, Settled, Careful!Ended, Ended
  <1>3. Careful!Posted(r) = Posted(r)
    BY DEF Careful!Posted, Posted
  <1>4. Careful!RowsCleared(r) = RowsCleared(r)
    BY DEF Careful!RowsCleared, RowsCleared, Careful!Rows, Rows
  <1>5. \A us, ps : Careful!Answer(r, us, ps) <=> Answer(r, us, ps)
    BY DEF Careful!Answer, Answer
  <1> QED
    BY <1>1, <1>2, <1>3, <1>4, <1>5

\* While a handler is under way nothing is being inserted, and no other request
\* is under way.
LEMMA AloneUnderWay ==
  ASSUME TypeOK, Answered, OneBusy, NEW r \in Requests, UnderWay(r)
  PROVE  inserting = {} /\ \A q \in Requests : UnderWay(q) => q = r
  <1>1. \A q \in Requests : UnderWay(q) => Busy(q)
    BY DEF UnderWay, Busy, Settled
  <1>2. \A u \in inserting : u.by \in Requests /\ pc[u.by] \in Ended /\ u.by \notin Settled
    BY DEF TypeOK, Url, Answered, Settled
  <1>3. \A u \in inserting : Busy(u.by)
    BY <1>2 DEF Busy, Ended
  <1>4. \A u \in inserting : u.by = r
    BY <1>1, <1>2, <1>3 DEF OneBusy
  <1> QED
    BY <1>1, <1>2, <1>4 DEF OneBusy, UnderWay

\* A step of request r, alone under way, that does not delete or store an event:
\* what the rows of r's event become is what is promised.
LEMMA CalmStep ==
  ASSUME IInv, CalmInv, NEW r \in Requests, UnderWay(r), req' = req, TypeOK',
         \A x \in Requests \ {r} : pc'[x] = pc[x],
         \A u \in inserting' : u.by = r,
         hackathonOf' = hackathonOf \/ ~UnderWay(r)',
         \A e \in Events : e # req[r].event =>
           RowsOf(e)' = RowsOf(e) /\ promised'[e] = promised[e] /\ (e \in Stored => e \in Stored'),
         pc[r] = "called" /\ req[r].kind = "delete" => pc'[r] # "called",
         LET e == req[r].event IN
           /\ IF pc'[r] = "called" /\ req[r].kind = "delete"
                THEN RowsOf(e)' = {} ELSE RowsOf(e)' = promised'[e]
           /\ e \notin Stored' => promised'[e] = {}
  PROVE  CalmInv'
  <1> DEFINE e0 == req[r].event
  <1> USE DEF IInv, CalmInv
  <1>1. \A q \in Requests : UnderWay(q) => q = r
    BY AloneUnderWay
  <1>2. \A q \in Requests \ {r} : pc[q] \in {"idle"} \cup Ended /\ pc'[q] = pc[q]
    BY <1>1 DEF UnderWay
  <1>3. OneBusy'
    <2>1. \A q \in Requests \ {r} : ~Busy(q)'
      BY <1>2 DEF Busy, Settled
    <2> QED
      BY <2>1 DEF OneBusy
  <1>4. \A q \in Requests : UnderWay(q)' => q = r
    BY <1>2 DEF UnderWay
  <1>5. KnownNamed'
    BY <1>4 DEF KnownNamed, Stored
  <1>6. NonePromised'
    BY DEF NonePromised
  <1>7. RowsPromised'
    <2> SUFFICES ASSUME NEW e \in Events
                 PROVE  RowsOf(e)' = IF Deleting(e)' THEN {} ELSE promised'[e]
      BY DEF RowsPromised
    <2>1. Deleting(e)' <=> pc'[r] = "called" /\ req[r].kind = "delete" /\ req[r].event = e
      BY <1>4 DEF Deleting, UnderWay, Ended
    <2>2. CASE e = req[r].event
      BY <2>1, <2>2
    <2>3. CASE e # req[r].event
      <3>1. ~Deleting(e)
        BY <1>1, <2>3 DEF Deleting, UnderWay, Ended
      <3> QED
        BY <2>1, <2>3, <3>1 DEF RowsPromised
    <2> QED
      BY <2>2, <2>3
  <1> QED
    BY <1>3, <1>5, <1>6, <1>7

\* A request arrives once all others have settled.
LEMMA CalmArrive ==
  ASSUME IInv, CalmInv, NEW r \in Requests, Careful!Arrive(r), TypeOK'
  PROVE  CalmInv'
  <1> USE DEF IInv, CalmInv
  <1>1. PICK q \in Request :
          /\ q.kind = "update" => q.event \in Stored
          /\ q.kind = "delete" => hackathonOf[q.event] = q.hackathon
          /\ req' = [req EXCEPT ![r] = q]
          /\ pc' = [pc EXCEPT ![r] = IF q.kind = "delete" THEN "clear" ELSE "called"]
    BY CarefulSame DEF Careful!Arrive, Careful!Request, Request
  <1>2. pc[r] = "idle" /\ \A x \in Requests : pc[x] = "idle" \/ x \in Settled
    BY CarefulSame DEF Careful!Arrive
  <1>3. UNCHANGED <<hackathonOf, urls, inserting, promised>>
    BY DEF Careful!Arrive, Careful!dbVars
  <1>4. /\ \A x \in Requests \ {r} : pc'[x] = pc[x] /\ req'[x] = req[x]
        /\ req'[r] = q /\ pc'[r] = IF q.kind = "delete" THEN "clear" ELSE "called"
    BY <1>1 DEF TypeOK
  <1>5. \A x \in Requests \ {r} : ~Busy(x)' /\ ~UnderWay(x) /\ ~UnderWay(x)'
    BY <1>2, <1>3, <1>4 DEF Busy, UnderWay, Settled
  <1>6. OneBusy'
    BY <1>5 DEF OneBusy
  <1>7. Stored' = Stored /\ \A e \in Events : RowsOf(e)' = RowsOf(e)
    BY <1>3 DEF Stored, RowsOf
  <1>8. KnownNamed'
    BY <1>1, <1>3, <1>4, <1>5, <1>7 DEF KnownNamed
  <1>9. NonePromised'
    BY <1>3, <1>7 DEF NonePromised
  <1>10. \A e \in Events : ~Deleting(e) /\ ~Deleting(e)'
    BY <1>2, <1>4, <1>5 DEF Deleting, UnderWay, Ended
  <1>11. RowsPromised'
    BY <1>3, <1>7, <1>10 DEF RowsPromised
  <1> QED
    BY <1>6, <1>8, <1>9, <1>11

\* An INSERT ends, without failing.
LEMMA CalmInsertUrl ==
  ASSUME IInv, CalmInv, NEW u \in inserting, Careful!InsertUrl(u)
  PROVE  CalmInv'
  <1> USE DEF IInv, CalmInv
  <1>1. inserting' = inserting \ {u} /\ urls' = urls \cup {u}
    BY DEF Careful!InsertUrl
  <1>2. UNCHANGED <<hackathonOf, pc, req, promised>>
    BY DEF Careful!InsertUrl, Careful!history
  <1>3. \A e \in Events : RowsOf(e)' = RowsOf(e)
    BY <1>1 DEF RowsOf
  <1>4. Settled \subseteq Settled'
    BY <1>1, <1>2 DEF Settled
  <1>5. OneBusy'
    BY <1>2, <1>4 DEF OneBusy, Busy
  <1>6. KnownNamed' /\ NonePromised'
    BY <1>2 DEF KnownNamed, NonePromised, UnderWay, Stored
  <1>7. RowsPromised'
    BY <1>2, <1>3 DEF RowsPromised, Deleting
  <1> QED
    BY <1>5, <1>6, <1>7

\* A handler of a careful client moves on, or is answered, and the rest is as
\* before: the rows of its event and what is promised stay or change together.
LEMMA CalmServe ==
  ASSUME IInv, CalmInv, TypeOK', NEW r \in Requests, Careful!Serve(r)
  PROVE  CalmInv'
  <1> DEFINE e0 == req[r].event
  <1> USE DEF IInv, CalmInv
  <1>1. UnderWay(r) /\ req[r] \in Request /\ e0 \in Events
    <2>1. pc[r] \in {"called", "clear", "read"}
      BY DEF Careful!Serve, Careful!InsertEvent, Careful!UpdateEvent, Careful!ReplaceUrls,
         Careful!ReadOldUrls, Careful!DeleteUrls, Careful!DeleteEvent, Careful!GetEvents,
         Careful!GetUrls, Careful!StatementFails
    <2> QED
      BY <2>1 DEF UnderWay, Ended, TypeOK, Request
  <1>2. inserting = {} /\ \A q \in Requests : UnderWay(q) => q = r
    BY <1>1, AloneUnderWay
  <1>3. pc \in [Requests -> Stages] /\ promised \in [Events -> SUBSET Url]
        /\ hackathonOf \in [Events -> Hackathons \cup {Nowhere}]
    BY DEF TypeOK
  <1>4. \A e \in Events : e # e0 => ~Deleting(e)
    BY <1>2 DEF Deleting, UnderWay, Ended
  <1>5. ~(pc[r] = "called" /\ req[r].kind = "delete") => RowsOf(e0) = promised[e0]
    <2> HAVE ~(pc[r] = "called" /\ req[r].kind = "delete")
    <2>1. ~Deleting(e0)
      BY <1>2 DEF Deleting, UnderWay, Ended
    <2> QED
      BY <1>1, <2>1 DEF RowsPromised
  <1>6. \A us, ps : Answer(r, us, ps) =>
          /\ \A x \in Requests \ {r} : pc'[x] = pc[x]
          /\ pc'[r] = "done"
          /\ promised'[e0] = ps
          /\ \A e \in Events : e # e0 => promised'[e] = promised[e]
    BY <1>1, <1>3 DEF Answer
  <1>7. \A u \in Posted(r) : u.by = r /\ u.event = e0
    BY <1>1, PostedTyped
  <1>8. ASSUME Careful!InsertEvent(r) PROVE CalmInv'
    <2>1. e0 \notin Stored /\ pc[r] = "called" /\ req[r].kind = "post"
      BY <1>8, CarefulSame DEF Careful!InsertEvent
    <2>2. /\ hackathonOf' = [hackathonOf EXCEPT ![e0] = req[r].hackathon]
          /\ UNCHANGED <<urls, req>>
      BY <1>8 DEF Careful!InsertEvent, Careful!EventStored
    <2>3. inserting' = Posted(r) /\ Answer(r, Posted(r), Posted(r))
      BY <1>8, <1>2, CarefulSame DEF Careful!InsertEvent
    <2>4. RowsOf(e0) = {}
      BY <1>1, <1>5, <2>1 DEF NonePromised
    <2>5. RowsOf(e0)' = Posted(r)
      BY <2>2, <2>3, <2>4, <1>2, <1>7 DEF RowsOf
    <2>6. \A e \in Events : e # e0 => RowsOf(e)' = RowsOf(e)
      BY <2>2, <2>3, <1>2, <1>7 DEF RowsOf
    <2>7. Stored \subseteq Stored' /\ e0 \in Stored'
      BY <2>2, <1>1, <1>3, ConstantsAssumption DEF Stored, Request
    <2>8. ~UnderWay(r)'
      BY <2>3, <1>6 DEF UnderWay, Ended
    <2> QED
      BY <1>1, <1>6, <1>7, <2>1, <2>2, <2>3, <2>5, <2>6, <2>7, <2>8, CalmStep
  <1>9. ASSUME NEW st \in {"read", "clear", "failed"}, pc' = [pc EXCEPT ![r] = st],
               UNCHANGED <<urls, inserting, hackathonOf, promised, req>>,
               ~(pc[r] = "called" /\ req[r].kind = "delete")
        PROVE  CalmInv'
    <2>1. Stored' = Stored /\ \A e \in Events : RowsOf(e)' = RowsOf(e)
      BY <1>9 DEF Stored, RowsOf
    <2>2. \A x \in Requests \ {r} : pc'[x] = pc[x]
      BY <1>3, <1>9
    <2>3. pc'[r] = st
      BY <1>3, <1>9
    <2>4. e0 \notin Stored' => promised'[e0] = {}
      BY <2>1, <1>1, <1>9 DEF NonePromised
    <2>5. RowsOf(e0)' = promised'[e0]
      BY <2>1, <1>1, <1>5, <1>9
    <2>6. \A u \in inserting' : u.by = r
      BY <1>2, <1>9
    <2> QED
      BY <1>1, <1>9, <2>1, <2>2, <2>3, <2>4, <2>5, <2>6, CalmStep
  <1>10. ASSUME Careful!UpdateEvent(r) PROVE CalmInv'
    <2>1. PICK st \in {"read", "clear"} : pc' = [pc EXCEPT ![r] = st]
      BY <1>10 DEF Careful!UpdateEvent
    <2>2. /\ UNCHANGED <<urls, inserting, hackathonOf, promised, req>>
          /\ req[r].kind = "update"
      BY <1>10 DEF Careful!UpdateEvent, Careful!dbVars, Careful!history
    <2> QED
      BY <1>9, <2>1, <2>2
  <1>11. ASSUME Careful!GetEvents(r) PROVE CalmInv'
    <2>1. pc' = [pc EXCEPT ![r] = "read"]
      BY <1>11 DEF Careful!GetEvents
    <2>2. /\ UNCHANGED <<urls, inserting, hackathonOf, promised, req>>
          /\ req[r].kind = "get"
      BY <1>11 DEF Careful!GetEvents, Careful!dbVars, Careful!history
    <2> QED
      BY <1>9, <2>1, <2>2
  <1>12. ASSUME Careful!StatementFails(r) PROVE CalmInv'
    <2>1. pc' = [pc EXCEPT ![r] = "failed"]
      BY <1>12 DEF Careful!StatementFails, Careful!Fail
    <2>2. /\ UNCHANGED <<urls, inserting, hackathonOf, promised, req>>
          /\ req[r].kind \in {"post", "get"}
      BY <1>12 DEF Careful!StatementFails, Careful!Fail, Careful!dbVars, Careful!history
    <2> QED
      BY <1>9, <2>1, <2>2
  <1>13. ASSUME Careful!ReplaceUrls(r) PROVE CalmInv'
    <2>1. pc[r] = "clear" /\ req[r].kind = "update"
      BY <1>13 DEF Careful!ReplaceUrls
    <2>2. urls' = RowsCleared(r) /\ UNCHANGED <<hackathonOf, req>>
      BY <1>13, CarefulSame DEF Careful!ReplaceUrls
    <2>3. inserting' = Posted(r) /\ Answer(r, Posted(r), Posted(r))
      BY <1>13, <1>2, CarefulSame DEF Careful!ReplaceUrls, Careful!ClearAndInsert
    <2>4. RowsOf(e0)' = Posted(r)
      BY <2>2, <2>3, <1>7 DEF RowsOf, RowsCleared, Rows
    <2>5. \A e \in Events : e # e0 => RowsOf(e)' = RowsOf(e)
      BY <2>2, <2>3, <1>2, <1>7 DEF RowsOf, RowsCleared, Rows
    <2>6. Stored' = Stored /\ e0 \in Stored
      BY <2>1, <2>2, <1>1 DEF Stored, KnownNamed
    <2>7. pc'[r] = "done" /\ \A x \in Requests \ {r} : pc'[x] = pc[x]
      BY <2>3, <1>6
    <2>8. promised'[e0] = Posted(r) /\ \A e \in Events : e # e0 => promised'[e] = promised[e]
      BY <2>3, <1>6
    <2>9. \A u \in inserting' : u.by = r
      BY <2>3, <1>7
    <2> QED
      BY <1>1, <2>1, <2>2, <2>4, <2>5, <2>6, <2>7, <2>8, <2>9, CalmStep
  <1>14. ASSUME NEW us, Answer(r, us, promised[e0]), UNCHANGED <<dbVars, req>>,
                ~(pc[r] = "called" /\ req[r].kind = "delete")
         PROVE  CalmInv'
    <2>1. /\ hackathonOf' = hackathonOf /\ Stored' = Stored
          /\ \A e \in Events : RowsOf(e)' = RowsOf(e)
      BY <1>14 DEF Stored, RowsOf, dbVars
    <2>2. e0 \notin Stored' => promised'[e0] = {}
      BY <2>1, <1>1, <1>6, <1>14 DEF NonePromised
    <2>3. RowsOf(e0)' = promised'[e0]
      BY <2>1, <1>1, <1>5, <1>6, <1>14
    <2>4. \A u \in inserting' : u.by = r
      BY <1>2, <1>14 DEF dbVars
    <2> QED
      BY <1>1, <1>6, <1>14, <2>1, <2>2, <2>3, <2>4, CalmStep
  <1>15. ASSUME Careful!ReadOldUrls(r) PROVE CalmInv'
    <2>1. PICK us : Answer(r, us, promised[e0])
      BY <1>15, CarefulSame DEF Careful!ReadOldUrls
    <2>2. UNCHANGED <<dbVars, req>> /\ req[r].kind = "update"
      BY <1>15 DEF Careful!ReadOldUrls, Careful!dbVars, dbVars
    <2> QED
      BY <1>14, <2>1, <2>2
  <1>16. ASSUME Careful!GetUrls(r) PROVE CalmInv'
    <2>1. PICK us : Answer(r, us, promised[e0])
      BY <1>16, CarefulSame DEF Careful!GetUrls
    <2>2. UNCHANGED <<dbVars, req>> /\ req[r].kind = "get"
      BY <1>16 DEF Careful!GetUrls, Careful!dbVars, dbVars
    <2> QED
      BY <1>14, <2>1, <2>2
  <1>17. ASSUME Careful!DeleteUrls(r) PROVE CalmInv'
    <2>1. pc[r] = "clear" /\ req[r].kind = "delete" /\ pc' = [pc EXCEPT ![r] = "called"]
      BY <1>17 DEF Careful!DeleteUrls
    <2>2. urls' = RowsCleared(r) /\ UNCHANGED <<hackathonOf, inserting, req, promised>>
      BY <1>17, CarefulSame DEF Careful!DeleteUrls
    <2>3. RowsOf(e0)' = {} /\ \A u \in inserting' : u.by = r
      BY <2>2, <1>2 DEF RowsOf, RowsCleared, Rows
    <2>4. \A e \in Events : e # e0 => RowsOf(e)' = RowsOf(e)
      BY <2>2, <1>2 DEF RowsOf, RowsCleared, Rows
    <2>5. Stored' = Stored /\ hackathonOf' = hackathonOf /\ e0 \in Stored
      <3>1. hackathonOf[e0] = req[r].hackathon /\ req[r].hackathon \in Hackathons
        BY <2>1, <1>1 DEF KnownNamed, Request
      <3> QED
        BY <2>2, <3>1, <1>1, ConstantsAssumption DEF Stored
    <2>6. pc'[r] = "called" /\ \A x \in Requests \ {r} : pc'[x] = pc[x]
      BY <2>1, <1>3
    <2> QED
      BY <1>1, <2>1, <2>2, <2>3, <2>4, <2>5, <2>6, CalmStep
  <1>18. ASSUME Careful!DeleteEvent(r) PROVE CalmInv'
    <2>1. pc[r] = "called" /\ req[r].kind = "delete"
      BY <1>18 DEF Careful!DeleteEvent
    <2>3. hackathonOf[e0] = req[r].hackathon
      BY <2>1, <1>1 DEF KnownNamed
    <2>4. hackathonOf' = [hackathonOf EXCEPT ![e0] = Nowhere] /\ Answer(r, {}, {})
      BY <1>18, <2>3, CarefulSame DEF Careful!DeleteEvent
    <2>5. UNCHANGED <<urls, inserting, req>>
      BY <1>18 DEF Careful!DeleteEvent
    <2>6. Deleting(e0)
      BY <2>1 DEF Deleting
    <2>7. RowsOf(e0)' = {} /\ \A e \in Events : RowsOf(e)' = RowsOf(e)
      BY <1>1, <2>5, <2>6 DEF RowsOf, RowsPromised
    <2>8. \A e \in Events : e # e0 /\ e \in Stored => e \in Stored'
      BY <2>4, <1>3 DEF Stored
    <2>9. ~UnderWay(r)'
      BY <2>4, <1>6 DEF UnderWay, Ended
    <2> QED
      BY <1>1, <1>2, <1>6, <2>1, <2>4, <2>5, <2>7, <2>8, <2>9, CalmStep
  <1> QED
    BY <1>8, <1>10, <1>11, <1>12, <1>13, <1>15, <1>16, <1>17, <1>18 DEF Careful!Serve

LEMMA CalmNextKeeps ==
  ASSUME CInv, [CalmNext]_<<vars, calm>>
  PROVE  CInv'
  <1>1. IInv'
    BY NextKeeps DEF CInv, CalmNext
  <1>2. ASSUME calm' PROVE CalmInv'
    <2>1. CASE CalmNext
      <3>1. calm /\ Careful!Next
        BY <1>2, <2>1 DEF CalmNext
      <3>2. IInv /\ CalmInv
        BY <3>1 DEF CInv
      <3>3. TypeOK'
        BY <1>1 DEF IInv
      <3> QED
        BY <3>1, <3>2, <3>3, CalmArrive, CalmServe, CalmInsertUrl
        DEF Careful!Next, Careful!Restart
    <2>2. CASE UNCHANGED <<vars, calm>>
      <3>1. CalmInv /\ UNCHANGED <<hackathonOf, urls, inserting, pc, req, promised>>
        BY <1>2, <2>2 DEF CInv, vars, dbVars, history
      <3> QED
        BY <3>1 DEF CalmInv, OneBusy, RowsPromised, NonePromised, KnownNamed, Busy,
           UnderWay, RowsOf, Deleting, Settled, Stored
    <2> QED
      BY <2>1, <2>2
  <1> QED
    BY <1>1, <1>2 DEF CInv

LEMMA CalmInitInv == CalmInit => CInv
  <1> SUFFICES ASSUME CalmInit PROVE CInv
    OBVIOUS
  <1>1. Init
    BY DEF CalmInit
  <1>2. \A r \in Requests : pc[r] = "idle"
    BY <1>1 DEF Init
  <1>3. \A e \in Events : promised[e] = {} /\ RowsOf(e) = {} /\ ~Deleting(e)
    BY <1>1, <1>2 DEF Init, RowsOf, Deleting
  <1>4. CalmInv
    BY <1>2, <1>3 DEF CalmInv, OneBusy, RowsPromised, NonePromised, KnownNamed, Busy, UnderWay
  <1> QED
    BY <1>1, <1>4, InitIInv DEF CInv

\* With nothing under way, what the rows of an event are is what is stored.
LEMMA SettledRows == CInv => UrlsAsPostedIfCalm
  <1> SUFFICES ASSUME CInv, calm, \A r \in Requests : pc[r] = "idle" \/ r \in Settled,
                      NEW e \in Events
               PROVE  Rows({e}) = promised[e]
    BY DEF UrlsAsPostedIfCalm, UrlsAsPosted
  <1>1. \A u \in inserting : u.by \in Requests /\ pc[u.by] \in Ended /\ u.by \notin Settled
    BY DEF CInv, IInv, TypeOK, Url, Answered, Settled
  <1>2. inserting = {}
    BY <1>1 DEF Ended
  <1>3. ~Deleting(e)
    BY DEF Deleting, Settled, Ended
  <1> QED
    BY <1>2, <1>3 DEF CInv, CalmInv, RowsPromised, RowsOf, Rows

\* While requests wait for all effects of the previous ones, name stored events, to be
\* deleted from their hackathon, and nothing fails, every event has exactly the URLs of
\* the last request that posted some, and a deleted event has none, for any number of
\* events, hackathons, URLs and requests (postEventHandler, updateEventHandler,
\* deleteEventHandler).  A delete that names another hackathon would remove the URLs
\* and not the event.
THEOREM UrlsPostedIfCalm == CalmSpec => []UrlsAsPostedIfCalm
  <1>1. CInv /\ [CalmNext]_<<vars, calm>> => CInv'
    BY CalmNextKeeps
  <1> QED
    BY <1>1, CalmInitInv, SettledRows, PTL DEF CalmSpec

=============================================================================
