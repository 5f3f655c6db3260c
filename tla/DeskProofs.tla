----------------------------- MODULE DeskProofs -----------------------------
(***************************************************************************)
(* What holds of Desk for any requests, processes, pins, bands, batches    *)
(* and equipment.                                                          *)
(*                                                                         *)
(* Pins: an issue is written to one document only, and a request that has  *)
(* deleted its pin's document finds no newer one with the issue it read    *)
(* (SpentOnce); what the desk does leaves all that alone (Elsewhere).      *)
(* Loans: an assignment is never changed, so what a request has looked up  *)
(* stays true until it has lent (WearerIsKnown).                           *)
(* Batches: what is stored has been reported as a success in the same step *)
(* (StoredIsTold), and the status is one that fits every report.           *)
(***************************************************************************)
EXTENDS Desk, FiniteSetTheorems, TLAPS

Confirming == {"readPin", "deletePin", "deleteStalePin", "generateKey"}

PinsTyped ==
  /\ pins \in [Pins -> Nat]
  /\ issued \in Nat
  /\ apikeys \subseteq Requests
  /\ pin \in [Requests -> Pins]
  /\ found \in [Requests -> Nat]
  /\ pc \in [Requests -> Stages]

\* Issues are numbered upwards; a request that has read a pin knows its issue; one
\* that has a key, or is about to make it, has removed that issue.
SpentOnce ==
  /\ \A p \in Pins : pins[p] <= issued
  /\ \A r \in Requests : found[r] <= issued
  /\ \A r \in Requests :
       pc[r] \in {"deletePin", "generateKey"} \/ r \in apikeys => found[r] # 0
  /\ \A r \in Requests :
       pc[r] = "generateKey" \/ r \in apikeys => pins[pin[r]] # found[r]
  /\ \A r \in apikeys : pc[r] = "answered"

PinInv == PinsTyped /\ SpentOnce

\* Steps that neither touch pins and keys nor requests that confirm one.
Elsewhere ==
  /\ UNCHANGED <<pins, issued, apikeys, pin, found>>
  /\ pc' \in [Requests -> Stages]
  /\ \A q \in Requests : pc'[q] # pc[q] =>
       pc[q] \notin Confirming \cup {"answered"} /\ pc'[q] \notin Confirming

LEMMA PinInit == Init => PinInv
  <1> SUFFICES ASSUME Init PROVE PinInv
    OBVIOUS
  <1>1. (CHOOSE p \in Pins : TRUE) \in Pins
    BY ScannersAssumption
  <1> QED
    BY <1>1 DEF Init, ScannersInit, PinInv, PinsTyped, SpentOnce, Stages

LEMMA PinElsewhere == PinInv /\ Elsewhere => PinInv'
  BY DEF PinInv, PinsTyped, SpentOnce, Elsewhere, Confirming

\* Where a handler goes: nobody else moves.
LEMMA Moves ==
  ASSUME PinsTyped, NEW r \in Requests, NEW stage \in Stages, Goto(r, stage)
  PROVE  /\ pc' \in [Requests -> Stages]
         /\ pc'[r] = stage
         /\ \A q \in Requests \ {r} : pc'[q] = pc[q]
  BY DEF PinsTyped, Goto

LEMMA Ends ==
  ASSUME PinsTyped, NEW r \in Requests, NEW status, Answer(r, status)
  PROVE  /\ pc' \in [Requests -> Stages]
         /\ pc'[r] = "answered"
         /\ \A q \in Requests \ {r} : pc'[q] = pc[q]
  BY Moves DEF Answer, Stages

\* Every step of a scanner's registration preserves it.
LEMMA ScannersStep == PinInv /\ ScannersNext => PinInv'
  <1> SUFFICES ASSUME PinInv, ScannersNext PROVE PinInv'
    OBVIOUS
  <1> USE DEF PinInv
  <1>1. ASSUME NEW p \in Pins, GeneratePinAuthenticator(p) PROVE PinInv'
    <2>1. /\ issued' = issued + 1
          /\ pins' = [pins EXCEPT ![p] = issued + 1]
          /\ UNCHANGED <<apikeys, pc, pin, found>>
      BY <1>1 DEF GeneratePinAuthenticator
    <2>2. PinsTyped'
      BY <2>1 DEF PinsTyped
    <2>3. \A q \in Pins : pins'[q] = IF q = p THEN issued + 1 ELSE pins[q]
      BY <2>1 DEF PinsTyped
    <2>4. ASSUME NEW r \in Requests, pc[r] = "generateKey" \/ r \in apikeys
          PROVE  pins'[pin[r]] # found[r]
      <3>1. pin[r] \in Pins /\ found[r] \in Nat /\ issued \in Nat
        BY DEF PinsTyped
      <3>2. found[r] <= issued /\ pins[pin[r]] # found[r]
        BY <2>4 DEF SpentOnce
      <3> QED
        BY <2>3, <3>1, <3>2
    <2> QED
      BY <2>1, <2>2, <2>3, <2>4 DEF SpentOnce, PinsTyped
  <1>2. ASSUME NEW r \in Requests, NEW p \in Pins \cup {0}, NEW d \in Devices,
               ConfirmRegister(r, p, d)
        PROVE  PinInv'
    <2>1. pc[r] = "idle" /\ UNCHANGED <<pins, issued, apikeys, found>>
      BY <1>2 DEF ConfirmRegister, firestore
    <2>2. CASE pin' = pin /\ \E status \in Statuses : Answer(r, status)
      BY <2>1, <2>2, Ends DEF PinsTyped, SpentOnce
    <2>3. CASE p # 0 /\ Goto(r, "readPin") /\ pin' = [pin EXCEPT ![r] = p]
      <3>1. /\ pc' \in [Requests -> Stages]
            /\ pc'[r] = "readPin"
            /\ \A q \in Requests \ {r} : pc'[q] = pc[q] /\ pin'[q] = pin[q]
        BY <2>3, Moves DEF Stages, PinsTyped
      <3> QED
        BY <2>1, <2>3, <3>1 DEF PinsTyped, SpentOnce
    <2> QED
      BY <1>2, <2>2, <2>3 DEF ConfirmRegister, Statuses
  <1>3. ASSUME NEW r \in Requests, ReadPin(r) PROVE PinInv'
    <2>1. /\ pc[r] = "readPin"
          /\ found' = [found EXCEPT ![r] = pins[pin[r]]]
          /\ UNCHANGED <<pins, issued, apikeys, pin>>
      BY <1>3 DEF ReadPin, firestore
    <2>2. /\ pins[pin[r]] \in Nat /\ pins[pin[r]] <= issued
          /\ found'[r] = pins[pin[r]]
          /\ \A q \in Requests \ {r} : found'[q] = found[q]
          /\ found' \in [Requests -> Nat]
      BY <2>1 DEF PinsTyped, SpentOnce
    <2>3. /\ pc' \in [Requests -> Stages]
          /\ \A q \in Requests \ {r} : pc'[q] = pc[q]
          /\ \/ pc'[r] = "answered"
             \/ pins[pin[r]] # 0 /\ pc'[r] \in {"deletePin", "deleteStalePin"}
      <3>1. CASE Answer(r, 400)
        BY <3>1, Ends
      <3>2. CASE pins[pin[r]] # 0 /\ \E stage \in {"deletePin", "deleteStalePin"} : Goto(r, stage)
        BY <3>2, Moves DEF Stages
      <3> QED
        BY <1>3, <3>1, <3>2 DEF ReadPin
    <2>4. r \notin apikeys
      BY <2>1 DEF SpentOnce
    <2> QED
      BY <2>1, <2>2, <2>3, <2>4 DEF PinsTyped, SpentOnce
  <1>4. ASSUME NEW r \in Requests, DeletePin(r) PROVE PinInv'
    <2>1. /\ pc[r] \in {"deletePin", "deleteStalePin"}
          /\ pins' = [pins EXCEPT ![pin[r]] = 0]
          /\ UNCHANGED <<issued, apikeys, pin, found>>
      BY <1>4 DEF DeletePin, Deleted
    <2>2. /\ pc' \in [Requests -> Stages]
          /\ \A q \in Requests \ {r} : pc'[q] = pc[q]
          /\ \/ pc'[r] = "answered"
             \/ pc[r] = "deletePin" /\ pc'[r] = "generateKey"
      <3>1. CASE pc[r] = "deletePin" /\ Goto(r, "generateKey")
        BY <3>1, Moves DEF Stages
      <3>2. CASE \E status \in {400, 500} : Answer(r, status)
        BY <3>2, Ends
      <3> QED
        BY <1>4, <3>1, <3>2 DEF DeletePin
    <2>3. /\ pins' \in [Pins -> Nat]
          /\ \A p \in Pins : pins'[p] = IF p = pin[r] THEN 0 ELSE pins[p]
      BY <2>1 DEF PinsTyped
    <2>4. r \notin apikeys
      BY <2>1 DEF SpentOnce
    <2>5. ASSUME NEW q \in Requests, pc'[q] = "generateKey" \/ q \in apikeys
          PROVE  found[q] # 0 /\ pins'[pin[q]] # found[q]
      <3>1. pin[q] \in Pins
        BY DEF PinsTyped
      <3>2. found[q] # 0
        BY <2>2, <2>5, <2>4 DEF SpentOnce
      <3>3. q = r => pins'[pin[q]] = 0
        BY <2>3, <3>1
      <3>4. q # r => pins[pin[q]] # found[q]
        BY <2>2, <2>5 DEF SpentOnce
      <3> QED
        BY <2>3, <3>1, <3>2, <3>3, <3>4
    <2> QED
      BY <2>1, <2>2, <2>3, <2>4, <2>5 DEF PinsTyped, SpentOnce
  <1>5. ASSUME NEW r \in Requests, GenerateApiKey(r) PROVE PinInv'
    <2>1. /\ pc[r] = "generateKey"
          /\ apikeys' = apikeys \cup {r}
          /\ UNCHANGED <<pins, issued, pin, found>>
          /\ \E status \in {200, 500} : Answer(r, status)
      BY <1>5 DEF GenerateApiKey
    <2>2. /\ pc' \in [Requests -> Stages]
          /\ pc'[r] = "answered"
          /\ \A q \in Requests \ {r} : pc'[q] = pc[q]
      BY <2>1, Ends
    <2> QED
      BY <2>1, <2>2 DEF PinsTyped, SpentOnce
  <1>6. ASSUME NEW r \in Requests, FirestoreFails(r) PROVE PinInv'
    <2>1. /\ pc[r] \in Confirming
          /\ Answer(r, 500)
          /\ UNCHANGED <<pins, issued, apikeys, pin, found>>
      BY <1>6 DEF FirestoreFails, firestore, Confirming
    <2> QED
      BY <2>1, Ends DEF PinsTyped, SpentOnce, Confirming
  <1> QED
    BY <1>1, <1>2, <1>3, <1>4, <1>5, <1>6 DEF ScannersNext

-----------------------------------------------------------------------------
\* A handler of the desk moves from one of its own stages to another, or ends.
DeskStages == Stages \ (Confirming \cup {"idle", "answered"})

LEMMA ElsewhereMoves ==
  ASSUME PinsTyped, NEW r \in Requests, pc[r] \notin Confirming \cup {"answered"},
         UNCHANGED <<pins, issued, apikeys, pin, found>>,
         \/ UNCHANGED pc
         \/ \E stage \in DeskStages : Goto(r, stage)
         \/ \E status \in Statuses : Answer(r, status)
  PROVE  Elsewhere
  <1>1. CASE UNCHANGED pc
    BY <1>1 DEF Elsewhere, PinsTyped
  <1>2. CASE \E stage \in DeskStages : Goto(r, stage)
    BY <1>2, Moves DEF Elsewhere, DeskStages
  <1>3. CASE \E status \in Statuses : Answer(r, status)
    BY <1>3, Ends DEF Elsewhere, Confirming
  <1> QED
    BY <1>1, <1>2, <1>3

\* The status that an item ends its request with.
LEMMA ReportMoves ==
  ASSUME NEW r \in Requests, NEW i, NEW result, Report(r, i, result)
  PROVE  \/ UNCHANGED pc
         \/ \E status : Answer(r, status)
  BY DEF Report

LEMMA HandleElsewhere ==
  ASSUME PinsTyped, NEW r \in Requests, Handle(r)
  PROVE  Elsewhere
  <1> USE DEF firestore
  <1>1. CASE Refuse(r)
    BY <1>1, ElsewhereMoves DEF Refuse, Confirming, Statuses
  <1>2. ASSUME NEW what, NEW items, StartBatch(r, what, items)
        PROVE  Elsewhere
    <2>1. pc[r] = "idle" /\ UNCHANGED <<pins, issued, apikeys, pin, found>>
      BY <1>2 DEF StartBatch, LetIn
    <2>2. Answer(r, 500) \/ Goto(r, "insert")
      BY <1>2 DEF StartBatch
    <2>3. "insert" \in DeskStages /\ 500 \in Statuses
      BY DEF DeskStages, Stages, Confirming, Statuses
    <2> QED
      BY <2>1, <2>2, <2>3, ElsewhereMoves DEF Confirming
  <1>3. CASE \/ \E items \in Assignments : AddRfidAssignments(r, items)
             \/ \E items \in Scans : AddScans(r, items)
    BY <1>2, <1>3 DEF AddRfidAssignments, AddScans, Posts
  <1>4. ASSUME NEW i \in DOMAIN batch[r], InsertAssignment(r, i) \/ InsertScan(r, i)
        PROVE  Elsewhere
    <2>1. pc[r] = "insert" /\ UNCHANGED <<pins, issued, apikeys, pin, found>>
      BY <1>4 DEF InsertAssignment, InsertScan, Waiting
    <2>2. \E result : Report(r, i, result)
      BY <1>4 DEF InsertAssignment, InsertScan
    <2>3. UNCHANGED pc \/ \E status : Answer(r, status)
      BY <2>2, ReportMoves
    <2> QED
      BY <2>1, <2>3, Ends DEF Elsewhere, PinsTyped, Confirming
  <1>5. ASSUME NEW w, NEW u, StartLend(r, w, u)
        PROVE  Elsewhere
    <2>1. pc[r] = "idle" /\ UNCHANGED <<pins, issued, apikeys, pin, found>>
      BY <1>5 DEF StartLend, LetIn
    <2>2. Answer(r, 400) \/ Goto(r, "getBand") \/ Goto(r, "checkOut")
      BY <1>5 DEF StartLend
    <2>3. {"getBand", "checkOut"} \subseteq DeskStages /\ 400 \in Statuses
      BY DEF DeskStages, Stages, Confirming, Statuses
    <2> QED
      BY <2>1, <2>2, <2>3, ElsewhereMoves DEF Confirming
  <1>6. CASE GetBand(r)
    <2>1. pc[r] = "getBand" /\ UNCHANGED <<pins, issued, apikeys, pin, found>>
      BY <1>6 DEF GetBand
    <2>2. Answer(r, 404) \/ Goto(r, "getRegistration")
      BY <1>6 DEF GetBand
    <2>3. "getRegistration" \in DeskStages /\ 404 \in Statuses
      BY DEF DeskStages, Stages, Confirming, Statuses
    <2> QED
      BY <2>1, <2>2, <2>3, ElsewhereMoves DEF Confirming
  <1>7. CASE GetRegistration(r)
    <2>1. pc[r] = "getRegistration" /\ UNCHANGED <<pins, issued, apikeys, pin, found>>
      BY <1>7 DEF GetRegistration
    <2>2. Answer(r, 404) \/ Goto(r, "checkOut")
      BY <1>7 DEF GetRegistration
    <2>3. "checkOut" \in DeskStages /\ 404 \in Statuses
      BY DEF DeskStages, Stages, Confirming, Statuses
    <2> QED
      BY <2>1, <2>2, <2>3, ElsewhereMoves DEF Confirming
  <1>8. CASE QueryFails(r)
    BY <1>8, ElsewhereMoves DEF QueryFails, Confirming, Statuses
  <1>9. ASSUME NEW item \in Items, CheckOut(r, item)
        PROVE  Elsewhere
    <2>1. pc[r] = "checkOut" /\ UNCHANGED <<pins, issued, apikeys, pin, found>>
      BY <1>9 DEF CheckOut
    <2>2. Answer(r, 200) \/ Answer(r, 400)
      BY <1>9 DEF CheckOut
    <2> QED
      BY <2>1, <2>2, ElsewhereMoves DEF Confirming, Statuses
  <1>10. ASSUME NEW l \in Requests, Return(r, l)
         PROVE  Elsewhere
    BY <1>10, ElsewhereMoves DEF Return, LetIn, Confirming, Statuses
  <1>11. CASE GetAllAvailable(r)
    BY <1>11, ElsewhereMoves DEF GetAllAvailable, LetIn, Confirming, Statuses
  <1> QED
    BY <1>1, <1>3, <1>4, <1>5, <1>6, <1>7, <1>8, <1>9, <1>10, <1>11 DEF Handle

LEMMA PinStep == PinInv /\ [Next]_vars => PinInv'
  <1> SUFFICES ASSUME PinInv, [Next]_vars PROVE PinInv'
    OBVIOUS
  <1>1. CASE ScannersNext
    BY <1>1, ScannersStep
  <1>2. ASSUME NEW r \in Requests, Handle(r) PROVE PinInv'
    BY <1>2, HandleElsewhere, PinElsewhere DEF PinInv
  <1>3. CASE UNCHANGED scannerVars
    BY <1>3, PinElsewhere DEF scannerVars, firestore, Elsewhere, PinInv, PinsTyped
  <1>4. \A i \in Instances : Remember(i) \/ Evict(i) => UNCHANGED scannerVars
    BY DEF Remember, Evict, scannerVars, firestore, caller
  <1>5. UNCHANGED vars => UNCHANGED scannerVars
    BY DEF vars, scannerVars, firestore, caller
  <1>6. \/ ScannersNext
        \/ \E r \in Requests : Handle(r)
        \/ \E i \in Instances : Remember(i) \/ Evict(i)
        \/ UNCHANGED vars
    BY DEF Next, AllAnswered
  <1> QED
    BY <1>1, <1>2, <1>3, <1>4, <1>5, <1>6

\* A pin makes keys only for those who read it before the first of them had
\* removed it: once a key exists its pin is gone for good, at every process.
\* (checkPinAuthentication, generateApiKey)
THEOREM PinsSpent == Spec => []PinsAreSpent
  <1>1. PinInv /\ [Next]_vars => PinInv'
    BY PinStep
  <1>2. PinInv => PinsAreSpent
    BY DEF PinInv, PinsTyped, SpentOnce, PinsAreSpent
  <1> QED
    BY PinInit, <1>1, <1>2, PTL DEF Spec

-----------------------------------------------------------------------------
Lending == {"getBand", "getRegistration", "checkOut"}

LoansTyped ==
  /\ current \in [Instances -> Hackathons]
  /\ served \in [Requests -> Instances]
  /\ loan \in [Requests -> Loan \cup {NoLoan}]
  /\ wid \in [Requests -> Bands \cup {NoBand}]
  /\ userId \in [Requests -> Users \cup {Nobody}]
  /\ DOMAIN wearer = Requests
  /\ DOMAIN assigned = Bands

\* What a request that lends has found out so far is so.
WearerIsKnown ==
  \A r \in Requests :
    /\ pc[r] \in {"getBand", "getRegistration"} => wid[r] \in Bands
    /\ pc[r] = "checkOut" => wid[r] \in Bands \/ userId[r] # Nobody
    /\ pc[r] \in {"getRegistration", "checkOut"} /\ wid[r] \in Bands =>
         assigned[wid[r]] # Nobody /\ wearer[r] = assigned[wid[r]].user

\* A request that has lent is over, and did so by name or by a band.
LoansKept ==
  \A r \in Requests : loan[r] # NoLoan =>
    /\ pc[r] = "answered"
    /\ userId[r] = Nobody => wid[r] \in Bands

LoanInv == LoansTyped /\ WearerIsKnown /\ LoansKept /\ LentToWearer

\* Steps that lend nothing and look nothing up, of requests that are not over;
\* assignments are at most added.
OtherBusiness ==
  /\ UNCHANGED <<served, loan, wid, userId, wearer>>
  /\ current' \in [Instances -> Hackathons]
  /\ DOMAIN assigned' = Bands
  /\ \A w \in Bands : assigned[w] # Nobody => assigned'[w] = assigned[w]
  /\ \A q \in Requests : pc'[q] # pc[q] => pc[q] # "answered" /\ pc'[q] \notin Lending

LEMMA LoanInit == Init => LoanInv
  BY DeskAssumption
     DEF Init, ScannersInit, LoanInv, LoansTyped, WearerIsKnown, LoansKept, LentToWearer

LEMMA LoanOther == LoanInv /\ OtherBusiness => LoanInv'
  <1> SUFFICES ASSUME LoanInv, OtherBusiness PROVE LoanInv'
    OBVIOUS
  <1>1. LoansTyped'
    BY DEF LoanInv, LoansTyped, OtherBusiness
  <1>2. WearerIsKnown'
    BY DEF LoanInv, WearerIsKnown, OtherBusiness, Lending
  <1>3. LoansKept'
    BY DEF LoanInv, LoansKept, OtherBusiness
  <1>4. LentToWearer'
    BY DEF LoanInv, LoansKept, LentToWearer, OtherBusiness
  <1> QED
    BY <1>1, <1>2, <1>3, <1>4 DEF LoanInv

\* Scanners that register do not lend.
LEMMA ScannersOther ==
  ASSUME PinInv, LoanInv, ScannersNext, UNCHANGED deskVars
  PROVE  OtherBusiness
  <1> USE DEF PinInv
  <1>1. UNCHANGED <<served, loan, wid, userId, wearer, assigned, current>>
    BY DEF ScannersNext, GeneratePinAuthenticator, ConfirmRegister, ReadPin, DeletePin,
           GenerateApiKey, FirestoreFails, caller, deskVars, tables, request
  <1>2. \A q \in Requests : pc'[q] # pc[q] => pc[q] # "answered" /\ pc'[q] \notin Lending
    <2>1. ASSUME NEW p \in Pins, GeneratePinAuthenticator(p) PROVE UNCHANGED pc
      BY <2>1 DEF GeneratePinAuthenticator
    <2>2. ASSUME NEW r \in Requests,
                 \/ \E p \in Pins \cup {0}, d \in Devices : ConfirmRegister(r, p, d)
                 \/ ReadPin(r) \/ DeletePin(r) \/ GenerateApiKey(r) \/ FirestoreFails(r)
          PROVE  /\ pc[r] \in Confirming \cup {"idle"}
                 /\ \/ \E stage \in Confirming : Goto(r, stage)
                    \/ \E status : Answer(r, status)
      BY <2>2 DEF ConfirmRegister, ReadPin, DeletePin, GenerateApiKey, FirestoreFails, Confirming
    <2>3. ASSUME NEW r \in Requests, pc[r] \in Confirming \cup {"idle"},
                 \/ \E stage \in Confirming : Goto(r, stage)
                 \/ \E status : Answer(r, status)
          PROVE  \A q \in Requests :
                   pc'[q] # pc[q] => pc[q] # "answered" /\ pc'[q] \notin Lending
      <3>1. CASE \E stage \in Confirming : Goto(r, stage)
        BY <2>3, <3>1, Moves DEF Confirming, Stages, Lending
      <3>2. CASE \E status : Answer(r, status)
        BY <2>3, <3>2, Ends DEF Confirming, Lending
      <3> QED
        BY <2>3, <3>1, <3>2
    <2> QED
      BY <2>1, <2>2, <2>3 DEF ScannersNext
  <1> QED
    BY <1>1, <1>2 DEF OtherBusiness, LoanInv, LoansTyped

\* A request that neither lends nor looks a band up.
LEMMA OtherMoves ==
  ASSUME PinsTyped, LoansTyped, NEW r \in Requests, pc[r] # "answered",
         UNCHANGED <<served, loan, wid, userId, wearer, current>>,
         DOMAIN assigned' = Bands,
         \A w \in Bands : assigned[w] # Nobody => assigned'[w] = assigned[w],
         \/ UNCHANGED pc
         \/ Goto(r, "insert")
         \/ \E status : Answer(r, status)
  PROVE  OtherBusiness
  <1>1. CASE UNCHANGED pc
    BY <1>1 DEF OtherBusiness, LoansTyped
  <1>2. CASE Goto(r, "insert")
    BY <1>2, Moves DEF OtherBusiness, LoansTyped, Lending, Stages
  <1>3. CASE \E status : Answer(r, status)
    BY <1>3, Ends DEF OtherBusiness, LoansTyped, Lending
  <1> QED
    BY <1>1, <1>2, <1>3

\* A request that begins to lend: its band is not known to be anyone's yet.
LEMMA StartLendKept ==
  ASSUME PinInv, LoanInv, NEW r \in Requests,
         NEW w \in Bands \cup {NoBand}, NEW u \in Users \cup {Nobody},
         StartLend(r, w, u)
  PROVE  LoanInv'
  <1> USE DEF PinInv, LoanInv
  <1>1. /\ pc[r] = "idle"
        /\ UNCHANGED <<served, loan, wearer, current, assigned>>
        /\ wid' = [wid EXCEPT ![r] = w]
        /\ userId' = [userId EXCEPT ![r] = u]
    BY DEF StartLend, LetIn, tables
  <1>2. loan[r] = NoLoan
    BY <1>1 DEF LoansKept
  <1>3. /\ LoansTyped'
        /\ wid'[r] = w /\ userId'[r] = u
        /\ \A q \in Requests \ {r} : wid'[q] = wid[q] /\ userId'[q] = userId[q]
    BY <1>1 DEF LoansTyped
  <1>4. /\ \A q \in Requests \ {r} : pc'[q] = pc[q]
        /\ \/ w # NoBand /\ pc'[r] = "getBand"
           \/ w = NoBand /\ u # Nobody /\ pc'[r] = "checkOut"
           \/ pc'[r] = "answered"
    BY Moves, Ends DEF StartLend, Stages
  <1>5. WearerIsKnown'
    BY <1>1, <1>3, <1>4, DeskAssumption DEF WearerIsKnown
  <1>6. LoansKept' /\ LentToWearer'
    BY <1>1, <1>2, <1>3, <1>4 DEF LoansKept, LentToWearer
  <1> QED
    BY <1>3, <1>5, <1>6

\* The wearer found is the one the band is assigned to.
LEMMA GetBandKept ==
  ASSUME PinInv, LoanInv, NEW r \in Requests, GetBand(r)
  PROVE  LoanInv'
  <1> USE DEF PinInv, LoanInv
  <1>1. /\ pc[r] = "getBand"
        /\ UNCHANGED <<served, loan, wid, userId, current, assigned>>
    BY DEF GetBand, tables, request, caller
  <1>2. loan[r] = NoLoan /\ wid[r] \in Bands
    BY <1>1 DEF LoansKept, WearerIsKnown
  <1>3. CASE Answer(r, 404) /\ UNCHANGED wearer
    <2>1. OtherBusiness
      BY <1>1, <1>3, OtherMoves DEF LoansTyped
    <2> QED
      BY <2>1, LoanOther
  <1>4. ASSUME NEW u \in Wearers(wid[r], current[served[r]]),
               wearer' = [wearer EXCEPT ![r] = u], Goto(r, "getRegistration")
        PROVE  LoanInv'
    <2>1. assigned[wid[r]] # Nobody /\ u = assigned[wid[r]].user
      BY <1>4 DEF Wearers
    <2>2. wearer'[r] = u /\ \A q \in Requests \ {r} : wearer'[q] = wearer[q]
      BY <1>4 DEF LoansTyped
    <2>3. pc'[r] = "getRegistration" /\ \A q \in Requests \ {r} : pc'[q] = pc[q]
      BY <1>4, Moves DEF Stages
    <2>4. LoansTyped'
      BY <1>1, <1>4 DEF LoansTyped
    <2>5. WearerIsKnown'
      BY <1>1, <1>2, <2>1, <2>2, <2>3 DEF WearerIsKnown
    <2>6. LoansKept' /\ LentToWearer'
      BY <1>1, <1>2, <2>3 DEF LoansKept, LentToWearer
    <2> QED
      BY <2>4, <2>5, <2>6
  <1> QED
    BY <1>3, <1>4 DEF GetBand

LEMMA GetRegistrationKept ==
  ASSUME PinInv, LoanInv, NEW r \in Requests, GetRegistration(r)
  PROVE  LoanInv'
  <1> USE DEF PinInv, LoanInv
  <1>1. /\ pc[r] = "getRegistration"
        /\ UNCHANGED <<served, loan, wid, userId, current, assigned, wearer>>
    BY DEF GetRegistration, deskVars, tables, request, caller
  <1>2. loan[r] = NoLoan
    BY <1>1 DEF LoansKept
  <1>3. pc'[r] \in {"checkOut", "answered"} /\ \A q \in Requests \ {r} : pc'[q] = pc[q]
    BY Moves, Ends DEF GetRegistration, Stages
  <1>4. LoansTyped'
    BY <1>1 DEF LoansTyped
  <1>5. WearerIsKnown'
    BY <1>1, <1>3 DEF WearerIsKnown
  <1>6. LoansKept' /\ LentToWearer'
    BY <1>1, <1>2, <1>3 DEF LoansKept, LentToWearer
  <1> QED
    BY <1>4, <1>5, <1>6

\* Without a name in the request, the loan is the wearer's.
LEMMA CheckOutKept ==
  ASSUME PinInv, LoanInv, NEW r \in Requests, NEW item \in Items, CheckOut(r, item)
  PROVE  LoanInv'
  <1> USE DEF PinInv, LoanInv
  <1> DEFINE row == [item |-> item, user |-> Borrower(r),
                     hackathon |-> current[served[r]], returned |-> FALSE]
  <1>1. /\ pc[r] = "checkOut"
        /\ UNCHANGED <<served, wid, userId, current, assigned, wearer>>
    BY DEF CheckOut, request, caller
  <1>2. CASE Answer(r, 400) /\ UNCHANGED loan
    <2>1. OtherBusiness
      BY <1>1, <1>2, OtherMoves DEF LoansTyped
    <2> QED
      BY <2>1, LoanOther
  <1>3. CASE /\ \E h \in Hackathons : <<Borrower(r), h>> \in Registered
             /\ loan' = [loan EXCEPT ![r] = row]
             /\ Answer(r, 200)
    <2>1. Borrower(r) \in Users /\ current[served[r]] \in Hackathons
      BY <1>3, DeskAssumption DEF LoansTyped
    <2>2. row \in Loan
      BY <2>1 DEF Loan
    <2>3. loan'[r] = row /\ \A q \in Requests \ {r} : loan'[q] = loan[q]
      BY <1>3 DEF LoansTyped
    <2>4. pc'[r] = "answered" /\ \A q \in Requests \ {r} : pc'[q] = pc[q]
      BY <1>3, Ends
    <2>5. LoansTyped'
      BY <1>1, <1>3, <2>2 DEF LoansTyped
    <2>6. WearerIsKnown'
      BY <1>1, <2>4 DEF WearerIsKnown
    <2>7. LoansKept'
      BY <1>1, <2>3, <2>4 DEF LoansKept, WearerIsKnown
    <2>8. userId[r] = Nobody =>
            assigned[wid[r]] # Nobody /\ row.user = assigned[wid[r]].user
      BY <1>1 DEF WearerIsKnown, Borrower
    <2>9. LentToWearer'
      BY <1>1, <2>3, <2>8 DEF LentToWearer
    <2> QED
      BY <2>5, <2>6, <2>7, <2>9
  <1> QED
    BY <1>2, <1>3 DEF CheckOut

\* A loan that is returned stays whose it was.
LEMMA ReturnKept ==
  ASSUME PinInv, LoanInv, NEW r \in Requests, NEW l \in Requests, Return(r, l)
  PROVE  LoanInv'
  <1> USE DEF PinInv, LoanInv
  <1>1. /\ pc[r] = "idle"
        /\ UNCHANGED <<served, wid, userId, current, assigned, wearer>>
        /\ loan' = ReturnItem(l)
    BY DEF Return, LetIn
  <1>2. pc'[r] = "answered" /\ \A q \in Requests \ {r} : pc'[q] = pc[q]
    BY Ends DEF Return
  <1>3. /\ loan' \in [Requests -> Loan \cup {NoLoan}]
        /\ \A q \in Requests : loan'[q] # NoLoan =>
             loan[q] # NoLoan /\ loan'[q].user = loan[q].user
    <2>1. CASE loan[l] = NoLoan
      BY <1>1, <2>1 DEF ReturnItem, LoansTyped
    <2>2. CASE loan[l] # NoLoan
      <3>1. loan' = [loan EXCEPT ![l].returned = TRUE] /\ loan[l] \in Loan
        BY <1>1, <2>2 DEF ReturnItem, LoansTyped
      <3>2. [loan[l] EXCEPT !.returned = TRUE] \in Loan
        BY <3>1 DEF Loan
      <3>3. [loan[l] EXCEPT !.returned = TRUE].user = loan[l].user
        BY <3>1 DEF Loan
      <3>4. loan' = [loan EXCEPT ![l] = [loan[l] EXCEPT !.returned = TRUE]]
        BY <3>1
      <3> QED
        BY <2>2, <3>2, <3>3, <3>4 DEF LoansTyped
    <2> QED
      BY <2>1, <2>2
  <1>4. LoansTyped'
    BY <1>1, <1>3 DEF LoansTyped
  <1>5. WearerIsKnown'
    BY <1>1, <1>2 DEF WearerIsKnown
  <1>6. LoansKept' /\ LentToWearer'
    BY <1>1, <1>2, <1>3 DEF LoansKept, LentToWearer
  <1> QED
    BY <1>4, <1>5, <1>6

LEMMA HandleKept ==
  ASSUME PinInv, LoanInv, NEW r \in Requests, Handle(r)
  PROVE  LoanInv'
  <1> USE DEF PinInv
  <1>0. LoansTyped
    BY DEF LoanInv
  <1>1. CASE Refuse(r)
    <2>1. OtherBusiness
      BY <1>0, <1>1, OtherMoves DEF Refuse, caller, deskVars, tables, request, LoansTyped
    <2> QED
      BY <2>1, LoanOther
  <1>2. ASSUME NEW what, NEW items, StartBatch(r, what, items)
        PROVE  LoanInv'
    <2>1. /\ pc[r] = "idle"
          /\ UNCHANGED <<served, loan, wid, userId, wearer, current, assigned>>
      BY <1>2 DEF StartBatch, LetIn, tables
    <2>2. Answer(r, 500) \/ Goto(r, "insert")
      BY <1>2 DEF StartBatch
    <2>3. OtherBusiness
      BY <1>0, <2>1, <2>2, OtherMoves DEF LoansTyped
    <2> QED
      BY <2>3, LoanOther
  <1>3. CASE \/ \E items \in Assignments : AddRfidAssignments(r, items)
             \/ \E items \in Scans : AddScans(r, items)
    BY <1>2, <1>3 DEF AddRfidAssignments, AddScans, Posts
  <1>4. ASSUME NEW i \in DOMAIN batch[r], InsertAssignment(r, i) \/ InsertScan(r, i)
        PROVE  LoanInv'
    <2>1. /\ pc[r] = "insert"
          /\ UNCHANGED <<served, loan, wid, userId, wearer, current>>
      BY <1>4 DEF InsertAssignment, InsertScan, Waiting, caller, request
    <2>2. \E result : Report(r, i, result)
      BY <1>4 DEF InsertAssignment, InsertScan
    <2>3. UNCHANGED pc \/ \E status : Answer(r, status)
      BY <2>2, ReportMoves
    <2>4. \/ UNCHANGED assigned
          \/ \E w, row : assigned[w] = Nobody /\ assigned' = [assigned EXCEPT ![w] = row]
      BY <1>4 DEF InsertAssignment, InsertScan
    <2>5. /\ DOMAIN assigned' = Bands
          /\ \A w \in Bands : assigned[w] # Nobody => assigned'[w] = assigned[w]
      BY <1>0, <2>4 DEF LoansTyped
    <2>6. OtherBusiness
      BY <1>0, <2>1, <2>3, <2>5, OtherMoves
    <2> QED
      BY <2>6, LoanOther
  <1>5. ASSUME NEW b \in Borrowers, StartLend(r, b[1], b[2])
        PROVE  LoanInv'
    <2>1. b[1] \in Bands \cup {NoBand} /\ b[2] \in Users \cup {Nobody}
      BY DeskAssumption
    <2> QED
      BY <1>5, <2>1, StartLendKept
  <1>6. CASE QueryFails(r)
    <2>1. pc[r] # "answered" /\ Answer(r, 500)
          /\ UNCHANGED <<served, loan, wid, userId, wearer, current, assigned>>
      BY <1>6 DEF QueryFails, caller, deskVars, tables, request
    <2>2. OtherBusiness
      BY <1>0, <2>1, OtherMoves DEF LoansTyped
    <2> QED
      BY <2>2, LoanOther
  <1>7. CASE GetAllAvailable(r)
    <2>1. pc[r] # "answered" /\ Answer(r, 200)
          /\ UNCHANGED <<served, loan, wid, userId, wearer, current, assigned>>
      BY <1>7 DEF GetAllAvailable, LetIn
    <2>2. OtherBusiness
      BY <1>0, <2>1, OtherMoves DEF LoansTyped
    <2> QED
      BY <2>2, LoanOther
  <1> QED
    BY <1>1, <1>3, <1>4, <1>5, <1>6, <1>7, GetBandKept, GetRegistrationKept,
       CheckOutKept, ReturnKept DEF Handle

LEMMA LoanStep == PinInv /\ LoanInv /\ [Next]_vars => LoanInv'
  <1> SUFFICES ASSUME PinInv, LoanInv, [Next]_vars PROVE LoanInv'
    OBVIOUS
  <1>1. CASE ScannersNext /\ UNCHANGED deskVars
    BY <1>1, ScannersOther, LoanOther
  <1>2. CASE \E r \in Requests : Handle(r)
    BY <1>2, HandleKept
  <1>3. ASSUME NEW i \in Instances, Remember(i) PROVE LoanInv'
    <2>1. /\ UNCHANGED <<served, loan, wid, userId, wearer, assigned, pc>>
          /\ current' = [current EXCEPT ![i] = Second]
      BY <1>3 DEF Remember, scannerVars, caller, request
    <2>2. OtherBusiness
      BY <2>1, DeskAssumption DEF OtherBusiness, LoanInv, LoansTyped
    <2> QED
      BY <2>2, LoanOther
  <1>4. ASSUME \/ \E i \in Instances : Evict(i)
               \/ UNCHANGED vars
        PROVE  LoanInv'
    <2>1. UNCHANGED <<served, loan, wid, userId, wearer, assigned, pc, current>>
      BY <1>4 DEF Evict, vars, scannerVars, caller, deskVars, tables, request
    <2>2. OtherBusiness
      BY <2>1 DEF OtherBusiness, LoanInv, LoansTyped
    <2> QED
      BY <2>2, LoanOther
  <1>5. \/ ScannersNext /\ UNCHANGED deskVars
        \/ \E r \in Requests : Handle(r)
        \/ \E i \in Instances : Remember(i) \/ Evict(i)
        \/ UNCHANGED vars
    BY DEF Next, AllAnswered
  <1> QED
    BY <1>1, <1>2, <1>3, <1>4, <1>5

\* What is lent to a band is lent to the user who wears it, although the band was
\* looked up two queries earlier and another hackathon may have become active.
\* (getUserByRfidBand, then createCheckoutRequestHandler)
THEOREM WearerBorrows == Spec => []LentToWearer
  <1>1. Init => PinInv /\ LoanInv
    BY PinInit, LoanInit
  <1>2. PinInv /\ LoanInv /\ [Next]_vars => LoanInv'
    BY LoanStep
  <1>3. PinInv /\ [Next]_vars => PinInv'
    BY PinStep
  <1>4. LoanInv => LentToWearer
    BY DEF LoanInv
  <1> QED
    BY <1>1, <1>2, <1>3, <1>4, PTL DEF Spec

-----------------------------------------------------------------------------
Singles == {"assignOne", "scanOne"}

BatchTyped ==
  /\ DOMAIN reply = Requests
  /\ DOMAIN job = Requests
  /\ DOMAIN batch = Requests
  /\ DOMAIN report = Requests
  /\ DOMAIN assigned = Bands

\* What is stored has been reported as a success.
StoredIsTold ==
  \A r \in Requests : \A i :
    Stored(r, i) => i \in DOMAIN report[r] /\ report[r][i] = "Success"

\* A request has a status when it is over, and reports only of the items it stores; a
\* request that is not an array has one item.
ReportsOfBatch ==
  \A r \in Requests :
    /\ pc[r] # "answered" => reply[r] = 0
    /\ pc[r] \notin {"insert", "answered"} => DOMAIN report[r] = {}
    /\ pc[r] = "insert" => DOMAIN report[r] \subseteq DOMAIN batch[r]
    /\ pc[r] = "insert" /\ job[r] \in Singles => \A i, j \in DOMAIN batch[r] : i = j

\* The status is true of each item.
StatusIsTrue ==
  \A r \in Requests : \A i \in DOMAIN report[r] :
    /\ reply[r] \in {400, 409, 500} => report[r][i] # "Success"
    /\ reply[r] = 200 => report[r][i] = "Success"

BatchInv == BatchTyped /\ StoredIsTold /\ ReportsOfBatch /\ StatusIsTrue

LEMMA BatchInit == Init => BatchInv
  BY DeskAssumption
     DEF Init, ScannersInit, BatchInv, BatchTyped, StoredIsTold, Stored, ReportsOfBatch,
         StatusIsTrue

\* A request that has nothing to report goes on, or ends.
LEMMA NothingToReport ==
  ASSUME BatchInv, NEW r \in Requests, pc[r] \notin {"insert", "answered"},
         UNCHANGED <<report, scanned, assigned>>, BatchTyped',
         \A q \in Requests \ {r} :
           pc'[q] = pc[q] /\ reply'[q] = reply[q] /\ job'[q] = job[q] /\ batch'[q] = batch[q],
         pc'[r] = "answered" \/ reply'[r] = 0,
         pc'[r] = "insert" /\ job'[r] \in Singles => \A i, j \in DOMAIN batch'[r] : i = j
  PROVE  BatchInv'
  <1> USE DEF BatchInv
  <1>1. DOMAIN report[r] = {}
    BY DEF ReportsOfBatch
  <1>2. StoredIsTold'
    BY DEF StoredIsTold, Stored
  <1>3. ReportsOfBatch'
    BY <1>1 DEF ReportsOfBatch
  <1>4. StatusIsTrue'
    BY <1>1 DEF StatusIsTrue
  <1> QED
    BY <1>2, <1>3, <1>4

\* Where such a request goes, if it is not to insert items.
LEMMA GoesOn ==
  ASSUME PinsTyped, BatchInv, NEW r \in Requests, pc[r] \notin {"insert", "answered"},
         UNCHANGED <<report, scanned, assigned, batch>>,
         DOMAIN job' = Requests, \A q \in Requests \ {r} : job'[q] = job[q],
         \/ \E stage \in Stages \ {"insert", "answered"} : Goto(r, stage) /\ UNCHANGED reply
         \/ \E status : Answer(r, status)
  PROVE  BatchInv'
  <1>1. BatchTyped /\ ReportsOfBatch
    BY DEF BatchInv
  <1>2. CASE \E stage \in Stages \ {"insert", "answered"} : Goto(r, stage) /\ UNCHANGED reply
    <2>1. pc'[r] # "insert" /\ \A q \in Requests \ {r} : pc'[q] = pc[q]
      BY <1>2, Moves
    <2>2. BatchTyped' /\ reply'[r] = 0
      BY <1>1, <1>2 DEF BatchTyped, ReportsOfBatch
    <2> QED
      BY <1>2, <2>1, <2>2, NothingToReport
  <1>3. CASE \E status : Answer(r, status)
    <2>1. pc'[r] = "answered" /\ \A q \in Requests \ {r} : pc'[q] = pc[q]
      BY <1>3, Ends
    <2>2. DOMAIN reply' = Requests /\ \A q \in Requests \ {r} : reply'[q] = reply[q]
      BY <1>1, <1>3 DEF BatchTyped, Answer
    <2>3. BatchTyped'
      BY <1>1, <2>2 DEF BatchTyped
    <2> QED
      BY <2>1, <2>2, <2>3, NothingToReport
  <1> QED
    BY <1>2, <1>3

\* The status of a batch says of all items what it says of one.
LEMMA CommonIsTrue ==
  ASSUME NEW results, NEW i \in DOMAIN results
  PROVE  /\ CommonStatus(results) \in {400, 409, 500} => results[i] # "Success"
         /\ CommonStatus(results) = 200 => results[i] = "Success"
  <1>1. StatusOf(results[i]) = 200 <=> results[i] = "Success"
    BY DEF StatusOf
  <1>2. CommonStatus(results) # 207 => CommonStatus(results) = StatusOf(results[i])
    BY DEF CommonStatus
  <1> QED
    BY <1>1, <1>2

\* An item is dealt with: if anything is stored of it, its result is a success.
LEMMA ItemReported ==
  ASSUME PinsTyped, BatchInv, NEW r \in Requests, NEW i, NEW result,
         Waiting(r, i), Report(r, i, result), UNCHANGED <<job, batch>>,
         DOMAIN assigned' = Bands,
         \A q \in Requests : \A j : Stored(q, j)' =>
           Stored(q, j) \/ (q = r /\ j = i /\ result = "Success")
  PROVE  BatchInv'
  <1> DEFINE results == InPlace(r, i, result)
  <1>0. BatchTyped /\ StoredIsTold /\ ReportsOfBatch /\ StatusIsTrue
    BY DEF BatchInv
  <1>1. /\ pc[r] = "insert" /\ reply[r] = 0
        /\ i \in DOMAIN batch[r] /\ i \notin DOMAIN report[r]
        /\ DOMAIN report[r] \subseteq DOMAIN batch[r]
    BY <1>0 DEF Waiting, ReportsOfBatch
  <1>2. /\ DOMAIN results = DOMAIN report[r] \cup {i}
        /\ results[i] = result
        /\ \A j \in DOMAIN report[r] : results[j] = report[r][j]
    BY <1>1 DEF InPlace
  <1>3. /\ DOMAIN report' = Requests
        /\ report'[r] = results
        /\ \A q \in Requests \ {r} : report'[q] = report[q]
    BY <1>0 DEF Report, BatchTyped
  <1>4. StoredIsTold'
    <2> SUFFICES ASSUME NEW q \in Requests, NEW j, Stored(q, j)'
                 PROVE  j \in DOMAIN report'[q] /\ report'[q][j] = "Success"
      BY DEF StoredIsTold
    <2>1. CASE Stored(q, j)
      <3>1. j \in DOMAIN report[q] /\ report[q][j] = "Success"
        BY <1>0, <2>1 DEF StoredIsTold
      <3> QED
        BY <3>1, <1>2, <1>3
    <2>2. CASE q = r /\ j = i /\ result = "Success"
      BY <2>2, <1>2, <1>3
    <2> QED
      BY <2>1, <2>2
  <1>5. CASE UNCHANGED <<pc, reply>>
    <2>1. BatchTyped'
      BY <1>0, <1>3, <1>5 DEF BatchTyped
    <2>2. ReportsOfBatch'
      BY <1>0, <1>1, <1>2, <1>3, <1>5 DEF ReportsOfBatch
    <2>3. StatusIsTrue'
      BY <1>0, <1>1, <1>3, <1>5 DEF StatusIsTrue
    <2> QED
      BY <1>4, <2>1, <2>2, <2>3 DEF BatchInv
  <1>6. ASSUME NEW status, Answer(r, status),
               \A j \in DOMAIN results :
                 /\ status \in {400, 409, 500} => results[j] # "Success"
                 /\ status = 200 => results[j] = "Success"
        PROVE  BatchInv'
    <2>1. pc'[r] = "answered" /\ \A q \in Requests \ {r} : pc'[q] = pc[q]
      BY <1>6, Ends
    <2>2. /\ DOMAIN reply' = Requests
          /\ reply'[r] = status
          /\ \A q \in Requests \ {r} : reply'[q] = reply[q]
      BY <1>0, <1>6 DEF BatchTyped, Answer
    <2>3. BatchTyped'
      BY <1>0, <1>3, <2>2 DEF BatchTyped
    <2>4. ReportsOfBatch'
      BY <1>0, <1>3, <2>1, <2>2 DEF ReportsOfBatch
    <2>5. StatusIsTrue'
      BY <1>0, <1>3, <1>6, <2>2 DEF StatusIsTrue
    <2> QED
      BY <1>4, <2>3, <2>4, <2>5 DEF BatchInv
  <1>7. CASE /\ DOMAIN results = DOMAIN batch[r]
             /\ job[r] \in Singles
             /\ Answer(r, SingleStatus(result))
    <2>1. \A j \in DOMAIN results : results[j] = result
      BY <1>0, <1>1, <1>2, <1>7 DEF ReportsOfBatch
    <2> QED
      BY <1>6, <1>7, <2>1 DEF SingleStatus
  <1>8. CASE Answer(r, CommonStatus(results))
    BY <1>6, <1>8, CommonIsTrue
  <1> QED
    BY <1>5, <1>7, <1>8 DEF Report, Singles

\* A request with a batch has nothing reported yet; without an array it has one item.
LEMMA BatchStarted ==
  ASSUME PinsTyped, BatchInv, NEW r \in Requests, NEW what, NEW items,
         StartBatch(r, what, items), what \in Singles => \A i, j \in DOMAIN items : i = j
  PROVE  BatchInv'
  <1>0. BatchTyped /\ ReportsOfBatch
    BY DEF BatchInv
  <1>1. /\ pc[r] = "idle"
        /\ job' = [job EXCEPT ![r] = what]
        /\ batch' = [batch EXCEPT ![r] = items]
        /\ UNCHANGED <<report, scanned, assigned>>
    BY DEF StartBatch, LetIn, tables
  <1>2. /\ DOMAIN job' = Requests /\ job'[r] = what
        /\ DOMAIN batch' = Requests /\ batch'[r] = items
        /\ \A q \in Requests \ {r} : job'[q] = job[q] /\ batch'[q] = batch[q]
    BY <1>0, <1>1 DEF BatchTyped
  <1>3. /\ \A q \in Requests \ {r} : pc'[q] = pc[q] /\ reply'[q] = reply[q]
        /\ DOMAIN reply' = Requests
        /\ pc'[r] = "answered" \/ reply'[r] = 0
    <2>1. CASE Answer(r, 500)
      <3>1. pc'[r] = "answered" /\ \A q \in Requests \ {r} : pc'[q] = pc[q]
        BY <2>1, Ends
      <3>2. reply' = [reply EXCEPT ![r] = 500]
        BY <2>1 DEF Answer
      <3> QED
        BY <1>0, <3>1, <3>2 DEF BatchTyped
    <2>2. CASE Goto(r, "insert") /\ UNCHANGED reply
      BY <1>0, <1>1, <2>2, Moves DEF BatchTyped, ReportsOfBatch, Stages
    <2> QED
      BY <2>1, <2>2 DEF StartBatch
  <1>4. BatchTyped'
    BY <1>0, <1>1, <1>2, <1>3 DEF BatchTyped
  <1> QED
    BY <1>1, <1>2, <1>3, <1>4, NothingToReport

LEMMA AssignmentInserted ==
  ASSUME PinsTyped, BatchInv, NEW r \in Requests, NEW i, InsertAssignment(r, i)
  PROVE  BatchInv'
  <1> DEFINE row == [user |-> batch[r][i].user, hackathon |-> current[served[r]],
                     by |-> r, nr |-> i]
  <1>0. DOMAIN assigned = Bands
    BY DEF BatchInv, BatchTyped
  <1>1. Waiting(r, i) /\ UNCHANGED <<job, batch, scanned>>
    BY DEF InsertAssignment, request
  <1>2. CASE UNCHANGED assigned /\ \E result : Report(r, i, result)
    <2>1. \A q \in Requests : \A j : Stored(q, j)' => Stored(q, j)
      BY <1>1, <1>2 DEF Stored
    <2> QED
      BY <1>0, <1>1, <1>2, <2>1, ItemReported
  <1>3. CASE assigned' = [assigned EXCEPT ![batch[r][i].band] = row] /\ Report(r, i, "Success")
    <2>1. \A w \in Bands : assigned'[w] = assigned[w] \/ assigned'[w] = row
      BY <1>0, <1>3
    <2>2. row.by = r /\ row.nr = i
      OBVIOUS
    <2>3. \A q \in Requests : \A j : Stored(q, j)' => Stored(q, j) \/ (q = r /\ j = i)
      BY <1>1, <2>1, <2>2 DEF Stored
    <2>4. DOMAIN assigned' = Bands
      BY <1>0, <1>3
    <2> QED
      BY <1>1, <1>3, <2>3, <2>4, ItemReported
  <1> QED
    BY <1>2, <1>3 DEF InsertAssignment

LEMMA ScanInserted ==
  ASSUME PinsTyped, BatchInv, NEW r \in Requests, NEW i, InsertScan(r, i)
  PROVE  BatchInv'
  <1>0. DOMAIN assigned = Bands
    BY DEF BatchInv, BatchTyped
  <1>1. Waiting(r, i) /\ UNCHANGED <<job, batch, assigned>>
    BY DEF InsertScan, request
  <1>2. CASE UNCHANGED scanned /\ \E result : Report(r, i, result)
    <2>1. \A q \in Requests : \A j : Stored(q, j)' => Stored(q, j)
      BY <1>1, <1>2 DEF Stored
    <2> QED
      BY <1>0, <1>1, <1>2, <2>1, ItemReported
  <1>3. CASE scanned' = scanned \cup {<<r, i>>} /\ Report(r, i, "Success")
    <2>1. \A q \in Requests : \A j : Stored(q, j)' => Stored(q, j) \/ (q = r /\ j = i)
      BY <1>1, <1>3 DEF Stored
    <2> QED
      BY <1>0, <1>1, <1>3, <2>1, ItemReported
  <1> QED
    BY <1>2, <1>3 DEF InsertScan

LEMMA HandleReports ==
  ASSUME PinsTyped, BatchInv, NEW r \in Requests, Handle(r)
  PROVE  BatchInv'
  <1>0. BatchTyped
    BY DEF BatchInv
  <1> DEFINE Unreported == UNCHANGED <<report, scanned, assigned, batch>>
             Jobbed == DOMAIN job' = Requests /\ \A q \in Requests \ {r} : job'[q] = job[q]
  <1>1. ASSUME UNCHANGED job PROVE Jobbed
    BY <1>0, <1>1 DEF BatchTyped
  <1>2. ASSUME NEW what, LetIn(r, what) PROVE pc[r] = "idle" /\ Jobbed
    BY <1>0, <1>2 DEF LetIn, BatchTyped
  <1>3. CASE Refuse(r) \/ GetRegistration(r) \/ QueryFails(r)
    <2>1. pc[r] \in {"idle"} \cup Lending /\ Unreported /\ UNCHANGED job
      BY <1>3 DEF Refuse, GetRegistration, QueryFails, deskVars, tables, request, Lending
    <2>2. \/ Goto(r, "checkOut") /\ UNCHANGED reply
          \/ \E status : Answer(r, status)
      BY <1>3 DEF Refuse, GetRegistration, QueryFails
    <2> QED
      BY <1>1, <2>1, <2>2, GoesOn DEF Lending, Stages
  <1>4. ASSUME NEW items \in Assignments \cup Scans,
               AddRfidAssignments(r, items) \/ AddScans(r, items)
        PROVE  BatchInv'
    <2>1. PICK what : /\ StartBatch(r, what, items)
                      /\ what \in Singles => Len(items) = 1
      BY <1>4 DEF AddRfidAssignments, AddScans, Posts, Singles
    <2>2. Len(items) = 1 => \A i, j \in DOMAIN items : i = j
      BY DeskAssumption
    <2> QED
      BY <2>1, <2>2, BatchStarted
  <1>5. ASSUME NEW w, NEW u, StartLend(r, w, u) PROVE BatchInv'
    <2>1. pc[r] = "idle" /\ Unreported /\ Jobbed
      BY <1>2, <1>5 DEF StartLend, tables
    <2>2. \/ \E stage \in {"getBand", "checkOut"} : Goto(r, stage) /\ UNCHANGED reply
          \/ \E status : Answer(r, status)
      BY <1>5 DEF StartLend
    <2> QED
      BY <2>1, <2>2, GoesOn DEF Stages
  <1>6. CASE GetBand(r)
    <2>1. pc[r] = "getBand" /\ Unreported /\ UNCHANGED job
      BY <1>6 DEF GetBand, tables, request
    <2>2. \/ Goto(r, "getRegistration") /\ UNCHANGED reply
          \/ \E status : Answer(r, status)
      BY <1>6 DEF GetBand
    <2> QED
      BY <1>1, <2>1, <2>2, GoesOn DEF Stages
  <1>7. ASSUME NEW item \in Items, CheckOut(r, item) PROVE BatchInv'
    <2>1. pc[r] = "checkOut" /\ Unreported /\ UNCHANGED job
      BY <1>7 DEF CheckOut, request
    <2>2. \E status : Answer(r, status)
      BY <1>7 DEF CheckOut
    <2> QED
      BY <1>1, <2>1, <2>2, GoesOn
  <1>8. ASSUME \/ \E l \in Requests : Return(r, l)
               \/ GetAllAvailable(r)
        PROVE  BatchInv'
    <2>1. pc[r] = "idle" /\ Unreported /\ Jobbed /\ \E status : Answer(r, status)
      BY <1>2, <1>8 DEF Return, GetAllAvailable
    <2> QED
      BY <2>1, GoesOn
  <1> QED
    BY <1>3, <1>4, <1>5, <1>6, <1>7, <1>8, AssignmentInserted, ScanInserted DEF Handle

\* Scanners that register have nothing to report.
LEMMA ScannersReport ==
  ASSUME PinsTyped, BatchInv, ScannersNext, UNCHANGED deskVars
  PROVE  BatchInv'
  <1>1. UNCHANGED <<report, scanned, assigned, batch, job>>
    BY DEF deskVars, tables, request
  <1>2. ASSUME NEW p \in Pins, GeneratePinAuthenticator(p) PROVE BatchInv'
    BY <1>1, <1>2 DEF GeneratePinAuthenticator, BatchInv, BatchTyped, StoredIsTold, Stored,
       ReportsOfBatch, StatusIsTrue
  <1>3. ASSUME NEW r \in Requests,
               \/ \E p \in Pins \cup {0}, d \in Devices : ConfirmRegister(r, p, d)
               \/ ReadPin(r) \/ DeletePin(r) \/ GenerateApiKey(r) \/ FirestoreFails(r)
        PROVE  BatchInv'
    <2>1. /\ pc[r] \in Confirming \cup {"idle"}
          /\ \/ \E stage \in Confirming : Goto(r, stage) /\ UNCHANGED reply
             \/ \E status : Answer(r, status)
      BY <1>3 DEF ConfirmRegister, ReadPin, DeletePin, GenerateApiKey, FirestoreFails, Confirming
    <2>2. /\ Confirming \subseteq Stages \ {"insert", "answered"}
          /\ pc[r] \notin {"insert", "answered"}
      BY <2>1 DEF Confirming, Stages
    <2>3. DOMAIN job' = Requests
      BY <1>1 DEF BatchInv, BatchTyped
    <2> QED
      BY <1>1, <2>1, <2>2, <2>3, GoesOn
  <1> QED
    BY <1>2, <1>3 DEF ScannersNext

LEMMA BatchStep == PinInv /\ BatchInv /\ [Next]_vars => BatchInv'
  <1> SUFFICES ASSUME PinInv, BatchInv, [Next]_vars PROVE BatchInv'
    OBVIOUS
  <1>1. CASE ScannersNext /\ UNCHANGED deskVars
    BY <1>1, ScannersReport DEF PinInv
  <1>2. CASE \E r \in Requests : Handle(r)
    BY <1>2, HandleReports DEF PinInv
  <1>3. CASE \/ \E i \in Instances : Remember(i) \/ Evict(i)
             \/ UNCHANGED vars
    <2>1. UNCHANGED <<pc, reply, report, scanned, assigned, batch, job>>
      BY <1>3 DEF Remember, Evict, vars, scannerVars, deskVars, tables, request
    <2> QED
      BY <2>1 DEF BatchInv, BatchTyped, StoredIsTold, Stored, ReportsOfBatch, StatusIsTrue
  <1> QED
    BY <1>1, <1>2, <1>3 DEF Next, AllAnswered

\* What a scanner is told was refused is not in the tables, by the result of the item
\* or by the status of them all, however the items of many batches end.
\* (addRfidAssignments, addScans, processRfidAssignments, processScans)
THEOREM RefusedAreNotStored == Spec => []RefusedIsNotStored
  <1>1. Init => PinInv /\ BatchInv
    BY PinInit, BatchInit
  <1>2. PinInv /\ BatchInv /\ [Next]_vars => BatchInv'
    BY BatchStep
  <1>3. PinInv /\ [Next]_vars => PinInv'
    BY PinStep
  <1>4. BatchInv => RefusedIsNotStored
    BY DEF BatchInv, StoredIsTold, StatusIsTrue, RefusedIsNotStored
  <1> QED
    BY <1>1, <1>2, <1>3, <1>4, PTL DEF Spec

-----------------------------------------------------------------------------
(***************************************************************************)
(* Types, part by part.  A batch begins with an empty report (BatchInv), so *)
(* reports stay within batches; only registered users and items at their    *)
(* place in a batch are stored; loans are counted if requests are finitely  *)
(* many.                                                                   *)
(***************************************************************************)
CallsTyped == ScannersTypeOK /\ pc \in [Requests -> Stages]

StoresTyped ==
  /\ current \in [Instances -> Hackathons]
  /\ assigned \in [Bands -> Row \cup {Nobody}]
  /\ scanned \in SUBSET (Requests \X Nat)
  /\ loan \in [Requests -> Loan \cup {NoLoan}]

CountsTyped ==
  /\ available \in [Instances -> [Items -> Int] \cup {NoCount}]
  /\ shown \in [Requests -> [Items -> Int] \cup {NoCount}]

BodiesTyped ==
  /\ job \in [Requests -> Jobs]
  /\ key \in [Requests -> Requests \cup {Nobody}]
  /\ batch \in [Requests -> Assignments \cup Scans \cup {<<>>}]
  /\ wid \in [Requests -> Bands \cup {NoBand}]
  /\ userId \in [Requests -> Users \cup {Nobody}]
  /\ wearer \in [Requests -> Users \cup {Nobody}]

ReportsTyped ==
  /\ \A r \in Requests : DOMAIN report[r] \subseteq DOMAIN batch[r]
  /\ \A r \in Requests : \A i \in DOMAIN report[r] : report[r][i] \in Results

LEMMA TypeParts ==
  TypeOK <=> CallsTyped /\ StoresTyped /\ CountsTyped /\ BodiesTyped /\ ReportsTyped
  BY DEF TypeOK, CallsTyped, StoresTyped, CountsTyped, BodiesTyped, ReportsTyped

LEMMA TypePartsAfter ==
  ASSUME CallsTyped', StoresTyped', CountsTyped', BodiesTyped', ReportsTyped'
  PROVE  TypeOK'
  BY DEF TypeOK, CallsTyped, StoresTyped, CountsTyped, BodiesTyped, ReportsTyped

LEMMA TypeInit == Init => TypeOK
  <1> SUFFICES ASSUME Init PROVE TypeOK
    OBVIOUS
  <1>1. CallsTyped
    <2>1. (CHOOSE p \in Pins : TRUE) \in Pins
      BY ScannersAssumption
    <2> QED
      BY <2>1, ScannersAssumption DEF Init, ScannersInit, CallsTyped, ScannersTypeOK, Stages, Statuses
  <1>2. StoresTyped /\ CountsTyped
    BY DeskAssumption DEF Init, StoresTyped, CountsTyped
  <1>3. BodiesTyped /\ ReportsTyped
    BY DEF Init, BodiesTyped, ReportsTyped, Jobs
  <1> QED
    BY <1>1, <1>2, <1>3, TypeParts

LEMMA TypedGoto ==
  ASSUME CallsTyped, NEW r \in Requests, NEW stage \in Stages, Goto(r, stage)
  PROVE  pc' \in [Requests -> Stages]
  BY DEF CallsTyped, Goto

LEMMA TypedAnswer ==
  ASSUME CallsTyped, NEW r \in Requests, NEW status \in Statuses, Answer(r, status)
  PROVE  pc' \in [Requests -> Stages] /\ reply' \in [Requests -> Statuses]
  BY DEF CallsTyped, ScannersTypeOK, Answer, Goto, Stages

\* Registering: the documents hold issues that there have been.
LEMMA ScannersTyped ==
  ASSUME CallsTyped, ScannersNext
  PROVE  CallsTyped'
  <1>1. ASSUME NEW p \in Pins, GeneratePinAuthenticator(p) PROVE CallsTyped'
    BY <1>1, ScannersAssumption DEF GeneratePinAuthenticator, caller, CallsTyped, ScannersTypeOK
  <1>2. ASSUME NEW r \in Requests, NEW p \in Pins \cup {0}, NEW d \in Devices,
               ConfirmRegister(r, p, d)
        PROVE  CallsTyped'
    <2>1. CASE \E status \in {400, 429} : Answer(r, status) /\ UNCHANGED <<device, pin>>
      BY <1>2, <2>1, TypedAnswer DEF ConfirmRegister, firestore, CallsTyped, ScannersTypeOK, Statuses
    <2>2. CASE /\ p # 0 /\ Goto(r, "readPin") /\ UNCHANGED reply
               /\ device' = [device EXCEPT ![r] = d] /\ pin' = [pin EXCEPT ![r] = p]
      <3>1. pc' \in [Requests -> Stages]
        BY <2>2, TypedGoto DEF Stages
      <3> QED
        BY <1>2, <2>2, <3>1 DEF ConfirmRegister, firestore, CallsTyped, ScannersTypeOK
    <2> QED
      BY <1>2, <2>1, <2>2 DEF ConfirmRegister
  <1>3. ASSUME NEW r \in Requests, ReadPin(r) PROVE CallsTyped'
    <2>1. found' \in [Requests -> 0 .. Issues]
      BY <1>3 DEF ReadPin, CallsTyped, ScannersTypeOK
    <2>2. pc' \in [Requests -> Stages] /\ reply' \in [Requests -> Statuses]
      <3>1. CASE Answer(r, 400)
        BY <3>1, TypedAnswer DEF Statuses
      <3>2. CASE UNCHANGED reply /\ \E stage \in {"deletePin", "deleteStalePin"} : Goto(r, stage)
        BY <3>2, TypedGoto DEF Stages, CallsTyped, ScannersTypeOK
      <3> QED
        BY <1>3, <3>1, <3>2 DEF ReadPin
    <2> QED
      BY <1>3, <2>1, <2>2 DEF ReadPin, firestore, caller, CallsTyped, ScannersTypeOK
  <1>4. ASSUME NEW r \in Requests, DeletePin(r) PROVE CallsTyped'
    <2>1. pins' \in [Pins -> 0 .. Issues]
      BY <1>4, ScannersAssumption DEF DeletePin, Deleted, CallsTyped, ScannersTypeOK
    <2>2. pc' \in [Requests -> Stages] /\ reply' \in [Requests -> Statuses]
      <3>1. CASE \E status \in {400, 500} : Answer(r, status)
        BY <3>1, TypedAnswer DEF Statuses
      <3>2. CASE UNCHANGED reply /\ Goto(r, "generateKey")
        BY <3>2, TypedGoto DEF Stages, CallsTyped, ScannersTypeOK
      <3> QED
        BY <1>4, <3>1, <3>2 DEF DeletePin
    <2> QED
      BY <1>4, <2>1, <2>2 DEF DeletePin, caller, CallsTyped, ScannersTypeOK
  <1>5. ASSUME NEW r \in Requests, GenerateApiKey(r) PROVE CallsTyped'
    <2>1. pc' \in [Requests -> Stages] /\ reply' \in [Requests -> Statuses]
      BY <1>5, TypedAnswer DEF GenerateApiKey, Statuses
    <2> QED
      BY <1>5, <2>1 DEF GenerateApiKey, caller, CallsTyped, ScannersTypeOK
  <1>6. ASSUME NEW r \in Requests, FirestoreFails(r) PROVE CallsTyped'
    <2>1. pc' \in [Requests -> Stages] /\ reply' \in [Requests -> Statuses]
      BY <1>6, TypedAnswer DEF FirestoreFails, Statuses
    <2> QED
      BY <1>6, <2>1 DEF FirestoreFails, firestore, caller, CallsTyped, ScannersTypeOK
  <1> QED
    BY <1>1, <1>2, <1>3, <1>4, <1>5, <1>6 DEF ScannersNext

\* What the desk does leaves pins and keys alone; a request may be let in by its device.
LEMMA CallGoesOn ==
  ASSUME CallsTyped, NEW r \in Requests,
         UNCHANGED <<firestore, served, pin, found>>,
         device' \in [Requests -> Devices \cup {Nobody}],
         \/ UNCHANGED <<pc, reply>>
         \/ \E stage \in Stages : Goto(r, stage) /\ UNCHANGED reply
         \/ \E status \in Statuses : Answer(r, status)
  PROVE  CallsTyped'
  <1>1. pc' \in [Requests -> Stages] /\ reply' \in [Requests -> Statuses]
    <2>1. CASE UNCHANGED <<pc, reply>>
      BY <2>1 DEF CallsTyped, ScannersTypeOK
    <2>2. CASE \E stage \in Stages : Goto(r, stage) /\ UNCHANGED reply
      BY <2>2, TypedGoto DEF CallsTyped, ScannersTypeOK
    <2>3. CASE \E status \in Statuses : Answer(r, status)
      BY <2>3, TypedAnswer
    <2> QED
      BY <2>1, <2>2, <2>3
  <1> QED
    BY <1>1 DEF firestore, CallsTyped, ScannersTypeOK

LEMMA TypedLetIn ==
  ASSUME TypeOK, NEW r \in Requests, NEW what \in Jobs, LetIn(r, what)
  PROVE  /\ device' \in [Requests -> Devices \cup {Nobody}]
         /\ job' \in [Requests -> Jobs] /\ key' \in [Requests -> Requests \cup {Nobody}]
         /\ UNCHANGED <<firestore, served, pin, found>>
  <1>1. /\ device' \in [Requests -> Devices \cup {Nobody}]
        /\ key' \in [Requests -> Requests \cup {Nobody}]
    <2>0. device \in [Requests -> Devices \cup {Nobody}] /\ key \in [Requests -> Requests \cup {Nobody}]
      BY DEF TypeOK, ScannersTypeOK
    <2>1. CASE UNCHANGED <<device, key>>
      BY <2>0, <2>1
    <2>2. ASSUME NEW d \in Devices, NEW k \in Requests,
                 device' = [device EXCEPT ![r] = d], key' = [key EXCEPT ![r] = k]
          PROVE  /\ device' \in [Requests -> Devices \cup {Nobody}]
                 /\ key' \in [Requests -> Requests \cup {Nobody}]
      BY <2>0, <2>2
    <2> QED
      BY <2>1, <2>2 DEF LetIn
  <1> QED
    BY <1>1 DEF LetIn, TypeOK

\* The results of a batch give a status there is.
LEMMA TypedReport ==
  ASSUME CallsTyped, NEW r \in Requests, NEW i, NEW result, Report(r, i, result)
  PROVE  \/ UNCHANGED <<pc, reply>>
         \/ \E status \in Statuses : Answer(r, status)
  <1>1. \A x : StatusOf(x) \in Statuses /\ SingleStatus(x) \in Statuses
    BY DEF StatusOf, SingleStatus, Statuses
  <1>2. \A results : CommonStatus(results) \in Statuses
    BY <1>1 DEF CommonStatus, Statuses
  <1> QED
    BY <1>1, <1>2 DEF Report

LEMMA HandleCalls ==
  ASSUME TypeOK, NEW r \in Requests, Handle(r)
  PROVE  CallsTyped'
  <1>0. CallsTyped /\ device \in [Requests -> Devices \cup {Nobody}]
    BY TypeParts DEF CallsTyped, ScannersTypeOK
  <1>1. CASE Refuse(r)
    <2>1. \E status \in Statuses : Answer(r, status)
      BY <1>1 DEF Refuse, Statuses
    <2> QED
      BY <1>0, <1>1, <2>1, CallGoesOn DEF Refuse, caller
  <1>2. ASSUME NEW what \in Jobs, LetIn(r, what),
               \/ \E stage \in Stages : Goto(r, stage) /\ UNCHANGED reply
               \/ \E status \in Statuses : Answer(r, status)
        PROVE  CallsTyped'
    BY <1>0, <1>2, TypedLetIn, CallGoesOn
  <1>3. ASSUME NEW items, AddRfidAssignments(r, items) \/ AddScans(r, items)
        PROVE  CallsTyped'
    <2>1. PICK what \in Jobs : StartBatch(r, what, items)
      BY <1>3 DEF AddRfidAssignments, AddScans, Posts, Jobs
    <2> QED
      BY <1>2, <2>1 DEF StartBatch, Stages, Statuses
  <1>4. ASSUME NEW i, InsertAssignment(r, i) \/ InsertScan(r, i) PROVE CallsTyped'
    <2>1. /\ UNCHANGED <<firestore, served, device, pin, found>>
          /\ \E result : Report(r, i, result)
      BY <1>4 DEF InsertAssignment, InsertScan, caller
    <2>2. \/ UNCHANGED <<pc, reply>>
          \/ \E status \in Statuses : Answer(r, status)
      BY <1>0, <2>1, TypedReport
    <2> QED
      BY <1>0, <2>1, <2>2, CallGoesOn
  <1>5. ASSUME NEW w, NEW u, StartLend(r, w, u) PROVE CallsTyped'
    BY <1>2, <1>5 DEF StartLend, Jobs, Stages, Statuses
  <1>6. CASE GetBand(r) \/ GetRegistration(r) \/ QueryFails(r) \/ \E item \in Items : CheckOut(r, item)
    <2>1. UNCHANGED <<firestore, served, device, pin, found>>
      BY <1>6 DEF GetBand, GetRegistration, QueryFails, CheckOut, caller
    <2>2. \/ \E stage \in Stages : Goto(r, stage) /\ UNCHANGED reply
          \/ \E status \in Statuses : Answer(r, status)
      BY <1>6 DEF GetBand, GetRegistration, QueryFails, CheckOut, Stages, Statuses
    <2> QED
      BY <1>0, <2>1, <2>2, CallGoesOn
  <1>7. CASE (\E l \in Requests : Return(r, l)) \/ GetAllAvailable(r)
    BY <1>2, <1>7 DEF Return, GetAllAvailable, Jobs, Statuses
  <1> QED
    BY <1>1, <1>3, <1>4, <1>5, <1>6, <1>7 DEF Handle

\* Rows of assignments, scans and loans.
LEMMA HandleStores ==
  ASSUME TypeOK, NEW r \in Requests, Handle(r)
  PROVE  StoresTyped'
  <1> USE DEF StoresTyped
  <1>0. StoresTyped /\ served \in [Requests -> Instances]
    BY TypeParts DEF TypeOK, ScannersTypeOK
  <1>1. current[served[r]] \in Hackathons
    BY <1>0
  <1>2. ASSUME UNCHANGED <<current, assigned, scanned, loan>> PROVE StoresTyped'
    BY <1>0, <1>2
  <1>3. \A i \in DOMAIN batch[r] : i \in Nat
    <2>1. batch[r] \in Assignments \cup Scans \cup {<<>>}
      BY DEF TypeOK
    <2>2. batch[r] \in Seq([band : Bands, user : Users]) \cup Seq([band : Bands]) \cup {<<>>}
      BY <2>1, DeskAssumption
    <2> QED
      BY <2>2
  <1>4. ASSUME NEW i \in DOMAIN batch[r], InsertAssignment(r, i) PROVE StoresTyped'
    <2> DEFINE new == [user |-> batch[r][i].user, hackathon |-> current[served[r]],
                       by |-> r, nr |-> i]
    <2>1. \/ UNCHANGED assigned
          \/ /\ \E h \in Hackathons : <<batch[r][i].user, h>> \in Registered
             /\ assigned' = [assigned EXCEPT ![batch[r][i].band] = new]
      BY <1>4 DEF InsertAssignment
    <2>2. UNCHANGED <<current, scanned, loan>>
      BY <1>4 DEF InsertAssignment
    <2>3. CASE UNCHANGED assigned
      BY <1>2, <2>2, <2>3
    <2>4. CASE /\ \E h \in Hackathons : <<batch[r][i].user, h>> \in Registered
               /\ assigned' = [assigned EXCEPT ![batch[r][i].band] = new]
      <3>1. batch[r][i].user \in Users
        BY <2>4, DeskAssumption
      <3>2. new \in Row
        BY <1>1, <1>3, <3>1 DEF Row
      <3> HIDE DEF new
      <3> QED
        BY <1>0, <2>2, <2>4, <3>2
    <2> QED
      BY <2>1, <2>3, <2>4
  <1>5. ASSUME NEW i \in DOMAIN batch[r], InsertScan(r, i) PROVE StoresTyped'
    BY <1>0, <1>3, <1>5 DEF InsertScan
  <1>6. ASSUME NEW item \in Items, CheckOut(r, item) PROVE StoresTyped'
    <2> DEFINE new == [item |-> item, user |-> Borrower(r),
                       hackathon |-> current[served[r]], returned |-> FALSE]
    <2>1. UNCHANGED <<current, assigned, scanned>>
      BY <1>6 DEF CheckOut
    <2>2. CASE UNCHANGED loan
      BY <1>2, <2>1, <2>2
    <2>3. CASE /\ \E h \in Hackathons : <<Borrower(r), h>> \in Registered
               /\ loan' = [loan EXCEPT ![r] = new]
      <3>1. Borrower(r) \in Users
        BY <2>3, DeskAssumption
      <3>2. new \in Loan
        BY <1>1, <3>1 DEF Loan
      <3> HIDE DEF new
      <3> QED
        BY <1>0, <2>1, <2>3, <3>2
    <2> QED
      BY <1>6, <2>2, <2>3 DEF CheckOut
  <1>7. ASSUME NEW l \in Requests, Return(r, l) PROVE StoresTyped'
    <2>1. UNCHANGED <<current, assigned, scanned>> /\ loan' = ReturnItem(l)
      BY <1>7 DEF Return
    <2>2. CASE loan[l] = NoLoan
      BY <1>2, <2>1, <2>2 DEF ReturnItem
    <2>3. CASE loan[l] # NoLoan
      <3>1. loan[l] \in Loan /\ loan' = [loan EXCEPT ![l].returned = TRUE]
        BY <1>0, <2>1, <2>3 DEF ReturnItem
      <3>2. [loan[l] EXCEPT !.returned = TRUE] \in Loan
        BY <3>1 DEF Loan
      <3> QED
        BY <1>0, <2>1, <3>1, <3>2
    <2> QED
      BY <2>2, <2>3
  <1>8. CASE \/ Refuse(r) \/ GetBand(r) \/ GetRegistration(r) \/ QueryFails(r) \/ GetAllAvailable(r)
             \/ \E items \in Assignments : AddRfidAssignments(r, items)
             \/ \E items \in Scans : AddScans(r, items)
             \/ \E b \in Borrowers : StartLend(r, b[1], b[2])
    BY <1>2, <1>8 DEF Refuse, GetBand, GetRegistration, QueryFails, GetAllAvailable,
       AddRfidAssignments, AddScans, Posts, StartBatch, StartLend, deskVars, tables
  <1> QED
    BY <1>4, <1>5, <1>6, <1>7, <1>8 DEF Handle

\* What requests ask for and find out.
LEMMA HandleBodies ==
  ASSUME TypeOK, WearerIsKnown, NEW r \in Requests, Handle(r)
  PROVE  BodiesTyped'
  <1> USE DEF BodiesTyped
  <1>0. BodiesTyped /\ assigned \in [Bands -> Row \cup {Nobody}]
    BY TypeParts DEF StoresTyped
  <1>1. ASSUME NEW items \in Assignments \cup Scans, NEW what \in Jobs, StartBatch(r, what, items)
        PROVE  BodiesTyped'
    <2>1. job' \in [Requests -> Jobs] /\ key' \in [Requests -> Requests \cup {Nobody}]
      BY <1>1, TypedLetIn DEF StartBatch
    <2> QED
      BY <1>0, <1>1, <2>1 DEF StartBatch
  <1>2. ASSUME NEW items \in Assignments \cup Scans, AddRfidAssignments(r, items) \/ AddScans(r, items)
        PROVE  BodiesTyped'
    BY <1>1, <1>2 DEF AddRfidAssignments, AddScans, Posts, Jobs
  <1>3. ASSUME NEW b \in Borrowers, StartLend(r, b[1], b[2]) PROVE BodiesTyped'
    <2>1. job' \in [Requests -> Jobs] /\ key' \in [Requests -> Requests \cup {Nobody}]
      BY <1>3, TypedLetIn DEF StartLend, Jobs
    <2>2. b[1] \in Bands \cup {NoBand} /\ b[2] \in Users \cup {Nobody}
      BY DeskAssumption
    <2> QED
      BY <1>0, <1>3, <2>1, <2>2 DEF StartLend
  <1>4. ASSUME NEW what \in Jobs, LetIn(r, what), UNCHANGED <<batch, wid, userId, wearer>>
        PROVE  BodiesTyped'
    <2>1. job' \in [Requests -> Jobs] /\ key' \in [Requests -> Requests \cup {Nobody}]
      BY <1>4, TypedLetIn
    <2> QED
      BY <1>0, <1>4, <2>1
  <1>5. ASSUME (\E l \in Requests : Return(r, l)) \/ GetAllAvailable(r) PROVE BodiesTyped'
    BY <1>4, <1>5 DEF Return, GetAllAvailable, Jobs
  <1>6. ASSUME GetBand(r) PROVE BodiesTyped'
    <2>0. wid[r] \in Bands
      BY <1>6 DEF GetBand, WearerIsKnown
    <2>1. Wearers(wid[r], current[served[r]]) \subseteq Users
      <3>1. assigned[wid[r]] # Nobody => assigned[wid[r]].user \in Users
        BY <1>0, <2>0 DEF Row
      <3> QED
        BY <3>1 DEF Wearers
    <2>2. wearer' \in [Requests -> Users \cup {Nobody}] /\ UNCHANGED request
      BY <1>0, <1>6, <2>1 DEF GetBand
    <2> QED
      BY <1>0, <2>2 DEF request
  <1>7. ASSUME UNCHANGED <<request, wearer>> PROVE BodiesTyped'
    BY <1>0, <1>7 DEF request
  <1>8. CASE \/ Refuse(r) \/ GetRegistration(r) \/ QueryFails(r)
             \/ \E i \in DOMAIN batch[r] : InsertAssignment(r, i) \/ InsertScan(r, i)
             \/ \E item \in Items : CheckOut(r, item)
    BY <1>7, <1>8 DEF Refuse, GetRegistration, QueryFails, InsertAssignment, InsertScan, CheckOut,
       deskVars
  <1> QED
    BY <1>2, <1>3, <1>5, <1>6, <1>8 DEF Handle

\* Reports: of items of the batch only, and none when a batch is taken on.
LEMMA HandleReportsTyped ==
  ASSUME TypeOK, BatchInv, NEW r \in Requests, Handle(r)
  PROVE  ReportsTyped'
  <1> USE DEF ReportsTyped
  <1>0. ReportsTyped /\ BatchTyped /\ ReportsOfBatch
    BY TypeParts DEF BatchInv
  <1>1. ASSUME UNCHANGED <<batch, report>> PROVE ReportsTyped'
    BY <1>0, <1>1
  <1>2. ASSUME NEW items, NEW what, StartBatch(r, what, items) PROVE ReportsTyped'
    <2>1. pc[r] = "idle" /\ batch' = [batch EXCEPT ![r] = items] /\ UNCHANGED report
      BY <1>2 DEF StartBatch, LetIn
    <2>2. DOMAIN report[r] = {}
      BY <1>0, <2>1 DEF ReportsOfBatch
    <2> QED
      BY <1>0, <2>1, <2>2 DEF BatchTyped
  <1>3. ASSUME NEW i \in DOMAIN batch[r], NEW result \in Results, Report(r, i, result),
               UNCHANGED batch
        PROVE  ReportsTyped'
    <2>1. report' = [report EXCEPT ![r] = InPlace(r, i, result)]
      BY <1>3 DEF Report
    <2>2. /\ DOMAIN InPlace(r, i, result) = DOMAIN report[r] \cup {i}
          /\ \A j \in DOMAIN report[r] \cup {i} :
               InPlace(r, i, result)[j] = IF j = i THEN result ELSE report[r][j]
      BY DEF InPlace
    <2>3. report'[r] = InPlace(r, i, result) /\ \A x \in Requests \ {r} : report'[x] = report[x]
      BY <1>0, <2>1 DEF BatchTyped
    <2> QED
      BY <1>0, <1>3, <2>2, <2>3
  <1>4. \A status : HandleInsertionError(status) \in Results
    BY DEF HandleInsertionError, Results
  <1>5. ASSUME NEW i \in DOMAIN batch[r], InsertAssignment(r, i) \/ InsertScan(r, i)
        PROVE  ReportsTyped'
    <2>1. UNCHANGED batch /\ \E result \in Results : Report(r, i, result)
      BY <1>4, <1>5 DEF InsertAssignment, InsertScan, Results, request
    <2> QED
      BY <1>3, <2>1
  <1>6. CASE \E items : AddRfidAssignments(r, items) \/ AddScans(r, items)
    BY <1>2, <1>6 DEF AddRfidAssignments, AddScans, Posts
  <1>7. CASE \/ Refuse(r) \/ GetBand(r) \/ GetRegistration(r) \/ QueryFails(r) \/ GetAllAvailable(r)
             \/ \E b \in Borrowers : StartLend(r, b[1], b[2])
             \/ \E item \in Items : CheckOut(r, item)
             \/ \E l \in Requests : Return(r, l)
    BY <1>1, <1>7 DEF Refuse, GetBand, GetRegistration, QueryFails, GetAllAvailable, StartLend,
       CheckOut, Return, deskVars, request
  <1> QED
    BY <1>5, <1>6, <1>7 DEF Handle

\* Loans can be counted.
LEMMA HandleCounts ==
  ASSUME IsFiniteSet(Requests), TypeOK, NEW r \in Requests, Handle(r)
  PROVE  CountsTyped'
  <1> USE DEF CountsTyped
  <1>0. CountsTyped /\ served \in [Requests -> Instances]
    BY TypeParts DEF TypeOK, ScannersTypeOK
  <1>1. CASE GetAllAvailable(r)
    <2>1. \A item \in Items : Cardinality(LoansOf(item)) \in Nat
      BY FS_Subset, FS_CardinalityType DEF LoansOf
    <2>2. Counted \in [Items -> Int]
      BY <2>1, DeskAssumption DEF Counted
    <2>3. /\ shown' = [shown EXCEPT ![r] =
                 IF available[served[r]] = NoCount THEN Counted ELSE available[served[r]]]
          /\ available' = [available EXCEPT ![served[r]] =
                 IF available[served[r]] = NoCount THEN Counted ELSE available[served[r]]]
      BY <1>1 DEF GetAllAvailable
    <2> QED
      BY <1>0, <2>2, <2>3
  <1>2. CASE UNCHANGED <<available, shown>>
    BY <1>0, <1>2
  <1>3. CASE \/ Refuse(r) \/ GetBand(r) \/ GetRegistration(r) \/ QueryFails(r)
             \/ \E items : AddRfidAssignments(r, items) \/ AddScans(r, items)
             \/ \E i \in DOMAIN batch[r] : InsertAssignment(r, i) \/ InsertScan(r, i)
             \/ \E b \in Borrowers : StartLend(r, b[1], b[2])
             \/ \E item \in Items : CheckOut(r, item)
             \/ \E l \in Requests : Return(r, l)
    BY <1>2, <1>3 DEF Refuse, GetBand, GetRegistration, QueryFails, StartLend, AddRfidAssignments,
       AddScans, Posts, StartBatch, InsertAssignment, InsertScan, CheckOut, Return, deskVars, tables
  <1> QED
    BY <1>1, <1>3 DEF Handle

\* Every variable of the desk stays within its type, for whatever requests, batches and
\* equipment; counting what is lent takes that there are finitely many requests.
THEOREM TypeCorrect ==
  ASSUME IsFiniteSet(Requests) PROVE Spec => []TypeOK
  <1>1. Init => TypeOK /\ PinInv /\ LoanInv /\ BatchInv
    BY TypeInit, PinInit, LoanInit, BatchInit
  <1>2. TypeOK /\ LoanInv /\ BatchInv /\ [Next]_vars => TypeOK'
    <2> SUFFICES ASSUME TypeOK, LoanInv, BatchInv, [Next]_vars PROVE TypeOK'
      OBVIOUS
    <2>1. CASE ScannersNext /\ UNCHANGED deskVars
      <3>1. CallsTyped'
        BY <2>1, TypeParts, ScannersTyped
      <3>2. StoresTyped' /\ CountsTyped'
        BY <2>1, TypeParts DEF deskVars, tables, request, StoresTyped, CountsTyped
      <3>3. BodiesTyped'
        BY <2>1, TypeParts DEF deskVars, request, BodiesTyped
      <3>4. ReportsTyped'
        BY <2>1, TypeParts DEF deskVars, request, ReportsTyped
      <3> QED
        BY <3>1, <3>2, <3>3, <3>4, TypePartsAfter
    <2>2. CASE \E r \in Requests : Handle(r)
      <3>1. PICK r \in Requests : Handle(r)
        BY <2>2
      <3>2. CallsTyped' /\ StoresTyped'
        BY <3>1, HandleCalls, HandleStores
      <3>3. CountsTyped' /\ BodiesTyped'
        BY <3>1, HandleCounts, HandleBodies DEF LoanInv
      <3>4. ReportsTyped'
        BY <3>1, HandleReportsTyped
      <3> QED
        BY <3>2, <3>3, <3>4, TypePartsAfter
    <2>3. ASSUME NEW i \in Instances, Remember(i) PROVE TypeOK'
      BY <2>3, DeskAssumption DEF Remember, scannerVars, firestore, caller, request, TypeOK,
         ScannersTypeOK
    <2>4. ASSUME NEW i \in Instances, Evict(i) PROVE TypeOK'
      BY <2>4 DEF Evict, scannerVars, firestore, caller, request, TypeOK, ScannersTypeOK
    <2>5. CASE UNCHANGED vars
      BY <2>5 DEF vars, scannerVars, firestore, caller, deskVars, tables, request, TypeOK,
         ScannersTypeOK
    <2> QED
      BY <2>1, <2>2, <2>3, <2>4, <2>5 DEF Next, AllAnswered
  <1>3. PinInv /\ LoanInv /\ BatchInv /\ [Next]_vars => PinInv' /\ LoanInv' /\ BatchInv'
    BY PinStep, LoanStep, BatchStep
  <1> QED
    BY <1>1, <1>2, <1>3, PTL DEF Spec

=============================================================================
