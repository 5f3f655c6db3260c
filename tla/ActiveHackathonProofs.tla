------------------------ MODULE ActiveHackathonProofs ------------------------
(***************************************************************************)
(* Proofs about ActiveHackathon, for any hackathons, users, processes and  *)
(* requests.                                                               *)
(***************************************************************************)
EXTENDS ActiveHackathon, TLAPS

-----------------------------------------------------------------------------
(***************************************************************************)
(* Type correctness.                                                       *)
(***************************************************************************)

\* A registered pin is a number.
LEMMA PinsAreNumbers == TypeOK => Pins \subseteq Nat
  BY DEF TypeOK, Entry, Pins, Registered

\* What makeActive writes are rows.
LEMMA ActivatedType ==
  ASSUME table \in [Hackathons -> Row], NEW h \in Hackathons, NEW m \in Nat
  PROVE  Activated(h, m) \in [Hackathons -> Row]
  BY DEF Row, Activated, Deactivated

\* What an edit writes is a row.
LEMMA MergedType ==
  ASSUME NEW old \in Row, NEW given \in Int, NEW ends \in BOOLEAN
  PROVE  Merged(old, given, ends) \in Row
  BY DEF Row, Merged

\* The executed write of a request is a table of rows.
LEMMA ExecuteWriteType ==
  ASSUME TypeOK, NEW r \in Requests, NEW rows \in [Hackathons -> Row],
         ExecuteWrite(r, rows)
  PROVE  /\ table' \in [Hackathons -> Row] /\ dirty' \in [Hackathons -> Row]
         /\ writer' \in Requests \cup {Nobody} /\ opened' \in SUBSET Hackathons
  BY DEF TypeOK, ExecuteWrite

\* Outcomes without a hackathon are outcomes.
LEMMA WithoutType ==
  /\ NoOutcome \in Outcome
  /\ Without("running") \in Outcome
  /\ Without("error") \in Outcome
  BY HackathonsAssumption DEF NoOutcome, Without, Outcome

\* Subscribing keeps the memo and its outcomes well formed.
LEMMA SubscribeType ==
  ASSUME TypeOK, NEW r \in Requests, NEW i \in Instances, Subscribe(r, i)
  PROVE  /\ hackathonObservable' \in [Instances -> Requests \cup {Nobody}]
         /\ outcome' \in [Requests -> Outcome]
         /\ source' \in [Requests -> Requests]
  <1>1. CASE hackathonObservable[i] = Nobody
    <2>1. /\ hackathonObservable' = [hackathonObservable EXCEPT ![i] = r]
          /\ outcome' = [outcome EXCEPT ![r] = Without("running")]
          /\ source' = [source EXCEPT ![r] = r]
      BY <1>1 DEF Subscribe
    <2>2. outcome' \in [Requests -> Outcome]
      BY <2>1, WithoutType DEF TypeOK
    <2>3. hackathonObservable' \in [Instances -> Requests \cup {Nobody}]
      BY <2>1 DEF TypeOK
    <2>4. source' \in [Requests -> Requests]
      BY <2>1 DEF TypeOK
    <2> QED  BY <2>2, <2>3, <2>4
  <1>2. CASE hackathonObservable[i] # Nobody
    BY <1>2 DEF TypeOK, Subscribe, memoVars
  <1> QED  BY <1>1, <1>2

\* submit() marks one row or none, and moves no pin.
LEMMA SubmitWrites ==
  ASSUME TypeOK, NEW r \in Requests, Submit(r)
  PROVE  /\ registration' = registration
            \/ \E e \in Users \X Hackathons, n \in Entry :
                 n.pin = registration[e].pin /\ registration' = [registration EXCEPT ![e] = n]
         /\ \A e \in Users \X Hackathons : registration'[e].pin = registration[e].pin
<1> DEFINE d == <<who[r], Given(r).uid>>
           marked == [pin |-> registration[d].pin, submitted |-> TRUE]
<1>1. d \in Users \X Hackathons
  BY DEF Given, TypeOK, Outcome
<1>2. marked \in Entry /\ marked.pin = registration[d].pin
  BY <1>1 DEF TypeOK, Entry
<1>3. registration' = registration \/ registration' = [registration EXCEPT ![d] = marked]
  BY DEF Submit
<1> HIDE DEF d, marked
<1> QED  BY <1>1, <1>2, <1>3 DEF TypeOK

\* The initial state is well typed.
LEMMA InitType == Init => TypeOK
  BY HackathonsAssumption, InputsAssumption
  DEF Init, TypeOK, InitialRow, AbsentRow, NoOutcome, Without, Row, Entry, Outcome, Stages, Settled

\* Every action keeps the types.
LEMMA StepType == TypeOK /\ [Next]_vars => TypeOK'
<1> SUFFICES ASSUME TypeOK, [Next]_vars PROVE TypeOK'
  OBVIOUS
<1> USE HackathonsAssumption, InputsAssumption
<1>1. ASSUME NEW r \in Requests, NEW h \in Targets, MakeActive(r, h)
      PROVE  TypeOK'
  <2>1. /\ table' \in [Hackathons -> Row] /\ dirty' \in [Hackathons -> Row]
        /\ writer' \in Requests \cup {Nobody} /\ opened' \in SUBSET Hackathons
    <3>1. CASE UNCHANGED dbVars
      BY <3>1 DEF TypeOK, dbVars
    <3>2. ASSUME NEW m \in Nat, ExecuteWrite(r, Activated(h, m))
          PROVE  <2>1!:
      BY <3>2, ActivatedType, ExecuteWriteType DEF TypeOK
    <3> QED  BY <1>1, <3>1, <3>2, PinsAreNumbers DEF MakeActive, IsMaxPin
  <2> QED
    BY <1>1, <2>1 DEF MakeActive, TypeOK, Goto, Stages, Settled, regVars, memoVars
<1>2. ASSUME NEW r \in Requests, NEW h \in Creatable, NEW ends \in BOOLEAN,
             NEW given \in GivenPins \cup {NotGiven},
             InsertHackathon(r, h, given, ends)
      PROVE  TypeOK'
  <2>1. /\ table' \in [Hackathons -> Row] /\ dirty' \in [Hackathons -> Row]
        /\ writer' \in Requests \cup {Nobody} /\ opened' \in SUBSET Hackathons
    <3>1. CASE UNCHANGED dbVars
      BY <3>1 DEF TypeOK, dbVars
    <3>2. InsertedPins(given) \subseteq Nat
      BY PinsAreNumbers DEF InsertedPins, NotGiven
    <3>3. ASSUME NEW m \in Nat,
                 ExecuteWrite(r, [table EXCEPT ![h] = [stored |-> TRUE,
                   active |-> FALSE, basePin |-> m, ended |-> ends]])
          PROVE  <2>1!:
      BY <3>3, ExecuteWriteType DEF TypeOK, Row
    <3> QED  BY <1>2, <3>1, <3>2, <3>3 DEF InsertHackathon
  <2> QED
    BY <1>2, <2>1 DEF InsertHackathon, TypeOK, Goto, Stages, Settled, regVars, memoVars
<1>3. ASSUME NEW r \in Requests, NEW h \in Editable, NEW ends \in BOOLEAN,
             NEW given \in GivenPins \cup {NotGiven},
             FetchRow(r, h, given, ends)
      PROVE  TypeOK'
  <2> DEFINE old == IF cached[at[r]][h].stored THEN cached[at[r]][h] ELSE table[h]
  <2>1. old \in Row
    BY DEF TypeOK
  <2>2. given \in Int
    BY DEF NotGiven
  <2> HIDE DEF old
  <2>3. Merged(old, given, ends) \in Row
    BY <2>1, <2>2, MergedType
  <2>4. cached' = [cached EXCEPT ![at[r]][h] = old]
    BY <1>3 DEF FetchRow, old
  <2>5. cached' \in [Instances -> [Hackathons -> Row]]
    BY <2>1, <2>4 DEF TypeOK
  <2>6. row' = [row EXCEPT ![r] = Merged(old, given, ends)] \/ row' = row
    BY <1>3 DEF FetchRow, old
  <2>7. row' \in [Requests -> Row]
    BY <2>3, <2>6 DEF TypeOK
  <2>8. target' \in [Requests -> Hackathons]
    BY <1>3 DEF FetchRow, TypeOK
  <2>9. pc' \in [Requests -> Stages]
    <3>1. \E s \in Stages : pc' = [pc EXCEPT ![r] = s]
      BY <1>3 DEF FetchRow, Goto, Stages, Settled
    <3> QED
      BY <3>1 DEF TypeOK
  <2>10. UNCHANGED <<dbVars, regVars, memoVars, at, who, source, asked>>
    BY <1>3 DEF FetchRow
  <2> QED
    BY <2>5, <2>7, <2>8, <2>9, <2>10 DEF TypeOK, dbVars, regVars, memoVars
<1>4. ASSUME NEW r \in Requests, NEW u \in Users, StartRegister(r, u)
      PROVE  TypeOK'
  BY <1>4, SubscribeType
  DEF StartRegister, TypeOK, Goto, Stages, Settled, dbVars, regVars
<1>5. ASSUME NEW r \in Requests, NEW p \in LookupPins, StartLookup(r, p)
      PROVE  TypeOK'
  BY <1>5, SubscribeType
  DEF StartLookup, TypeOK, Goto, Stages, Settled, dbVars, regVars
<1>6. ASSUME NEW r \in Requests, RefreshObservable(r)
      PROVE  TypeOK'
  BY <1>6 DEF RefreshObservable, TypeOK, Outcome, Without, Goto, Stages, Settled, dbVars, regVars
<1>7. ASSUME NEW r \in Requests, ReplyActivated(r) \/ SendRegistrationEmail(r) \/ RequestFails(r)
      PROVE  TypeOK'
  <2>1. pc' \in [Requests -> Stages]
    BY <1>7 DEF ReplyActivated, SendRegistrationEmail, RequestFails, TypeOK, Goto, Stages, Settled
  <2>2. UNCHANGED <<dbVars, regVars, memoVars, cached, argVars>>
    BY <1>7 DEF ReplyActivated, SendRegistrationEmail, RequestFails
  <2> QED
    BY <2>1, <2>2 DEF TypeOK, dbVars, regVars, memoVars, argVars
<1>8. ASSUME NEW r \in Requests, WriteRow(r)
      PROVE  TypeOK'
  <2>1. [table EXCEPT ![target[r]] = row[r]] \in [Hackathons -> Row]
    BY DEF TypeOK
  <2> QED
    BY <1>8, <2>1, ExecuteWriteType
    DEF WriteRow, TypeOK, Goto, Stages, Settled, regVars, memoVars, argVars
<1>9. ASSUME NEW r \in Requests, InsertRegistration(r)
      PROVE  TypeOK'
  <2>1. Given(r).uid \in Hackathons
    BY DEF Given, TypeOK, Outcome
  <2>2. /\ <<who[r], Given(r).uid>> \in Users \X Hackathons
        /\ [pin |-> lastPin + 1, submitted |-> FALSE] \in Entry
    BY <2>1 DEF TypeOK, Entry
  <2>3. registration' \in [Users \X Hackathons -> Entry]
    <3>1. \E e \in Users \X Hackathons, n \in Entry :
             registration' = registration \/ registration' = [registration EXCEPT ![e] = n]
      BY <1>9, <2>2 DEF InsertRegistration
    <3> QED  BY <3>1 DEF TypeOK
  <2>4. pc' = [pc EXCEPT ![r] = "inserted"] \/ pc' = [pc EXCEPT ![r] = "failed"]
    BY <1>9 DEF InsertRegistration, Goto
  <2>5. pc' \in [Requests -> Stages]
    BY <2>4 DEF TypeOK, Stages, Settled
  <2>6. /\ target' = [target EXCEPT ![r] = Given(r).uid] /\ lastPin' = lastPin + 1
        /\ UNCHANGED <<dbVars, memoVars, cached, at, who, source, row, asked>>
    BY <1>9 DEF InsertRegistration
  <2>7. lost' \in SUBSET (Requests \X {"insert", "submit"})
    BY <1>9 DEF InsertRegistration, TypeOK
  <2> QED
    BY <2>1, <2>3, <2>5, <2>6, <2>7 DEF TypeOK, dbVars, memoVars
<1>10. ASSUME NEW r \in Requests, StartSubmit(r)
       PROVE  TypeOK'
  BY <1>10, SubscribeType
  DEF StartSubmit, TypeOK, Goto, Stages, Settled, dbVars, regVars
<1>11. ASSUME NEW r \in Requests, Submit(r)
       PROVE  TypeOK'
  <2>1. registration' \in [Users \X Hackathons -> Entry]
    BY <1>11, SubmitWrites DEF TypeOK
  <2>2. lost' \in SUBSET (Requests \X {"insert", "submit"})
    BY <1>11 DEF Submit, TypeOK
  <2>3. pc' \in [Requests -> Stages]
    BY <1>11 DEF Submit, Goto, TypeOK, Stages
  <2>4. UNCHANGED <<dbVars, lastPin, memoVars, cached, argVars>>
    BY <1>11 DEF Submit
  <2> QED
    BY <2>1, <2>2, <2>3, <2>4 DEF TypeOK, dbVars, memoVars, argVars
<1>12. ASSUME NEW r \in Requests, GetByPin(r)
       PROVE  TypeOK'
  <2>1. who' = who \/ \E u \in Users : who' = [who EXCEPT ![r] = u]
    BY <1>12 DEF GetByPin
  <2>2. pc' = [pc EXCEPT ![r] = "found"] \/ pc' = [pc EXCEPT ![r] = "failed"]
    BY <1>12 DEF GetByPin, Goto
  <2>3. UNCHANGED <<dbVars, regVars, memoVars, cached, at, target, source, row, asked>>
    BY <1>12 DEF GetByPin
  <2>4. who' \in [Requests -> Users]
    BY <2>1 DEF TypeOK
  <2>5. pc' \in [Requests -> Stages]
    BY <2>2 DEF TypeOK, Stages, Settled
  <2> QED
    BY <2>3, <2>4, <2>5 DEF TypeOK, dbVars, regVars, memoVars
<1>13. ASSUME NEW r \in Requests, LoadActive(r) \/ LoadFails(r)
       PROVE  TypeOK'
  <2>1. \A h \in ActiveRows :
           [state |-> "ready", uid |-> h, basePin |-> table[h].basePin] \in Outcome
    BY DEF ActiveRows, TypeOK, Row, Outcome
  <2>2. \E o \in Outcome : outcome' = [outcome EXCEPT ![r] = o]
    BY <1>13, <2>1, WithoutType DEF LoadActive, LoadFails
  <2>3. outcome' \in [Requests -> Outcome]
    BY <2>2 DEF TypeOK
  <2> QED
    BY <1>13, <2>3 DEF LoadActive, LoadFails, TypeOK, dbVars, regVars, argVars
<1>14. CASE EndTransaction
  BY <1>14 DEF EndTransaction, Commit, CommitLost, TypeOK, regVars, memoVars, argVars
<1>15. ASSUME NEW i \in Instances, NEW h \in Hackathons, Evict(i, h)
       PROVE  TypeOK'
  BY <1>15 DEF Evict, TypeOK, AbsentRow, Row, dbVars, regVars, memoVars, argVars
<1>16. ASSUME NEW i \in Instances, Restart(i)
       PROVE  TypeOK'
  BY <1>16 DEF Restart, TypeOK, AbsentRow, NoOutcome, Without, Row, Outcome, Stages, Settled,
               dbVars, regVars, argVars
<1>17. CASE UNCHANGED vars
  BY <1>17 DEF TypeOK, vars, dbVars, regVars, memoVars, argVars
<1> QED
  BY <1>1, <1>2, <1>3, <1>4, <1>5, <1>6, <1>7, <1>8, <1>9, <1>10, <1>11, <1>12,
     <1>13, <1>14, <1>15, <1>16, <1>17
  DEF Next, Serve, Proceed

\* Every state is well typed.
THEOREM TypeCorrect == Spec => []TypeOK
<1> QED  BY InitType, StepType, PTL DEF Spec


-----------------------------------------------------------------------------
(***************************************************************************)
(* What a step can do to the HACKATHON table: execute one of the three     *)
(* writes, end the transaction, or nothing.                                *)
(***************************************************************************)
Activates(r, h, m) ==
  /\ h \in Targets /\ (Reactivate \/ h \notin opened)
  /\ m \in Pins \cup {0}
  /\ ExecuteWrite(r, Activated(h, m))

NewRow(m, ends) ==
  [stored |-> TRUE, active |-> FALSE, basePin |-> m, ended |-> ends]

Inserts(r, h, m, ends) ==
  /\ h \in Creatable /\ ~table[h].stored
  /\ m \in Pins \cup GivenPins
  /\ ExecuteWrite(r, [table EXCEPT ![h] = NewRow(m, ends)])

\* Every step is one of these for the HACKATHON table.
LEMMA TableStep ==
  ASSUME TypeOK, [Next]_vars
  PROVE  \/ \E r \in Requests, h \in Hackathons, m \in Nat : Activates(r, h, m)
         \/ \E r \in Requests, h \in Hackathons, m \in Nat, ends \in BOOLEAN :
               Inserts(r, h, m, ends)
         \/ \E r \in Requests : WriteRow(r)
         \/ Commit
         \/ CommitLost
         \/ UNCHANGED dbVars
<1> DEFINE Goal == \/ \E r \in Requests, h \in Hackathons, m \in Nat : Activates(r, h, m)
                   \/ \E r \in Requests, h \in Hackathons, m \in Nat, ends \in BOOLEAN :
                         Inserts(r, h, m, ends)
                   \/ \E r \in Requests : WriteRow(r)
                   \/ Commit
                   \/ CommitLost
                   \/ UNCHANGED dbVars
<1> USE HackathonsAssumption, InputsAssumption
<1>1. ASSUME NEW r \in Requests, NEW h \in Targets, MakeActive(r, h)
      PROVE  Goal
  <2>1. \/ \E m \in Nat : m \in Pins \cup {0} /\ ExecuteWrite(r, Activated(h, m))
        \/ UNCHANGED dbVars
    BY <1>1, PinsAreNumbers DEF MakeActive, IsMaxPin
  <2> QED  BY <1>1, <2>1 DEF Activates, MakeActive
<1>2. ASSUME NEW r \in Requests, NEW h \in Creatable, NEW ends \in BOOLEAN,
             NEW given \in GivenPins \cup {NotGiven},
             InsertHackathon(r, h, given, ends)
      PROVE  Goal
  <2>1. InsertedPins(given) \subseteq Nat /\ InsertedPins(given) \subseteq Pins \cup GivenPins
    BY PinsAreNumbers DEF InsertedPins, NotGiven
  <2>2. \/ \E m \in Nat : Inserts(r, h, m, ends)
        \/ UNCHANGED dbVars
    BY <1>2, <2>1 DEF InsertHackathon, Inserts, NewRow
  <2> QED  BY <2>2
<1>3. ASSUME NEW r \in Requests, NEW h \in Editable, NEW ends \in BOOLEAN,
             NEW given \in GivenPins \cup {NotGiven},
             FetchRow(r, h, given, ends)
      PROVE  UNCHANGED dbVars
  BY <1>3 DEF FetchRow
<1>4. ASSUME NEW r \in Requests,
             (\E u \in Users : StartRegister(r, u)) \/ (\E p \in LookupPins : StartLookup(r, p))
      PROVE  UNCHANGED dbVars
  BY <1>4 DEF StartRegister, StartLookup
<1>5. ASSUME NEW r \in Requests, Proceed(r), ~WriteRow(r)
      PROVE  UNCHANGED dbVars
  BY <1>5 DEF Proceed, RefreshObservable, ReplyActivated, InsertRegistration, StartSubmit,
              Submit, SendRegistrationEmail, GetByPin, RequestFails, LoadActive, LoadFails
<1>6. ASSUME NEW i \in Instances, Restart(i) \/ \E h \in Hackathons : Evict(i, h)
      PROVE  UNCHANGED dbVars
  BY <1>6 DEF Restart, Evict
<1> QED
  <2>1. CASE UNCHANGED vars
    BY <2>1 DEF vars
  <2>2. CASE EndTransaction
    BY <2>2 DEF EndTransaction
  <2>3. ASSUME NEW r \in Requests, Serve(r) PROVE Goal
    BY <2>3, <1>1, <1>2, <1>3, <1>4 DEF Serve
  <2> QED  BY <1>5, <1>6, <2>1, <2>2, <2>3 DEF Next

-----------------------------------------------------------------------------
(***************************************************************************)
(* One active hackathon.  The invariant is about both versions of the      *)
(* table, since the next COMMIT makes `dirty' the committed one, and needs *)
(* that no edit is under way: an edit writes back what it once read.       *)
(***************************************************************************)
AtMostOneIn(rows) ==
  \A g, h \in Hackathons : rows[g].active /\ rows[h].active => g = h

SomeIn(rows) == \E h \in Hackathons : rows[h].active /\ rows[h].stored

NoEditUnderWay == \A r \in Requests : pc[r] # "fetched"

\* Without requests that edit, none reaches the point where it writes.
LEMMA NoEditStep ==
  ASSUME TypeOK, Editable = {}, NoEditUnderWay, [Next]_vars
  PROVE  NoEditUnderWay'
<1> USE DEF NoEditUnderWay, Goto
<1>1. ASSUME NEW r \in Requests, Serve(r) PROVE NoEditUnderWay'
  <2>1. \E s \in Stages : s # "fetched" /\ pc' = [pc EXCEPT ![r] = s]
    BY <1>1 DEF Serve, MakeActive, InsertHackathon, StartRegister, StartLookup, Stages, Settled
  <2> QED  BY <2>1 DEF TypeOK
<1>2. ASSUME NEW r \in Requests, Proceed(r) PROVE NoEditUnderWay'
  <2>1. \/ UNCHANGED pc
        \/ \E s \in Stages : s # "fetched" /\ pc' = [pc EXCEPT ![r] = s]
    BY <1>2 DEF Proceed, RefreshObservable, ReplyActivated, WriteRow, InsertRegistration,
                StartSubmit, Submit, SendRegistrationEmail, GetByPin, RequestFails,
                LoadActive, LoadFails, Stages, Settled
  <2> QED  BY <2>1 DEF TypeOK
<1>3. ASSUME NEW i \in Instances, Restart(i) PROVE NoEditUnderWay'
  BY <1>3 DEF Restart
<1>4. CASE UNCHANGED pc
  BY <1>4
<1> QED
  BY <1>1, <1>2, <1>3, <1>4 DEF Next, EndTransaction, Commit, CommitLost, Evict, vars

OneInv == TypeOK /\ NoEditUnderWay /\ AtMostOneIn(table) /\ AtMostOneIn(dirty)

\* To begin with one hackathon is active and no edit is under way.
LEMMA InitOne == Init => OneInv
<1>1. ASSUME Init PROVE OneInv
  <2>1. TypeOK
    BY <1>1, InitType
  <2> QED
    BY <1>1, <2>1 DEF OneInv, Init, InitialRow, NoEditUnderWay, AtMostOneIn
<1> QED  BY <1>1

\* Both versions of the table keep at most one active row.
LEMMA StepOne ==
  ASSUME Editable = {}
  PROVE  OneInv /\ [Next]_vars => OneInv'
<1> SUFFICES ASSUME OneInv, [Next]_vars PROVE OneInv'
  OBVIOUS
<1>1. TypeOK' /\ NoEditUnderWay'
  BY StepType, NoEditStep DEF OneInv
<1>2. AtMostOneIn(table') /\ AtMostOneIn(dirty')
  <2>1. ASSUME NEW r \in Requests, NEW h \in Hackathons, NEW m \in Nat, Activates(r, h, m)
        PROVE  <1>2!:
    BY <2>1 DEF OneInv, Activates, ExecuteWrite, Activated, Deactivated, AtMostOneIn
  <2>2. ASSUME NEW r \in Requests, NEW h \in Hackathons, NEW m \in Nat,
               NEW ends \in BOOLEAN, Inserts(r, h, m, ends)
        PROVE  <1>2!:
    BY <2>2 DEF OneInv, TypeOK, Inserts, NewRow, ExecuteWrite, AtMostOneIn
  <2>3. ASSUME NEW r \in Requests, WriteRow(r)
        PROVE  <1>2!:
    BY <2>3 DEF OneInv, NoEditUnderWay, WriteRow
  <2>4. CASE Commit \/ CommitLost \/ UNCHANGED dbVars
    BY <2>4 DEF OneInv, Commit, CommitLost, dbVars
  <2> QED  BY <2>1, <2>2, <2>3, <2>4, TableStep DEF OneInv
<1> QED  BY <1>1, <1>2 DEF OneInv, AtMostOneIn

\* Two hackathons are never active at once as long as none is edited: makeActive
\* ends whatever is active in the transaction that activates another.
THEOREM OneActive ==
  ASSUME Editable = {}
  PROVE  Spec => []AtMostOneActive
<1>1. OneInv => AtMostOneActive
  BY DEF OneInv, AtMostOneIn, AtMostOneActive
<1> QED  BY <1>1, InitOne, StepOne, PTL DEF Spec

SomeInv ==
  /\ TypeOK /\ NoEditUnderWay
  /\ SomeIn(table) /\ SomeIn(dirty)
  /\ \A h \in StoredAtStart : table[h].stored /\ dirty[h].stored

\* A hackathon is active at any time if activations name hackathons whose rows
\* exist and none is edited: nobody sees the gap between the two UPDATEs.
THEOREM SomeActive ==
  ASSUME Editable = {}, Targets \subseteq StoredAtStart
  PROVE  Spec => []SomeHackathonActive
<1>1. Init => SomeInv
  <2>1. ASSUME Init PROVE SomeInv
    <3>1. TypeOK
      BY <2>1, InitType
    <3> QED
      BY <2>1, <3>1, HackathonsAssumption
      DEF SomeInv, Init, InitialRow, NoEditUnderWay, SomeIn
  <2> QED  BY <2>1
<1>2. SomeInv /\ [Next]_vars => SomeInv'
  <2> SUFFICES ASSUME SomeInv, [Next]_vars PROVE SomeInv'
    OBVIOUS
  <2> USE HackathonsAssumption
  <2>1. TypeOK' /\ NoEditUnderWay'
    BY StepType, NoEditStep DEF SomeInv
  <2>2. /\ SomeIn(table') /\ SomeIn(dirty')
        /\ \A h \in StoredAtStart : table'[h].stored /\ dirty'[h].stored
    <3>1. ASSUME NEW r \in Requests, NEW h \in Hackathons, NEW m \in Nat, Activates(r, h, m)
          PROVE  <2>2!:
      <4>1. dirty'[h].active /\ \A k \in StoredAtStart : dirty'[k].stored
        BY <3>1 DEF SomeInv, Activates, ExecuteWrite, Activated, Deactivated
      <4>2. h \in StoredAtStart /\ UNCHANGED table
        BY <3>1 DEF Activates, ExecuteWrite
      <4> QED  BY <4>1, <4>2 DEF SomeInv, SomeIn
    <3>2. ASSUME NEW r \in Requests, NEW h \in Hackathons, NEW m \in Nat,
                 NEW ends \in BOOLEAN, Inserts(r, h, m, ends)
          PROVE  <2>2!:
      <4>1. PICK k \in Hackathons : table[k].active /\ table[k].stored
        BY DEF SomeInv, SomeIn
      <4>2. dirty' = [table EXCEPT ![h] = NewRow(m, ends)] /\ table' = table
        BY <3>2 DEF Inserts, ExecuteWrite
      <4> QED  BY <3>2, <4>1, <4>2 DEF SomeInv, TypeOK, Inserts, NewRow, SomeIn
    <3>3. ASSUME NEW r \in Requests, WriteRow(r)
          PROVE  <2>2!:
      BY <3>3 DEF SomeInv, NoEditUnderWay, WriteRow
    <3>4. CASE Commit \/ CommitLost \/ UNCHANGED dbVars
      BY <3>4 DEF SomeInv, Commit, CommitLost, dbVars
    <3> QED  BY <3>1, <3>2, <3>3, <3>4, TableStep DEF SomeInv
  <2> QED  BY <2>1, <2>2 DEF SomeInv, SomeIn
<1>3. SomeInv => SomeHackathonActive
  BY DEF SomeInv, SomeIn, SomeHackathonActive
<1> QED  BY <1>1, <1>2, <1>3, PTL DEF Spec

-----------------------------------------------------------------------------
(***************************************************************************)
(* Registrations.  They follow what a process remembers, so the invariant  *)
(* says that whatever an observable replays was active once.               *)
(***************************************************************************)

\* A step changes no pin, or it is an INSERT into REGISTRATION.
LEMMA RegistrationStep ==
  ASSUME TypeOK, [Next]_vars
  PROVE  \/ \E r \in Requests : InsertRegistration(r)
         \/ /\ lastPin' = lastPin
            /\ \A e \in Users \X Hackathons : registration'[e].pin = registration[e].pin
<1> DEFINE Same == /\ lastPin' = lastPin
                   /\ \A e \in Users \X Hackathons :
                         registration'[e].pin = registration[e].pin
<1>1. ASSUME NEW r \in Requests, Submit(r) PROVE Same
  BY <1>1, SubmitWrites DEF Submit
<1>2. CASE UNCHANGED regVars
  BY <1>2 DEF regVars
<1>3. ASSUME NEW r \in Requests, Serve(r) PROVE UNCHANGED regVars
  BY <1>3 DEF Serve, MakeActive, InsertHackathon, FetchRow, StartRegister, StartLookup
<1>4. ASSUME NEW r \in Requests, Proceed(r), ~InsertRegistration(r), ~Submit(r)
      PROVE  UNCHANGED regVars
  BY <1>4 DEF Proceed, RefreshObservable, ReplyActivated, WriteRow, StartSubmit,
              SendRegistrationEmail, GetByPin, RequestFails, LoadActive, LoadFails
<1> QED
  BY <1>1, <1>2, <1>3, <1>4
  DEF Next, EndTransaction, Commit, CommitLost, Evict, Restart, vars

\* What an observable newly replays is a hackathon that is active.
LEMMA OutcomeStep ==
  ASSUME TypeOK, [Next]_vars, NEW r \in Requests, outcome'[r].state = "ready"
  PROVE  outcome'[r] = outcome[r] \/ table[outcome'[r].uid].active
<1> DEFINE Goal == outcome'[r] = outcome[r] \/ table[outcome'[r].uid].active
<1> USE DEF TypeOK
<1>1. CASE UNCHANGED outcome
  BY <1>1
<1>2. ASSUME NEW q \in Requests, NEW s \in {"running", "error"},
             outcome' = [outcome EXCEPT ![q] = Without(s)]
      PROVE  Goal
  BY <1>2 DEF Without
<1>3. ASSUME NEW q \in Requests, LoadActive(q) PROVE Goal
  <2>1. CASE \E h \in ActiveRows : outcome' = [outcome EXCEPT ![q] =
               [state |-> "ready", uid |-> h, basePin |-> table[h].basePin]]
    BY <2>1 DEF ActiveRows
  <2> QED  BY <1>2, <1>3, <2>1 DEF LoadActive
<1>4. ASSUME NEW q \in Requests, NEW i \in Instances, Subscribe(q, i) PROVE Goal
  <2>1. \/ UNCHANGED outcome
        \/ outcome' = [outcome EXCEPT ![q] = Without("running")]
    BY <1>4 DEF Subscribe, memoVars
  <2> QED  BY <1>1, <1>2, <2>1
<1>5. ASSUME NEW q \in Requests, Serve(q) PROVE Goal
  <2>1. UNCHANGED outcome \/ Subscribe(q, at[q])
    BY <1>5 DEF Serve, MakeActive, InsertHackathon, FetchRow, StartRegister, StartLookup, memoVars
  <2> QED  BY <1>1, <1>4, <2>1
<1>6. ASSUME NEW q \in Requests, Proceed(q) PROVE Goal
  <2>1. \/ UNCHANGED outcome \/ Subscribe(q, at[q]) \/ LoadActive(q)
        \/ \E s \in {"running", "error"} : outcome' = [outcome EXCEPT ![q] = Without(s)]
    BY <1>6 DEF Proceed, RefreshObservable, ReplyActivated, WriteRow, InsertRegistration,
                StartSubmit, Submit, SendRegistrationEmail, GetByPin, RequestFails,
                LoadFails, memoVars
  <2> QED  BY <1>1, <1>2, <1>3, <1>4, <2>1
<1>7. ASSUME NEW i \in Instances, Restart(i) PROVE Goal
  BY <1>7 DEF Restart, NoOutcome, Without
<1> QED
  BY <1>1, <1>5, <1>6, <1>7
  DEF Next, EndTransaction, Commit, CommitLost, Evict, vars, memoVars

OpenedInv ==
  /\ TypeOK
  /\ \A h \in Hackathons : table[h].active => h \in opened
  /\ \A r \in Requests : outcome[r].state = "ready" => outcome[r].uid \in opened
  /\ OnlyOpenedHackathons

\* To begin with nobody is registered and nothing is remembered.
LEMMA InitOpened == Init => OpenedInv
<1>1. ASSUME Init PROVE OpenedInv
  <2>1. TypeOK
    BY <1>1, InitType
  <2> QED
    BY <1>1, <2>1 DEF OpenedInv, Init, InitialRow, NoOutcome, Without, OnlyOpenedHackathons, Registered
<1> QED  BY <1>1

\* Every step keeps what is remembered, and who is registered, to hackathons
\* that were active once.
LEMMA StepOpened == OpenedInv /\ [Next]_vars => OpenedInv'
<1> SUFFICES ASSUME OpenedInv, [Next]_vars PROVE OpenedInv'
  OBVIOUS
<1>1. TypeOK'
  BY StepType DEF OpenedInv
<1>2. /\ opened \subseteq opened'
      /\ \A h \in Hackathons : table'[h].active => h \in opened'
  <2>1. CASE UNCHANGED <<table, opened>>
    BY <2>1 DEF OpenedInv
  <2>2. CASE Commit
    BY <2>2 DEF OpenedInv, Commit
  <2> QED
    BY <2>1, <2>2, TableStep
    DEF OpenedInv, Activates, Inserts, WriteRow, ExecuteWrite, CommitLost, dbVars
<1>3. \A r \in Requests : outcome'[r].state = "ready" => outcome'[r].uid \in opened'
  <2> TAKE r \in Requests
  <2> HAVE outcome'[r].state = "ready"
  <2>1. outcome'[r].uid \in Hackathons
    BY <1>1 DEF TypeOK, Outcome
  <2> QED  BY <1>2, <2>1, OutcomeStep DEF OpenedInv
<1>4. OnlyOpenedHackathons'
  <2> SUFFICES ASSUME NEW e \in Users \X Hackathons, registration'[e].pin # 0
               PROVE  e[2] \in opened'
    BY DEF OnlyOpenedHackathons, Registered
  <2>1. ASSUME registration'[e].pin = registration[e].pin
        PROVE  e[2] \in opened'
    BY <1>2, <2>1 DEF OpenedInv, OnlyOpenedHackathons, Registered
  <2>2. ASSUME NEW r \in Requests, InsertRegistration(r), e = <<who[r], Given(r).uid>>
        PROVE  e[2] \in opened'
    <3>1. Given(r).uid \in opened
      BY <2>2 DEF InsertRegistration, Given, OpenedInv, TypeOK
    <3> QED  BY <1>2, <2>2, <3>1
  <2>3. ASSUME NEW r \in Requests, InsertRegistration(r), e # <<who[r], Given(r).uid>>
        PROVE  registration'[e] = registration[e]
    BY <2>3 DEF InsertRegistration, OpenedInv, TypeOK
  <2> QED  BY <2>1, <2>2, <2>3, RegistrationStep DEF OpenedInv
<1> QED  BY <1>1, <1>2, <1>3, <1>4 DEF OpenedInv

\* Nobody is registered for a hackathon that was never active, by whatever
\* process and however old its memory of the active hackathon.
THEOREM OnlyOpened == Spec => []OnlyOpenedHackathons
<1>1. OpenedInv => OnlyOpenedHackathons
  BY DEF OpenedInv
<1> QED  BY <1>1, InitOpened, StepOpened, PTL DEF Spec

-----------------------------------------------------------------------------
(***************************************************************************)
(* The abstract lifecycle.                                                 *)
(***************************************************************************)
\* A step is an abstract step or changes nothing abstract: COMMIT activates or
\* closes, an INSERT into REGISTRATION enrols.
LEMMA LifecycleStep ==
  ASSUME OneInv, OpenedInv, [Next]_vars
  PROVE  [Lifecycle!Next]_<<{h \in Hackathons : table[h].active}, opened, Registered>>
<1> DEFINE cur == {h \in Hackathons : table[h].active}
<1>1. ASSUME NEW r \in Requests, InsertRegistration(r)
      PROVE  Lifecycle!Next \/ UNCHANGED <<cur, opened, Registered>>
  <2> DEFINE e == <<who[r], Given(r).uid>>
  <2>1. UNCHANGED <<cur, opened>>
    BY <1>1 DEF InsertRegistration, dbVars
  <2>2. CASE UNCHANGED registration
    BY <2>1, <2>2 DEF Registered
  <2>3. CASE registration' = [registration EXCEPT ![e] = [pin |-> lastPin + 1, submitted |-> FALSE]]
    <3>1. Given(r).uid \in opened /\ Given(r).uid \in Hackathons /\ who[r] \in Users
      BY <1>1 DEF InsertRegistration, Given, OpenedInv, TypeOK, Outcome
    <3>2. lastPin + 1 # 0
      BY DEF OpenedInv, TypeOK
    <3>3. Registered' = Registered \cup {e}
      BY <2>3, <3>1, <3>2 DEF Registered, OpenedInv, TypeOK
    <3>4. Lifecycle!Enrol(who[r], Given(r).uid)
      BY <2>1, <3>1, <3>3 DEF Lifecycle!Enrol
    <3> QED  BY <3>1, <3>4 DEF Lifecycle!Next
  <2> QED  BY <1>1, <2>2, <2>3 DEF InsertRegistration
<1>2. ASSUME \A e \in Users \X Hackathons : registration'[e].pin = registration[e].pin
      PROVE  Lifecycle!Next \/ UNCHANGED <<cur, opened, Registered>>
  <2>1. Registered' = Registered
    BY <1>2 DEF Registered
  <2>2. CASE UNCHANGED <<table, opened>>
    BY <2>1, <2>2
  <2>3. CASE Commit
    <3>1. cur' = {h \in Hackathons : dirty[h].active} /\ opened' = opened \cup cur'
      BY <2>3 DEF Commit
    <3>2. CASE cur' = {}
      BY <2>1, <3>1, <3>2 DEF Lifecycle!Next, Lifecycle!Close
    <3>3. ASSUME NEW h \in Hackathons, h \in cur'
          PROVE  Lifecycle!Activate(h)
      <4>1. cur' = {h}
        BY <3>1, <3>3 DEF OneInv, AtMostOneIn
      <4> QED  BY <2>1, <3>1, <4>1 DEF Lifecycle!Activate
    <3> QED  BY <3>1, <3>2, <3>3 DEF Lifecycle!Next
  <2> QED
    BY <2>2, <2>3, TableStep
    DEF OpenedInv, OneInv, NoEditUnderWay, Activates, Inserts, WriteRow, ExecuteWrite,
        CommitLost, dbVars
<1> QED  BY <1>1, <1>2, RegistrationStep DEF OpenedInv

\* With their processes, memos and lost commits the endpoints behave as one
\* board with a single current hackathon, as long as none is edited.
THEOREM Refinement ==
  ASSUME Editable = {}
  PROVE  Spec => ImplementsLifecycle
<1>1. Init => Lifecycle!Init
  <2>1. ASSUME Init PROVE {h \in Hackathons : table[h].active} = {FirstHackathon}
    BY <2>1, HackathonsAssumption DEF Init, InitialRow
  <2>2. ASSUME Init PROVE Registered = {}
    BY <2>2 DEF Init, Registered
  <2>3. ASSUME Init PROVE opened = {FirstHackathon}
    BY <2>3 DEF Init
  <2> QED  BY <2>1, <2>2, <2>3 DEF Lifecycle!Init
<1>2. Spec => []OneInv
  BY InitOne, StepOne, PTL DEF Spec
<1>3. Spec => []OpenedInv
  BY InitOpened, StepOpened, PTL DEF Spec
<1> QED  BY <1>1, <1>2, <1>3, LifecycleStep, PTL DEF Spec, ImplementsLifecycle, Lifecycle!Spec

-----------------------------------------------------------------------------
(***************************************************************************)
(* Pins.  A base pin survives in many versions of a row: committed,        *)
(* executed, cached by a process, about to be written back by an edit.     *)
(* Each of them is below every pin of its hackathon, and below the next    *)
(* pin: they were all made before the hackathon was first active, and so   *)
(* before anyone registered for it.                                        *)
(***************************************************************************)
Below(n, h) ==
  /\ n <= lastPin
  /\ \A u \in Users : <<u, h>> \in Registered => n < registration[<<u, h>>].pin

PinsInv ==
  /\ OpenedInv
  /\ \A e \in Users \X Hackathons : registration[e].pin <= lastPin
  /\ \A h \in opened : table[h].stored /\ dirty[h].stored
  /\ \A h \in Hackathons : dirty[h].active => dirty[h].stored
  /\ \A h \in Hackathons : Below(table[h].basePin, h) /\ Below(dirty[h].basePin, h)
  /\ \A i \in Instances, h \in Hackathons : Below(cached[i][h].basePin, h)
  /\ \A r \in Requests : pc[r] = "fetched" =>
        row[r].stored /\ Below(row[r].basePin, target[r])

\* A pin is handed out above all base pins, so what is below stays below.
LEMMA BelowStep ==
  ASSUME TypeOK, [Next]_vars, NEW n \in Nat, NEW h \in Hackathons, Below(n, h)
  PROVE  Below(n, h)'
<1>1. ASSUME NEW r \in Requests, InsertRegistration(r)
      PROVE  Below(n, h)'
  <2>1. lastPin' = lastPin + 1 /\ n < lastPin + 1
    BY <1>1 DEF InsertRegistration, Below, TypeOK
  <2>2. ASSUME NEW u \in Users, <<u, h>> \in Registered'
        PROVE  n < registration'[<<u, h>>].pin
    <3>1. \/ registration'[<<u, h>>] = registration[<<u, h>>]
          \/ registration'[<<u, h>>] = [pin |-> lastPin + 1, submitted |-> FALSE]
      BY <1>1 DEF InsertRegistration, TypeOK
    <3> QED  BY <2>1, <2>2, <3>1 DEF Below, Registered
  <2> QED  BY <2>1, <2>2 DEF Below, TypeOK
<1>2. CASE /\ lastPin' = lastPin
           /\ \A e \in Users \X Hackathons : registration'[e].pin = registration[e].pin
  BY <1>2 DEF Below, Registered
<1> QED  BY <1>1, <1>2, RegistrationStep

\* A cached row is dropped, kept, or the committed one.
LEMMA CacheStep ==
  ASSUME TypeOK, [Next]_vars, NEW i \in Instances, NEW h \in Hackathons
  PROVE  cached'[i][h] \in {cached[i][h], AbsentRow, table[h]}
<1> DEFINE Goal == cached'[i][h] \in {cached[i][h], AbsentRow, table[h]}
<1> USE HackathonsAssumption
<1>1. ASSUME NEW r \in Requests, NEW k \in Editable, NEW ends \in BOOLEAN,
             NEW given \in GivenPins \cup {NotGiven},
             FetchRow(r, k, given, ends)
      PROVE  Goal
  <2> DEFINE old == IF cached[at[r]][k].stored THEN cached[at[r]][k] ELSE table[k]
  <2>1. cached' = [cached EXCEPT ![at[r]] = [cached[at[r]] EXCEPT ![k] = old]]
    BY <1>1 DEF FetchRow
  <2>2. cached'[i][h] \in {cached[i][h], old} /\ (h # k => cached'[i][h] = cached[i][h])
    BY <2>1 DEF TypeOK
  <2>3. i # at[r] => cached'[i][h] = cached[i][h]
    BY <2>1 DEF TypeOK
  <2> QED  BY <2>2, <2>3
<1>2. ASSUME NEW j \in Instances, NEW k \in Hackathons, Evict(j, k) PROVE Goal
  BY <1>2 DEF Evict, TypeOK
<1>3. ASSUME NEW j \in Instances, Restart(j) PROVE Goal
  BY <1>3 DEF Restart, TypeOK
<1>4. CASE UNCHANGED cached
  BY <1>4
<1>5. ASSUME NEW r \in Requests, Serve(r) PROVE Goal
  BY <1>1, <1>4, <1>5 DEF Serve, MakeActive, InsertHackathon, StartRegister, StartLookup
<1>6. ASSUME NEW r \in Requests, Proceed(r) PROVE UNCHANGED cached
  BY <1>6 DEF Proceed, RefreshObservable, ReplyActivated, WriteRow, InsertRegistration,
              StartSubmit, Submit, SendRegistrationEmail, GetByPin, RequestFails,
              LoadActive, LoadFails
<1> QED
  BY <1>2, <1>3, <1>4, <1>5, <1>6 DEF Next, EndTransaction, Commit, CommitLost, vars

\* A row about to be written was about to be before, or has been merged from the
\* cached or the committed one.
LEMMA FetchStep ==
  ASSUME TypeOK, GivenPins = {}, [Next]_vars, NEW r \in Requests, pc'[r] = "fetched"
  PROVE  \/ pc[r] = "fetched" /\ row'[r] = row[r] /\ target'[r] = target[r]
         \/ /\ row'[r].stored
            /\ row'[r].basePin \in {cached[at[r]][target'[r]].basePin,
                                    table[target'[r]].basePin}
<1> DEFINE Kept == pc[r] = "fetched" /\ row'[r] = row[r] /\ target'[r] = target[r]
           Goal == \/ Kept
                   \/ /\ row'[r].stored
                      /\ row'[r].basePin \in {cached[at[r]][target'[r]].basePin,
                                              table[target'[r]].basePin}
<1> USE HackathonsAssumption
<1>1. CASE UNCHANGED <<pc, row, target>>
  BY <1>1
<1>2. ASSUME NEW q \in Requests, NEW s \in Stages, s # "fetched",
             pc' = [pc EXCEPT ![q] = s], UNCHANGED row,
             \A p \in Requests \ {q} : target'[p] = target[p]
      PROVE  Goal
  BY <1>2 DEF TypeOK
<1>3. ASSUME NEW q \in Requests, NEW h \in Editable, NEW ends \in BOOLEAN,
             FetchRow(q, h, NotGiven, ends)
      PROVE  Goal
  <2> DEFINE old == IF cached[at[q]][h].stored THEN cached[at[q]][h] ELSE table[h]
  <2>1. /\ target' = [target EXCEPT ![q] = h]
        /\ \/ /\ Mergeable(old, ends) /\ pc' = [pc EXCEPT ![q] = "fetched"]
              /\ row' = [row EXCEPT ![q] = Merged(old, NotGiven, ends)]
           \/ pc' = [pc EXCEPT ![q] = "failed"] /\ row' = row
    BY <1>3 DEF FetchRow, Goto
  <2>2. CASE q = r
    <3>1. target'[r] = h /\ row'[r] = Merged(old, NotGiven, ends) /\ old.stored
      BY <2>1, <2>2 DEF TypeOK, Mergeable
    <3>2. row'[r].stored /\ row'[r].basePin = old.basePin
      BY <3>1 DEF Merged, NotGiven
    <3> QED  BY <2>2, <3>1, <3>2
  <2>3. CASE q # r
    BY <2>1, <2>3 DEF TypeOK
  <2> QED  BY <2>2, <2>3
<1>4. ASSUME NEW q \in Requests, Serve(q) PROVE Goal
  <2>1. ASSUME \/ \E h \in Targets : MakeActive(q, h)
               \/ \E h \in Creatable, given \in GivenPins \cup {NotGiven}, ends \in BOOLEAN :
                     InsertHackathon(q, h, given, ends)
               \/ \E u \in Users : StartRegister(q, u)
               \/ \E p \in LookupPins : StartLookup(q, p)
        PROVE  Goal
    <3>1. /\ UNCHANGED row
          /\ target' = target \/ \E h \in Hackathons : target' = [target EXCEPT ![q] = h]
      BY <2>1 DEF MakeActive, InsertHackathon, StartRegister, StartLookup
    <3>2. \E s \in Stages : s # "fetched" /\ pc' = [pc EXCEPT ![q] = s]
      BY <2>1 DEF MakeActive, InsertHackathon, StartRegister, StartLookup, Goto, Stages, Settled
    <3>3. \A p \in Requests \ {q} : target'[p] = target[p]
      BY <3>1 DEF TypeOK
    <3> QED  BY <1>2, <3>1, <3>2, <3>3
  <2> QED  BY <1>3, <1>4, <2>1 DEF Serve
<1>5. ASSUME NEW q \in Requests, Proceed(q) PROVE Goal
  <2>1. CASE LoadActive(q) \/ LoadFails(q)
    BY <1>1, <2>1 DEF LoadActive, LoadFails, argVars
  <2>2. CASE ~(LoadActive(q) \/ LoadFails(q))
    <3>1. /\ UNCHANGED row
          /\ target' = target \/ target' = [target EXCEPT ![q] = Given(q).uid]
      BY <1>5, <2>2 DEF Proceed, RefreshObservable, ReplyActivated, WriteRow,
              InsertRegistration, StartSubmit, Submit, SendRegistrationEmail, GetByPin,
              RequestFails, argVars
    <3>2. \E s \in Stages : s # "fetched" /\ pc' = [pc EXCEPT ![q] = s]
      BY <1>5, <2>2 DEF Proceed, RefreshObservable, ReplyActivated, WriteRow,
              InsertRegistration, StartSubmit, Submit, SendRegistrationEmail, GetByPin,
              RequestFails, Goto, Stages, Settled
    <3>3. \A p \in Requests \ {q} : target'[p] = target[p]
      BY <3>1 DEF TypeOK
    <3> QED  BY <1>2, <3>1, <3>2, <3>3
  <2> QED  BY <2>1, <2>2
<1>6. ASSUME NEW i \in Instances, Restart(i) PROVE Goal
  BY <1>6 DEF Restart, TypeOK, argVars
<1> QED
  BY <1>1, <1>4, <1>5, <1>6
  DEF Next, EndTransaction, Commit, CommitLost, Evict, vars, argVars

\* Every version of a base pin stays below the pins of its hackathon.
LEMMA StepPins ==
  ASSUME Reactivate = FALSE, GivenPins = {}
  PROVE  PinsInv /\ [Next]_vars => PinsInv'
<1> SUFFICES ASSUME PinsInv, [Next]_vars PROVE PinsInv'
  OBVIOUS
<1> USE HackathonsAssumption
<1>1. OpenedInv /\ TypeOK /\ OpenedInv' /\ TypeOK'
  BY StepOpened DEF PinsInv, OpenedInv
<1>2. \A e \in Users \X Hackathons : registration'[e].pin <= lastPin'
  <2> TAKE e \in Users \X Hackathons
  <2>1. ASSUME NEW r \in Requests, InsertRegistration(r)
        PROVE  registration'[e].pin <= lastPin'
    <3>1. lastPin' = lastPin + 1 /\ registration[e].pin <= lastPin /\ lastPin \in Nat
      BY <1>1, <2>1 DEF InsertRegistration, PinsInv, TypeOK
    <3>2. \/ registration'[e] = registration[e]
          \/ registration'[e] = [pin |-> lastPin + 1, submitted |-> FALSE]
      BY <1>1, <2>1 DEF InsertRegistration, TypeOK
    <3>3. registration[e].pin \in Nat
      BY <1>1 DEF TypeOK, Entry
    <3> QED  BY <3>1, <3>2, <3>3
  <2> QED  BY <1>1, <2>1, RegistrationStep DEF PinsInv
<1>3. ASSUME NEW n \in Nat, NEW h \in Hackathons, Below(n, h) PROVE Below(n, h)'
  BY <1>1, <1>3, BelowStep
<1>4. \A m \in Pins \cup {0}, h \in Hackathons : h \notin opened => Below(m, h)
  BY <1>1 DEF PinsInv, OpenedInv, OnlyOpenedHackathons, Below, Pins, Registered, TypeOK
<1>5. /\ \A h \in opened' : table'[h].stored /\ dirty'[h].stored
      /\ \A h \in Hackathons : dirty'[h].active => dirty'[h].stored
      /\ \A h \in Hackathons : Below(table'[h].basePin, h) /\ Below(dirty'[h].basePin, h)
  <2>1. \A h \in Hackathons : Below(table[h].basePin, h) /\ Below(dirty[h].basePin, h)
    BY DEF PinsInv
  <2>2. ASSUME NEW r \in Requests, NEW h \in Hackathons, NEW m \in Nat, Activates(r, h, m)
        PROVE  <1>5!:
    <3>1. UNCHANGED <<table, opened>> /\ dirty' = Activated(h, m)
      BY <2>2 DEF Activates, ExecuteWrite
    <3>2. Below(m, h)
      BY <1>4, <2>2 DEF Activates
    <3>3. \A k \in Hackathons : /\ dirty'[k].stored = table[k].stored
                                /\ dirty'[k].active => table[k].stored
                                /\ dirty'[k].basePin = table[k].basePin \/ (k = h /\ dirty'[k].basePin = m)
      BY <1>1, <3>1 DEF Activated, Deactivated, TypeOK, Row
    <3> QED  BY <1>1, <2>1, <3>1, <3>2, <3>3 DEF PinsInv, TypeOK
  <2>3. ASSUME NEW r \in Requests, NEW h \in Hackathons, NEW m \in Nat,
               NEW ends \in BOOLEAN, Inserts(r, h, m, ends)
        PROVE  <1>5!:
    <3>1. UNCHANGED <<table, opened>> /\ dirty' = [table EXCEPT ![h] = NewRow(m, ends)]
      BY <2>3 DEF Inserts, ExecuteWrite
    <3>2. Below(m, h)
      BY <1>4, <2>3 DEF Inserts, PinsInv
    <3>3. \A k \in Hackathons : k # h => dirty'[k] = table[k]
      BY <1>1, <3>1 DEF TypeOK
    <3>4. dirty'[h].stored /\ ~dirty'[h].active /\ dirty'[h].basePin = m
      BY <1>1, <3>1 DEF TypeOK, NewRow
    <3> QED  BY <1>1, <2>1, <3>1, <3>2, <3>3, <3>4 DEF PinsInv, OpenedInv, TypeOK
  <2>4. ASSUME NEW r \in Requests, WriteRow(r)
        PROVE  <1>5!:
    <3>1. /\ UNCHANGED <<table, opened>> /\ dirty' = [table EXCEPT ![target[r]] = row[r]]
          /\ pc[r] = "fetched"
      BY <2>4 DEF WriteRow, ExecuteWrite
    <3>2. \A k \in Hackathons : dirty'[k] = table[k] \/ (k = target[r] /\ dirty'[k] = row[r])
      BY <1>1, <3>1 DEF TypeOK
    <3> QED  BY <1>1, <2>1, <3>1, <3>2 DEF PinsInv, OpenedInv, TypeOK
  <2>5. CASE Commit \/ CommitLost \/ UNCHANGED dbVars
    BY <1>1, <2>1, <2>5 DEF PinsInv, OpenedInv, TypeOK, Commit, CommitLost, dbVars
  <2> QED  BY <1>1, <2>2, <2>3, <2>4, <2>5, TableStep
<1>6. \A h \in Hackathons : Below(table[h].basePin, h)' /\ Below(dirty[h].basePin, h)'
  <2> TAKE h \in Hackathons
  <2>1. PICK n \in Nat : n = table'[h].basePin
    BY <1>1 DEF TypeOK, Row
  <2>2. PICK m \in Nat : m = dirty'[h].basePin
    BY <1>1 DEF TypeOK, Row
  <2>3. Below(n, h) /\ Below(m, h)
    BY <1>5, <2>1, <2>2
  <2>4. Below(n, h)' /\ Below(m, h)'
    BY <1>3, <2>3
  <2> QED  BY <2>1, <2>2, <2>4 DEF Below
<1>7. \A i \in Instances, h \in Hackathons : Below(cached[i][h].basePin, h)'
  <2> TAKE i \in Instances, h \in Hackathons
  <2>1. PICK n \in Nat : n = cached'[i][h].basePin
    BY <1>1 DEF TypeOK, Row
  <2>2. Below(0, h)
    BY <1>1 DEF Below, Registered, TypeOK, Entry
  <2>3. Below(n, h)
    BY <1>1, <2>1, <2>2, CacheStep DEF PinsInv, AbsentRow
  <2>4. Below(n, h)'
    BY <1>3, <2>3
  <2> QED  BY <2>1, <2>4 DEF Below
<1>8. \A r \in Requests : pc'[r] = "fetched" =>
         row'[r].stored /\ Below(row[r].basePin, target[r])'
  <2> TAKE r \in Requests
  <2> HAVE pc'[r] = "fetched"
  <2>1. PICK n \in Nat : n = row'[r].basePin
    BY <1>1 DEF TypeOK, Row
  <2>2. PICK h \in Hackathons : h = target'[r]
    BY <1>1 DEF TypeOK
  <2>3. row'[r].stored /\ Below(n, h)
    BY <1>1, <2>1, <2>2, FetchStep DEF PinsInv, TypeOK
  <2>4. Below(n, h)'
    BY <1>3, <2>3
  <2> QED  BY <2>1, <2>2, <2>3, <2>4 DEF Below
<1> QED  BY <1>1, <1>2, <1>5, <1>6, <1>7, <1>8 DEF PinsInv

\* Pins relative to the base pin are positive for ever, for any number of
\* processes with caches of any age, if nothing is activated twice and no base
\* pin is typed in.
THEOREM PinsPositive ==
  ASSUME Reactivate = FALSE, GivenPins = {}
  PROVE  Spec => []PinsAboveBase
<1>1. Init => PinsInv
  <2>1. ASSUME Init PROVE PinsInv
    <3>1. OpenedInv
      BY <2>1, InitOpened
    <3>2. lastPin = 0 /\ \A e \in Users \X Hackathons : registration[e].pin = 0
      BY <2>1 DEF Init
    <3>3. \A h \in Hackathons : Below(0, h)
      BY <3>2 DEF Below, Registered
    <3>4. \A h \in Hackathons : table[h].basePin = 0 /\ dirty[h].basePin = 0
      BY <2>1 DEF Init, InitialRow
    <3>5. \A i \in Instances, h \in Hackathons : cached[i][h].basePin = 0
      BY <2>1 DEF Init, AbsentRow
    <3>6. /\ \A h \in opened : table[h].stored /\ dirty[h].stored
          /\ \A h \in Hackathons : dirty[h].active => dirty[h].stored
      BY <2>1, HackathonsAssumption DEF Init, InitialRow
    <3>7. \A r \in Requests : pc[r] # "fetched"
      BY <2>1 DEF Init
    <3> QED
      BY <3>1, <3>2, <3>3, <3>4, <3>5, <3>6, <3>7 DEF PinsInv
  <2> QED  BY <2>1
<1>2. PinsInv => PinsAboveBase
  BY DEF PinsInv, Below, PinsAboveBase, Registered
<1> QED  BY <1>1, <1>2, StepPins, PTL DEF Spec

-----------------------------------------------------------------------------
(***************************************************************************)
(* The end of a hackathon.  A row that is written back has an end time, or *)
(* it would not have been merged; the other writes end what they replace.  *)
(***************************************************************************)
EndedInv ==
  /\ TypeOK
  /\ \A h \in Hackathons :
       /\ table[h].active => table[h].stored
       /\ dirty[h].active => dirty[h].stored
       /\ table[h].active /\ ~dirty[h].active => dirty[h].ended
  /\ \A r \in Requests : pc[r] = "fetched" => row[r].stored /\ row[r].ended

\* A request that is to write a row back has just merged it, or had done so.
LEMMA FetchedStep ==
  ASSUME TypeOK, [Next]_vars, NEW r \in Requests, pc'[r] = "fetched"
  PROVE  \/ pc[r] = "fetched" /\ row'[r] = row[r]
         \/ row'[r].stored /\ row'[r].ended
<1> DEFINE Goal == \/ pc[r] = "fetched" /\ row'[r] = row[r]
                   \/ row'[r].stored /\ row'[r].ended
<1> USE DEF Goto
<1>1. ASSUME NEW q \in Requests, NEW h \in Editable, NEW ends \in BOOLEAN,
             NEW given \in GivenPins \cup {NotGiven}, FetchRow(q, h, given, ends)
      PROVE  Goal
  <2> DEFINE old == IF cached[at[q]][h].stored THEN cached[at[q]][h] ELSE table[h]
  <2>1. CASE q = r
    <3>1. Mergeable(old, ends) /\ row' = [row EXCEPT ![r] = Merged(old, given, ends)]
      <4> HIDE DEF old
      <4>1. \/ Mergeable(old, ends) /\ row' = [row EXCEPT ![r] = Merged(old, given, ends)]
            \/ pc' = [pc EXCEPT ![r] = "failed"]
        BY <1>1, <2>1 DEF FetchRow, old
      <4> QED  BY <4>1 DEF TypeOK
    <3>2. Merged(old, given, ends).stored /\ Merged(old, given, ends).ended
      BY <3>1 DEF Mergeable, Merged
    <3> QED  BY <3>1, <3>2 DEF TypeOK
  <2>2. CASE q # r
    <3> HIDE DEF old
    <3>1. \E s : pc' = [pc EXCEPT ![q] = s]
      BY <1>1 DEF FetchRow
    <3>2. row' = [row EXCEPT ![q] = Merged(old, given, ends)] \/ row' = row
      BY <1>1 DEF FetchRow, old
    <3> QED  BY <2>2, <3>1, <3>2 DEF TypeOK
  <2> QED  BY <2>1, <2>2
<1>2. ASSUME NEW q \in Requests,
             \/ \E h \in Targets : MakeActive(q, h)
             \/ \E h \in Creatable, given \in GivenPins \cup {NotGiven}, ends \in BOOLEAN :
                   InsertHackathon(q, h, given, ends)
             \/ \E u \in Users : StartRegister(q, u)
             \/ \E p \in LookupPins : StartLookup(q, p)
      PROVE  Goal
  <2>1. UNCHANGED row /\ \E s \in Stages : s # "fetched" /\ pc' = [pc EXCEPT ![q] = s]
    BY <1>2 DEF MakeActive, InsertHackathon, StartRegister, StartLookup, Stages, Settled
  <2> QED  BY <2>1 DEF TypeOK
<1>3. ASSUME NEW q \in Requests, Proceed(q) PROVE Goal
  <2>1. /\ UNCHANGED row
        /\ \/ UNCHANGED pc
           \/ \E s \in Stages : s # "fetched" /\ pc' = [pc EXCEPT ![q] = s]
    BY <1>3 DEF Proceed, RefreshObservable, ReplyActivated, WriteRow, InsertRegistration,
                StartSubmit, Submit, SendRegistrationEmail, GetByPin, RequestFails,
                LoadActive, LoadFails, Stages, Settled, argVars
  <2> QED  BY <2>1 DEF TypeOK
<1>4. ASSUME NEW i \in Instances, Restart(i) PROVE Goal
  BY <1>4 DEF Restart, argVars
<1>5. CASE UNCHANGED <<pc, row>>
  BY <1>5
<1>6. ASSUME NEW q \in Requests, Serve(q) PROVE Goal
  BY <1>1, <1>2, <1>6 DEF Serve
<1> QED
  BY <1>3, <1>4, <1>5, <1>6 DEF Next, EndTransaction, Commit, CommitLost, Evict, vars, argVars

LEMMA InitEnded == Init => EndedInv
<1>1. ASSUME Init PROVE EndedInv
  <2>1. TypeOK
    BY <1>1, InitType
  <2> QED
    BY <1>1, <2>1, HackathonsAssumption DEF EndedInv, Init, InitialRow
<1> QED  BY <1>1

\* Whatever is executed ends what it replaces.
LEMMA StepEnded == EndedInv /\ [Next]_vars => EndedInv'
<1> SUFFICES ASSUME EndedInv, [Next]_vars PROVE EndedInv'
  OBVIOUS
<1>1. TypeOK'
  BY StepType DEF EndedInv
<1>2. \A h \in Hackathons :
        /\ table'[h].active => table'[h].stored
        /\ dirty'[h].active => dirty'[h].stored
        /\ table'[h].active /\ ~dirty'[h].active => dirty'[h].ended
  <2>1. ASSUME NEW r \in Requests, NEW h \in Hackathons, NEW m \in Nat, Activates(r, h, m)
        PROVE  <1>2!:
    BY <2>1 DEF EndedInv, Activates, ExecuteWrite, Activated, Deactivated
  <2>2. ASSUME NEW r \in Requests, NEW h \in Hackathons, NEW m \in Nat,
               NEW ends \in BOOLEAN, Inserts(r, h, m, ends)
        PROVE  <1>2!:
    BY <2>2 DEF EndedInv, TypeOK, Inserts, NewRow, ExecuteWrite
  <2>3. ASSUME NEW r \in Requests, WriteRow(r)
        PROVE  <1>2!:
    <3>1. row[r].stored /\ row[r].ended
      BY <2>3 DEF EndedInv, WriteRow
    <3>2. dirty' = [table EXCEPT ![target[r]] = row[r]] /\ table' = table
      BY <2>3 DEF WriteRow, ExecuteWrite
    <3> QED  BY <3>1, <3>2 DEF EndedInv, TypeOK
  <2>4. CASE Commit \/ CommitLost \/ UNCHANGED dbVars
    BY <2>4 DEF EndedInv, Commit, CommitLost, dbVars
  <2> QED  BY <2>1, <2>2, <2>3, <2>4, TableStep DEF EndedInv
<1>3. \A r \in Requests : pc'[r] = "fetched" => row'[r].stored /\ row'[r].ended
  BY FetchedStep DEF EndedInv
<1> QED  BY <1>1, <1>2, <1>3 DEF EndedInv

\* A hackathon that stops being active has an end time from then on, whether an
\* activation ended it or an edit wrote a stale row over it.
\* (makeActive, HackathonDataMapperImpl.update)
THEOREM EndsWhenReplaced == Spec => EndedWhenReplaced
<1>1. ASSUME EndedInv, [Next]_vars
      PROVE  \A h \in Hackathons : table[h].active /\ ~table'[h].active => table'[h].ended
  <2>1. CASE UNCHANGED table
    BY <2>1
  <2>2. CASE Commit
    BY <1>1, <2>2 DEF Commit, EndedInv
  <2> QED
    BY <1>1, <2>1, <2>2, TableStep
    DEF EndedInv, Activates, Inserts, WriteRow, ExecuteWrite, CommitLost, dbVars
<1>2. EndedInv /\ [Next]_vars =>
        [\A h \in Hackathons : table[h].active /\ ~table'[h].active => table'[h].ended]_vars
  BY <1>1
<1> QED  BY <1>2, InitEnded, StepEnded, PTL DEF Spec, EndedWhenReplaced

-----------------------------------------------------------------------------
(***************************************************************************)
(* Submission.  What a request was given stays as it was while the request *)
(* lives: an observable settles once, belongs to its process, and is gone  *)
(* only together with the requests of that process.                        *)
(***************************************************************************)
Subscribers == {"refreshed", "subscribed", "inserted", "submitting", "submitted", "looking"}

MemoInv ==
  /\ \A r \in Requests : pc[r] \in {"idle", "executed"} => outcome[r].state = "none"
  /\ \A i \in Instances : hackathonObservable[i] # Nobody => at[hackathonObservable[i]] = i
  /\ \A r \in Requests : at[source[r]] = at[r]
  /\ \A r \in Requests : pc[r] \in Subscribers => hackathonObservable[at[r]] # Nobody

\* A request that subscribes in the process that serves it.
Subscribes(r) ==
  /\ pc[r] \in {"idle", "inserted"}
  /\ Subscribe(r, at[r])
  /\ \E s \in Subscribers : pc' = [pc EXCEPT ![r] = s]
  /\ UNCHANGED at

\* Every step is one of these for the observables.
LEMMA MemoStep ==
  ASSUME TypeOK, [Next]_vars
  PROVE  \/ \E r \in Requests : Subscribes(r)
         \/ \E r \in Requests : RefreshObservable(r)
         \/ \E r \in Requests : LoadActive(r) \/ LoadFails(r)
         \/ \E i \in Instances : Restart(i)
         \/ /\ UNCHANGED <<memoVars, at, source>>
            /\ \/ UNCHANGED pc
               \/ \E r \in Requests, s \in Stages :
                    /\ pc' = [pc EXCEPT ![r] = s]
                    /\ s \in {"idle", "executed"} => pc[r] = "idle"
                    /\ s \in Subscribers => pc[r] \in Subscribers
<1> DEFINE Alone(r) == /\ UNCHANGED <<memoVars, at, source>>
                       /\ \E s \in Stages :
                            /\ pc' = [pc EXCEPT ![r] = s]
                            /\ s \in {"idle", "executed"} => pc[r] = "idle"
                            /\ s \in Subscribers => pc[r] \in Subscribers
<1> USE DEF Goto, Stages, Settled, Subscribers, argVars
<1>1. ASSUME NEW r \in Requests,
             \/ \E h \in Targets : MakeActive(r, h)
             \/ \E h \in Creatable, given \in GivenPins \cup {NotGiven}, ends \in BOOLEAN :
                   InsertHackathon(r, h, given, ends)
             \/ \E h \in Editable, given \in GivenPins \cup {NotGiven}, ends \in BOOLEAN :
                   FetchRow(r, h, given, ends)
      PROVE  Alone(r)
  <2>1. UNCHANGED <<memoVars, at, source>> /\ pc[r] = "idle"
    BY <1>1 DEF MakeActive, InsertHackathon, FetchRow
  <2>2. \E s \in {"executed", "failed", "done", "fetched"} : pc' = [pc EXCEPT ![r] = s]
    BY <1>1 DEF MakeActive, InsertHackathon, FetchRow
  <2> QED  BY <2>1, <2>2
<1>2. ASSUME NEW r \in Requests,
             \/ \E u \in Users : StartRegister(r, u)
             \/ \E p \in LookupPins : StartLookup(r, p)
             \/ StartSubmit(r)
      PROVE  Subscribes(r)
  BY <1>2 DEF StartRegister, StartLookup, StartSubmit, Subscribes
<1>3. ASSUME NEW r \in Requests,
             \/ ReplyActivated(r) \/ WriteRow(r) \/ InsertRegistration(r)
             \/ Submit(r) \/ SendRegistrationEmail(r) \/ GetByPin(r) \/ RequestFails(r)
      PROVE  Alone(r)
  <2>1. UNCHANGED <<memoVars, at, source>>
    BY <1>3 DEF ReplyActivated, WriteRow, InsertRegistration, Submit, SendRegistrationEmail,
                GetByPin, RequestFails
  <2>2. \/ \E s \in Settled : pc' = [pc EXCEPT ![r] = s]
        \/ pc[r] = "subscribed" /\ pc' = [pc EXCEPT ![r] = "inserted"]
        \/ pc[r] = "submitting" /\ pc' = [pc EXCEPT ![r] = "submitted"]
    BY <1>3 DEF ReplyActivated, WriteRow, InsertRegistration, Submit, SendRegistrationEmail,
                GetByPin, RequestFails
  <2> QED  BY <2>1, <2>2
<1>4. EndTransaction \/ (\E i \in Instances, h \in Hackathons : Evict(i, h)) \/ UNCHANGED vars
        => UNCHANGED <<memoVars, at, source, pc>>
  BY DEF EndTransaction, Commit, CommitLost, Evict, vars
<1>5. ASSUME NEW r \in Requests, Serve(r) \/ Proceed(r)
      PROVE  \/ Alone(r) \/ Subscribes(r) \/ RefreshObservable(r)
             \/ LoadActive(r) \/ LoadFails(r)
  <2> HIDE DEF Alone
  <2> QED  BY <1>1, <1>2, <1>3, <1>5 DEF Serve, Proceed
<1> QED
  <2>1. ASSUME NEW r \in Requests, Serve(r) \/ Proceed(r)
        PROVE  \/ Subscribes(r) \/ RefreshObservable(r) \/ LoadActive(r) \/ LoadFails(r)
               \/ Alone(r)
    BY <1>5, <2>1
  <2> QED  BY <1>4, <2>1 DEF Next

\* An observable is made by a request that has none, in its own process.
LEMMA StepMemo == TypeOK /\ MemoInv /\ [Next]_vars => MemoInv'
<1> SUFFICES ASSUME TypeOK, MemoInv, [Next]_vars PROVE MemoInv'
  OBVIOUS
<1> USE InputsAssumption
<1>1. ASSUME NEW r \in Requests, Subscribes(r) PROVE MemoInv'
  <2>1. PICK s \in Subscribers : pc' = [pc EXCEPT ![r] = s]
    BY <1>1 DEF Subscribes
  <2>2. at' = at
    BY <1>1 DEF Subscribes
  <2>3. CASE hackathonObservable[at[r]] = Nobody
    <3>1. /\ hackathonObservable' = [hackathonObservable EXCEPT ![at[r]] = r]
          /\ outcome' = [outcome EXCEPT ![r] = Without("running")]
          /\ source' = [source EXCEPT ![r] = r]
      BY <1>1, <2>3 DEF Subscribes, Subscribe
    <3> QED  BY <2>1, <2>2, <3>1 DEF MemoInv, TypeOK, Subscribers
  <2>4. CASE hackathonObservable[at[r]] # Nobody
    <3>1. /\ source' = [source EXCEPT ![r] = hackathonObservable[at[r]]]
          /\ hackathonObservable' = hackathonObservable /\ outcome' = outcome
      BY <1>1, <2>4 DEF Subscribes, Subscribe, memoVars
    <3> QED  BY <2>1, <2>2, <2>4, <3>1 DEF MemoInv, TypeOK, Subscribers
  <2> QED  BY <2>3, <2>4
<1>2. ASSUME NEW r \in Requests, RefreshObservable(r) PROVE MemoInv'
  <2>1. /\ hackathonObservable' = [hackathonObservable EXCEPT ![at[r]] = r]
        /\ outcome' = [outcome EXCEPT ![r] = Without("running")]
        /\ source' = [source EXCEPT ![r] = r]
        /\ pc' = [pc EXCEPT ![r] = "refreshed"]
        /\ at' = at
    BY <1>2 DEF RefreshObservable, Goto
  <2> QED  BY <2>1 DEF MemoInv, TypeOK, Subscribers
<1>3. ASSUME NEW r \in Requests, LoadActive(r) \/ LoadFails(r) PROVE MemoInv'
  <2>1. /\ outcome[r].state = "running"
        /\ \A q \in Requests \ {r} : outcome'[q] = outcome[q]
        /\ UNCHANGED <<hackathonObservable, pc, at, source>>
    BY <1>3 DEF LoadActive, LoadFails, argVars, TypeOK
  <2>2. pc[r] \notin {"idle", "executed"}
    BY <2>1 DEF MemoInv
  <2> QED  BY <2>1, <2>2 DEF MemoInv
<1>4. ASSUME NEW i \in Instances, Restart(i) PROVE MemoInv'
  <2>1. /\ hackathonObservable' = [hackathonObservable EXCEPT ![i] = Nobody]
        /\ outcome' = [r \in Requests |-> IF at[r] = i THEN NoOutcome ELSE outcome[r]]
        /\ \A r \in Requests : pc'[r] = pc[r] \/ pc'[r] = "dead"
        /\ \A r \in Requests : at[r] = i => pc'[r] \in Settled \cup {"idle"}
        /\ UNCHANGED <<at, source>>
    BY <1>4 DEF Restart, argVars, Settled
  <2>2. NoOutcome.state = "none"
    BY DEF NoOutcome, Without
  <2> QED  BY <2>1, <2>2 DEF MemoInv, TypeOK, Subscribers, Settled
<1>5. ASSUME UNCHANGED <<memoVars, at, source>>,
             \/ UNCHANGED pc
             \/ \E r \in Requests, s \in Stages :
                  /\ pc' = [pc EXCEPT ![r] = s]
                  /\ s \in {"idle", "executed"} => pc[r] = "idle"
                  /\ s \in Subscribers => pc[r] \in Subscribers
      PROVE  MemoInv'
  BY <1>5 DEF MemoInv, TypeOK, memoVars
<1> QED  BY <1>1, <1>2, <1>3, <1>4, <1>5, MemoStep

\* What an observable replays is replayed until its process is restarted.
LEMMA OutcomeKept ==
  ASSUME TypeOK, MemoInv, [Next]_vars, NEW q \in Requests, outcome[q].state = "ready"
  PROVE  outcome'[q] = outcome[q] \/ Restart(at[q])
<1>1. ASSUME NEW r \in Requests, Subscribes(r) PROVE outcome'[q] = outcome[q]
  <2>1. \/ outcome' = outcome
        \/ /\ hackathonObservable[at[r]] = Nobody
           /\ outcome' = [outcome EXCEPT ![r] = Without("running")]
    BY <1>1 DEF Subscribes, Subscribe, memoVars
  <2>2. hackathonObservable[at[r]] = Nobody => pc[r] = "idle" /\ r # q
    BY <1>1 DEF Subscribes, MemoInv, Subscribers
  <2> QED  BY <2>1, <2>2 DEF TypeOK
<1>2. ASSUME NEW r \in Requests, RefreshObservable(r) PROVE outcome'[q] = outcome[q]
  BY <1>2 DEF RefreshObservable, MemoInv, TypeOK
<1>3. ASSUME NEW r \in Requests, LoadActive(r) \/ LoadFails(r) PROVE outcome'[q] = outcome[q]
  BY <1>3 DEF LoadActive, LoadFails, TypeOK
<1>4. ASSUME NEW i \in Instances, Restart(i) PROVE outcome'[q] = outcome[q] \/ Restart(at[q])
  BY <1>4 DEF Restart
<1> QED  BY <1>1, <1>2, <1>3, <1>4, MemoStep DEF memoVars

\* Rows of REGISTRATION stay, and stay submitted.
LEMMA RegistrationGrows ==
  ASSUME TypeOK, [Next]_vars, NEW e \in Registered
  PROVE  e \in Registered' /\ (registration[e].submitted => registration'[e].submitted)
<1> DEFINE Kept == e \in Registered' /\ (registration[e].submitted => registration'[e].submitted)
<1>1. ASSUME registration'[e] = registration[e] PROVE Kept
  BY <1>1 DEF Registered
<1>2. ASSUME NEW r \in Requests, InsertRegistration(r) PROVE Kept
  <2>1. \/ registration' = registration
        \/ \E d, n : d \notin Registered /\ registration' = [registration EXCEPT ![d] = n]
    BY <1>2 DEF InsertRegistration
  <2> QED  BY <1>1, <2>1 DEF Registered, TypeOK
<1>3. ASSUME NEW r \in Requests, Submit(r) PROVE Kept
  <2>1. \/ registration' = registration
        \/ \E d : registration' = [registration EXCEPT ![d] =
                     [pin |-> registration[d].pin, submitted |-> TRUE]]
    BY <1>3 DEF Submit
  <2> QED  BY <1>1, <2>1 DEF Registered, TypeOK, Entry
<1>4. ASSUME NEW r \in Requests, Serve(r) PROVE registration' = registration
  BY <1>4 DEF Serve, MakeActive, InsertHackathon, FetchRow, StartRegister, StartLookup, regVars
<1>5. ASSUME NEW r \in Requests, Proceed(r), ~InsertRegistration(r), ~Submit(r)
      PROVE  registration' = registration
  BY <1>5 DEF Proceed, RefreshObservable, ReplyActivated, WriteRow, StartSubmit,
              SendRegistrationEmail, GetByPin, RequestFails, LoadActive, LoadFails, regVars
<1>6. ASSUME UNCHANGED regVars PROVE Kept
  BY <1>1, <1>6 DEF regVars
<1>7. CASE \E r \in Requests : Serve(r) \/ Proceed(r)
  <2> HIDE DEF Kept
  <2>1. PICK r \in Requests : Serve(r) \/ Proceed(r)
    BY <1>7
  <2>2. \/ registration' = registration \/ InsertRegistration(r) \/ Submit(r)
    BY <1>4, <1>5, <2>1
  <2>3. Kept
    BY <1>1, <1>2, <1>3, <2>2
  <2> QED  BY <2>3 DEF Kept
<1>8. CASE ~\E r \in Requests : Serve(r) \/ Proceed(r)
  <2>1. UNCHANGED regVars
    BY <1>8 DEF Next, EndTransaction, Commit, CommitLost, Evict, Restart, vars
  <2> QED  BY <1>6, <2>1
<1> QED  BY <1>7, <1>8

Registering == {"inserted", "submitting", "submitted"}

\* How a request gets to where it is registering.
LEMMA RegisteringStep ==
  ASSUME TypeOK, [Next]_vars, NEW r \in Requests, pc'[r] \in Registering
  PROVE  \/ InsertRegistration(r) \/ StartSubmit(r) \/ Submit(r)
         \/ /\ pc'[r] = pc[r] /\ who'[r] = who[r] /\ target'[r] = target[r]
            /\ source'[r] = source[r] /\ ~Restart(at[r])
<1> DEFINE Stays == /\ pc'[r] = pc[r] /\ who'[r] = who[r] /\ target'[r] = target[r]
                    /\ source'[r] = source[r]
<1> USE DEF Goto, argVars, Registering
<1>1. ASSUME NEW q \in Requests, q # r, Serve(q) \/ Proceed(q) PROVE Stays
  <2>1. /\ UNCHANGED pc \/ \E s : pc' = [pc EXCEPT ![q] = s]
        /\ UNCHANGED who \/ \E u : who' = [who EXCEPT ![q] = u]
        /\ UNCHANGED target \/ \E h : target' = [target EXCEPT ![q] = h]
    BY <1>1 DEF Serve, MakeActive, InsertHackathon, FetchRow, StartRegister, StartLookup,
                Proceed, RefreshObservable, ReplyActivated, WriteRow, InsertRegistration,
                StartSubmit, Submit, SendRegistrationEmail, GetByPin, RequestFails,
                LoadActive, LoadFails
  <2>2. UNCHANGED source \/ \E x : source' = [source EXCEPT ![q] = x]
    <3>1. UNCHANGED source \/ Subscribe(q, at[q]) \/ RefreshObservable(q)
      BY <1>1 DEF Serve, MakeActive, InsertHackathon, FetchRow, StartRegister, StartLookup,
                  Proceed, ReplyActivated, WriteRow, InsertRegistration,
                  StartSubmit, Submit, SendRegistrationEmail, GetByPin, RequestFails,
                  LoadActive, LoadFails
    <3> QED  BY <3>1 DEF Subscribe, RefreshObservable
  <2> QED  BY <1>1, <2>1, <2>2 DEF TypeOK
<1>2. ASSUME Serve(r) PROVE FALSE
  <2>1. \E s \in Stages \ Registering : pc' = [pc EXCEPT ![r] = s]
    BY <1>2 DEF Serve, MakeActive, InsertHackathon, FetchRow, StartRegister, StartLookup,
                Stages, Settled
  <2> QED  BY <2>1 DEF TypeOK
<1>3. ASSUME Proceed(r), ~InsertRegistration(r), ~StartSubmit(r), ~Submit(r) PROVE Stays
  <2>1. CASE LoadActive(r) \/ LoadFails(r)
    BY <2>1 DEF LoadActive, LoadFails
  <2>2. CASE ~(LoadActive(r) \/ LoadFails(r))
    <3>1. \E s \in Stages \ Registering : pc' = [pc EXCEPT ![r] = s]
      BY <1>3, <2>2 DEF Proceed, RefreshObservable, ReplyActivated, WriteRow,
                        SendRegistrationEmail, GetByPin, RequestFails, Stages, Settled
    <3> QED  BY <3>1 DEF TypeOK
  <2> QED  BY <2>1, <2>2
<1>4. ASSUME NEW i \in Instances, Restart(i) PROVE Stays
  BY <1>4 DEF Restart
<1>5. ASSUME UNCHANGED <<pc, who, target, source>> PROVE Stays
  BY <1>5
<1>6. ASSUME NEW i \in Instances, Restart(i), at[r] = i PROVE FALSE
  <2>1. pc'[r] \in Settled \cup {"idle"}
    BY <1>6 DEF Restart
  <2> QED  BY <2>1 DEF Settled
<1>7. at[r] \in Instances
  BY DEF TypeOK
<1>8. ~Restart(at[r])
  BY <1>6, <1>7
<1>9. Stays \/ InsertRegistration(r) \/ StartSubmit(r) \/ Submit(r)
  <2>1. CASE \E q \in Requests : Serve(q) \/ Proceed(q)
    <3> HIDE DEF Stays
    <3>1. PICK q \in Requests : Serve(q) \/ Proceed(q)
      BY <2>1
    <3>2. CASE q = r
      BY <1>2, <1>3, <3>1, <3>2
    <3>3. CASE q # r
      BY <1>1, <3>1, <3>3
    <3> QED  BY <3>2, <3>3
  <2>2. CASE \E i \in Instances : Restart(i)
    BY <1>4, <2>2
  <2>3. CASE /\ ~\E q \in Requests : Serve(q) \/ Proceed(q)
             /\ ~\E i \in Instances : Restart(i)
    <3>1. UNCHANGED <<pc, who, target, source>>
      BY <2>3 DEF Next, EndTransaction, Commit, CommitLost, Evict, vars
    <3> QED  BY <1>5, <3>1
  <2> QED  BY <2>1, <2>2, <2>3
<1> QED  BY <1>8, <1>9

\* A request that is registering, or has the COMMITs of its registration behind it:
\* what is stored of it, and what was lost.
SubmitInv ==
  /\ TypeOK /\ MemoInv
  /\ \A r \in Requests :
       /\ pc[r] \in Registering =>
            <<who[r], target[r]>> \in Registered \/ <<r, "insert">> \in lost
       /\ pc[r] = "submitted" =>
            /\ Given(r).state = "ready"
            /\ \/ /\ <<who[r], target[r]>> \in Registered
                  /\ registration[<<who[r], target[r]>>].submitted
               \/ \E s \in {"insert", "submit"} : <<r, s>> \in lost
               \/ Given(r).uid # target[r]

LEMMA InitSubmit == Init => SubmitInv
<1>1. ASSUME Init PROVE SubmitInv
  <2>1. TypeOK
    BY <1>1, InitType
  <2>2. MemoInv
    BY <1>1 DEF Init, MemoInv, NoOutcome, Without, Subscribers
  <2> QED
    BY <1>1, <2>1, <2>2 DEF SubmitInv, Init, Registering
<1> QED  BY <1>1

\* A lost COMMIT is not undone.
LEMMA LostStays == TypeOK /\ [Next]_vars => lost \subseteq lost'
<1> SUFFICES ASSUME TypeOK, [Next]_vars PROVE lost \subseteq lost'
  OBVIOUS
<1>1. ASSUME NEW r \in Requests, InsertRegistration(r) \/ Submit(r) PROVE lost \subseteq lost'
  BY <1>1 DEF InsertRegistration, Submit
<1>2. ASSUME NEW r \in Requests, Serve(r) PROVE lost' = lost
  BY <1>2 DEF Serve, MakeActive, InsertHackathon, FetchRow, StartRegister, StartLookup, regVars
<1>3. ASSUME NEW r \in Requests, Proceed(r), ~InsertRegistration(r), ~Submit(r)
      PROVE  lost' = lost
  BY <1>3 DEF Proceed, RefreshObservable, ReplyActivated, WriteRow, StartSubmit,
              SendRegistrationEmail, GetByPin, RequestFails, LoadActive, LoadFails, regVars
<1>4. CASE ~\E r \in Requests : Serve(r) \/ Proceed(r)
  BY <1>4 DEF Next, EndTransaction, Commit, CommitLost, Evict, Restart, vars, regVars
<1> QED  BY <1>1, <1>2, <1>3, <1>4

LEMMA StepSubmit == SubmitInv /\ [Next]_vars => SubmitInv'
<1> SUFFICES ASSUME SubmitInv, [Next]_vars PROVE SubmitInv'
  OBVIOUS
<1>0. TypeOK /\ MemoInv /\ lost \subseteq lost'
  BY LostStays DEF SubmitInv
<1>1. TypeOK' /\ MemoInv'
  BY <1>0, StepType, StepMemo
<1>2. ASSUME NEW r \in Requests, pc'[r] \in Registering
      PROVE  /\ <<who'[r], target'[r]>> \in Registered' \/ <<r, "insert">> \in lost'
             /\ pc'[r] = "submitted" =>
                  /\ Given(r)'.state = "ready"
                  /\ \/ /\ <<who'[r], target'[r]>> \in Registered'
                        /\ registration'[<<who'[r], target'[r]>>].submitted
                     \/ \E s \in {"insert", "submit"} : <<r, s>> \in lost'
                     \/ Given(r)'.uid # target'[r]
  <2> DEFINE e == <<who[r], target[r]>>
  <2>1. CASE InsertRegistration(r)
    <3>1. /\ pc'[r] = "inserted"
          /\ \/ registration' = [registration EXCEPT ![<<who[r], Given(r).uid>>] =
                                   [pin |-> lastPin + 1, submitted |-> FALSE]]
             \/ <<r, "insert">> \in lost'
      BY <1>0, <1>2, <2>1 DEF InsertRegistration, Goto, TypeOK, Registering
    <3>2. Given(r).uid \in Hackathons /\ who[r] \in Users /\ lastPin + 1 # 0
      BY <1>0 DEF TypeOK, Given, Outcome
    <3>3. target'[r] = Given(r).uid /\ who'[r] = who[r]
      BY <1>0, <2>1 DEF InsertRegistration, TypeOK
    <3> QED  BY <1>0, <3>1, <3>2, <3>3 DEF Registered, TypeOK
  <2>2. CASE StartSubmit(r)
    <3>1. pc[r] = "inserted" /\ pc'[r] = "submitting" /\ UNCHANGED <<who, target, registration, lost>>
      BY <1>0, <2>2 DEF StartSubmit, Goto, TypeOK, regVars
    <3> QED  BY <3>1 DEF SubmitInv, Registering, Registered
  <2>3. CASE Submit(r)
    <3>1. /\ pc[r] = "submitting" /\ Given(r).state = "ready"
          /\ UNCHANGED <<who, target, source, outcome>>
      BY <2>3 DEF Submit, argVars, memoVars
    <3>2. e \in Registered \/ <<r, "insert">> \in lost
      BY <3>1 DEF SubmitInv, Registering
    <3>3. CASE e \in Registered
      <4>1. e \in Registered'
        BY <1>0, <3>3, RegistrationGrows
      <4>2. Given(r).uid = target[r] => registration'[e].submitted \/ <<r, "submit">> \in lost'
        BY <1>0, <2>3, <3>3 DEF Submit, SubmitHits, Registered, TypeOK
      <4> QED  BY <3>1, <4>1, <4>2 DEF Given
    <3>4. CASE <<r, "insert">> \in lost
      BY <1>0, <3>1, <3>4 DEF Given
    <3> QED  BY <3>2, <3>3, <3>4
  <2>4. CASE /\ pc'[r] = pc[r] /\ who'[r] = who[r] /\ target'[r] = target[r]
             /\ source'[r] = source[r] /\ ~Restart(at[r])
    <3>1. e \in Registered \/ <<r, "insert">> \in lost
      BY <1>2, <2>4 DEF SubmitInv
    <3>2. e \in Registered =>
            e \in Registered' /\ (registration[e].submitted => registration'[e].submitted)
      BY <1>0, RegistrationGrows
    <3>3. ASSUME pc[r] = "submitted" PROVE Given(r)' = Given(r)
      <4>1. outcome[source[r]].state = "ready" /\ source[r] \in Requests
        BY <1>0, <3>3 DEF SubmitInv, Given, TypeOK
      <4>2. at[source[r]] = at[r]
        BY <1>0 DEF MemoInv
      <4>3. outcome'[source[r]] = outcome[source[r]]
        BY <1>0, <2>4, <4>1, <4>2, OutcomeKept
      <4> QED  BY <2>4, <4>3 DEF Given
    <3> QED  BY <1>0, <2>4, <3>1, <3>2, <3>3 DEF SubmitInv
  <2> QED  BY <1>0, <1>2, <2>1, <2>2, <2>3, <2>4, RegisteringStep
<1> QED  BY <1>1, <1>2 DEF SubmitInv, Registering

\* When the email is about to be sent the row that the request inserted is stored,
\* unless the COMMIT of its INSERT was lost, and it is submitted unless a COMMIT was
\* lost or the process was given another active hackathon in between.
\* (RegistrationProcessor.processRegistration: insert, then submit)
THEOREM MailFollowsSubmit == Spec => []MailedIsSubmitted
<1>1. SubmitInv => MailedIsSubmitted
  BY DEF SubmitInv, MailedIsSubmitted, Registering
<1> QED  BY <1>1, InitSubmit, StepSubmit, PTL DEF Spec

=============================================================================
