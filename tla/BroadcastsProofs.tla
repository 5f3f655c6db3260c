-------------------------- MODULE BroadcastsProofs --------------------------
(***************************************************************************)
(* What holds of Broadcasts for any requests, processes and recipients.    *)
(*                                                                         *)
(* Mailings: who is named in an answer or a row is decided by what has     *)
(* been sent before, and a request that mails nothing has no recipients.   *)
(* Postings: a key is made by one request and, once it is in the database, *)
(* only leaves it by a request that is over and still names it.            *)
(***************************************************************************)
EXTENDS Broadcasts, TLAPS

Typed ==
  /\ DOMAIN pc = Requests
  /\ DOMAIN reply = Requests
  /\ DOMAIN to = Requests
  /\ DOMAIN left = Requests
  /\ DOMAIN successful = Requests
  /\ DOMAIN push = Requests
  /\ DOMAIN target = Requests
  /\ served \in [Requests -> Instances]
  /\ current \in [Instances -> Hackathons]

\* Only a request that has answered has a status.
Unanswered == \A r \in Requests : pc[r] # "answered" => reply[r] = 0

\* What a request that mails has come to.
MailingOf(r) ==
  /\ left[r] \subseteq GoodEmails(to[r])
  /\ successful[r] \subseteq GoodEmails(to[r])
  /\ \A x \in successful[r] : <<r, x>> \in mailed
  /\ pc[r] = "record" => left[r] = {} /\ successful[r] # {}
  /\ pc[r] \in OfUpdates \cup {"idle"} => to[r] = {} /\ \A x : <<r, x>> \notin mailed
  /\ reply[r] \in {200, 207} /\ to[r] # {} => left[r] = {} /\ successful[r] # {}
  /\ reply[r] = 200 => \A x \in to[r] : <<r, x>> \in mailed

RowsOfRequest(r) == {row \in history : row.request = r}

\* What is recorded of a request.
RecordOf(r) ==
  /\ RowsOfRequest(r) # {} => pc[r] = "answered" /\ reply[r] \in {200, 207}
  /\ \A row \in RowsOfRequest(r) : row.recipient \in to[r]
  /\ RowsOfRequest(r) # {} =>
       \A x \in to[r] : \E row \in RowsOfRequest(r) : row.recipient = x

Mailings == \A r \in Requests : MailingOf(r) /\ RecordOf(r)

MailInv == Typed /\ Unanswered /\ Mailings

\* Where a handler goes: nobody else moves.
LEMMA Moves ==
  ASSUME Typed, Unanswered, NEW r \in Requests, NEW stage, Goto(r, stage)
  PROVE  /\ DOMAIN pc' = Requests
         /\ pc'[r] = stage
         /\ \A q \in Requests \ {r} : pc'[q] = pc[q]
  BY DEF Typed, Goto

LEMMA Ends ==
  ASSUME Typed, Unanswered, NEW r \in Requests, NEW status, Answer(r, status)
  PROVE  /\ DOMAIN pc' = Requests /\ DOMAIN reply' = Requests
         /\ pc'[r] = "answered" /\ reply'[r] = status
         /\ \A q \in Requests \ {r} : pc'[q] = pc[q] /\ reply'[q] = reply[q]
         /\ Unanswered'
  BY Moves DEF Answer, Typed, Unanswered

LEMMA MailInit == Init => MailInv
  BY BroadcastsAssumption
     DEF Init, MailInv, Typed, Unanswered, Mailings, MailingOf, RecordOf, RowsOfRequest

\* A step of one request leaves alone what the others have mailed.
Own(r) ==
  /\ \A q \in Requests \ {r} :
       /\ pc'[q] = pc[q] /\ reply'[q] = reply[q]
       /\ to'[q] = to[q] /\ left'[q] = left[q] /\ successful'[q] = successful[q]
       /\ \A x : <<q, x>> \in mailed' <=> <<q, x>> \in mailed
       /\ RowsOfRequest(q)' = RowsOfRequest(q)

LEMMA OthersKeep ==
  ASSUME Mailings, NEW r \in Requests, Own(r), MailingOf(r)', RecordOf(r)'
  PROVE  Mailings'
  <1> SUFFICES ASSUME NEW q \in Requests \ {r} PROVE MailingOf(q)' /\ RecordOf(q)'
    BY DEF Mailings
  <1>1. MailingOf(q) /\ RecordOf(q)
    BY DEF Mailings
  <1> QED
    BY <1>1 DEF Own, MailingOf, RecordOf, GoodEmails

\* The live updates have nothing to do with it.
LEMMA NoMail ==
  ASSUME MailInv, NEW r \in Requests, pc[r] \in OfUpdates \cup {"idle"},
         UNCHANGED <<mailed, history, to, left, successful>>,
         \/ \E stage \in OfUpdates : Goto(r, stage) /\ UNCHANGED reply
         \/ \E status : Answer(r, status)
  PROVE  Mailings' /\ Unanswered'
  <1> USE DEF MailInv
  <1>1. /\ pc'[r] \in OfUpdates \cup {"answered"}
        /\ \A q \in Requests \ {r} : pc'[q] = pc[q] /\ reply'[q] = reply[q]
        /\ Unanswered'
    <2>1. CASE \E stage \in OfUpdates : Goto(r, stage) /\ UNCHANGED reply
      BY <2>1, Moves DEF Unanswered, OfUpdates
    <2>2. CASE \E status : Answer(r, status)
      BY <2>2, Ends
    <2> QED
      BY <2>1, <2>2
  <1>2. MailingOf(r) /\ RecordOf(r)
    BY DEF Mailings
  <1>3. to[r] = {} /\ (\A x : <<r, x>> \notin mailed) /\ RowsOfRequest(r) = {}
    BY <1>2 DEF MailingOf, RecordOf, OfUpdates
  <1>4. MailingOf(r)'
    BY <1>1, <1>2, <1>3 DEF MailingOf, GoodEmails, OfUpdates
  <1>5. RecordOf(r)'
    BY <1>3 DEF RecordOf, RowsOfRequest
  <1>6. Own(r)
    BY <1>1 DEF Own, RowsOfRequest
  <1> QED
    BY <1>1, <1>4, <1>5, <1>6, OthersKeep

LEMMA StartMailing ==
  ASSUME MailInv, NEW r \in Requests, NEW list, SendEmailHandler(r, list)
  PROVE  Mailings' /\ Unanswered'
  <1> USE DEF MailInv
  <1>1. /\ pc[r] = "idle" /\ reply[r] = 0
        /\ UNCHANGED <<mailed, history, successful>>
        /\ to'[r] = list /\ \A q \in Requests \ {r} : to'[q] = to[q]
    BY DEF SendEmailHandler, Typed, world, Unanswered
  <1>2. MailingOf(r) /\ RecordOf(r)
    BY DEF Mailings
  <1>3. /\ to[r] = {} /\ left[r] = {} /\ successful[r] = {}
        /\ (\A x : <<r, x>> \notin mailed) /\ RowsOfRequest(r) = {}
    BY <1>1, <1>2 DEF MailingOf, RecordOf, GoodEmails
  <1>4. /\ left'[r] \subseteq GoodEmails(list)
        /\ \A q \in Requests \ {r} : left'[q] = left[q]
        /\ pc'[r] \in {"send", "answered"} /\ reply'[r] \in {0, 400}
        /\ \A q \in Requests \ {r} : pc'[q] = pc[q] /\ reply'[q] = reply[q]
        /\ Unanswered'
    <2>1. CASE Answer(r, 400) /\ UNCHANGED left
      BY <1>3, <2>1, Ends
    <2>2. CASE /\ left' = [left EXCEPT ![r] = GoodEmails(list)]
               /\ Goto(r, "send") /\ UNCHANGED reply
      BY <1>1, <2>2, Moves DEF Typed, Unanswered
    <2> QED
      BY <2>1, <2>2 DEF SendEmailHandler
  <1>5. MailingOf(r)'
    BY <1>1, <1>3, <1>4 DEF MailingOf, OfUpdates, GoodEmails
  <1>6. RecordOf(r)'
    BY <1>1, <1>3 DEF RecordOf, RowsOfRequest
  <1>7. Own(r)
    BY <1>1, <1>4 DEF Own, RowsOfRequest
  <1> QED
    BY <1>4, <1>5, <1>6, <1>7, OthersKeep

\* An email is counted as successful only when it is on its way.
LEMMA SendKept ==
  ASSUME MailInv, NEW r \in Requests, NEW x, SendEmail(r, x)
  PROVE  Mailings' /\ Unanswered'
  <1> USE DEF MailInv
  <1>1. /\ pc[r] = "send" /\ reply[r] = 0 /\ x \in left[r]
        /\ UNCHANGED <<pc, reply, to, history>>
        /\ left'[r] = left[r] \ {x} /\ \A q \in Requests \ {r} : left'[q] = left[q]
    BY DEF SendEmail, Typed, Unanswered
  <1>2. MailingOf(r) /\ RecordOf(r)
    BY DEF Mailings
  <1>3. /\ mailed \subseteq mailed' /\ mailed' \subseteq mailed \cup {<<r, x>>}
        /\ \A y \in successful'[r] : y \in successful[r] \/ (y = x /\ <<r, x>> \in mailed')
        /\ \A q \in Requests \ {r} : successful'[q] = successful[q]
    <2>1. CASE mailed' = mailed \cup {<<r, x>>} /\ successful' = [successful EXCEPT ![r] = @ \cup {x}]
      BY <2>1 DEF Typed
    <2>2. CASE mailed' = mailed \cup {<<r, x>>} /\ UNCHANGED successful
      BY <2>2
    <2>3. CASE UNCHANGED <<mailed, successful>>
      BY <2>3
    <2> QED
      BY <2>1, <2>2, <2>3 DEF SendEmail, Sent
  <1>4. MailingOf(r)'
    BY <1>1, <1>2, <1>3 DEF MailingOf, OfUpdates, GoodEmails
  <1>5. RecordOf(r)'
    BY <1>1, <1>2 DEF RecordOf, RowsOfRequest
  <1>6. Own(r)
    BY <1>1, <1>3 DEF Own, RowsOfRequest
  <1>7. Unanswered'
    BY <1>1 DEF Unanswered
  <1> QED
    BY <1>4, <1>5, <1>6, <1>7, OthersKeep

LEMMA SendEmailsKept ==
  ASSUME MailInv, NEW r \in Requests, SendEmails(r)
  PROVE  Mailings' /\ Unanswered'
  <1> USE DEF MailInv
  <1>1. /\ pc[r] = "send" /\ reply[r] = 0 /\ left[r] = {}
        /\ UNCHANGED <<to, left, successful, mailed, history>>
    BY DEF SendEmails, AllDone, Unanswered, world, mailing
  <1>2. MailingOf(r) /\ RecordOf(r)
    BY DEF Mailings
  <1>3. /\ pc'[r] \in {"record", "answered"} /\ reply'[r] \in {0, 500}
        /\ pc'[r] = "record" => successful[r] # {}
        /\ \A q \in Requests \ {r} : pc'[q] = pc[q] /\ reply'[q] = reply[q]
        /\ Unanswered'
    <2>1. CASE Answer(r, 500)
      BY <2>1, Ends
    <2>2. CASE successful[r] # {} /\ Goto(r, "record") /\ UNCHANGED reply
      BY <1>1, <2>2, Moves DEF Unanswered
    <2> QED
      BY <2>1, <2>2 DEF SendEmails
  <1>4. MailingOf(r)'
    BY <1>1, <1>2, <1>3 DEF MailingOf, OfUpdates, GoodEmails
  <1>5. RecordOf(r)'
    BY <1>1, <1>2 DEF RecordOf, RowsOfRequest
  <1>6. Own(r)
    BY <1>1, <1>3 DEF Own, RowsOfRequest
  <1> QED
    BY <1>3, <1>4, <1>5, <1>6, OthersKeep

\* The rows of a mailing are of all its recipients: the successful, the failed and
\* the malformed ones make up the list.
LEMMA RowsCover ==
  ASSUME NEW r, left[r] = {}, successful[r] \subseteq GoodEmails(to[r])
  PROVE  /\ \A row \in Rows(r) : row.request = r /\ row.recipient \in to[r]
         /\ \A x \in to[r] : \E row \in Rows(r) : row.recipient = x
         /\ TotalFailures(r) = {} => to[r] \subseteq successful[r]
  <1>1. to[r] = successful[r] \cup FailedEmails(r) \cup BadEmails(to[r])
    BY DEF FailedEmails, BadEmails, GoodEmails
  <1>2. /\ \A list, status : \A row \in RowsOf(r, list, status) :
             row.request = r /\ row.recipient \in list
        /\ \A list, status : \A x \in list :
             \E row \in RowsOf(r, list, status) : row.recipient = x
    <2> SUFFICES ASSUME NEW list, NEW status
                 PROVE  /\ \A row \in RowsOf(r, list, status) :
                             row.request = r /\ row.recipient \in list
                        /\ \A x \in list :
                             \E row \in RowsOf(r, list, status) : row.recipient = x
      OBVIOUS
    <2>1. ASSUME NEW row \in RowsOf(r, list, status)
          PROVE  row.request = r /\ row.recipient \in list
      <3>1. PICK x \in list : row = [request |-> r, recipient |-> x, status |-> status]
        BY DEF RowsOf
      <3> QED
        BY <3>1
    <2>2. ASSUME NEW x \in list
          PROVE  \E row \in RowsOf(r, list, status) : row.recipient = x
      <3> DEFINE row == [request |-> r, recipient |-> x, status |-> status]
      <3>1. row \in RowsOf(r, list, status) /\ row.recipient = x
        BY DEF RowsOf
      <3> QED
        BY <3>1
    <2> QED
      BY <2>1, <2>2
  <1>3. PICK bad : Rows(r) =
          RowsOf(r, successful[r], "200") \cup RowsOf(r, FailedEmails(r), "207")
            \cup RowsOf(r, BadEmails(to[r]), bad)
    BY Zenon DEF Rows
  <1>4. \A row \in Rows(r) : row.request = r /\ row.recipient \in to[r]
    BY <1>1, <1>2, <1>3
  <1>5. \A x \in to[r] : \E row \in Rows(r) : row.recipient = x
    BY <1>1, <1>2, <1>3
  <1> QED
    BY <1>1, <1>4, <1>5 DEF TotalFailures

LEMMA HistoryKept ==
  ASSUME MailInv, NEW r \in Requests, AddEmailHistory(r)
  PROVE  Mailings' /\ Unanswered'
  <1> USE DEF MailInv
  <1>1. /\ pc[r] = "record" /\ UNCHANGED <<to, left, successful, mailed>>
    BY DEF AddEmailHistory, mailing
  <1>2. MailingOf(r) /\ RecordOf(r)
    BY DEF Mailings
  <1>3. left[r] = {} /\ RowsOfRequest(r) = {}
    BY <1>1, <1>2 DEF MailingOf, RecordOf
  <1>4. /\ \A row \in Rows(r) : row.request = r /\ row.recipient \in to[r]
        /\ \A x \in to[r] : \E row \in Rows(r) : row.recipient = x
        /\ TotalFailures(r) = {} => to[r] \subseteq successful[r]
    BY <1>2, <1>3, RowsCover DEF MailingOf
  <1>5. CASE (history' = history \cup Rows(r) \/ UNCHANGED history)
             /\ Answer(r, IF TotalFailures(r) = {} THEN 200 ELSE 207)
    <2> DEFINE status == IF TotalFailures(r) = {} THEN 200 ELSE 207
    <2>1. /\ pc'[r] = "answered" /\ reply'[r] = status /\ Unanswered'
          /\ \A q \in Requests \ {r} : pc'[q] = pc[q] /\ reply'[q] = reply[q]
      BY <1>5, Ends
    <2>2. status \in {200, 207} /\ (status = 200 => TotalFailures(r) = {})
      OBVIOUS
    <2> HIDE DEF status
    <2>3. MailingOf(r)'
      BY <1>1, <1>2, <1>3, <1>4, <2>1, <2>2 DEF MailingOf, OfUpdates, GoodEmails
    <2>4. RowsOfRequest(r)' \in {{}, Rows(r)}
      BY <1>3, <1>4, <1>5 DEF RowsOfRequest
    <2>5. RecordOf(r)'
      BY <1>1, <1>4, <2>1, <2>2, <2>4 DEF RecordOf
    <2>6. \A q \in Requests \ {r} : RowsOfRequest(q)' = RowsOfRequest(q)
      BY <1>4, <1>5 DEF RowsOfRequest
    <2>7. Own(r)
      BY <1>1, <2>1, <2>6 DEF Own
    <2> QED
      BY <2>1, <2>3, <2>5, <2>7, OthersKeep
  <1>6. ASSUME NEW status \in {400, 500}, Answer(r, status), UNCHANGED history
        PROVE  Mailings' /\ Unanswered'
    <2>1. /\ pc'[r] = "answered" /\ reply'[r] \in {400, 500} /\ Unanswered'
          /\ \A q \in Requests \ {r} : pc'[q] = pc[q] /\ reply'[q] = reply[q]
      BY <1>6, Ends
    <2>2. MailingOf(r)'
      BY <1>1, <1>2, <1>3, <2>1 DEF MailingOf, OfUpdates, GoodEmails
    <2>3. RecordOf(r)' /\ Own(r)
      BY <1>1, <1>3, <1>6, <2>1 DEF RecordOf, Own, RowsOfRequest
    <2> QED
      BY <2>1, <2>2, <2>3, OthersKeep
  <1> QED
    BY <1>5, <1>6 DEF AddEmailHistory

-----------------------------------------------------------------------------
LEMMA TypedStart ==
  ASSUME Typed, NEW r \in Requests, Start(r)
  PROVE  Typed'
  <1> USE DEF Typed, Goto, Answer, world, mailing, posting
  <1>1. ASSUME NEW list, SendEmailHandler(r, list) PROVE Typed'
    BY <1>1 DEF SendEmailHandler
  <1>2. ASSUME NEW b, PostUpdateHandler(r, b) PROVE Typed'
    BY <1>2 DEF PostUpdateHandler
  <1>3. ASSUME NEW k, NEW b, DeleteUpdateHandler(r, k, b) PROVE Typed'
    BY <1>3 DEF DeleteUpdateHandler
  <1>4. CASE GetUpdateHandler(r) \/ UpdateUpdateHandler(r)
    BY <1>4 DEF GetUpdateHandler, UpdateUpdateHandler
  <1> QED
    BY <1>1, <1>2, <1>3, <1>4 DEF Start

LEMMA TypedProceed ==
  ASSUME Typed, NEW r \in Requests, Proceed(r) \/ \E x \in Recipients : SendEmail(r, x)
  PROVE  Typed'
  <1> USE DEF Typed, Goto, Answer, world, mailing, posting
  <1>1. ASSUME NEW x, SendEmail(r, x) PROVE Typed'
    BY <1>1 DEF SendEmail, Sent
  <1>2. CASE SendEmails(r)
    BY <1>2 DEF SendEmails
  <1>3. CASE AddEmailHistory(r)
    BY <1>3 DEF AddEmailHistory
  <1>4. CASE ChooseReference(r) \/ Set(r) \/ SendNotification(r)
    BY <1>4 DEF ChooseReference, Set, SendNotification
  <1>5. CASE ChooseHackathon(r) \/ Remove(r) \/ GetAll(r) \/ Fail(r)
    BY <1>5 DEF ChooseHackathon, Remove, GetAll, Fail
  <1> QED
    BY <1>1, <1>2, <1>3, <1>4, <1>5 DEF Proceed

LEMMA TypedStep == Typed /\ [Next]_vars => Typed'
  <1> SUFFICES ASSUME Typed, [Next]_vars PROVE Typed'
    OBVIOUS
  <1>1. ASSUME NEW i \in Instances, Remember(i) PROVE Typed'
    BY <1>1, BroadcastsAssumption DEF Remember, Typed, mailing, posting
  <1>2. CASE UNCHANGED vars
    BY <1>2 DEF vars, world, mailing, posting, Typed
  <1> QED
    BY <1>1, <1>2, TypedStart, TypedProceed DEF Next, AllServed

LEMMA MailStep == MailInv /\ [Next]_vars => MailInv'
  <1> SUFFICES ASSUME MailInv, [Next]_vars PROVE Mailings' /\ Unanswered'
    BY TypedStep DEF MailInv
  <1> USE DEF world, mailing, posting
  <1>1. ASSUME NEW r \in Requests,
               \/ \E b \in BOOLEAN :
                    PostUpdateHandler(r, b) \/ \E k \in updates : DeleteUpdateHandler(r, k, b)
               \/ GetUpdateHandler(r) \/ UpdateUpdateHandler(r)
        PROVE  Mailings' /\ Unanswered'
    <2>1. pc[r] = "idle" /\ UNCHANGED <<mailed, history, to, left, successful>>
      BY <1>1 DEF PostUpdateHandler, DeleteUpdateHandler, GetUpdateHandler, UpdateUpdateHandler
    <2>2. \/ \E stage \in OfUpdates : Goto(r, stage) /\ UNCHANGED reply
          \/ \E status : Answer(r, status)
      BY <1>1 DEF PostUpdateHandler, DeleteUpdateHandler, GetUpdateHandler,
                  UpdateUpdateHandler, OfUpdates
    <2> QED
      BY <2>1, <2>2, NoMail
  <1>2. ASSUME NEW r \in Requests,
               \/ ChooseReference(r) \/ Set(r) \/ SendNotification(r)
               \/ ChooseHackathon(r) \/ Remove(r) \/ GetAll(r) \/ Fail(r)
        PROVE  Mailings' /\ Unanswered'
    <2>1. pc[r] \in OfUpdates /\ UNCHANGED <<mailed, history, to, left, successful>>
      BY <1>2 DEF ChooseReference, Set, SendNotification, ChooseHackathon, Remove, GetAll,
                  Fail, OfUpdates
    <2>2. \/ \E stage \in OfUpdates : Goto(r, stage) /\ UNCHANGED reply
          \/ \E status : Answer(r, status)
      BY <1>2 DEF ChooseReference, Set, SendNotification, ChooseHackathon, Remove, GetAll,
                  Fail, OfUpdates
    <2> QED
      BY <2>1, <2>2, NoMail
  <1>3. ASSUME NEW r \in Requests,
               \/ \E list \in SUBSET Recipients : SendEmailHandler(r, list)
               \/ \E x \in Recipients : SendEmail(r, x)
               \/ SendEmails(r) \/ AddEmailHistory(r)
        PROVE  Mailings' /\ Unanswered'
    BY <1>3, StartMailing, SendKept, SendEmailsKept, HistoryKept
  <1>4. ASSUME (\E i \in Instances : Remember(i)) \/ UNCHANGED vars
        PROVE  Mailings' /\ Unanswered'
    <2>1. UNCHANGED <<mailed, history, pc, reply, to, left, successful>>
      BY <1>4 DEF Remember, vars
    <2> QED
      BY <2>1 DEF MailInv, Mailings, MailingOf, RecordOf, RowsOfRequest, Unanswered
  <1> QED
    BY <1>1, <1>2, <1>3, <1>4 DEF Next, Start, Proceed, AllServed

\* A mailing is recorded whole and once, or its sender is told of an error.
\* (AdminProcessor.sendEmails, AdminDataMapperImpl.addEmailHistory)
THEOREM Recorded == Spec => []RecordedTogether
  <1>1. ASSUME MailInv, NEW r \in Requests, RowsOfRequest(r) # {}
        PROVE  ~Rejected(r) /\ {row.recipient : row \in RowsOfRequest(r)} = to[r]
    <2>1. RecordOf(r)
      BY <1>1 DEF MailInv, Mailings
    <2>2. ~Rejected(r)
      BY <1>1, <2>1 DEF RecordOf, Rejected
    <2>3. /\ \A row \in RowsOfRequest(r) : row.recipient \in to[r]
          /\ \A x \in to[r] : \E row \in RowsOfRequest(r) : row.recipient = x
      BY <1>1, <2>1 DEF RecordOf
    <2> QED
      BY <2>2, <2>3
  <1>2. MailInv => RecordedTogether
    BY <1>1 DEF RecordedTogether, RowsOfRequest
  <1> QED
    BY MailInit, MailStep, <1>2, PTL DEF Spec

\* Who is named as served in an answer has been sent the email, whichever of them
\* fail and in whichever order they end.  (AdminDataMapperImpl.sendEmails)
THEOREM Named == Spec => []AnswerNamesSent
  <1>1. MailInv => AnswerNamesSent
    <2> SUFFICES ASSUME MailInv, NEW r \in Requests, NEW x \in Recipients
                 PROVE  /\ x \in successful[r] => <<r, x>> \in mailed
                        /\ reply[r] = 200 /\ x \in to[r] => <<r, x>> \in mailed
                        /\ reply[r] \in {200, 207} /\ x \in to[r] =>
                             left[r] = {} /\ \E y \in to[r] : <<r, y>> \in mailed
      BY DEF AnswerNamesSent
    <2>1. MailingOf(r)
      BY DEF MailInv, Mailings
    <2>2. successful[r] # {} => \E y \in to[r] : <<r, y>> \in mailed
      BY <2>1 DEF MailingOf, GoodEmails
    <2> QED
      BY <2>1, <2>2 DEF MailingOf
  <1> QED
    BY MailInit, MailStep, <1>1, PTL DEF Spec

-----------------------------------------------------------------------------
TargetOf(r) ==
  /\ pc[r] \in {"idle", "post", "send", "record", "read"} => target[r] = NoKey
  /\ pc[r] \in {"set", "notify"} => target[r] \in Keys /\ target[r][2] = r
  /\ pc[r] \in {"locate", "remove"} => target[r] \in Keys /\ target[r][2] # r
  /\ target[r] \in Keys \cup {NoKey}

\* A request whose update has been in the database.
Posted(r) ==
  \/ pc[r] = "notify"
  \/ pc[r] = "answered" /\ reply[r] = 200 /\ target[r] \in Keys /\ target[r][2] = r

\* It is still there, or somebody else's request has deleted it.
KeptOrDeleted(r) ==
  \/ target[r] \in updates
  \/ \E d \in Requests \ {r} : pc[d] = "answered" /\ target[d] = target[r]

Postings ==
  /\ updates \subseteq Keys
  /\ \A k \in updates : Posted(k[2])
  /\ \A r \in announced \cap Requests : pc[r] = "answered" /\ Posted(r)
  /\ \A r \in Requests : TargetOf(r)
  /\ \A r \in Requests : Posted(r) => KeptOrDeleted(r)

PostInv == Typed /\ Unanswered /\ Postings

LEMMA NoKeyIsNone == NoKey \notin Keys
  BY DEF NoKey, Keys

LEMMA PostInit == Init => PostInv
  BY MailInit, NoKeyIsNone DEF Init, PostInv, MailInv, Postings, Posted, TargetOf

\* A request that touches no update of its own keeps what was posted and deleted:
\* it goes on without a target, or ends.
LEMMA NoPosting ==
  ASSUME PostInv, NEW r \in Requests, pc[r] \notin {"notify", "answered"},
         UNCHANGED <<updates, announced, target>>,
         \/ /\ target[r] = NoKey
            /\ \/ \E stage \in {"send", "record", "post", "read"} : Goto(r, stage) /\ UNCHANGED reply
               \/ \E status : Answer(r, status)
         \/ \E status : status # 200 /\ Answer(r, status)
  PROVE  Postings'
  <1> USE DEF PostInv
  <1>1. \A q \in Requests \ {r} : pc'[q] = pc[q] /\ reply'[q] = reply[q]
    BY Moves, Ends
  <1>2. \/ target[r] = NoKey /\ pc'[r] \in {"send", "record", "post", "read", "answered"}
        \/ pc'[r] = "answered" /\ reply'[r] # 200
    BY Moves, Ends
  <1>3. ~Posted(r) /\ ~Posted(r)'
    BY <1>2, NoKeyIsNone DEF Posted
  <1>4. \A q \in Requests \ {r} : Posted(q)' = Posted(q)
    BY <1>1 DEF Posted
  <1>5. \A q \in Requests \ {r} : KeptOrDeleted(q) => KeptOrDeleted(q)'
    BY <1>1 DEF KeptOrDeleted
  <1>6. \A q \in Requests : TargetOf(q)'
    BY <1>1, <1>2 DEF Postings, TargetOf
  <1>7. \A k \in updates : k[2] \in Requests
    BY DEF Postings, Keys
  <1> QED
    BY <1>1, <1>3, <1>4, <1>5, <1>6, <1>7 DEF Postings

\* What a step of one request leaves as it was.
Apart(r) ==
  /\ DOMAIN target' = Requests
  /\ \A q \in Requests \ {r} :
       pc'[q] = pc[q] /\ reply'[q] = reply[q] /\ target'[q] = target[q]

LEMMA ApartKeeps ==
  ASSUME PostInv, NEW r \in Requests, pc[r] # "answered", Apart(r)
  PROVE  /\ \A q \in Requests \ {r} : Posted(q)' = Posted(q) /\ TargetOf(q)'
         /\ updates \subseteq updates' =>
              \A q \in Requests \ {r} : KeptOrDeleted(q) => KeptOrDeleted(q)'
         /\ \A k \in updates : k \in Keys /\ k[2] \in Requests /\ Posted(k[2])
  <1>1. \A q \in Requests \ {r} : Posted(q)' = Posted(q) /\ TargetOf(q)'
    BY DEF Apart, Posted, TargetOf, PostInv, Postings
  <1>2. ASSUME updates \subseteq updates', NEW q \in Requests \ {r}, KeptOrDeleted(q)
        PROVE  KeptOrDeleted(q)'
    BY <1>2 DEF Apart, KeptOrDeleted
  <1> QED
    BY <1>1, <1>2 DEF PostInv, Postings, Keys

LEMMA ChooseReferenceKept ==
  ASSUME PostInv, NEW r \in Requests, ChooseReference(r)
  PROVE  Postings' /\ Unanswered'
  <1> USE DEF PostInv
  <1>1. /\ pc[r] = "post" /\ UNCHANGED <<updates, announced, reply>>
        /\ target'[r] = <<current[served[r]], r>>
        /\ DOMAIN target' = Requests
        /\ \A q \in Requests \ {r} : target'[q] = target[q]
    BY DEF ChooseReference, Reference, Typed, world
  <1>2. pc'[r] = "set" /\ \A q \in Requests \ {r} : pc'[q] = pc[q]
    BY Moves DEF ChooseReference
  <1>3. target'[r] \in Keys /\ target'[r][2] = r
    BY <1>1 DEF Keys, Typed
  <1>4. Apart(r) /\ ~Posted(r) /\ ~Posted(r)' /\ TargetOf(r)' /\ Unanswered'
    BY <1>1, <1>2, <1>3 DEF Apart, Posted, TargetOf, Unanswered
  <1> QED
    BY <1>1, <1>2, <1>4, ApartKeeps DEF Postings

\* The update is in the database before anyone is told.
LEMMA SetKept ==
  ASSUME PostInv, NEW r \in Requests, Set(r)
  PROVE  Postings' /\ Unanswered'
  <1> USE DEF PostInv
  <1>1. /\ pc[r] = "set" /\ UNCHANGED <<announced, target>>
        /\ updates' = updates \cup {target[r]}
    BY DEF Set, posting
  <1>2. target[r] \in Keys /\ target[r][2] = r
    BY <1>1 DEF Postings, TargetOf
  <1>3. /\ pc'[r] = "notify" \/ (pc'[r] = "answered" /\ reply'[r] = 200)
        /\ \A q \in Requests \ {r} : pc'[q] = pc[q] /\ reply'[q] = reply[q]
        /\ Unanswered'
    <2>1. CASE Answer(r, 200)
      BY <2>1, Ends
    <2>2. CASE Goto(r, "notify") /\ UNCHANGED reply
      BY <1>1, <2>2, Moves DEF Unanswered
    <2> QED
      BY <2>1, <2>2 DEF Set
  <1>4. Apart(r) /\ ~Posted(r) /\ Posted(r)' /\ TargetOf(r)' /\ KeptOrDeleted(r)'
    BY <1>1, <1>2, <1>3 DEF Apart, Posted, TargetOf, Typed, KeptOrDeleted
  <1> QED
    BY <1>1, <1>2, <1>3, <1>4, ApartKeeps DEF Postings

LEMMA NotifyKept ==
  ASSUME PostInv, NEW r \in Requests, SendNotification(r)
  PROVE  Postings' /\ Unanswered'
  <1> USE DEF PostInv
  <1>1. /\ pc[r] = "notify" /\ UNCHANGED <<updates, target>>
        /\ announced' = announced \cup {r} \/ UNCHANGED announced
    BY DEF SendNotification, posting
  <1>2. target[r] \in Keys /\ target[r][2] = r
    BY <1>1 DEF Postings, TargetOf
  <1>3. /\ pc'[r] = "answered" /\ reply'[r] = 200 /\ Unanswered'
        /\ \A q \in Requests \ {r} : pc'[q] = pc[q] /\ reply'[q] = reply[q]
    BY Ends DEF SendNotification
  <1>4. Apart(r) /\ Posted(r) /\ Posted(r)' /\ TargetOf(r)'
    BY <1>1, <1>2, <1>3 DEF Apart, Posted, TargetOf, Typed
  <1>5. KeptOrDeleted(r) => KeptOrDeleted(r)'
    BY <1>1, <1>3, <1>4 DEF Apart, KeptOrDeleted
  <1> QED
    BY <1>1, <1>3, <1>4, <1>5, ApartKeeps DEF Postings

\* Nobody deletes an update of a request that has only begun.
LEMMA DeleteKept ==
  ASSUME PostInv, NEW r \in Requests, NEW k, NEW named, DeleteUpdateHandler(r, k, named)
  PROVE  Postings' /\ Unanswered'
  <1> USE DEF PostInv
  <1>1. pc[r] = "idle" /\ k \in updates /\ UNCHANGED <<updates, announced>>
    BY DEF DeleteUpdateHandler, world
  <1>2. target[r] = NoKey
    BY <1>1 DEF Postings, TargetOf
  <1>3. CASE Answer(r, 400) /\ UNCHANGED target
    BY <1>1, <1>2, <1>3, NoPosting, Ends
  <1>4. CASE /\ target' = [target EXCEPT ![r] = k]
             /\ Goto(r, IF named THEN "remove" ELSE "locate")
             /\ UNCHANGED reply
    <2>1. /\ target'[r] = k /\ DOMAIN target' = Requests
          /\ \A q \in Requests \ {r} : target'[q] = target[q]
      BY <1>4 DEF Typed
    <2>2. pc'[r] \in {"remove", "locate"} /\ \A q \in Requests \ {r} : pc'[q] = pc[q]
      BY <1>4, Moves
    <2>3. k \in Keys /\ k[2] # r
      BY <1>1 DEF Postings, Posted
    <2>4. /\ Apart(r) /\ ~Posted(r) /\ ~Posted(r)' /\ TargetOf(r)' /\ Unanswered'
      BY <1>1, <1>4, <2>1, <2>2, <2>3 DEF Apart, Posted, TargetOf, Unanswered
    <2> QED
      BY <1>1, <2>2, <2>4, ApartKeeps DEF Postings
  <1> QED
    BY <1>3, <1>4 DEF DeleteUpdateHandler

LEMMA ChooseHackathonKept ==
  ASSUME PostInv, NEW r \in Requests, ChooseHackathon(r)
  PROVE  Postings' /\ Unanswered'
  <1> USE DEF PostInv
  <1>1. /\ pc[r] = "locate" /\ UNCHANGED <<updates, announced, reply>>
        /\ target'[r] = <<current[served[r]], target[r][2]>>
        /\ DOMAIN target' = Requests
        /\ \A q \in Requests \ {r} : target'[q] = target[q]
    BY DEF ChooseHackathon, Typed, world
  <1>2. pc'[r] = "remove" /\ \A q \in Requests \ {r} : pc'[q] = pc[q]
    BY Moves DEF ChooseHackathon
  <1>3. target[r] \in Keys /\ target[r][2] # r
    BY <1>1 DEF Postings, TargetOf
  <1>4. target'[r] \in Keys /\ target'[r][2] # r
    BY <1>1, <1>3 DEF Keys, Typed
  <1>5. Apart(r) /\ ~Posted(r) /\ ~Posted(r)' /\ TargetOf(r)' /\ Unanswered'
    BY <1>1, <1>2, <1>4 DEF Apart, Posted, TargetOf, Unanswered
  <1> QED
    BY <1>1, <1>2, <1>5, ApartKeeps DEF Postings

\* An update that leaves the database is known to have been deleted from then on.
LEMMA RemoveKept ==
  ASSUME PostInv, NEW r \in Requests, Remove(r)
  PROVE  Postings' /\ Unanswered'
  <1> USE DEF PostInv
  <1>1. /\ pc[r] = "remove" /\ UNCHANGED <<announced, target>>
        /\ updates' = updates \ {target[r]}
    BY DEF Remove, posting
  <1>2. target[r] \in Keys /\ target[r][2] # r
    BY <1>1 DEF Postings, TargetOf
  <1>3. /\ pc'[r] = "answered" /\ Unanswered'
        /\ \A q \in Requests \ {r} : pc'[q] = pc[q] /\ reply'[q] = reply[q]
    BY Ends DEF Remove
  <1>4. Apart(r) /\ ~Posted(r) /\ ~Posted(r)' /\ TargetOf(r)'
    BY <1>1, <1>2, <1>3 DEF Apart, Posted, TargetOf, Typed
  <1>5. ASSUME NEW q \in Requests \ {r}, KeptOrDeleted(q)
        PROVE  KeptOrDeleted(q)'
    <2>1. CASE target[q] = target[r]
      BY <1>1, <1>3, <2>1 DEF KeptOrDeleted
    <2>2. CASE target[q] # target[r]
      BY <1>1, <1>3, <1>5, <2>2 DEF KeptOrDeleted
    <2> QED
      BY <2>1, <2>2
  <1> QED
    BY <1>1, <1>3, <1>4, <1>5, ApartKeeps DEF Postings

LEMMA PostStep == PostInv /\ [Next]_vars => PostInv'
  <1> SUFFICES ASSUME PostInv, [Next]_vars PROVE Postings' /\ Unanswered'
    BY TypedStep DEF PostInv
  <1> USE DEF PostInv, world, mailing, posting
  <1>0. \A r \in Requests : TargetOf(r)
    BY DEF Postings
  <1>1. ASSUME NEW r \in Requests,
               \/ \E list \in SUBSET Recipients : SendEmailHandler(r, list)
               \/ \E b \in BOOLEAN : PostUpdateHandler(r, b)
               \/ GetUpdateHandler(r) \/ UpdateUpdateHandler(r)
               \/ SendEmails(r) \/ AddEmailHistory(r) \/ GetAll(r)
        PROVE  Postings' /\ Unanswered'
    <2>1. /\ pc[r] \in {"idle", "send", "record", "read"}
          /\ UNCHANGED <<updates, announced, target>>
      BY <1>1 DEF SendEmailHandler, PostUpdateHandler, GetUpdateHandler, UpdateUpdateHandler,
                  SendEmails, AddEmailHistory, GetAll
    <2>2. target[r] = NoKey
      BY <1>0, <2>1 DEF TargetOf
    <2>3. \/ \E stage \in {"send", "record", "post", "read"} : Goto(r, stage) /\ UNCHANGED reply
          \/ \E status : Answer(r, status)
      BY <1>1 DEF SendEmailHandler, PostUpdateHandler, GetUpdateHandler, UpdateUpdateHandler,
                  SendEmails, AddEmailHistory, GetAll
    <2>4. Unanswered'
      BY <2>1, <2>3, Moves, Ends DEF Unanswered
    <2> QED
      BY <2>1, <2>2, <2>3, <2>4, NoPosting
  <1>2. ASSUME NEW r \in Requests, Fail(r) PROVE Postings' /\ Unanswered'
    <2>1. /\ pc[r] \notin {"notify", "answered"} /\ Answer(r, 500)
          /\ UNCHANGED <<updates, announced, target>>
      BY <1>2 DEF Fail, OfUpdates
    <2> QED
      BY <2>1, NoPosting, Ends
  <1>3. ASSUME NEW r \in Requests,
               \/ \E b \in BOOLEAN : \E k \in updates : DeleteUpdateHandler(r, k, b)
               \/ ChooseReference(r) \/ Set(r) \/ SendNotification(r)
               \/ ChooseHackathon(r) \/ Remove(r)
        PROVE  Postings' /\ Unanswered'
    BY <1>3, DeleteKept, ChooseReferenceKept, SetKept, NotifyKept, ChooseHackathonKept, RemoveKept
  <1>4. ASSUME \/ \E r \in Requests, x \in Recipients : SendEmail(r, x)
               \/ \E i \in Instances : Remember(i)
               \/ UNCHANGED vars
        PROVE  Postings' /\ Unanswered'
    <2>1. UNCHANGED <<updates, announced, target, pc, reply>>
      BY <1>4 DEF SendEmail, Remember, vars
    <2> QED
      BY <2>1 DEF Postings, Posted, TargetOf, KeptOrDeleted, Unanswered
  <1> QED
    BY <1>1, <1>2, <1>3, <1>4 DEF Next, Start, Proceed, AllServed

\* Phones hear of updates that are in the database, and so do those who post them;
\* after an error there is nothing to delete before posting it again.
\* (UpdateProcessor.processUpdate)
THEOREM Announced == Spec => []PostedOrRefused
  <1>1. ASSUME PostInv, NEW r \in Requests
        PROVE  LET keys == {k \in Keys : k[2] = r} IN
               /\ r \in announced \/ (reply[r] = 200 /\ target[r] \in keys) =>
                    \E k \in keys : k \in updates \/ \E d \in Requests \ {r} : target[d] = k
               /\ Rejected(r) => r \notin announced /\ keys \cap updates = {}
    <2> DEFINE keys == {k \in Keys : k[2] = r}
    <2>1. ASSUME r \in announced \/ (reply[r] = 200 /\ target[r] \in keys)
          PROVE  \E k \in keys : k \in updates \/ \E d \in Requests \ {r} : target[d] = k
      <3>1. Posted(r)
        BY <1>1, <2>1 DEF PostInv, Postings, Posted, Unanswered
      <3>2. target[r] \in keys /\ KeptOrDeleted(r)
        BY <1>1, <3>1 DEF PostInv, Postings, Posted, TargetOf
      <3> QED
        BY <3>2 DEF KeptOrDeleted
    <2>2. ASSUME Rejected(r) PROVE r \notin announced /\ keys \cap updates = {}
      <3>1. ~Posted(r)
        BY <1>1, <2>2 DEF PostInv, Posted, Rejected, Unanswered
      <3> QED
        BY <1>1, <3>1 DEF PostInv, Postings
    <2> QED
      BY <2>1, <2>2
  <1>2. PostInv => PostedOrRefused
    BY <1>1 DEF PostedOrRefused
  <1> QED
    BY PostInit, PostStep, <1>2, PTL DEF Spec

-----------------------------------------------------------------------------
(***************************************************************************)
(* Types.  A request that is about to write an update, or to look for its   *)
(* hackathon, has its key (Aimed).                                         *)
(***************************************************************************)
StoresTyped ==
  /\ mailed \in SUBSET (Requests \X Recipients)
  /\ history \in SUBSET Row
  /\ updates \in SUBSET Keys
  /\ announced \in SUBSET Requests
  /\ current \in [Instances -> Hackathons]

MoreStages == OfUpdates \cup {"idle", "send", "record", "answered"}

CallsTyped ==
  /\ pc \in [Requests -> MoreStages]
  /\ reply \in [Requests -> {0, 200, 207, 400, 500, 501}]
  /\ served \in [Requests -> Instances]

MailTyped ==
  /\ to \in [Requests -> SUBSET Recipients]
  /\ left \in [Requests -> SUBSET Recipients]
  /\ successful \in [Requests -> SUBSET Recipients]

PostTyped ==
  /\ push \in [Requests -> BOOLEAN]
  /\ target \in [Requests -> Keys \cup {NoKey}]

Aimed == \A r \in Requests : pc[r] \in {"set", "locate"} => target[r] \in Keys

TypeInv == StoresTyped /\ CallsTyped /\ MailTyped /\ PostTyped /\ Aimed

LEMMA TypeInit == Init => TypeInv
  BY BroadcastsAssumption
     DEF Init, TypeInv, StoresTyped, CallsTyped, MailTyped, PostTyped, Aimed, MoreStages

LEMMA CallTyped ==
  ASSUME CallsTyped, NEW r \in Requests, UNCHANGED served,
         \/ \E stage \in MoreStages : Goto(r, stage) /\ UNCHANGED reply
         \/ \E status \in {200, 207, 400, 500, 501} : Answer(r, status)
  PROVE  CallsTyped' /\ \A q \in Requests \ {r} : pc'[q] = pc[q]
  BY DEF CallsTyped, Answer, Goto, MoreStages

\* A request that does not come to know a key goes where none is needed.
LEMMA AimedStays ==
  ASSUME TypeInv, NEW r \in Requests, UNCHANGED target, pc'[r] \notin {"set", "locate"},
         \A q \in Requests \ {r} : pc'[q] = pc[q]
  PROVE  Aimed'
  BY DEF TypeInv, Aimed

LEMMA MailingTyped ==
  ASSUME TypeInv, NEW r \in Requests,
         \/ \E list \in SUBSET Recipients : SendEmailHandler(r, list)
         \/ \E x \in Recipients : SendEmail(r, x)
         \/ SendEmails(r) \/ AddEmailHistory(r)
  PROVE  TypeInv'
  <1> USE DEF TypeInv
  <1>1. ASSUME NEW list \in SUBSET Recipients, SendEmailHandler(r, list) PROVE TypeInv'
    <2>1. MailTyped' /\ UNCHANGED <<world, served, posting>>
      BY <1>1 DEF SendEmailHandler, MailTyped, GoodEmails
    <2>2. /\ CallsTyped' /\ pc'[r] \in {"send", "answered"}
          /\ \A q \in Requests \ {r} : pc'[q] = pc[q]
      <3>1. \/ Goto(r, "send") /\ UNCHANGED reply
            \/ Answer(r, 400)
        BY <1>1 DEF SendEmailHandler
      <3>2. CallsTyped' /\ \A q \in Requests \ {r} : pc'[q] = pc[q]
        BY <2>1, <3>1, CallTyped DEF MoreStages
      <3> QED
        BY <3>1, <3>2 DEF Goto, Answer, CallsTyped
    <2>3. Aimed'
      BY <2>1, <2>2, AimedStays DEF posting
    <2> QED
      BY <2>1, <2>2, <2>3 DEF StoresTyped, PostTyped, world, posting
  <1>2. ASSUME NEW x \in Recipients, SendEmail(r, x) PROVE TypeInv'
    <2>1. /\ mailed' \in SUBSET (Requests \X Recipients)
          /\ MailTyped'
          /\ UNCHANGED <<history, updates, announced, current, pc, reply, served, push, target>>
      BY <1>2 DEF SendEmail, Sent, StoresTyped, MailTyped, posting
    <2> QED
      BY <2>1 DEF StoresTyped, CallsTyped, PostTyped, Aimed
  <1>3. CASE SendEmails(r)
    <2>1. /\ UNCHANGED <<world, served, mailing, posting>>
          /\ \/ Goto(r, "record") /\ UNCHANGED reply
             \/ Answer(r, 500)
      BY <1>3 DEF SendEmails
    <2>2. CallsTyped' /\ \A q \in Requests \ {r} : pc'[q] = pc[q]
      BY <2>1, CallTyped DEF MoreStages
    <2>3. pc'[r] \in {"record", "answered"}
      BY <2>1 DEF Goto, Answer, CallsTyped
    <2>4. Aimed'
      BY <2>1, <2>2, <2>3, AimedStays DEF posting
    <2> QED
      BY <2>1, <2>2, <2>4 DEF StoresTyped, MailTyped, PostTyped, world, mailing, posting
  <1>4. CASE AddEmailHistory(r)
    <2>1. Rows(r) \subseteq Row
      <3>1. /\ successful[r] \subseteq Recipients /\ FailedEmails(r) \subseteq Recipients
            /\ BadEmails(to[r]) \subseteq Recipients
        BY DEF MailTyped, FailedEmails, GoodEmails, BadEmails
      <3>2. ASSUME NEW list \in SUBSET Recipients,
                   NEW status \in {"200", "207", "validation failed"}
            PROVE  RowsOf(r, list, status) \subseteq Row
        <4> SUFFICES ASSUME NEW row \in RowsOf(r, list, status) PROVE row \in Row
          OBVIOUS
        <4>1. PICK x \in list : row = [request |-> r, recipient |-> x, status |-> status]
          BY DEF RowsOf
        <4>2. x \in Recipients
          OBVIOUS
        <4> QED
          BY <4>1, <4>2 DEF Row
      <3>3. /\ RowsOf(r, successful[r], "200") \subseteq Row
            /\ RowsOf(r, FailedEmails(r), "207") \subseteq Row
            /\ RowsOf(r, BadEmails(to[r]), "validation failed") \subseteq Row
        BY <3>1, <3>2
      <3> QED
        BY <3>3 DEF Rows
    <2>2. history' \in SUBSET Row
      BY <1>4, <2>1 DEF AddEmailHistory, StoresTyped
    <2>3. /\ UNCHANGED <<mailed, updates, announced, current, served, mailing, posting>>
          /\ \E status \in {200, 207, 400, 500} : Answer(r, status)
      BY <1>4 DEF AddEmailHistory
    <2>4. CallsTyped' /\ \A q \in Requests \ {r} : pc'[q] = pc[q]
      BY <2>3, CallTyped
    <2>5. pc'[r] = "answered"
      BY <2>3 DEF Goto, Answer, CallsTyped
    <2>6. Aimed'
      BY <2>3, <2>4, <2>5, AimedStays DEF posting
    <2> QED
      BY <2>2, <2>3, <2>4, <2>6 DEF StoresTyped, MailTyped, PostTyped, mailing, posting
  <1> QED
    BY <1>1, <1>2, <1>3, <1>4

LEMMA PostingTyped ==
  ASSUME TypeInv, NEW r \in Requests,
         \/ \E b \in BOOLEAN :
              PostUpdateHandler(r, b) \/ \E k \in updates : DeleteUpdateHandler(r, k, b)
         \/ GetUpdateHandler(r) \/ UpdateUpdateHandler(r)
         \/ ChooseReference(r) \/ Set(r) \/ SendNotification(r)
         \/ ChooseHackathon(r) \/ Remove(r) \/ GetAll(r) \/ Fail(r)
  PROVE  TypeInv'
  <1> USE DEF TypeInv
  <1>0. MailTyped' /\ UNCHANGED <<mailed, history, current, served>>
    BY DEF PostUpdateHandler, DeleteUpdateHandler, GetUpdateHandler, UpdateUpdateHandler,
       ChooseReference, Set, SendNotification, ChooseHackathon, Remove, GetAll, Fail,
       world, mailing, MailTyped
  <1>1. CallsTyped' /\ \A q \in Requests \ {r} : pc'[q] = pc[q]
    <2>1. \/ \E stage \in MoreStages : Goto(r, stage) /\ UNCHANGED reply
          \/ \E status \in {200, 400, 500, 501} : Answer(r, status)
      BY DEF PostUpdateHandler, DeleteUpdateHandler, GetUpdateHandler, UpdateUpdateHandler,
         ChooseReference, Set, SendNotification, ChooseHackathon, Remove, GetAll, Fail,
         MoreStages, OfUpdates
    <2> QED
      BY <1>0, <2>1, CallTyped
  <1>2. current[served[r]] \in Hackathons
    BY DEF StoresTyped, CallsTyped
  <1>3. updates' \in SUBSET Keys /\ announced' \in SUBSET Requests
    <2>1. /\ \/ updates' \subseteq updates
             \/ Set(r) /\ updates' = updates \cup {target[r]}
          /\ announced' \subseteq announced \cup {r}
      BY DEF PostUpdateHandler, DeleteUpdateHandler, GetUpdateHandler, UpdateUpdateHandler,
         ChooseReference, Set, SendNotification, ChooseHackathon, Remove, GetAll, Fail, world
    <2>2. Set(r) => target[r] \in Keys
      BY DEF Set, Aimed
    <2> QED
      BY <2>1, <2>2 DEF StoresTyped
  <1>4. PostTyped' /\ Aimed'
    <2>1. CASE UNCHANGED target /\ pc'[r] \notin {"set", "locate"} /\ push' \in [Requests -> BOOLEAN]
      BY <1>1, <2>1, AimedStays DEF PostTyped
    <2>2. ASSUME NEW key \in Keys, target' = [target EXCEPT ![r] = key], UNCHANGED push
          PROVE  PostTyped' /\ Aimed'
      <3>1. target'[r] = key /\ \A q \in Requests \ {r} : target'[q] = target[q]
        BY <2>2 DEF PostTyped
      <3> QED
        BY <1>1, <2>2, <3>1 DEF PostTyped, Aimed
    <2>3. ASSUME NEW b \in BOOLEAN, PostUpdateHandler(r, b) PROVE PostTyped' /\ Aimed'
      BY <2>1, <2>3 DEF PostUpdateHandler, Goto, Answer, CallsTyped, PostTyped
    <2>4. ASSUME NEW b \in BOOLEAN, NEW k \in updates, DeleteUpdateHandler(r, k, b)
          PROVE  PostTyped' /\ Aimed'
      <3>1. UNCHANGED push /\ \/ target' = [target EXCEPT ![r] = k]
                              \/ UNCHANGED target /\ Answer(r, 400)
        BY <2>4 DEF DeleteUpdateHandler
      <3>2. k \in Keys
        BY DEF StoresTyped
      <3>3. CASE target' = [target EXCEPT ![r] = k]
        BY <2>2, <3>1, <3>2, <3>3
      <3>4. CASE UNCHANGED target /\ Answer(r, 400)
        BY <2>1, <3>1, <3>4 DEF Goto, Answer, CallsTyped, PostTyped
      <3> QED
        BY <3>1, <3>3, <3>4
    <2>5. CASE ChooseReference(r)
      <3>1. Reference(r) \in Keys
        BY <1>2 DEF Reference, Keys
      <3> QED
        BY <2>2, <2>5, <3>1 DEF ChooseReference
    <2>6. CASE ChooseHackathon(r)
      <3>1. target[r] \in Keys
        BY <2>6 DEF ChooseHackathon, Aimed
      <3>2. <<current[served[r]], target[r][2]>> \in Keys
        BY <1>2, <3>1 DEF Keys
      <3> QED
        BY <2>2, <2>6, <3>2 DEF ChooseHackathon
    <2>7. CASE \/ GetUpdateHandler(r) \/ UpdateUpdateHandler(r) \/ Set(r) \/ SendNotification(r)
               \/ Remove(r) \/ GetAll(r) \/ Fail(r)
      <3>1. UNCHANGED <<push, target>>
        BY <2>7 DEF GetUpdateHandler, UpdateUpdateHandler, Set, SendNotification, Remove, GetAll,
           Fail, posting
      <3>2. pc'[r] \in {"read", "notify", "answered"}
        BY <2>7 DEF GetUpdateHandler, UpdateUpdateHandler, Set, SendNotification, Remove, GetAll,
           Fail, Goto, Answer, CallsTyped
      <3> QED
        BY <2>1, <3>1, <3>2 DEF PostTyped
    <2> QED
      BY <2>3, <2>4, <2>5, <2>6, <2>7
  <1> QED
    BY <1>0, <1>1, <1>3, <1>4 DEF StoresTyped

LEMMA TypeStep == TypeInv /\ [Next]_vars => TypeInv'
  <1> SUFFICES ASSUME TypeInv, [Next]_vars PROVE TypeInv'
    OBVIOUS
  <1>1. ASSUME NEW i \in Instances, Remember(i) PROVE TypeInv'
    BY <1>1, BroadcastsAssumption
    DEF Remember, TypeInv, StoresTyped, CallsTyped, MailTyped, PostTyped, Aimed, mailing, posting
  <1>2. CASE UNCHANGED vars
    BY <1>2 DEF vars, world, mailing, posting, TypeInv, StoresTyped, CallsTyped, MailTyped,
       PostTyped, Aimed
  <1> QED
    BY <1>1, <1>2, MailingTyped, PostingTyped DEF Next, Start, Proceed, AllServed

\* Everything that is recorded, announced or remembered stays within its type, for
\* whatever recipients and interleavings.
THEOREM TypeCorrect == Spec => []TypeOK
  <1>1. TypeInv => TypeOK
    BY DEF TypeInv, StoresTyped, CallsTyped, MailTyped, PostTyped, TypeOK, MoreStages
  <1> QED
    BY <1>1, TypeInit, TypeStep, PTL DEF Spec

=============================================================================
