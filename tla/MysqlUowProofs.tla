--------------------------- MODULE MysqlUowProofs ---------------------------
(***************************************************************************)
(* Proofs about MysqlUow, for any number of calls, connections and texts.  *)
(* The pool, the answers and the log come first, in which the query cache  *)
(* takes no part; then the cache, and what reads find in it.               *)
(***************************************************************************)
EXTENDS MysqlUow, SequenceTheorems, TLAPS

Holding == {"connected", "begun", "executed", "failing", "committing"}

Stages == Holding \cup {"idle", "waiting", "ended"}

PoolType ==
  /\ pending \in [Slots -> Queries \cup {Nobody}]
  /\ slot \in [Queries -> Slots \cup {NoSlot}]
  /\ queue \in Seq(Queries)
  /\ pc \in [Queries -> Stages]
  /\ text \in [Queries -> Texts]

\* A query holds a connection in the stages in which it uses one, and no
\* connection has two holders.
HoldersInv ==
  /\ \A q \in Queries : pc[q] \in Holding <=> slot[q] # NoSlot
  /\ \A q, r \in Queries : slot[q] = slot[r] /\ slot[q] # NoSlot => q = r

\* Whoever waits, waits once.
QueueInv ==
  /\ \A i \in 1..Len(queue) : pc[queue[i]] = "waiting"
  /\ \A i, j \in 1..Len(queue) : queue[i] = queue[j] => i = j

\* An open transaction belongs to the write that holds its connection.
PendingInv ==
  \A c \in Slots : pending[c] # Nobody =>
     /\ slot[pending[c]] = c
     /\ IsWrite(pending[c])
     /\ pc[pending[c]] \in {"executed", "failing", "committing"}

PoolInv == PoolType /\ HoldersInv /\ QueueInv /\ PendingInv

-----------------------------------------------------------------------------
\* To begin with nobody holds or waits.
LEMMA InitPool == Init => PoolInv
  BY PoolAssumption
  DEF Init, PoolInv, PoolType, HoldersInv, QueueInv, PendingInv, Stages, Holding, Texts

\* The stage of one query changes, and with it the connection it holds.
LEMMA StepPool == PoolInv /\ [Next]_vars => PoolInv'
<1> SUFFICES ASSUME PoolInv, [Next]_vars PROVE PoolInv'
  OBVIOUS
<1> USE PoolAssumption DEF PoolInv, Stages, Holding
<1>1. ASSUME NEW q \in Queries, NEW t \in Texts, NEW cache \in BOOLEAN, Call(q, t, cache)
      PROVE  PoolInv'
  <2>1. PoolType'
    BY <1>1 DEF Call, Goto, PoolType, serverVars
  <2>2. HoldersInv'
    BY <1>1 DEF Call, Goto, PoolType, HoldersInv
  <2>3. QueueInv'
    BY <1>1 DEF Call, Goto, PoolType, QueueInv
  <2>4. PendingInv'
    BY <1>1 DEF Call, Goto, PoolType, PendingInv, IsWrite, serverVars
  <2> QED  BY <2>1, <2>2, <2>3, <2>4
<1>2. CASE GetConnection
  <2>1. Head(queue) \in Queries /\ pc[Head(queue)] = "waiting" /\ queue # <<>>
    BY <1>2 DEF GetConnection, PoolType, QueueInv
  <2>2. /\ queue' = Tail(queue) /\ UNCHANGED <<serverVars, text>>
        /\ \/ /\ pc' = [pc EXCEPT ![Head(queue)] = "ended"] /\ UNCHANGED slot
           \/ /\ pc' = [pc EXCEPT ![Head(queue)] = "connected"]
              /\ \E c \in Slots : /\ \A q \in Queries : slot[q] # c
                                  /\ slot' = [slot EXCEPT ![Head(queue)] = c]
    BY <1>2 DEF GetConnection, Goto, IsFree, callVars
  <2>3. PoolType'
    <3>1. pc' \in [Queries -> Stages]
      BY <2>1, <2>2 DEF PoolType
    <3>2. slot' \in [Queries -> Slots \cup {NoSlot}]
      BY <2>1, <2>2 DEF PoolType
    <3>3. queue' \in Seq(Queries)
      BY <2>1, <2>2 DEF PoolType
    <3> QED  BY <2>2, <3>1, <3>2, <3>3 DEF PoolType, serverVars
  <2>4. HoldersInv'
    BY <2>1, <2>2 DEF PoolType, HoldersInv
  <2>5. QueueInv'
    BY <2>1, <2>2 DEF PoolType, QueueInv
  <2>6. PendingInv'
    BY <2>1, <2>2 DEF PoolType, PendingInv, IsWrite, serverVars
  <2> QED  BY <2>3, <2>4, <2>5, <2>6
<1>3. ASSUME NEW q \in Queries, pc[q] \in Holding, NEW s \in Holding \cup {"ended"},
             pc' = [pc EXCEPT ![q] = s], UNCHANGED <<queue, text>>,
             slot' = IF s = "ended" THEN [slot EXCEPT ![q] = NoSlot] ELSE slot,
             \/ /\ pending' = [pending EXCEPT ![slot[q]] = Nobody]
                /\ s \in {"begun", "ended"}
             \/ /\ UNCHANGED pending
                /\ \/ pc[q] \in {"connected", "begun"}
                   \/ pc[q] = "executed" /\ s = "committing"
             \/ /\ pending' = [pending EXCEPT ![slot[q]] = q] /\ IsWrite(q)
                /\ s \in {"executed", "failing"}
      PROVE  PoolInv'
  <2>1. slot[q] \in Slots
    BY <1>3 DEF PoolType, HoldersInv
  <2>2. PoolType'
    BY <1>3, <2>1 DEF PoolType
  <2>3. HoldersInv'
    BY <1>3 DEF PoolType, HoldersInv
  <2>4. QueueInv'
    BY <1>3 DEF PoolType, QueueInv
  <2>5. PendingInv'
    BY <1>3, <2>1 DEF PoolType, PendingInv, HoldersInv, IsWrite
  <2> QED  BY <2>2, <2>3, <2>4, <2>5
<1>4. ASSUME NEW q \in Queries, Advance(q) \/ Fault(q) PROVE PoolInv'
  <2> USE DEF Goto, Release, callVars, serverVars
  <2>1. CASE CacheHit(q)
    BY <1>3, <2>1 DEF CacheHit
  <2>2. CASE BeginTransaction(q)
    BY <1>3, <2>2 DEF BeginTransaction, CommitOn
  <2>3. CASE Execute(q)
    BY <1>3, <2>3 DEF Execute
  <2>4. CASE Reject(q)
    BY <1>3, <2>4 DEF Reject, RollbackOn
  <2>5. CASE RejectEmpty(q) \/ Resolve(q)
    BY <1>3, <2>5 DEF RejectEmpty, Resolve
  <2>6. CASE Complete(q)
    BY <1>3, <2>6 DEF Complete, CommitOn
  <2>7. CASE ExecuteFails(q)
    BY <1>3, <2>7 DEF ExecuteFails
  <2>8. CASE ConnectionLost(q)
    BY <1>3, <2>8 DEF ConnectionLost
  <2> QED  BY <1>4, <2>1, <2>2, <2>3, <2>4, <2>5, <2>6, <2>7, <2>8 DEF Advance, Fault
<1>5. CASE UNCHANGED vars
  BY <1>5 DEF vars, serverVars, callVars, PoolType, HoldersInv, QueueInv, PendingInv, IsWrite
<1> QED  BY <1>1, <1>2, <1>4, <1>5 DEF Next, NoMoreCalls

\* However calls end, a connection that is back in the pool has no transaction
\* open, and none is held twice.
THEOREM CleanPool == Spec => []NoOpenTransactionInPool
<1>1. PoolInv => NoOpenTransactionInPool
  BY DEF PoolInv, HoldersInv, PendingInv, NoOpenTransactionInPool
<1> QED  BY <1>1, InitPool, StepPool, PTL DEF Spec

-----------------------------------------------------------------------------
(***************************************************************************)
(* The abstract unit of work.                                              *)
(***************************************************************************)

\* A query is answered when its COMMIT is sent or it ends; it has an effect only
\* after it ended, answered with a result.
AnswerInv ==
  /\ committed \in Seq(Queries)
  /\ answer \in [Queries -> {"none", "value", "notFound", "error"}]
  /\ \A q \in Queries : answer[q] = "none" <=> pc[q] \notin {"committing", "ended"}
  /\ \A q \in Queries : pc[q] = "committing" /\ IsWrite(q) => answer[q] = "value"
  /\ \A q \in Queries : Promise!HasEffect(q) => pc[q] = "ended" /\ answer[q] = "value"

\* The transaction that BEGIN or COMMIT finds on q's connection is q's own.
LEMMA OwnTransaction ==
  ASSUME PoolInv, NEW q \in Queries, pc[q] \in Holding
  PROVE  /\ slot[q] \in Slots
         /\ pending[slot[q]] \in {q, Nobody}
         /\ pc[q] \in {"connected", "begun"} => pending[slot[q]] = Nobody
         /\ pending[slot[q]] = q => IsWrite(q)
  BY PoolAssumption DEF PoolInv, PoolType, HoldersInv, PendingInv, Holding

\* No query is answered, sends COMMIT or is committed.
NobodyEnds ==
  /\ UNCHANGED <<committed, answer>>
  /\ \A q \in Queries :
        /\ pc[q] \in {"committing", "ended"} <=> pc'[q] \in {"committing", "ended"}
        /\ pc'[q] = "committing" => pc[q] = "committing" /\ text'[q] = text[q]
        /\ pc[q] = "ended" => pc'[q] = "ended"

\* One is answered.
Answers(q, a) ==
  /\ pc[q] \notin {"committing", "ended"}
  /\ answer' = [answer EXCEPT ![q] = a] /\ UNCHANGED <<committed, text>>
  /\ pc' = [pc EXCEPT ![q] = "ended"] \/ pc' = [pc EXCEPT ![q] = "committing"]
  /\ pc'[q] = "committing" /\ IsWrite(q) => a = "value"

\* A write is committed.
Commits(q) ==
  /\ pc[q] = "committing" /\ IsWrite(q) /\ UNCHANGED <<answer, text>>
  /\ committed' = Append(committed, q) /\ pc' = [pc EXCEPT ![q] = "ended"]

\* What a step does to the log and to the answers.
LEMMA AnswerStep ==
  ASSUME PoolInv, AnswerInv, [Next]_vars
  PROVE  \/ NobodyEnds
         \/ \E q \in Queries, a \in {"value", "notFound", "error"} : Answers(q, a)
         \/ \E q \in Queries : Commits(q)
<1> DEFINE Ends == \E q \in Queries, a \in {"value", "notFound", "error"} : Answers(q, a)
<1> USE PoolAssumption
<1>1. ASSUME NEW q \in Queries, NEW t \in Texts, NEW cache \in BOOLEAN, Call(q, t, cache)
      PROVE  NobodyEnds
  BY <1>1 DEF NobodyEnds, Call, Goto, serverVars, PoolInv, PoolType
<1>2. ASSUME GetConnection PROVE NobodyEnds \/ Ends
  <2>1. Head(queue) \in Queries /\ pc[Head(queue)] = "waiting"
    BY <1>2 DEF GetConnection, PoolInv, PoolType, QueueInv
  <2> QED  BY <1>2, <2>1 DEF NobodyEnds, Answers, GetConnection, Goto, Tell, serverVars, callVars, PoolInv, PoolType
<1>3. ASSUME NEW q \in Queries,
             \/ CacheHit(q) \/ Reject(q) \/ RejectEmpty(q) \/ Resolve(q)
             \/ ConnectionLost(q) /\ pc[q] # "committing"
      PROVE  Ends
  BY <1>3 DEF Answers, CacheHit, Reject, RejectEmpty, Resolve, ConnectionLost, Goto, Tell,
              RollbackOn, serverVars, callVars, PoolInv, PoolType
<1>4. ASSUME NEW q \in Queries,
             \/ BeginTransaction(q) \/ Execute(q) \/ ExecuteFails(q)
             \/ ConnectionLost(q) /\ pc[q] = "committing"
      PROVE  NobodyEnds
  BY <1>4, OwnTransaction
  DEF NobodyEnds, BeginTransaction, Execute, ExecuteFails, ConnectionLost, CommitOn, Goto, serverVars,
      callVars, Holding, PoolInv, PoolType
<1>5. ASSUME NEW q \in Queries, Complete(q) PROVE NobodyEnds \/ Commits(q)
  BY <1>5, OwnTransaction
  DEF NobodyEnds, Commits, Complete, CommitOn, Goto, callVars, Holding, PoolInv, PoolType
<1>6. ASSUME UNCHANGED vars PROVE NobodyEnds
  BY <1>6 DEF NobodyEnds, vars, serverVars, callVars
<1>7. NobodyEnds \/ Ends \/ \E q \in Queries : Commits(q)
  <2>1. ASSUME NEW q \in Queries, Advance(q) \/ Fault(q)
        PROVE  NobodyEnds \/ Ends \/ \E p \in Queries : Commits(p)
    BY <2>1, <1>3, <1>4, <1>5 DEF Advance, Fault
  <2>2. CASE NoMoreCalls
    BY <2>2, <1>6 DEF NoMoreCalls
  <2> QED  BY <2>1, <2>2, <1>1, <1>2, <1>6 DEF Next
<1> QED  BY <1>7

\* To begin with nothing is committed or answered.
LEMMA InitAnswer == Init => AnswerInv
  BY DEF Init, AnswerInv, Promise!HasEffect

\* The answers and the log move together with the stages.
LEMMA StepAnswer == PoolInv /\ AnswerInv /\ [Next]_vars => AnswerInv'
<1> SUFFICES ASSUME PoolInv, AnswerInv, [Next]_vars PROVE AnswerInv'
  OBVIOUS
<1>1. ASSUME NEW q \in Queries, NEW a \in {"value", "notFound", "error"}, Answers(q, a)
      PROVE  AnswerInv'
  BY <1>1 DEF Answers, AnswerInv, PoolInv, PoolType, IsWrite, Promise!HasEffect
<1>2. ASSUME NEW q \in Queries, Commits(q)
      PROVE  AnswerInv'
  <2>1. committed' \in Seq(Queries)
    BY <1>2 DEF Commits, AnswerInv
  <2>2. \A r \in Queries : Promise!HasEffect(r)' => r = q \/ Promise!HasEffect(r)
    BY <1>2 DEF Commits, AnswerInv, Promise!HasEffect
  <2> QED
    BY <1>2, <2>1, <2>2 DEF Commits, AnswerInv, PoolInv, PoolType, IsWrite
<1>3. CASE NobodyEnds
  BY <1>3 DEF NobodyEnds, AnswerInv, Promise!HasEffect, IsWrite
<1> QED  BY <1>1, <1>2, <1>3, AnswerStep

\* A step of the implementation is a step of the abstract unit of work.
LEMMA UnitOfWorkStep ==
  ASSUME PoolInv, AnswerInv, [Next]_vars
  PROVE  [Promise!Next]_<<committed, answer>>
<1>1. ASSUME NEW q \in Queries, NEW a \in {"value", "notFound", "error"}, Answers(q, a)
      PROVE  Promise!Next
  <2>1. answer[q] = "none" /\ ~Promise!HasEffect(q)
    BY <1>1 DEF Answers, AnswerInv
  <2>2. Promise!Answer(q, a)
    BY <1>1, <2>1 DEF Answers, Promise!Answer
  <2> QED  BY <2>2 DEF Promise!Next, Promise!Rejections
<1>2. ASSUME NEW q \in Queries, Commits(q)
      PROVE  Promise!Next
  <2>1. answer[q] = "value" /\ ~Promise!HasEffect(q)
    BY <1>2 DEF Commits, AnswerInv
  <2>2. Promise!TakeEffect(q)
    BY <1>2, <2>1 DEF Commits, Promise!TakeEffect, Promise!Rejections
  <2> QED  BY <2>2 DEF Promise!Next
<1> QED  BY <1>1, <1>2, AnswerStep DEF NobodyEnds

\* A call of query() takes effect at most once and as a whole, and one that is
\* rejected never does, whatever fails and however calls share connections.
THEOREM Refinement == Spec => ImplementsUnitOfWork
<1>1. Init => Promise!Init
  BY DEF Init, Promise!Init
<1>2. PoolInv /\ AnswerInv /\ [Next]_vars => PoolInv' /\ AnswerInv'
  BY StepPool, StepAnswer
<1> QED
  BY <1>1, <1>2, InitPool, InitAnswer, UnitOfWorkStep, PTL
  DEF Spec, ImplementsUnitOfWork, Promise!Spec

-----------------------------------------------------------------------------
(***************************************************************************)
(* The query cache: a map is told by the set of its entries, which has one *)
(* entry for each key.                                                     *)
(***************************************************************************)
Entry == [key : Texts, value : Nat]

Entries(c) == {c[i] : i \in DOMAIN c}

Distinct(c) == \A i, j \in DOMAIN c : c[i].key = c[j].key => i = j

Map(c) == c \in Seq(Entry) /\ Distinct(c)

\* An entry says what the map holds of its key.
LEMMA ValueOfEntry ==
  ASSUME NEW c, Map(c), NEW e \in Entries(c)
  PROVE  HasKey(c, e.key) /\ ValueOf(c, e.key) = e.value
<1>1. PICK i \in DOMAIN c : c[i] = e
  BY DEF Entries
<1>2. PlaceOf(c, e.key) \in DOMAIN c /\ c[PlaceOf(c, e.key)].key = e.key
  BY <1>1 DEF PlaceOf
<1>3. PlaceOf(c, e.key) = i
  BY <1>1, <1>2 DEF Map, Distinct
<1> QED  BY <1>1, <1>3 DEF HasKey, ValueOf

\* A key that the map holds has a place and an entry.
LEMMA EntryOfKey ==
  ASSUME NEW c, Map(c), NEW k, HasKey(c, k)
  PROVE  /\ PlaceOf(c, k) \in 1 .. Len(c)
         /\ c[PlaceOf(c, k)].key = k
         /\ [key |-> k, value |-> ValueOf(c, k)] \in Entries(c)
         /\ k \in Texts /\ ValueOf(c, k) \in Nat
<1>1. PlaceOf(c, k) \in DOMAIN c /\ c[PlaceOf(c, k)].key = k
  BY DEF HasKey, PlaceOf
<1>2. c[PlaceOf(c, k)] \in Entry /\ DOMAIN c = 1 .. Len(c)
  BY <1>1 DEF Map
<1> QED  BY <1>1, <1>2 DEF ValueOf, Entry, Entries

\* Map.set leaves the other keys alone.
LEMMA MapSetEntries ==
  ASSUME NEW c, Map(c), NEW k \in Texts, NEW v \in Nat
  PROVE  /\ Map(MapSet(c, k, v))
         /\ Entries(MapSet(c, k, v)) = {e \in Entries(c) : e.key # k} \cup {[key |-> k, value |-> v]}
         /\ Len(MapSet(c, k, v)) = IF HasKey(c, k) THEN Len(c) ELSE Len(c) + 1
<1> DEFINE new == [key |-> k, value |-> v]
           d   == MapSet(c, k, v)
<1>1. new \in Entry /\ DOMAIN c = 1 .. Len(c) /\ Len(c) \in Nat
  BY DEF Entry, Map
<1>2. CASE HasKey(c, k)
  <2>1. d = [i \in 1 .. Len(c) |-> IF c[i].key = k THEN new ELSE c[i]]
    BY <1>1, <1>2 DEF MapSet
  <2>2. \A i \in 1 .. Len(c) : c[i] \in Entry
    BY DEF Map
  <2>3. d \in Seq(Entry) /\ Len(d) = Len(c) /\ DOMAIN d = 1 .. Len(c)
    BY <1>1, <2>1, <2>2
  <2>4. \A i \in 1 .. Len(c) : d[i].key = c[i].key
    BY <2>1, <2>2 DEF Entry
  <2>5. Distinct(d)
    BY <1>1, <2>3, <2>4 DEF Distinct, Map
  <2>6. PICK p \in 1 .. Len(c) : c[p].key = k
    BY <1>1, <1>2 DEF HasKey
  <2>7. d[p] = new
    BY <2>1, <2>6
  <2>8. Entries(d) = {e \in Entries(c) : e.key # k} \cup {new}
    BY <1>1, <2>1, <2>3, <2>6, <2>7 DEF Entries
  <2> QED  BY <1>2, <2>3, <2>5, <2>8 DEF Map
<1>3. CASE ~HasKey(c, k)
  <2>1. d = Append(c, new)
    BY <1>3 DEF MapSet
  <2>2. d \in Seq(Entry) /\ Len(d) = Len(c) + 1 /\ DOMAIN d = 1 .. Len(c) + 1
    BY <1>1, <2>1 DEF Map
  <2>3. d[Len(c) + 1] = new /\ \A i \in 1 .. Len(c) : d[i] = c[i]
    BY <1>1, <2>1 DEF Map
  <2>4. \A i \in 1 .. Len(c) : c[i].key # k
    BY <1>1, <1>3 DEF HasKey
  <2>5. Distinct(d)
    BY <1>1, <2>2, <2>3, <2>4 DEF Distinct, Map
  <2>6. \A e \in Entries(c) : e.key # k
    BY <1>1, <2>4 DEF Entries
  <2>7. Entries(d) = Entries(c) \cup {new}
    <3>1. ASSUME NEW e \in Entries(d) PROVE e \in Entries(c) \cup {new}
      BY <1>1, <2>2, <2>3, <3>1 DEF Entries
    <3>2. ASSUME NEW e \in Entries(c) PROVE e \in Entries(d)
      BY <1>1, <2>2, <2>3, <3>2 DEF Entries
    <3>3. new \in Entries(d)
      BY <1>1, <2>2, <2>3 DEF Entries
    <3> QED  BY <3>1, <3>2, <3>3
  <2> QED  BY <1>3, <2>2, <2>5, <2>6, <2>7 DEF Map
<1> QED  BY <1>2, <1>3

\* The sequence that is left when the entry in one place is taken out.
LEMMA WithoutEntries ==
  ASSUME NEW c, Map(c), NEW k, HasKey(c, k)
  PROVE  /\ Map(Without(c, k))
         /\ Entries(Without(c, k)) = {e \in Entries(c) : e.key # k}
         /\ Len(Without(c, k)) = Len(c) - 1
<1> DEFINE p == PlaceOf(c, k)
           n == Len(c)
           d == Without(c, k)
<1>1. p \in 1 .. n /\ c[p].key = k /\ n \in Nat /\ DOMAIN c = 1 .. n
  <2>1. p \in 1 .. n /\ c[p].key = k
    BY EntryOfKey
  <2>2. n \in Nat /\ DOMAIN c = 1 .. n
    BY DEF Map
  <2> QED  BY <2>1, <2>2
<1>2. \A i \in 1 .. n : c[i] \in Entry /\ (c[i].key = k => i = p)
  BY <1>1 DEF Map, Distinct
<1> DEFINE a == SubSeq(c, 1, p - 1)
           b == SubSeq(c, p + 1, n)
<1>3. /\ a \in Seq(Entry) /\ Len(a) = p - 1
      /\ \A i \in 1 .. p - 1 : a[i] = c[i]
  BY <1>1, <1>2
<1>4. /\ b \in Seq(Entry) /\ Len(b) = n - p
      /\ \A i \in 1 .. n - p : b[i] = c[p + i]
  <2>1. \A i \in p + 1 .. n : c[i] \in Entry
    BY <1>1, <1>2
  <2>2. p + 1 \in Int /\ n \in Int /\ n - (p + 1) + 1 = n - p
    BY <1>1
  <2>3. /\ b \in Seq(Entry) /\ Len(b) = IF p + 1 <= n THEN n - (p + 1) + 1 ELSE 0
        /\ \A i \in 1 .. n - (p + 1) + 1 : b[i] = c[(p + 1) + i - 1]
    BY <2>1, <2>2, SubSeqProperties
  <2>4. \A i \in 1 .. n - p : (p + 1) + i - 1 = p + i
    BY <1>1
  <2> QED  BY <1>1, <2>2, <2>3, <2>4
<1>0. d = a \o b
  BY DEF Without
<1> HIDE DEF a, b, p, n, d
<1>5. d \in Seq(Entry) /\ Len(d) = n - 1
  <2>1. a \o b \in Seq(Entry) /\ Len(a \o b) = Len(a) + Len(b)
    BY <1>3, <1>4, ConcatProperties
  <2> QED  BY <1>0, <1>1, <1>3, <1>4, <2>1
<1>6. \A i \in 1 .. n - 1 : d[i] = IF i < p THEN c[i] ELSE c[i + 1]
  BY <1>0, <1>1, <1>3, <1>4
<1>7. DOMAIN d = 1 .. n - 1
  BY <1>5
<1>8. Distinct(d)
  <2> SUFFICES ASSUME NEW i \in 1 .. n - 1, NEW j \in 1 .. n - 1, d[i].key = d[j].key
               PROVE  i = j
    BY <1>7 DEF Distinct
  <2>1. \A x, y \in 1 .. n : c[x].key = c[y].key => x = y
    BY <1>1 DEF Map, Distinct
  <2> DEFINE At(m) == IF m < p THEN m ELSE m + 1
  <2>2. \A m \in 1 .. n - 1 : d[m] = c[At(m)] /\ At(m) \in 1 .. n
    <3>1. \A m \in 1 .. n - 1 : d[m] = c[At(m)]
      BY <1>6
    <3>2. \A m \in 1 .. n - 1 : At(m) \in 1 .. n
      BY <1>1
    <3> QED  BY <3>1, <3>2
  <2> HIDE DEF At
  <2>3. At(i) = At(j)
    BY <2>1, <2>2
  <2>4. i \in Int /\ j \in Int /\ p \in Int
    BY <1>1
  <2> QED  BY <2>3, <2>4 DEF At
<1>9. Entries(d) = {e \in Entries(c) : e.key # k}
  <2>1. ASSUME NEW i \in 1 .. n - 1 PROVE d[i] \in Entries(c) /\ d[i].key # k
    <3>1. PICK j \in 1 .. n : d[i] = c[j] /\ j # p
      BY <1>1, <1>6
    <3> QED  BY <1>1, <1>2, <3>1 DEF Entries
  <2>2. ASSUME NEW i \in 1 .. n, c[i].key # k PROVE \E j \in 1 .. n - 1 : d[j] = c[i]
    <3>1. CASE i < p
      BY <1>1, <1>6, <3>1
    <3>2. CASE i > p
      <4>1. i - 1 \in 1 .. n - 1 /\ ~(i - 1 < p) /\ (i - 1) + 1 = i
        BY <1>1, <3>2
      <4> QED  BY <1>6, <4>1
    <3> QED  BY <1>1, <2>2, <3>1, <3>2
  <2>3. ASSUME NEW e \in Entries(c), e.key # k PROVE e \in Entries(d)
    <3>1. PICK i \in 1 .. n : e = c[i]
      BY <1>1 DEF Entries
    <3>2. PICK j \in 1 .. n - 1 : d[j] = e
      BY <2>2, <2>3, <3>1
    <3> QED  BY <1>7, <3>2 DEF Entries
  <2>4. ASSUME NEW e \in Entries(d) PROVE e \in Entries(c) /\ e.key # k
    BY <1>7, <2>1 DEF Entries
  <2> QED  BY <2>3, <2>4
<1> QED  BY <1>5, <1>8, <1>9 DEF Map, n, d

\* get() moves an entry and changes none.
LEMMA AfterGetEntries ==
  ASSUME NEW c, Map(c), NEW k, HasKey(c, k)
  PROVE  /\ Map(AfterGet(c, k)) /\ Entries(AfterGet(c, k)) = Entries(c)
         /\ Len(AfterGet(c, k)) = Len(c)
<1> DEFINE v == ValueOf(c, k)
           d == Without(c, k)
<1>1. k \in Texts /\ v \in Nat /\ [key |-> k, value |-> v] \in Entries(c)
  BY EntryOfKey
<1>2. Map(d) /\ Entries(d) = {e \in Entries(c) : e.key # k} /\ Len(d) = Len(c) - 1
  BY WithoutEntries
<1>3. AfterGet(c, k) = MapSet(d, k, v)
  BY DEF AfterGet
<1>4. ~HasKey(d, k)
  <2>1. ASSUME HasKey(d, k) PROVE FALSE
    <3>1. [key |-> k, value |-> ValueOf(d, k)] \in Entries(d)
      BY <1>2, <2>1, EntryOfKey
    <3> QED  BY <1>2, <3>1
  <2> QED  BY <2>1
<1>5. Map(MapSet(d, k, v)) /\ Len(MapSet(d, k, v)) = Len(d) + 1
  BY <1>1, <1>2, <1>4, MapSetEntries
<1>6. Entries(MapSet(d, k, v)) = {e \in Entries(d) : e.key # k} \cup {[key |-> k, value |-> v]}
  BY <1>1, <1>2, MapSetEntries
<1>7. \A e \in Entries(c) : e.key = k => e = [key |-> k, value |-> v]
  <2> SUFFICES ASSUME NEW e \in Entries(c), e.key = k PROVE e = [key |-> k, value |-> v]
    OBVIOUS
  <2>1. e.value = v
    BY ValueOfEntry
  <2>2. e \in Entry
    BY DEF Entries, Map
  <2> QED  BY <2>1, <2>2 DEF Entry
<1>8. Len(c) \in Nat
  BY DEF Map
<1> QED  BY <1>1, <1>2, <1>3, <1>5, <1>6, <1>7, <1>8

\* set() may evict an entry and never another's value.
LEMMA AfterSetEntries ==
  ASSUME NEW c, Map(c), Len(c) <= Capacity, NEW k \in Texts, NEW v \in Nat
  PROVE  LET d == AfterSet(c, k, v)
         IN  /\ Map(d) /\ Len(d) <= Capacity
             /\ [key |-> k, value |-> v] \in Entries(d)
             /\ \A e \in Entries(d) : 
                  e = [key |-> k, value |-> v] \/ (e.key # k /\ e \in Entries(c))
<1> DEFINE b == IF Len(c) >= Capacity THEN Tail(c) ELSE c
           d == MapSet(b, k, v)
<1>1. Capacity \in Nat \ {0} /\ Len(c) \in Nat /\ DOMAIN c = 1 .. Len(c)
  BY CapacityAssumption DEF Map
<1>2. Map(b) /\ Entries(b) \subseteq Entries(c) /\ Len(b) + 1 <= Capacity
  <2>1. CASE Len(c) >= Capacity
    <3>1. c # <<>> /\ c \in Seq(Entry)
      BY <1>1, <2>1 DEF Map
    <3>2. /\ Tail(c) \in Seq(Entry) /\ Len(Tail(c)) = Len(c) - 1
          /\ \A i \in 1 .. Len(c) - 1 : Tail(c)[i] = c[i + 1]
      BY <3>1
    <3>3. DOMAIN Tail(c) = 1 .. Len(c) - 1
      BY <3>2
    <3>4. Distinct(Tail(c))
      BY <1>1, <3>2, <3>3 DEF Map, Distinct
    <3>5. Entries(Tail(c)) \subseteq Entries(c)
      BY <1>1, <3>2, <3>3 DEF Entries
    <3> QED  BY <1>1, <2>1, <3>2, <3>4, <3>5 DEF Map
  <2>2. CASE ~(Len(c) >= Capacity)
    BY <1>1, <2>2
  <2> QED  BY <2>1, <2>2
<1> HIDE DEF b
<1>3. Map(d) /\ Len(d) \in {Len(b), Len(b) + 1}
  BY <1>2, MapSetEntries
<1>4. Entries(d) = {e \in Entries(b) : e.key # k} \cup {[key |-> k, value |-> v]}
  BY <1>2, MapSetEntries
<1>5. Len(b) \in Nat
  BY <1>2 DEF Map
<1>6. AfterSet(c, k, v) = d
  BY DEF AfterSet, b
<1> HIDE DEF d
<1> QED  BY <1>1, <1>2, <1>3, <1>4, <1>5, <1>6

-----------------------------------------------------------------------------
(***************************************************************************)
(* What queries find in the cache and read from the table.                 *)
(***************************************************************************)

CacheInv ==
  /\ Map(entries) /\ Len(entries) <= Capacity
  /\ result \in [Queries -> Nat]
  /\ useCache \in [Queries -> BOOLEAN]
  /\ since \in [Queries -> Nat]

LEMMA InitCache == Init => CacheInv
<1> SUFFICES ASSUME Init PROVE CacheInv
  OBVIOUS
<1>1. Map(<<>>) /\ Len(<<>>) <= Capacity
  BY CapacityAssumption DEF Map, Distinct
<1> QED  BY <1>1 DEF Init, CacheInv

\* No query is answered with rows that go into the cache.
StoresNothing == \A q \in Queries : ~Stores(q)

\* How a step can change the cache: not at all, by a hit, or by a result.
LEMMA CacheStep ==
  ASSUME PoolInv, AnswerInv, [Next]_vars
  PROVE  \/ entries' = entries /\ StoresNothing
         \/ \E q \in Queries :
              /\ pc[q] = "connected" /\ useCache[q] /\ HasKey(entries, text[q])
              /\ entries' = AfterGet(entries, text[q]) /\ StoresNothing
              /\ result' = [result EXCEPT ![q] = ValueOf(entries, text[q])]
         \/ \E q \in Queries :
              /\ entries' = AfterSet(entries, text[q], result[q])
              /\ result' = result
              /\ Stores(q) /\ \A r \in Queries : Stores(r) => r = q
<1> DEFINE Hit(q) == /\ pc[q] = "connected" /\ useCache[q] /\ HasKey(entries, text[q])
                     /\ entries' = AfterGet(entries, text[q]) /\ StoresNothing
                     /\ result' = [result EXCEPT ![q] = ValueOf(entries, text[q])]
           Set(q) == /\ entries' = AfterSet(entries, text[q], result[q])
                     /\ result' = result
                     /\ Stores(q) /\ \A r \in Queries : Stores(r) => r = q
<1>0. pc \in [Queries -> Stages] /\ answer \in [Queries -> {"none", "value", "notFound", "error"}]
  BY DEF PoolInv, PoolType, AnswerInv
<1>1. ASSUME NEW q \in Queries, CacheHit(q) PROVE Hit(q)
  BY <1>0, <1>1 DEF CacheHit, Goto, Tell, StoresNothing, Stores
<1>2. ASSUME NEW q \in Queries, Resolve(q) PROVE Set(q)
  BY <1>0, <1>2 DEF Resolve, Goto, Tell, Stores
<1>3. ASSUME NEW q \in Queries, Advance(q) \/ Fault(q), ~CacheHit(q), ~Resolve(q)
      PROVE  entries' = entries /\ StoresNothing
  BY <1>0, <1>3
  DEF Advance, Fault, BeginTransaction, Execute, Reject, RejectEmpty, Complete, ExecuteFails,
      ConnectionLost, Goto, Tell, StoresNothing, Stores
<1>4. ASSUME NEW q \in Queries, NEW t \in Texts, NEW cache \in BOOLEAN, Call(q, t, cache)
      PROVE  entries' = entries /\ StoresNothing
  BY <1>0, <1>4 DEF Call, Goto, StoresNothing, Stores
<1>5. ASSUME GetConnection PROVE entries' = entries /\ StoresNothing
  <2>1. Head(queue) \in Queries
    BY <1>5 DEF GetConnection, PoolInv, PoolType
  <2> QED  BY <1>0, <1>5, <2>1 DEF GetConnection, Goto, StoresNothing, Stores
<1>6. ASSUME UNCHANGED vars PROVE entries' = entries /\ StoresNothing
  BY <1>6 DEF vars, StoresNothing, Stores
<1> HIDE DEF Hit, Set
<1>7. \/ entries' = entries /\ StoresNothing
      \/ \E q \in Queries : Hit(q)
      \/ \E q \in Queries : Set(q)
  <2>1. CASE \E q \in Queries : Advance(q) \/ Fault(q)
    BY <1>1, <1>2, <1>3, <2>1
  <2>2. CASE NoMoreCalls \/ UNCHANGED vars
    BY <1>6, <2>2 DEF NoMoreCalls
  <2> QED  BY <1>4, <1>5, <2>1, <2>2 DEF Next
<1> QED  BY <1>7 DEF Hit, Set

LEMMA StepCache == PoolInv /\ AnswerInv /\ CacheInv /\ [Next]_vars => CacheInv'
<1> SUFFICES ASSUME PoolInv, AnswerInv, CacheInv, [Next]_vars PROVE CacheInv'
  OBVIOUS
<1>1. Map(entries) /\ Len(entries) <= Capacity
  BY DEF CacheInv
<1>2. Map(entries') /\ Len(entries') <= Capacity
  <2>1. ASSUME NEW q \in Queries, HasKey(entries, text[q]), entries' = AfterGet(entries, text[q])
        PROVE  Map(entries') /\ Len(entries') <= Capacity
    BY <1>1, <2>1, AfterGetEntries
  <2>2. ASSUME NEW q \in Queries, entries' = AfterSet(entries, text[q], result[q])
        PROVE  Map(entries') /\ Len(entries') <= Capacity
    <3>1. text[q] \in Texts /\ result[q] \in Nat
      BY DEF PoolInv, PoolType, CacheInv
    <3> QED  BY <1>1, <2>2, <3>1, AfterSetEntries
  <2> QED  BY <1>1, <2>1, <2>2, CacheStep
<1>3. result' \in [Queries -> Nat]
  <2>1. CASE \E q \in Queries : CacheHit(q)
    <3>1. PICK q \in Queries : CacheHit(q)
      BY <2>1
    <3>2. HasKey(entries, text[q]) /\ result' = [result EXCEPT ![q] = ValueOf(entries, text[q])]
      BY <3>1 DEF CacheHit
    <3>3. ValueOf(entries, text[q]) \in Nat
      BY <1>1, <3>2, EntryOfKey
    <3> QED  BY <3>2, <3>3 DEF CacheInv
  <2>2. CASE \E q \in Queries : Execute(q)
    <3>1. PICK q \in Queries : Execute(q)
      BY <2>2
    <3>2. ReadAfter(text[q], Len(committed)) \in Nat
      BY DEF ReadAfter, AnswerInv
    <3> QED  BY <3>1, <3>2 DEF Execute, CacheInv
  <2>3. CASE ~\E q \in Queries : CacheHit(q) \/ Execute(q)
    <3>1. result' = result
      BY <2>3 DEF Next, Call, GetConnection, Advance, Fault, BeginTransaction, Reject, RejectEmpty,
                  Resolve, Complete, ExecuteFails, ConnectionLost, NoMoreCalls, vars
    <3> QED  BY <3>1 DEF CacheInv
  <2> QED  BY <2>1, <2>2, <2>3
<1>4. useCache' \in [Queries -> BOOLEAN] /\ since' \in [Queries -> Nat]
  <2>1. ASSUME NEW q \in Queries, NEW t \in Texts, NEW cache \in BOOLEAN, Call(q, t, cache)
        PROVE  useCache' \in [Queries -> BOOLEAN] /\ since' \in [Queries -> Nat]
    <3>1. Len(committed) \in Nat
      BY DEF AnswerInv
    <3> QED  BY <2>1, <3>1 DEF Call, CacheInv
  <2>2. CASE ~\E q \in Queries, t \in Texts, cache \in BOOLEAN : Call(q, t, cache)
    <3>1. UNCHANGED callVars
      BY <2>2 DEF Next, GetConnection, Advance, Fault, CacheHit, BeginTransaction, Execute, Reject,
                  RejectEmpty, Resolve, Complete, ExecuteFails, ConnectionLost, NoMoreCalls, vars
    <3> QED  BY <3>1 DEF CacheInv, callVars
  <2> QED  BY <2>1, <2>2
<1> QED  BY <1>2, <1>3, <1>4 DEF CacheInv

\* Every reachable state is well typed, and the cache never outgrows its capacity.
THEOREM TypeCorrect == Spec => []TypeOK
<1>1. PoolInv /\ AnswerInv /\ CacheInv => TypeOK
  BY DEF PoolInv, PoolType, Stages, Holding, AnswerInv, CacheInv, Map, Entry, TypeOK
<1> QED
  BY <1>1, InitPool, InitAnswer, InitCache, StepPool, StepAnswer, StepCache, PTL DEF Spec

\* The cache gives back what was stored last of each text, whatever it evicts and
\* whichever hits reorder it.  (MemCacheServiceImpl.get and set, called by query)
THEOREM LastSetIsServed == Spec => ServesLastSet
<1> DEFINE Served ==
      /\ \A i, j \in DOMAIN entries' : entries'[i].key = entries'[j].key => i = j
      /\ \A t \in Texts : HasKey(entries', t) =>
           \/ \E q \in Queries : Stores(q) /\ text[q] = t /\ ValueOf(entries', t) = result[q]
           \/ /\ HasKey(entries, t) /\ ValueOf(entries', t) = ValueOf(entries, t)
              /\ ~\E q \in Queries : Stores(q) /\ text[q] = t
      /\ \A q \in Queries : Stores(q) => HasKey(entries', text[q])
<1>1. ASSUME PoolInv, AnswerInv, CacheInv, [Next]_vars PROVE [Served]_vars
  <2>1. Map(entries) /\ Len(entries) <= Capacity /\ Map(entries')
    <3>1. CacheInv'
      BY <1>1, StepCache
    <3> QED  BY <1>1, <3>1 DEF CacheInv
  <2>2. Distinct(entries')
    BY <2>1 DEF Map
  <2>3. CASE entries' = entries /\ StoresNothing
    BY <2>2, <2>3 DEF StoresNothing, Distinct
  <2>4. ASSUME NEW q \in Queries, HasKey(entries, text[q]),
               entries' = AfterGet(entries, text[q]), StoresNothing
        PROVE  Served
    <3>1. Entries(entries') = Entries(entries)
      BY <2>1, <2>4, AfterGetEntries
    <3>2. ASSUME NEW t \in Texts, HasKey(entries', t)
          PROVE  HasKey(entries, t) /\ ValueOf(entries', t) = ValueOf(entries, t)
      <4>1. [key |-> t, value |-> ValueOf(entries', t)] \in Entries(entries)
        BY <2>1, <3>1, <3>2, EntryOfKey
      <4> QED  BY <2>1, <4>1, ValueOfEntry
    <3> QED  BY <2>2, <2>4, <3>2 DEF StoresNothing, Distinct
  <2>5. ASSUME NEW q \in Queries, entries' = AfterSet(entries, text[q], result[q]),
               Stores(q), \A r \in Queries : Stores(r) => r = q
        PROVE  Served
    <3> DEFINE new == [key |-> text[q], value |-> result[q]]
    <3>1. text[q] \in Texts /\ result[q] \in Nat
      BY <1>1 DEF PoolInv, PoolType, CacheInv
    <3>2. /\ new \in Entries(entries')
          /\ \A e \in Entries(entries') : e = new \/ (e.key # text[q] /\ e \in Entries(entries))
      BY <2>1, <2>5, <3>1, AfterSetEntries
    <3>3. HasKey(entries', text[q]) /\ ValueOf(entries', text[q]) = result[q]
      BY <2>1, <3>2, ValueOfEntry
    <3>4. ASSUME NEW t \in Texts, HasKey(entries', t), t # text[q]
          PROVE  HasKey(entries, t) /\ ValueOf(entries', t) = ValueOf(entries, t)
      <4>1. [key |-> t, value |-> ValueOf(entries', t)] \in Entries(entries')
        BY <2>1, <3>4, EntryOfKey
      <4>2. [key |-> t, value |-> ValueOf(entries', t)] \in Entries(entries)
        BY <3>2, <3>4, <4>1
      <4> QED  BY <2>1, <4>2, ValueOfEntry
    <3> QED  BY <2>2, <2>5, <3>3, <3>4 DEF Distinct
  <2> HIDE DEF Served
  <2> QED  BY <1>1, <2>3, <2>4, <2>5, CacheStep
<1>2. Spec => [][Served]_vars
  BY <1>1, InitPool, InitAnswer, InitCache, StepPool, StepAnswer, StepCache, PTL DEF Spec
<1> QED  BY <1>2 DEF ServesLastSet

-----------------------------------------------------------------------------
\* A read that is about to be answered from the table, or was, saw all that had been
\* committed when it was called.
FreshInv ==
  \A q \in Queries :
    /\ since[q] <= Len(committed)
    /\ pc[q] = "executed" \/ answer[q] = "value" =>
         IsWrite(q) \/ useCache[q] \/ result[q] >= ReadAfter(text[q], since[q])

LEMMA InitFresh == Init => FreshInv
  BY DEF Init, FreshInv

\* What a step does to the queries but q.
Others(q) ==
  \A r \in Queries \ {q} :
    /\ pc'[r] = pc[r] /\ answer'[r] = answer[r] /\ text'[r] = text[r]
    /\ useCache'[r] = useCache[r] /\ result'[r] = result[r] /\ since'[r] = since[r]

LEMMA StepFresh == PoolInv /\ AnswerInv /\ CacheInv /\ FreshInv /\ [Next]_vars => FreshInv'
<1> SUFFICES ASSUME PoolInv, AnswerInv, CacheInv, FreshInv, [Next]_vars PROVE FreshInv'
  OBVIOUS
<1> DEFINE Types == /\ pc \in [Queries -> Stages] /\ text \in [Queries -> Texts]
                    /\ answer \in [Queries -> {"none", "value", "notFound", "error"}]
                    /\ result \in [Queries -> Nat] /\ since \in [Queries -> Nat]
                    /\ useCache \in [Queries -> BOOLEAN]
<1>0. Types /\ Len(committed) \in Nat
  BY DEF PoolInv, PoolType, AnswerInv, CacheInv
<1>1. Len(committed') \in Nat /\ Len(committed) <= Len(committed')
  <2>1. committed' = committed \/ \E q \in Queries : committed' = Append(committed, q)
    BY AnswerStep DEF NobodyEnds, Answers, Commits
  <2> QED  BY <1>0, <2>1 DEF AnswerInv
<1>2. ASSUME NEW q \in Queries, Others(q), since'[q] <= Len(committed'),
             pc'[q] = "executed" \/ answer'[q] = "value" =>
               IsWrite(q)' \/ useCache'[q] \/ result'[q] >= ReadAfter(text'[q], since'[q])
      PROVE  FreshInv'
  <2> SUFFICES ASSUME NEW r \in Queries
               PROVE  /\ since'[r] <= Len(committed')
                      /\ pc'[r] = "executed" \/ answer'[r] = "value" =>
                           IsWrite(r)' \/ useCache'[r] \/ result'[r] >= ReadAfter(text'[r], since'[r])
    BY DEF FreshInv, IsWrite, ReadAfter
  <2>1. CASE r = q
    BY <1>2, <2>1
  <2>2. CASE r # q
    <3>1. /\ pc'[r] = pc[r] /\ answer'[r] = answer[r] /\ text'[r] = text[r]
          /\ useCache'[r] = useCache[r] /\ result'[r] = result[r] /\ since'[r] = since[r]
      BY <1>2, <2>2 DEF Others
    <3>2. since'[r] <= Len(committed')
      BY <1>0, <1>1, <3>1 DEF FreshInv
    <3> QED  BY <3>1, <3>2 DEF FreshInv, IsWrite
  <2> QED  BY <2>1, <2>2
<1>3. ASSUME NEW q \in Queries, NEW t \in Texts, NEW cache \in BOOLEAN, Call(q, t, cache)
      PROVE  FreshInv'
  <2>1. answer[q] = "none"
    BY <1>3 DEF Call, AnswerInv
  <2> QED  BY <1>0, <1>2, <1>3, <2>1 DEF Call, Goto, Others, serverVars
<1>4. ASSUME GetConnection PROVE FreshInv'
  <2>1. Head(queue) \in Queries /\ answer[Head(queue)] = "none"
    BY <1>4 DEF GetConnection, PoolInv, PoolType, QueueInv, AnswerInv
  <2>2. \/ pc' = [pc EXCEPT ![Head(queue)] = "connected"] /\ answer' = answer
        \/ /\ pc' = [pc EXCEPT ![Head(queue)] = "ended"]
           /\ answer' = [answer EXCEPT ![Head(queue)] = "error"]
    BY <1>4 DEF GetConnection, Goto, Tell
  <2>3. UNCHANGED <<committed, text, useCache, since, result>>
    BY <1>4 DEF GetConnection, serverVars, callVars
  <2>4. Others(Head(queue))
    BY <1>0, <2>1, <2>2, <2>3 DEF Others
  <2> QED  BY <1>0, <1>2, <2>1, <2>2, <2>3, <2>4 DEF FreshInv
<1>5. ASSUME NEW q \in Queries, Advance(q) \/ Fault(q) PROVE FreshInv'
  <2>1. Others(q) /\ UNCHANGED callVars
    BY <1>0, <1>5
    DEF Others, Advance, Fault, CacheHit, BeginTransaction, Execute, Reject, RejectEmpty, Resolve,
        Complete, ExecuteFails, ConnectionLost, Goto, Tell, callVars
  <2>2. since'[q] = since[q] /\ text'[q] = text[q] /\ useCache'[q] = useCache[q]
    BY <2>1 DEF callVars
  <2>3. since'[q] <= Len(committed')
    BY <1>0, <1>1, <2>2 DEF FreshInv
  <2>4. CASE Execute(q)
    <3>1. result'[q] = ReadAfter(text[q], Len(committed)) \/ IsWrite(q)
      BY <1>0, <2>4 DEF Execute
    <3>2. ReadAfter(text[q], Len(committed)) >= ReadAfter(text[q], since[q])
      BY <1>0 DEF ReadAfter, FreshInv
    <3> QED  BY <1>2, <2>1, <2>2, <2>3, <3>1, <3>2 DEF IsWrite
  <2>5. CASE CacheHit(q)
    BY <1>2, <2>1, <2>2, <2>3, <2>5 DEF CacheHit
  <2>6. CASE ~Execute(q) /\ ~CacheHit(q)
    <3>1. result' = result
      BY <1>5, <2>6
      DEF Advance, Fault, BeginTransaction, Reject, RejectEmpty, Resolve,
          Complete, ExecuteFails, ConnectionLost
    <3>2. pc'[q] # "executed" /\ (answer'[q] = "value" => pc[q] = "executed" \/ answer[q] = "value")
      BY <1>0, <1>5, <2>6
      DEF Advance, Fault, BeginTransaction, Reject, RejectEmpty, Resolve,
          Complete, ExecuteFails, ConnectionLost, Goto, Tell
    <3> QED  BY <1>2, <2>1, <2>2, <2>3, <3>1, <3>2 DEF FreshInv, IsWrite
  <2> QED  BY <2>4, <2>5, <2>6
<1>6. CASE UNCHANGED vars
  BY <1>6 DEF FreshInv, vars, callVars, serverVars, IsWrite
<1> QED  BY <1>3, <1>4, <1>5, <1>6 DEF Next, NoMoreCalls

\* A read that does not ask for the cache is answered with all that had been committed
\* when it was called, whatever the cache holds meanwhile.  (query, opts.cache)
THEOREM ReadsAreFresh == Spec => []FreshReads
<1>1. PoolInv /\ AnswerInv /\ CacheInv /\ FreshInv => FreshReads
  BY DEF FreshInv, FreshReads
<1> QED
  BY <1>1, InitPool, InitAnswer, InitCache, InitFresh, StepPool, StepAnswer, StepCache, StepFresh,
     PTL DEF Spec

=============================================================================
