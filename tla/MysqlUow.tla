------------------------------ MODULE MysqlUow ------------------------------
(***************************************************************************)
(* MysqlUow.query in one process: the pool of connections and its queue,   *)
(* the query cache, the transaction on the server, and an answer that does *)
(* not wait for COMMIT.                                                    *)
(*                                                                         *)
(* All queries are about one row: a write takes its lock until it commits  *)
(* or rolls back, a read returns how often the row was written (0: there   *)
(* is no such row yet).  Commands on one connection are processed in the   *)
(* order they were sent, so the ROLLBACK that query() does not wait for    *)
(* precedes whatever the next user of the connection sends.                *)
(***************************************************************************)
EXTENDS RecencyMap

CONSTANTS
  Queries,    \* one value per call of query()
  Reads,      \* the texts (with parameters) of the SELECTs
  Filled,     \* those of them that find the row to begin with
  WriteText,  \* the text of the write
  Slots,      \* connectionLimit places for connections
  NoSlot,
  Nobody      \* no query

ASSUME PoolAssumption ==
  /\ Slots # {}
  /\ NoSlot \notin Slots
  /\ Nobody \notin Queries
  /\ WriteText \notin Reads

VARIABLES
  committed,  \* the writes that took effect, in order
  pending,    \* per connection: the write of its open transaction
  slot,       \* the connection that a query holds
  queue,      \* queries waiting for a connection
  entries,    \* the query cache (RecencyMap)
  pc,         \* where query() stands
  text,       \* what is queried
  useCache,   \* opts.cache
  result,     \* the number that a read has read
  answer,     \* what the caller was told
  since       \* history: how many writes were committed when query() was called

serverVars == <<committed, pending>>
callVars   == <<text, useCache, since>>
vars == <<serverVars, slot, queue, entries, pc, callVars, result, answer>>

Texts == Reads \cup {WriteText}

IsWrite(q) == text[q] = WriteText

\* What a SELECT reads once n writes were committed.
ReadAfter(t, n) == IF t \in Filled THEN n + 1 ELSE n

TypeOK ==
  /\ committed \in Seq(Queries)
  /\ pending \in [Slots -> Queries \cup {Nobody}]
  /\ slot \in [Queries -> Slots \cup {NoSlot}]
  /\ queue \in Seq(Queries)
  /\ entries \in Seq([key : Texts, value : Nat])
  /\ Len(entries) <= Capacity
  /\ pc \in [Queries -> {"idle", "waiting", "connected", "begun",
                         "executed", "failing", "committing", "ended"}]
  /\ text \in [Queries -> Texts]
  /\ useCache \in [Queries -> BOOLEAN]
  /\ result \in [Queries -> Nat]
  /\ answer \in [Queries -> {"none", "value", "notFound", "error"}]
  /\ since \in [Queries -> Nat]

Init ==
  /\ committed = <<>>
  /\ pending = [c \in Slots |-> Nobody]
  /\ slot = [q \in Queries |-> NoSlot]
  /\ queue = <<>>
  /\ entries = <<>>
  /\ pc = [q \in Queries |-> "idle"]
  /\ text = [q \in Queries |-> WriteText]
  /\ useCache = [q \in Queries |-> FALSE]
  /\ result = [q \in Queries |-> 0]
  /\ answer = [q \in Queries |-> "none"]
  /\ since = [q \in Queries |-> 0]

Goto(q, stage) == pc' = [pc EXCEPT ![q] = stage]

Tell(q, what) == answer' = [answer EXCEPT ![q] = what]

Release(q) == slot' = [slot EXCEPT ![q] = NoSlot]

IsFree(c) == \A q \in Queries : slot[q] # c

\* The server commits what is open on connection c, or drops it.
CommitOn(c) ==
  /\ committed' = IF pending[c] = Nobody THEN committed
                  ELSE Append(committed, pending[c])
  /\ pending' = [pending EXCEPT ![c] = Nobody]

RollbackNotSent(c) == UNCHANGED serverVars   \* mutant
RollbackOn(c) ==
  /\ pending' = [pending EXCEPT ![c] = Nobody]
  /\ UNCHANGED committed

-----------------------------------------------------------------------------
\* query() is called: it asks the pool for a connection before all else, and
\* the pool serves its callers in order.  Writes never ask for the cache.
Call(q, t, cache) ==
  /\ pc[q] = "idle"
  /\ t = WriteText => ~cache
  /\ text' = [text EXCEPT ![q] = t]
  /\ useCache' = [useCache EXCEPT ![q] = cache]
  /\ since' = [since EXCEPT ![q] = Len(committed)]
  /\ queue' = Append(queue, q)
  /\ Goto(q, "waiting")
  /\ UNCHANGED <<serverVars, slot, entries, result, answer>>

GetConnection ==
  /\ queue # <<>>
  /\ \E c \in Slots :
        /\ IsFree(c)
        /\ \/ /\ slot' = [slot EXCEPT ![Head(queue)] = c]
              /\ Goto(Head(queue), "connected")
              /\ UNCHANGED answer
           \/ \* a new connection is refused
              /\ Goto(Head(queue), "ended")
              /\ Tell(Head(queue), "error")
              /\ UNCHANGED slot
  /\ queue' = Tail(queue)
  /\ UNCHANGED <<serverVars, entries, callVars, result>>

\* Mutants: the option is ignored; the connection is kept.
CheckCacheAlways(q) ==
  /\ pc[q] = "connected"
  /\ HasKey(entries, text[q])
  /\ entries' = AfterGet(entries, text[q])
  /\ result' = [result EXCEPT ![q] = ValueOf(entries, text[q])]
  /\ Release(q)
  /\ Goto(q, "ended")
  /\ Tell(q, "value")
  /\ UNCHANGED <<serverVars, queue, callVars>>
HitKeepsConnection(q) ==
  /\ pc[q] = "connected" /\ useCache[q]
  /\ HasKey(entries, text[q])
  /\ entries' = AfterGet(entries, text[q])
  /\ result' = [result EXCEPT ![q] = ValueOf(entries, text[q])]
  /\ Goto(q, "ended")
  /\ Tell(q, "value")
  /\ UNCHANGED <<serverVars, slot, queue, callVars>>

\* The cache holds the result: the connection is returned and not used.
CacheHit(q) ==
  /\ pc[q] = "connected" /\ useCache[q]
  /\ HasKey(entries, text[q])
  /\ entries' = AfterGet(entries, text[q])
  /\ result' = [result EXCEPT ![q] = ValueOf(entries, text[q])]
  /\ Release(q)
  /\ Goto(q, "ended")
  /\ Tell(q, "value")
  /\ UNCHANGED <<serverVars, queue, callVars>>

\* BEGIN, which commits what its connection had left open.
BeginTransaction(q) ==
  /\ pc[q] = "connected"
  /\ useCache[q] => ~HasKey(entries, text[q])
  /\ CommitOn(slot[q])
  /\ Goto(q, "begun")
  /\ UNCHANGED <<slot, queue, entries, callVars, result, answer>>

\* The statement succeeds on the server; a write waits for the row's lock.
Execute(q) ==
  /\ pc[q] = "begun"
  /\ IF IsWrite(q)
     THEN /\ \A c \in Slots : pending[c] = Nobody
          /\ pending' = [pending EXCEPT ![slot[q]] = q]
          /\ UNCHANGED <<committed, result>>
     ELSE /\ result' = [result EXCEPT ![q] = ReadAfter(text[q], Len(committed))]
          /\ UNCHANGED serverVars
  /\ Goto(q, "executed")
  /\ UNCHANGED <<slot, queue, entries, callVars, answer>>

\* It fails, perhaps after a part of it (a call may hold several statements) has
\* changed the row; the transaction stays open.
ExecuteFails(q) ==
  /\ pc[q] = "begun"
  /\ \/ UNCHANGED pending
     \/ /\ IsWrite(q)
        /\ \A c \in Slots : pending[c] = Nobody
        /\ pending' = [pending EXCEPT ![slot[q]] = q]
  /\ Goto(q, "failing")
  /\ UNCHANGED <<committed, slot, queue, entries, callVars, result, answer>>

\* `if (err)': ROLLBACK is sent, the connection returned, the caller told.
Reject(q) ==
  /\ pc[q] = "failing"
  /\ RollbackOn(slot[q])
  /\ Release(q)
  /\ Goto(q, "ended")
  /\ Tell(q, "error")
  /\ UNCHANGED <<queue, entries, callVars, result>>

\* No rows: COMMIT is sent and the caller told that there is no data.
RejectEmpty(q) ==
  /\ pc[q] = "executed"
  /\ ~IsWrite(q) /\ result[q] = 0
  /\ Goto(q, "committing")
  /\ Tell(q, "notFound")
  /\ UNCHANGED <<serverVars, slot, queue, entries, callVars, result>>

\* Rows, or the OkPacket of a write: it is cached whatever opts.cache says,
\* COMMIT is sent, and the caller has its answer before COMMIT is processed.
\* Mutant: the connection is returned at once.
ResolveAndRelease(q) ==
  /\ pc[q] = "executed"
  /\ IsWrite(q) \/ result[q] > 0
  /\ entries' = AfterSet(entries, text[q], result[q])
  /\ Release(q)
  /\ Goto(q, "ended")
  /\ Tell(q, "value")
  /\ UNCHANGED <<serverVars, queue, callVars, result>>
Resolve(q) ==
  /\ pc[q] = "executed"
  /\ IsWrite(q) \/ result[q] > 0
  /\ entries' = AfterSet(entries, text[q], result[q])
  /\ Goto(q, "committing")
  /\ Tell(q, "value")
  /\ UNCHANGED <<serverVars, slot, queue, callVars, result>>

\* complete(): COMMIT is processed and its callback returns the connection.
Complete(q) ==
  /\ pc[q] = "committing"
  /\ CommitOn(slot[q])
  /\ Release(q)
  /\ Goto(q, "ended")
  /\ UNCHANGED <<queue, entries, callVars, result, answer>>

\* The connection breaks, the server rolls back.  A query that is not answered
\* is rejected; the error of a COMMIT is ignored.
ConnectionLost(q) ==
  /\ pc[q] \in {"begun", "executed", "failing", "committing"}
  /\ pending' = [pending EXCEPT ![slot[q]] = Nobody]
  /\ Release(q)
  /\ Goto(q, "ended")
  /\ IF pc[q] = "committing" THEN UNCHANGED answer ELSE Tell(q, "error")
  /\ UNCHANGED <<committed, queue, entries, callVars, result>>

-----------------------------------------------------------------------------
\* The steps that query() and its connection take by themselves.
Advance(q) ==
  \/ CacheHit(q)
  \/ BeginTransaction(q)
  \/ Execute(q)
  \/ Reject(q)
  \/ RejectEmpty(q)
  \/ Resolve(q)
  \/ Complete(q)

Fault(q) == ExecuteFails(q) \/ ConnectionLost(q)

\* Every call that the instance allows has been made and has ended.
NoMoreCalls == (\A q \in Queries : pc[q] = "ended") /\ UNCHANGED vars

Next ==
  \/ \E q \in Queries, t \in Texts, cache \in BOOLEAN : Call(q, t, cache)
  \/ GetConnection
  \/ \E q \in Queries : Advance(q) \/ Fault(q)
  \/ NoMoreCalls

Spec == Init /\ [][Next]_vars

\* The pool hands out what is free and the server answers what it was sent.
FairSpec == Spec /\ WF_vars(GetConnection) /\ \A q \in Queries : WF_vars(Advance(q))

-----------------------------------------------------------------------------
\* A connection in the pool has no open transaction: the next caller's BEGIN
\* would commit a write whose own caller was told that it failed, or is holding
\* the row's lock.  Nor do two callers ever hold one connection.
NoOpenTransactionInPool ==
  /\ \A c \in Slots : pending[c] # Nobody => slot[pending[c]] = c
  /\ \A q, r \in Queries : slot[q] = slot[r] /\ slot[q] # NoSlot => q = r

\* `ignoreCache: force a fresh query': a read that does not ask for the cache
\* sees every write that was committed when it was called, whatever older
\* results other reads put in the cache meanwhile.
FreshReads ==
  \A q \in Queries :
     answer[q] = "value" /\ ~IsWrite(q) /\ ~useCache[q]
       => result[q] >= ReadAfter(text[q], since[q])

\* Every call ends, and returns its connection: a hit, an error and an empty
\* result too, or the pool runs dry and everybody waits.
CallsEnd == \A q \in Queries : pc[q] = "waiting" ~> pc[q] = "ended" /\ slot[q] = NoSlot

Stores(q) == pc[q] = "executed" /\ pc'[q] = "committing" /\ answer'[q] = "value"

\* The cache gives back what was stored last: whatever is evicted, or moved behind
\* the other entries by a hit, no entry turns into an older result of its query,
\* no key is held twice, and an eviction never costs the entry it made room for.
\* (MemCacheServiceImpl.get and set)
ServesLastSet ==
  [][/\ \A i, j \in DOMAIN entries' : entries'[i].key = entries'[j].key => i = j
     /\ \A t \in Texts : HasKey(entries', t) =>
          \/ \E q \in Queries : Stores(q) /\ text[q] = t /\ ValueOf(entries', t) = result[q]
          \/ /\ HasKey(entries, t) /\ ValueOf(entries', t) = ValueOf(entries, t)
             /\ ~\E q \in Queries : Stores(q) /\ text[q] = t
     /\ \A q \in Queries : Stores(q) => HasKey(entries', text[q])]_vars

(***************************************************************************)
(* What callers are promised: see UnitOfWork.                              *)
(***************************************************************************)
Promise == INSTANCE UnitOfWork

\* Whatever fails, a query is applied at most once and a rejected one never.
ImplementsUnitOfWork == Promise!Spec

=============================================================================
