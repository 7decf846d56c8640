---------------------------- MODULE OfflineSync -----------------------------
(***************************************************************************)
(* The offline sales queue of a POS terminal (frontend/src/offline/sync.ts *)
(* over IndexedDB) and the server's sync-batch endpoint as it sees it.     *)
(*                                                                         *)
(* Nothing serialises trySyncQueue and recoverLostSales: the sale store,   *)
(* the status hook, the service worker, the dashboard and every open tab   *)
(* call them.  Each call is a task; between two awaits other tasks run.    *)
(* A task keeps the rows it read and later writes them back whole (put).   *)
(***************************************************************************)
EXTENDS Integers, FiniteSets, Functions

CONSTANTS
  Sales,
  Inherited,        \* sales an earlier build may have left marked as synced
  Tasks,            \* concurrent calls of trySyncQueue or recoverLostSales
  ReplyForms,       \* what a 200 answer may be: "list" or "object"
  BatchSize,        \* SYNC_BATCH_SIZE
  MaxTries,         \* MAX_TRIES_BEFORE_ERROR
  MaxItems,         \* bound: queue rows ever added
  MaxRecoveries,    \* bound: calls of recoverLostSales
  MaxCloses         \* bound: tabs closed in the middle of a call

ASSUME OfflineSyncAssumption ==
  /\ IsFiniteSet(Sales)
  /\ Inherited \subseteq Sales
  /\ ReplyForms \subseteq {"list", "object"}
  /\ BatchSize \in Nat \ {0}
  /\ MaxTries \in Nat \ {0}
  /\ MaxItems \in Nat /\ MaxRecoveries \in Nat /\ MaxCloses \in Nat

VARIABLES
  local,       \* db.sales: "absent", or the row's synced flag
  queue,       \* db.sync_queue: id |-> row
  nextId,      \* its auto-increment key
  recorded,    \* ventas rows of the server per sale
  late,        \* sales of requests whose client is gone, not processed yet
  rejections,  \* server answers that refused each sale, counted up to MaxTries
  pc,          \* where each task is
  batch,       \* queue rows the task has read
  todo,        \* sales of its request that the server has not processed yet
  accepted,    \* sales of its request that the server has accepted
  seen,        \* sales a recovery has read as synced
  recoveries, closes

dbVars == <<local, queue, nextId>>
serverVars == <<recorded, late, rejections>>
taskVars == <<pc, batch, todo, accepted, seen>>
counters == <<recoveries, closes>>
vars == <<dbVars, serverVars, taskVars, counters>>

NoRows == [q \in {} |-> 0]

\* A row of sync_queue; ready says that nextAttemptAt has passed.
Row(s) == [sale |-> s, status |-> "pending", tries |-> 0, ready |-> TRUE]

Init ==
  /\ local \in [Sales -> {"absent", "synced"}]
  /\ \A s \in Sales \ Inherited : local[s] = "absent"
  /\ queue = NoRows
  /\ nextId = 1
  /\ recorded \in [Sales -> 0 .. 1]
  /\ \A s \in Sales : local[s] = "absent" => recorded[s] = 0
  /\ late = {}
  /\ rejections = [s \in Sales |-> 0]
  /\ pc = [t \in Tasks |-> "idle"]
  /\ batch = [t \in Tasks |-> NoRows]
  /\ todo = [t \in Tasks |-> {}]
  /\ accepted = [t \in Tasks |-> {}]
  /\ seen = [t \in Tasks |-> {}]
  /\ recoveries = 0
  /\ closes = 0

-----------------------------------------------------------------------------
(* Helpers *)

SalesOf(rows) == {rows[q].sale : q \in DOMAIN rows}

\* bulkDelete and put on the queue.
Without(rows, ids) == Restrict(rows, DOMAIN rows \ ids)
With(rows, new) == [q \in DOMAIN rows \cup DOMAIN new |-> IF q \in DOMAIN new THEN new[q] ELSE rows[q]]

\* slice(0, SYNC_BATCH_SIZE) of ids sorted by creation.
Oldest(ids) == {q \in ids : Cardinality({r \in ids : r < q}) < BatchSize}

\* batchBySaleId: of two rows of one sale the Map keeps the later.
Kept(rows) ==
  {q \in DOMAIN rows : \A r \in DOMAIN rows : rows[r].sale = rows[q].sale => r <= q}

\* Mutant: a row never gives up.
FailedForever(row) == [row EXCEPT !.tries = @ + 1, !.ready = FALSE]

\* A row after one more failed attempt.
Failed(row) ==
  [row EXCEPT !.tries = @ + 1, !.ready = FALSE,
              !.status = IF row.tries + 1 >= MaxTries THEN "error" ELSE "pending"]

Rejected(S) ==
  rejections' = [s \in Sales |-> IF s \in S /\ rejections[s] < MaxTries
                                 THEN rejections[s] + 1 ELSE rejections[s]]

\* The task returns.
End(t) ==
  /\ pc' = [pc EXCEPT ![t] = "idle"]
  /\ batch' = [batch EXCEPT ![t] = NoRows]
  /\ todo' = [todo EXCEPT ![t] = {}]
  /\ accepted' = [accepted EXCEPT ![t] = {}]
  /\ seen' = [seen EXCEPT ![t] = {}]

-----------------------------------------------------------------------------
(* enqueueSale *)

\* The sale row and its queue row, in one IndexedDB transaction.
EnqueueSale(s) ==
  /\ local[s] = "absent"
  /\ nextId <= MaxItems
  /\ local' = [local EXCEPT ![s] = "unsynced"]
  /\ queue' = With(queue, [q \in {nextId} |-> Row(s)])
  /\ nextId' = nextId + 1
  /\ UNCHANGED <<serverVars, taskVars, counters>>

\* The clock reaches a row's nextAttemptAt.
Due(q) ==
  /\ ~queue[q].ready
  /\ queue[q].status = "pending"
  /\ queue' = [queue EXCEPT ![q].ready = TRUE]
  /\ UNCHANGED <<local, nextId, serverVars, taskVars, counters>>

-----------------------------------------------------------------------------
(* trySyncQueue *)

\* A caller is ready for another pass: the timer of useSyncStatus, whose callback
\* schedules the next one when it returns, the `online' event, a confirmed sale.
AttemptSync(t) == pc[t] = "idle"

\* Rows pending and due, the oldest first; then the request leaves.
ReadBatch(t) ==
  /\ AttemptSync(t)
  /\ LET ready == {q \in DOMAIN queue : queue[q].status = "pending" /\ queue[q].ready}
     IN /\ ready # {}
        /\ batch' = [batch EXCEPT ![t] = Restrict(queue, Oldest(ready))]
  /\ todo' = [todo EXCEPT ![t] = SalesOf(batch'[t])]
  /\ pc' = [pc EXCEPT ![t] = "sent"]
  /\ UNCHANGED <<dbVars, serverVars, counters, accepted, seen>>

\* Mutant: no duplicate check and no unique index.
ServerProcessTwice(t, s) ==
  /\ pc[t] = "sent" /\ s \in todo[t]
  /\ todo' = [todo EXCEPT ![t] = @ \ {s}]
  /\ recorded' = [recorded EXCEPT ![s] = IF recorded[s] < 2 THEN recorded[s] + 1 ELSE 2]
  /\ accepted' = [accepted EXCEPT ![t] = @ \cup {s}]
  /\ UNCHANGED <<dbVars, late, rejections, counters, pc, batch, seen>>

\* SyncBatch goes through its sales one by one: a duplicate, a new row, or an
\* error of registrarVentaInternal (closed session, product gone, payments below
\* the server's total, database error).
ServerProcess(t, s) ==
  /\ pc[t] = "sent" /\ s \in todo[t]
  /\ todo' = [todo EXCEPT ![t] = @ \ {s}]
  /\ \/ /\ recorded[s] = 0
        /\ recorded' = [recorded EXCEPT ![s] = 1]
        /\ accepted' = [accepted EXCEPT ![t] = @ \cup {s}]
     \/ /\ recorded[s] > 0
        /\ accepted' = [accepted EXCEPT ![t] = @ \cup {s}]
        /\ UNCHANGED recorded
     \/ recorded[s] = 0 /\ UNCHANGED <<recorded, accepted>>
  /\ UNCHANGED <<dbVars, late, rejections, counters, pc, batch, seen>>

\* The same for a request whose client has lost the connection.
ServerProcessLate(s) ==
  /\ s \in late
  /\ late' = late \ {s}
  /\ recorded' \in {recorded, [recorded EXCEPT ![s] = 1]}
  /\ UNCHANGED <<dbVars, rejections, taskVars, counters>>

\* Mutant: a sale without a result of its own counts as accepted.
ApplyResultsAll(t) ==
  /\ pc[t] = "sent" /\ todo[t] = {}
  /\ "list" \in ReplyForms
  /\ LET ok == SalesOf(batch[t])
     IN /\ local' = [s \in Sales |-> IF s \in ok THEN "synced" ELSE local[s]]
        /\ queue' = Without(queue, Kept(batch[t]))
  /\ End(t)
  /\ UNCHANGED <<nextId, recorded, late, rejections, counters>>

\* A 200 answer with one result per sale, each with its offline_id.
ApplyResults(t) ==
  /\ pc[t] = "sent" /\ todo[t] = {}
  /\ "list" \in ReplyForms
  /\ LET ok == accepted[t]
         okRows == {q \in Kept(batch[t]) : batch[t][q].sale \in ok}
     IN /\ local' = [s \in Sales |-> IF s \in ok THEN "synced" ELSE local[s]]
        /\ queue' = With(Without(queue, okRows),
                         [q \in Kept(batch[t]) \ okRows |-> Failed(batch[t][q])])
        /\ Rejected(SalesOf(batch[t]) \ ok)
  /\ End(t)
  /\ UNCHANGED <<nextId, recorded, late, counters>>

\* The catch block of a server error: every row of the batch loses one try.
CatchServerError(t) ==
  /\ queue' = With(queue, [q \in DOMAIN batch[t] |-> Failed(batch[t][q])])
  /\ Rejected(SalesOf(batch[t]))
  /\ End(t)
  /\ UNCHANGED <<local, nextId, recorded, counters>>

\* Mutant: the catch block does not tell a lost connection from a server error.
CatchOfflineCounts(t) ==
  /\ queue' = With(queue, [q \in DOMAIN batch[t] |-> Failed(batch[t][q])])
  /\ End(t)
  /\ UNCHANGED <<local, nextId, recorded, rejections, counters>>

\* Mutant: a lost connection leaves the rows in error.
CatchOfflineStuck(t) ==
  /\ queue' = With(queue, [q \in DOMAIN batch[t] |-> [batch[t][q] EXCEPT !.status = "error"]])
  /\ End(t)
  /\ UNCHANGED <<local, nextId, recorded, rejections, counters>>

\* The catch block while offline: the rows wait MIN_BACKOFF_MS, no try is lost.
CatchOffline(t) ==
  /\ queue' = With(queue, [q \in DOMAIN batch[t] |-> [batch[t][q] EXCEPT !.ready = FALSE]])
  /\ End(t)
  /\ UNCHANGED <<local, nextId, recorded, rejections, counters>>

\* The 200 answer of dto.SyncBatchResponse is an object: results.filter throws.
ReplyObject(t) ==
  /\ pc[t] = "sent" /\ todo[t] = {}
  /\ "object" \in ReplyForms
  /\ CatchServerError(t)
  /\ UNCHANGED late

\* ... and navigator.onLine is false when the catch block asks.
ReplyObjectOffline(t) ==
  /\ pc[t] = "sent" /\ todo[t] = {}
  /\ "object" \in ReplyForms
  /\ CatchOffline(t)
  /\ UNCHANGED late

\* An error status: 401 or 4xx before any sale is processed, a 5xx at any point.
ReplyError(t) ==
  /\ pc[t] = "sent"
  /\ CatchServerError(t)
  /\ late' = late \cup todo[t]

\* The connection is lost before or after the server has done its work.
ConnectionLost(t) ==
  /\ pc[t] = "sent"
  /\ CatchOffline(t)
  /\ late' \in {late, late \cup todo[t]}

-----------------------------------------------------------------------------
(* recoverLostSales *)

\* The rows with status error.
ReadErrorItems(t) ==
  /\ pc[t] = "idle"
  /\ recoveries < MaxRecoveries
  /\ recoveries' = recoveries + 1
  /\ batch' = [batch EXCEPT ![t] =
       Restrict(queue, {q \in DOMAIN queue : queue[q].status = "error"})]
  /\ pc' = [pc EXCEPT ![t] = "purge"]
  /\ UNCHANGED <<dbVars, serverVars, todo, accepted, seen, closes>>

\* toReset goes back to pending, toPurge is deleted, in one transaction.
ResetOrPurge(t) ==
  /\ pc[t] = "purge"
  /\ LET toPurge == {q \in DOMAIN batch[t] : batch[t][q].tries >= MaxTries}
         toReset == DOMAIN batch[t] \ toPurge
     IN queue' = Without(With(queue, [q \in toReset |-> Row(batch[t][q].sale)]), toPurge)
  /\ batch' = [batch EXCEPT ![t] = NoRows]
  /\ pc' = [pc EXCEPT ![t] = "readSynced"]
  /\ UNCHANGED <<local, nextId, serverVars, todo, accepted, seen, counters>>

\* db.sales where synced = 1; with none the pass is over.
ReadSynced(t) ==
  /\ pc[t] = "readSynced"
  /\ LET synced == {s \in Sales : local[s] = "synced"}
     IN IF synced = {} THEN End(t)
        ELSE /\ seen' = [seen EXCEPT ![t] = synced]
             /\ pc' = [pc EXCEPT ![t] = "readQueue"]
             /\ UNCHANGED <<batch, todo, accepted>>
  /\ UNCHANGED <<dbVars, serverVars, counters>>

\* existingQueueSaleIds
ReadQueue(t) ==
  /\ pc[t] = "readQueue"
  /\ seen' = [seen EXCEPT ![t] = @ \ SalesOf(queue)]
  /\ pc' = [pc EXCEPT ![t] = "reenqueue"]
  /\ UNCHANGED <<dbVars, serverVars, batch, todo, accepted, counters>>

\* Every sale read as synced and without a row goes back, unsynced, to the queue.
Reenqueue(t) ==
  /\ pc[t] = "reenqueue"
  /\ nextId + Cardinality(seen[t]) <= MaxItems + 1
  /\ local' = [s \in Sales |-> IF s \in seen[t] THEN "unsynced" ELSE local[s]]
  /\ \E f \in Bijection(nextId .. nextId + Cardinality(seen[t]) - 1, seen[t]) :
       queue' = With(queue, [q \in DOMAIN f |-> Row(f[q])])
  /\ nextId' = nextId + Cardinality(seen[t])
  /\ End(t)
  /\ UNCHANGED <<serverVars, counters>>

-----------------------------------------------------------------------------
\* The tab is closed or reloaded in the middle of a call.
CloseTab(t) ==
  /\ pc[t] # "idle"
  /\ closes < MaxCloses
  /\ closes' = closes + 1
  /\ late' = late \cup todo[t]
  /\ End(t)
  /\ UNCHANGED <<dbVars, recorded, rejections, recoveries>>

Server(t) == \E s \in Sales : ServerProcess(t, s)
Reply(t) == ApplyResults(t) \/ ReplyObject(t)
Recover(t) == ResetOrPurge(t) \/ ReadSynced(t) \/ ReadQueue(t) \/ Reenqueue(t)

Next ==
  \/ \E s \in Sales : EnqueueSale(s) \/ ServerProcessLate(s)
  \/ \E q \in DOMAIN queue : Due(q)
  \/ \E t \in Tasks :
       \/ ReadBatch(t) \/ Server(t) \/ Reply(t) \/ ReplyObjectOffline(t) \/ ReplyError(t)
       \/ ConnectionLost(t)
       \/ ReadErrorItems(t) \/ Recover(t) \/ CloseTab(t)

Spec == Init /\ [][Next]_vars

(* useSyncStatus calls trySyncQueue on a timer for as long as a page is     *)
(* open, and no request stays open for ever (the client's timeout).  The    *)
(* network is a fair lossy channel: of the requests in which a task sends a *)
(* sale again and again, again and again one is answered.                   *)
Fairness ==
  /\ \A t \in Tasks :
       /\ WF_vars(ReadBatch(t)) /\ WF_vars(Recover(t)) /\ WF_vars(ConnectionLost(t))
       /\ \A s \in Sales :
            []<>(s \in SalesOf(batch[t]) /\ pc[t] = "sent")
            => []<><<s \in SalesOf(batch[t]) /\ Reply(t)>>_vars
  /\ \A q \in 1 .. MaxItems : WF_vars(q \in DOMAIN queue /\ Due(q))

FairSpec == Spec /\ Fairness

-----------------------------------------------------------------------------
Rows == [sale : Sales, status : {"pending", "error"}, tries : 0 .. MaxTries, ready : BOOLEAN]

(* Type invariant.  No row of the queue is without its sale, so the branch  *)
(* of trySyncQueue that removes orphans has nothing to do.                  *)
TypeOK ==
  /\ local \in [Sales -> {"absent", "unsynced", "synced"}]
  /\ nextId \in 1 .. MaxItems + 1
  /\ DOMAIN queue \subseteq 1 .. nextId - 1
  /\ \A q \in DOMAIN queue : queue[q] \in Rows /\ local[queue[q].sale] # "absent"
  /\ recorded \in [Sales -> 0 .. 2]
  /\ late \subseteq Sales
  /\ rejections \in [Sales -> 0 .. MaxTries]
  /\ pc \in [Tasks -> {"idle", "sent", "purge", "readSynced", "readQueue", "reenqueue"}]
  /\ \A t \in Tasks :
       /\ DOMAIN batch[t] \subseteq 1 .. nextId - 1
       /\ \A q \in DOMAIN batch[t] : batch[t][q] \in Rows
       /\ todo[t] \subseteq SalesOf(batch[t]) /\ accepted[t] \subseteq SalesOf(batch[t])
       /\ seen[t] \subseteq Sales

Delivery == INSTANCE SaleDelivery WITH
  confirmed <- {s \in Sales : local[s] # "absent"},
  recorded <- recorded,
  marked <- {s \in Sales : local[s] = "synced"}

(* Whatever calls overlap, whatever answers are lost or late and whatever   *)
(* stale rows are written back, the queue keeps SaleDelivery's promise.     *)
ImplementsDelivery == Delivery!Spec

(* A sale that is not synced leaves the queue only after the server has     *)
(* answered MAX_TRIES_BEFORE_ERROR times without taking it: a lost          *)
(* connection, a closed tab, two overlapping calls or a recovery pass on    *)
(* stale rows never costs a sale its place.                                 *)
KeptUntilRejected ==
  \A s \in Sales :
    local[s] = "unsynced" /\ s \notin SalesOf(queue) => rejections[s] >= MaxTries

(* The queue at every moment: its rows are those of sales, with the tries   *)
(* that were counted, and no unsynced sale is missing for free.             *)
QueueKeepsSales == TypeOK /\ KeptUntilRejected

(* A confirmed sale is recorded at last or has used up its tries.           *)
EventuallySettled ==
  \A s \in Sales :
    local[s] = "unsynced" ~> recorded[s] > 0 \/ rejections[s] >= MaxTries

-----------------------------------------------------------------------------
(* Statements of the repository that the code does not keep. *)

(* sync.ts:144: "The backend echoes each request's offline_id in the        *)
(* response object": a sale that the server accepted in a request it answered is   *)
(* not put back into the queue.                                             *)
AcceptedIsMarked ==
  [][\A t \in Tasks :
       pc[t] = "sent" /\ todo[t] = {} /\ Reply(t)
       => \A s \in accepted[t] : local'[s] = "synced"]_vars

(* sync.ts:247: "reset any 'error' queue items back to 'pending' so they    *)
(* get another chance".                                                     *)
ErrorGetsAnotherChance ==
  [][\A q \in DOMAIN queue : queue[q].status = "error" => q \in DOMAIN queue']_vars

(* sync.ts:246: "Re-enqueue all local sales that were incorrectly marked as *)
(* synced but don't exist on the backend".                                  *)
OnlyLostReenqueued ==
  [][\A s \in Sales : local[s] = "synced" /\ local'[s] = "unsynced" => recorded[s] = 0]_vars

(* venta_service.go:530: "sales made at the physical POS MUST be recorded"; *)
(* a confirmed sale is recorded or still on its way.                        *)
NoSaleLost ==
  \A s \in Sales :
    local[s] = "unsynced" => recorded[s] > 0 \/ s \in SalesOf(queue)
=============================================================================
