------------------------- MODULE OfflineSyncProofs --------------------------
(***************************************************************************)
(* The offline sales queue, for every number of sales, overlapping calls,  *)
(* queue rows, recoveries and closed tabs: no sale loses its place for     *)
(* free, and the queue implements SaleDelivery.                            *)
(***************************************************************************)
EXTENDS OfflineSync, FiniteSetTheorems, TLAPS

Lugares == {"idle", "sent", "purge", "readSynced", "readQueue", "reenqueue"}

(* A row, wherever it is held, when the sales are l and the refusals r: its *)
(* sale exists, each of its tries is a refusal that was counted, and it     *)
(* gave up exactly when its tries ran out.                                  *)
GoodRow(row, l, r) ==
  /\ row \in Rows
  /\ l[row.sale] # "absent"
  /\ row.tries <= r[row.sale]
  /\ row.status = "pending" => row.tries < MaxTries

GoodRows(rows, n, l, r) ==
  /\ DOMAIN rows \subseteq 1 .. n - 1
  /\ \A q \in DOMAIN rows : GoodRow(rows[q], l, r)

(* Two holders of a row agree about its sale: putting a stale copy back     *)
(* cannot take the place of another sale.                                   *)
Agree(rows, copy) ==
  \A q \in DOMAIN rows : q \in DOMAIN copy => rows[q].sale = copy[q].sale

Tables ==
  /\ local \in [Sales -> {"absent", "unsynced", "synced"}]
  /\ nextId \in 1 .. MaxItems + 1
  /\ rejections \in [Sales -> 0 .. MaxTries]
  /\ GoodRows(queue, nextId, local, rejections)

ServerHolds ==
  /\ recorded \in [Sales -> 0 .. 1]
  /\ late \subseteq Sales
  /\ \A s \in late : local[s] # "absent"
  /\ \A s \in Sales : local[s] = "absent" => recorded[s] = 0

(* What a task holds. *)
GoodTask(t) ==
  /\ GoodRows(batch[t], nextId, local, rejections)
  /\ pc[t] = "sent" => \A q \in DOMAIN batch[t] : batch[t][q].status = "pending"
  /\ pc[t] # "sent" => todo[t] = {} /\ accepted[t] = {}
  /\ todo[t] \subseteq SalesOf(batch[t])
  /\ accepted[t] \subseteq SalesOf(batch[t])
  /\ \A s \in accepted[t] : recorded[s] = 1
  /\ seen[t] \subseteq Sales
  /\ \A s \in seen[t] : local[s] # "absent"

TasksHold ==
  /\ pc \in [Tasks -> Lugares]
  /\ DOMAIN batch = Tasks /\ DOMAIN todo = Tasks
  /\ DOMAIN accepted = Tasks /\ DOMAIN seen = Tasks
  /\ \A t \in Tasks : GoodTask(t)

Agreement ==
  /\ \A t \in Tasks : Agree(queue, batch[t])
  /\ \A t, u \in Tasks : Agree(batch[t], batch[u])

(* The inductive invariant.  KeptUntilRejected alone does not survive a     *)
(* recovery that purges, which looks at the tries of a copy: those must be  *)
(* refusals of that sale, in every copy that may still be put back.         *)
IInv == Tables /\ ServerHolds /\ TasksHold /\ Agreement /\ KeptUntilRejected

-----------------------------------------------------------------------------
(* Rows *)

LEMMA RowsStay ==
  ASSUME NEW rows, NEW n \in Int, NEW m \in Int, NEW l, NEW k, NEW r, NEW p,
         GoodRows(rows, n, l, r), n <= m,
         \A s \in Sales : l[s] # "absent" => k[s] # "absent",
         r \in [Sales -> Nat], p \in [Sales -> Nat],
         \A s \in Sales : r[s] <= p[s]
  PROVE  GoodRows(rows, m, k, p)
<1>1. DOMAIN rows \subseteq 1 .. m - 1
  BY DEF GoodRows
<1>2. ASSUME NEW q \in DOMAIN rows PROVE GoodRow(rows[q], k, p)
  <2>1. GoodRow(rows[q], l, r)
    BY DEF GoodRows
  <2>2. rows[q] \in Rows /\ rows[q].sale \in Sales /\ rows[q].tries \in Nat
    BY <2>1, OfflineSyncAssumption DEF GoodRow, Rows
  <2> QED
    BY <2>1, <2>2 DEF GoodRow
<1> QED
  BY <1>1, <1>2 DEF GoodRows

LEMMA RestrictGood ==
  ASSUME NEW rows, NEW n, NEW l, NEW r, GoodRows(rows, n, l, r),
         NEW S \in SUBSET DOMAIN rows
  PROVE  GoodRows(Restrict(rows, S), n, l, r)
BY DEF GoodRows, Restrict

LEMMA WithGood ==
  ASSUME NEW rows, NEW new, NEW n, NEW l, NEW r,
         GoodRows(rows, n, l, r), GoodRows(new, n, l, r)
  PROVE  GoodRows(With(rows, new), n, l, r)
BY DEF GoodRows, With

LEMMA NoRowsGood ==
  ASSUME NEW n, NEW l, NEW r
  PROVE  GoodRows(NoRows, n, l, r) /\ SalesOf(NoRows) = {}
BY DEF GoodRows, NoRows, SalesOf

LEMMA AgreeNoRows ==
  ASSUME NEW rows
  PROVE  Agree(NoRows, rows) /\ Agree(rows, NoRows)
BY DEF Agree, NoRows

LEMMA AgreeRestrict ==
  ASSUME NEW rows, NEW copy, Agree(rows, copy), NEW S \in SUBSET DOMAIN rows
  PROVE  Agree(Restrict(rows, S), copy)
BY DEF Agree, Restrict

LEMMA AgreeWith ==
  ASSUME NEW rows, NEW new, NEW copy, Agree(rows, copy), Agree(new, copy)
  PROVE  Agree(With(rows, new), copy)
BY DEF Agree, With

LEMMA AgreeFlip ==
  ASSUME NEW rows, NEW copy, Agree(rows, copy)
  PROVE  Agree(copy, rows)
BY DEF Agree

LEMMA SalesOfWith ==
  ASSUME NEW rows, NEW new, Agree(new, rows)
  PROVE  SalesOf(With(rows, new)) = SalesOf(rows) \cup SalesOf(new)
<1>1. DOMAIN With(rows, new) = DOMAIN rows \cup DOMAIN new
  BY DEF With
<1>2. \A q \in DOMAIN new : With(rows, new)[q].sale = new[q].sale
  BY DEF With
<1>3. \A q \in DOMAIN rows : With(rows, new)[q].sale = rows[q].sale
  BY DEF With, Agree
<1> QED
  BY <1>1, <1>2, <1>3 DEF SalesOf

(* One more failed attempt, when the refusal of its sale was counted. *)
LEMMA FailedGood ==
  ASSUME NEW row, NEW l, NEW r, NEW p, GoodRow(row, l, r),
         r \in [Sales -> 0 .. MaxTries], p \in [Sales -> 0 .. MaxTries],
         row.status = "pending",
         p[row.sale] = IF r[row.sale] < MaxTries THEN r[row.sale] + 1 ELSE r[row.sale]
  PROVE  GoodRow(Failed(row), l, p) /\ Failed(row).sale = row.sale
<1>1. /\ row \in Rows /\ row.sale \in Sales /\ row.tries \in Nat
      /\ row.tries < MaxTries /\ row.tries <= r[row.sale]
  BY OfflineSyncAssumption DEF GoodRow, Rows
<1>2. MaxTries \in Nat /\ r[row.sale] \in 0 .. MaxTries
  BY <1>1, OfflineSyncAssumption
<1>3. /\ Failed(row).sale = row.sale /\ Failed(row).tries = row.tries + 1
      /\ Failed(row).status = "pending" => row.tries + 1 < MaxTries
  BY <1>1, <1>2 DEF Rows, Failed
<1>4. Failed(row) \in Rows
  <2>1. row.tries + 1 \in 0 .. MaxTries
    BY <1>1, <1>2
  <2>2. (IF row.tries + 1 >= MaxTries THEN "error" ELSE "pending") \in {"pending", "error"}
    OBVIOUS
  <2> QED
    BY <1>1, <2>1, <2>2, Zenon DEF Rows, Failed
<1> QED
  BY <1>1, <1>2, <1>3, <1>4 DEF GoodRow

-----------------------------------------------------------------------------
(* What every action leaves alone *)

(* Ids, sales, refusals and records only grow. *)
Grows ==
  /\ nextId <= nextId'
  /\ \A s \in Sales : local[s] # "absent" => local'[s] # "absent"
  /\ \A s \in Sales : rejections[s] <= rejections'[s]
  /\ \A s \in Sales : recorded[s] = 1 => recorded'[s] = 1

Unmoved(u) ==
  /\ pc'[u] = pc[u] /\ batch'[u] = batch[u] /\ todo'[u] = todo[u]
  /\ accepted'[u] = accepted[u] /\ seen'[u] = seen[u]

LEMMA CountersAreNat ==
  ASSUME Tables
  PROVE  nextId \in Int /\ rejections \in [Sales -> Nat] /\ MaxTries \in Nat
BY OfflineSyncAssumption DEF Tables

LEMMA TaskStays ==
  ASSUME IInv, Tables', Grows, NEW u \in Tasks, Unmoved(u)
  PROVE  GoodTask(u)'
<1>1. GoodTask(u)
  BY DEF IInv, TasksHold
<1>2. nextId \in Int /\ rejections \in [Sales -> Nat]
  BY CountersAreNat DEF IInv
<1>3. nextId' \in Int /\ rejections' \in [Sales -> Nat]
  BY OfflineSyncAssumption DEF Tables
<1>4. GoodRows(batch[u], nextId', local', rejections')
  BY <1>1, <1>2, <1>3, RowsStay DEF GoodTask, Grows
<1>5. \A s \in SalesOf(batch[u]) : s \in Sales
  BY <1>1 DEF GoodTask, GoodRows, GoodRow, SalesOf, Rows
<1> QED
  BY <1>1, <1>4, <1>5 DEF GoodTask, Grows, Unmoved

LEMMA TaskEnds ==
  ASSUME IInv, NEW t \in Tasks, End(t)
  PROVE  /\ GoodTask(t)' /\ batch'[t] = NoRows
         /\ \A u \in Tasks \ {t} : Unmoved(u)
         /\ pc' \in [Tasks -> Lugares]
         /\ DOMAIN batch' = Tasks /\ DOMAIN todo' = Tasks
         /\ DOMAIN accepted' = Tasks /\ DOMAIN seen' = Tasks
<1>1. /\ pc \in [Tasks -> Lugares] /\ DOMAIN batch = Tasks /\ DOMAIN todo = Tasks
      /\ DOMAIN accepted = Tasks /\ DOMAIN seen = Tasks
  BY DEF IInv, TasksHold
<1>2. /\ pc'[t] = "idle" /\ batch'[t] = NoRows /\ todo'[t] = {}
      /\ accepted'[t] = {} /\ seen'[t] = {}
  BY <1>1 DEF End
<1>3. GoodTask(t)'
  BY <1>2, NoRowsGood DEF GoodTask
<1>4. \A u \in Tasks \ {t} : Unmoved(u)
  BY <1>1 DEF End, Unmoved
<1> QED
  BY <1>1, <1>2, <1>3, <1>4 DEF End, Lugares

(* The tasks after a step in which at most t moved. *)
LEMMA OthersStay ==
  ASSUME IInv, Tables', Grows, NEW t \in Tasks,
         \A u \in Tasks \ {t} : Unmoved(u), GoodTask(t)',
         pc' \in [Tasks -> Lugares],
         DOMAIN batch' = Tasks, DOMAIN todo' = Tasks,
         DOMAIN accepted' = Tasks, DOMAIN seen' = Tasks
  PROVE  TasksHold'
<1>1. \A u \in Tasks \ {t} : GoodTask(u)'
  BY TaskStays
<1> QED
  BY <1>1 DEF TasksHold

(* A task that holds nothing, or rows of the queue, agrees with everybody. *)
LEMMA AgreementStays ==
  ASSUME IInv, NEW t \in Tasks,
         \A u \in Tasks \ {t} : Unmoved(u),
         batch'[t] = NoRows \/ \E S \in SUBSET DOMAIN queue : batch'[t] = Restrict(queue, S),
         \A u \in Tasks : Agree(queue', batch[u]), Agree(queue', batch'[t])
  PROVE  Agreement'
<1>1. \A u, v \in Tasks : Agree(batch[u], batch[v])
  BY DEF IInv, Agreement
<1>2. \A u \in Tasks : Agree(queue, batch[u])
  BY DEF IInv, Agreement
<1>3. \A u \in Tasks : Agree(batch'[t], batch[u])
  <2>1. CASE batch'[t] = NoRows
    BY <2>1, AgreeNoRows
  <2>2. CASE \E S \in SUBSET DOMAIN queue : batch'[t] = Restrict(queue, S)
    BY <2>2, <1>2, AgreeRestrict
  <2> QED
    BY <2>1, <2>2
<1>4. \A u \in Tasks : Agree(batch[u], batch'[t])
  BY <1>3, AgreeFlip
<1>5. Agree(batch'[t], batch'[t])
  BY DEF Agree
<1>6. \A u \in Tasks \ {t} : batch'[u] = batch[u]
  BY DEF Unmoved
<1>7. ASSUME NEW u \in Tasks, NEW v \in Tasks PROVE Agree(batch'[u], batch'[v])
  BY <1>1, <1>3, <1>4, <1>5, <1>6
<1>8. ASSUME NEW u \in Tasks PROVE Agree(queue', batch'[u])
  BY <1>6
<1> QED
  BY <1>7, <1>8 DEF Agreement

-----------------------------------------------------------------------------
(* Tasks that end by writing rows back *)

LEMMA NothingDeleted ==
  ASSUME NEW rows, NEW new
  PROVE  With(rows, new) = With(Without(rows, {}), new)
BY DEF With, Without, Restrict

(* The rows `del' are deleted and stale copies of the batch are put back. *)
LEMMA PutBack ==
  ASSUME IInv, NEW t \in Tasks, End(t), Grows, nextId' = nextId,
         local' \in [Sales -> {"absent", "unsynced", "synced"}],
         rejections' \in [Sales -> 0 .. MaxTries],
         NEW del, NEW new,
         queue' = With(Without(queue, del), new),
         DOMAIN new \subseteq DOMAIN batch[t],
         \A q \in DOMAIN new : /\ GoodRow(new[q], local', rejections')
                               /\ new[q].sale = batch[t][q].sale,
         \A s \in Sales : local'[s] = "unsynced" => local[s] = "unsynced",
         \A q \in DOMAIN queue : q \in del => local'[queue[q].sale] = "synced"
  PROVE  Tables' /\ TasksHold' /\ Agreement' /\ KeptUntilRejected'
<1> DEFINE rest == Without(queue, del)
<1>1. /\ Tables /\ GoodTask(t) /\ GoodRows(queue, nextId, local, rejections)
      /\ nextId \in Int /\ rejections \in [Sales -> Nat]
  BY CountersAreNat DEF IInv, TasksHold, Tables
<1>2. GoodRows(queue, nextId', local', rejections')
  <2>1. nextId' \in Int /\ rejections' \in [Sales -> Nat]
    BY <1>1, OfflineSyncAssumption
  <2> QED
    BY <1>1, <2>1, RowsStay DEF Grows
<1>3. GoodRows(new, nextId', local', rejections')
  BY <1>1 DEF GoodRows, GoodTask
<1>4. Tables'
  <2>1. GoodRows(rest, nextId', local', rejections')
    BY <1>2, RestrictGood DEF Without
  <2>2. GoodRows(queue', nextId', local', rejections')
    BY <2>1, <1>3, WithGood
  <2> QED
    BY <2>2 DEF Tables, IInv
<1>5. TasksHold'
  BY <1>4, TaskEnds, OthersStay
<1>6. \A u \in Tasks : Agree(new, batch[u])
  BY DEF IInv, Agreement, Agree
<1>7. Agree(new, queue)
  BY DEF IInv, Agreement, Agree
<1>8. \A u \in Tasks : Agree(queue', batch[u])
  <2>1. \A u \in Tasks : Agree(rest, batch[u])
    BY AgreeRestrict DEF Without, IInv, Agreement
  <2> QED
    BY <1>6, <2>1, AgreeWith
<1>9. Agreement'
  BY <1>8, TaskEnds, AgreeNoRows, AgreementStays
<1>10. KeptUntilRejected'
  <2> SUFFICES ASSUME NEW s \in Sales, local'[s] = "unsynced", s \notin SalesOf(queue')
               PROVE  rejections'[s] >= MaxTries
    BY DEF KeptUntilRejected
  <2>1. Agree(new, rest)
    BY <1>7 DEF Agree, Without, Restrict
  <2>2. s \notin SalesOf(rest)
    BY <2>1, SalesOfWith
  <2>3. s \notin SalesOf(queue)
    <3> SUFFICES ASSUME NEW q \in DOMAIN queue, queue[q].sale = s PROVE FALSE
      BY DEF SalesOf
    <3>1. q \notin del
      OBVIOUS
    <3> QED
      BY <2>2, <3>1 DEF SalesOf, Without, Restrict
  <2>4. rejections[s] >= MaxTries
    BY <2>3 DEF IInv, KeptUntilRejected
  <2> QED
    BY <1>1, <2>4, OfflineSyncAssumption DEF Grows
<1> QED
  BY <1>4, <1>5, <1>9, <1>10

(* Refusals are counted up to MaxTries. *)
LEMMA RejectedCounts ==
  ASSUME Tables, NEW S, Rejected(S)
  PROVE  /\ rejections' \in [Sales -> 0 .. MaxTries]
         /\ \A s \in Sales : rejections[s] <= rejections'[s]
         /\ \A s \in Sales \cap S :
              rejections'[s] = IF rejections[s] < MaxTries THEN rejections[s] + 1 ELSE rejections[s]
<1>1. MaxTries \in Nat /\ rejections \in [Sales -> 0 .. MaxTries]
  BY OfflineSyncAssumption DEF Tables
<1> QED
  BY <1>1 DEF Rejected

(* A row of a batch that was sent, one failed attempt later. *)
LEMMA FailedRowsGood ==
  ASSUME IInv, NEW t \in Tasks, pc[t] = "sent", NEW S, Rejected(S),
         local' \in [Sales -> {"absent", "unsynced", "synced"}],
         \A s \in Sales : local[s] # "absent" => local'[s] # "absent",
         NEW q \in DOMAIN batch[t], batch[t][q].sale \in S
  PROVE  /\ GoodRow(Failed(batch[t][q]), local', rejections')
         /\ Failed(batch[t][q]).sale = batch[t][q].sale
<1> DEFINE row == batch[t][q]
<1>1. Tables /\ GoodTask(t) /\ rejections \in [Sales -> 0 .. MaxTries]
  BY DEF IInv, TasksHold, Tables
<1>2. GoodRow(row, local, rejections) /\ row.status = "pending" /\ row.sale \in Sales
  BY <1>1 DEF GoodTask, GoodRows, GoodRow, Rows
<1>3. rejections' \in [Sales -> 0 .. MaxTries]
      /\ rejections'[row.sale] = IF rejections[row.sale] < MaxTries
                                 THEN rejections[row.sale] + 1 ELSE rejections[row.sale]
  BY <1>1, <1>2, RejectedCounts
<1>4. GoodRow(Failed(row), local, rejections') /\ Failed(row).sale = row.sale
  <2> HIDE DEF row
  <2> QED
    BY <1>1, <1>2, <1>3, FailedGood
<1> QED
  BY <1>2, <1>4 DEF GoodRow

LEMMA SalesOfBatch ==
  ASSUME IInv, NEW t \in Tasks
  PROVE  /\ SalesOf(batch[t]) \subseteq Sales /\ SalesOf(queue) \subseteq Sales
         /\ \A s \in SalesOf(batch[t]) : local[s] # "absent"
         /\ \A s \in SalesOf(queue) : local[s] # "absent"
BY DEF IInv, TasksHold, Tables, GoodTask, GoodRows, GoodRow, SalesOf, Rows

LEMMA CatchServerErrorKeeps ==
  ASSUME IInv, NEW t \in Tasks, pc[t] = "sent", CatchServerError(t)
  PROVE  Tables' /\ TasksHold' /\ Agreement' /\ KeptUntilRejected'
<1> DEFINE new == [q \in DOMAIN batch[t] |-> Failed(batch[t][q])]
<1>1. /\ End(t) /\ local' = local /\ nextId' = nextId /\ recorded' = recorded
      /\ Rejected(SalesOf(batch[t])) /\ queue' = With(Without(queue, {}), new)
  BY NothingDeleted DEF CatchServerError
<1>2. Tables /\ local' \in [Sales -> {"absent", "unsynced", "synced"}] /\ nextId \in Int
  BY <1>1, CountersAreNat DEF IInv, Tables
<1>3. rejections' \in [Sales -> 0 .. MaxTries] /\ Grows
  BY <1>1, <1>2, RejectedCounts DEF Grows
<1>4. ASSUME NEW q \in DOMAIN new
      PROVE  GoodRow(new[q], local', rejections') /\ new[q].sale = batch[t][q].sale
  <2>1. batch[t][q].sale \in SalesOf(batch[t])
    BY DEF SalesOf
  <2> QED
    BY <1>1, <1>2, <2>1, FailedRowsGood
<1>5. DOMAIN new \subseteq DOMAIN batch[t]
  OBVIOUS
<1> HIDE DEF new
<1> QED
  BY <1>1, <1>2, <1>3, <1>4, <1>5, PutBack

LEMMA CatchOfflineKeeps ==
  ASSUME IInv, NEW t \in Tasks, CatchOffline(t)
  PROVE  Tables' /\ TasksHold' /\ Agreement' /\ KeptUntilRejected'
<1> DEFINE new == [q \in DOMAIN batch[t] |-> [batch[t][q] EXCEPT !.ready = FALSE]]
<1>1. /\ End(t) /\ local' = local /\ nextId' = nextId /\ recorded' = recorded
      /\ rejections' = rejections /\ queue' = With(Without(queue, {}), new)
  BY NothingDeleted DEF CatchOffline
<1>2. /\ local' \in [Sales -> {"absent", "unsynced", "synced"}]
      /\ rejections' \in [Sales -> 0 .. MaxTries] /\ nextId \in Int
  BY <1>1, CountersAreNat DEF IInv, Tables
<1>3. Grows
  BY <1>1, <1>2, OfflineSyncAssumption DEF Grows
<1>4. ASSUME NEW q \in DOMAIN new
      PROVE  GoodRow(new[q], local', rejections') /\ new[q].sale = batch[t][q].sale
  <2>1. GoodRow(batch[t][q], local, rejections)
    BY DEF IInv, TasksHold, GoodTask, GoodRows
  <2>2. new[q] \in Rows
    BY <2>1, Zenon DEF GoodRow, Rows
  <2>3. /\ new[q].sale = batch[t][q].sale /\ new[q].tries = batch[t][q].tries
        /\ new[q].status = batch[t][q].status
    BY <2>1 DEF GoodRow, Rows
  <2> QED
    BY <1>1, <2>1, <2>2, <2>3 DEF GoodRow
<1>5. DOMAIN new \subseteq DOMAIN batch[t]
  OBVIOUS
<1> HIDE DEF new
<1> QED
  BY <1>1, <1>2, <1>3, <1>4, <1>5, PutBack

LEMMA ApplyResultsKeeps ==
  ASSUME IInv, NEW t \in Tasks, ApplyResults(t)
  PROVE  Tables' /\ TasksHold' /\ Agreement' /\ KeptUntilRejected'
<1> DEFINE ok == accepted[t]
           okRows == {q \in Kept(batch[t]) : batch[t][q].sale \in ok}
           new == [q \in Kept(batch[t]) \ okRows |-> Failed(batch[t][q])]
<1>1. /\ pc[t] = "sent" /\ End(t) /\ nextId' = nextId /\ recorded' = recorded
      /\ local' = [s \in Sales |-> IF s \in ok THEN "synced" ELSE local[s]]
      /\ Rejected(SalesOf(batch[t]) \ ok) /\ queue' = With(Without(queue, okRows), new)
  BY DEF ApplyResults
<1>2. Tables /\ local \in [Sales -> {"absent", "unsynced", "synced"}] /\ nextId \in Int
  BY CountersAreNat DEF IInv, Tables
<1>3. /\ local' \in [Sales -> {"absent", "unsynced", "synced"}]
      /\ \A s \in Sales : local[s] # "absent" => local'[s] # "absent"
      /\ \A s \in Sales : local'[s] = "unsynced" => local[s] = "unsynced"
      /\ \A s \in Sales \cap ok : local'[s] = "synced"
  BY <1>1, <1>2
<1>4. rejections' \in [Sales -> 0 .. MaxTries] /\ Grows
  BY <1>1, <1>2, <1>3, RejectedCounts DEF Grows
<1>5. ASSUME NEW q \in DOMAIN new
      PROVE  GoodRow(new[q], local', rejections') /\ new[q].sale = batch[t][q].sale
  <2>1. q \in DOMAIN batch[t] /\ batch[t][q].sale \in SalesOf(batch[t]) \ ok
    BY DEF SalesOf, Kept
  <2> QED
    BY <1>1, <1>3, <2>1, FailedRowsGood
<1>6. DOMAIN new \subseteq DOMAIN batch[t]
  BY DEF Kept
<1>7. ASSUME NEW q \in DOMAIN queue, q \in okRows PROVE local'[queue[q].sale] = "synced"
  <2>1. q \in DOMAIN batch[t] /\ batch[t][q].sale \in ok
    BY <1>7 DEF Kept
  <2>2. queue[q].sale = batch[t][q].sale
    BY <2>1 DEF IInv, Agreement, Agree
  <2>3. queue[q].sale \in Sales
    BY DEF IInv, Tables, GoodRows, GoodRow, Rows
  <2> QED
    BY <1>3, <2>1, <2>2, <2>3
<1> HIDE DEF new, okRows
<1> QED
  BY <1>1, <1>3, <1>4, <1>5, <1>6, <1>7, PutBack

-----------------------------------------------------------------------------
(* The actions *)

LEMMA NewRowGood ==
  ASSUME NEW s \in Sales, NEW l, l[s] # "absent", NEW r \in [Sales -> 0 .. MaxTries]
  PROVE  GoodRow(Row(s), l, r) /\ Row(s).sale = s
<1>1. 0 \in 0 .. MaxTries /\ 0 < MaxTries /\ 0 <= r[s]
  BY OfflineSyncAssumption
<1>2. Row(s) \in Rows
  BY <1>1, Zenon DEF Row, Rows
<1> QED
  BY <1>1, <1>2 DEF GoodRow, Row

(* A fresh id belongs to nobody. *)
LEMMA FreshIds ==
  ASSUME IInv, NEW new, \A q \in DOMAIN new : q \in Int /\ q >= nextId
  PROVE  /\ Agree(new, queue)
         /\ \A u \in Tasks : Agree(new, batch[u])
<1>1. /\ nextId \in Int /\ DOMAIN queue \subseteq 1 .. nextId - 1
      /\ \A u \in Tasks : DOMAIN batch[u] \subseteq 1 .. nextId - 1
  BY CountersAreNat DEF IInv, TasksHold, Tables, GoodTask, GoodRows
<1> QED
  BY <1>1 DEF Agree

(* Sales that were not unsynced get rows with fresh ids. *)
LEMMA NewRowsKeep ==
  ASSUME IInv, NEW S \in SUBSET Sales, NEW n \in Nat,
         NEW f, f \in Surjection(nextId .. nextId + n - 1, S),
         nextId' = nextId + n, nextId' <= MaxItems + 1,
         local' = [s \in Sales |-> IF s \in S THEN "unsynced" ELSE local[s]],
         queue' = With(queue, [q \in DOMAIN f |-> Row(f[q])]),
         rejections' = rejections
  PROVE  /\ Tables' /\ KeptUntilRejected'
         /\ \A u \in Tasks : Agree(queue', batch[u])
         /\ \A s \in Sales : local[s] # "absent" => local'[s] # "absent"
<1> DEFINE new == [q \in DOMAIN f |-> Row(f[q])]
<1>1. /\ Tables /\ nextId \in 1 .. MaxItems + 1 /\ rejections \in [Sales -> 0 .. MaxTries]
      /\ local \in [Sales -> {"absent", "unsynced", "synced"}] /\ MaxItems \in Nat
      /\ rejections \in [Sales -> Nat]
  BY CountersAreNat, OfflineSyncAssumption DEF IInv, Tables
<1>2. /\ DOMAIN f = nextId .. nextId + n - 1
      /\ \A q \in DOMAIN f : f[q] \in S
      /\ \A s \in S : \E q \in DOMAIN f : f[q] = s
  BY DEF Surjection
<1>3. /\ local' \in [Sales -> {"absent", "unsynced", "synced"}]
      /\ \A s \in Sales : local[s] # "absent" => local'[s] # "absent"
      /\ \A s \in S : local'[s] # "absent"
  BY <1>1
<1>4. \A q \in DOMAIN f : GoodRow(Row(f[q]), local', rejections') /\ Row(f[q]).sale = f[q]
  BY <1>1, <1>2, <1>3, NewRowGood
<1>5. GoodRows(new, nextId', local', rejections')
  BY <1>1, <1>2, <1>4 DEF GoodRows
<1>6. GoodRows(queue, nextId', local', rejections')
  <2>1. GoodRows(queue, nextId, local, rejections) /\ nextId <= nextId' /\ nextId' \in Int
    BY <1>1 DEF Tables
  <2> QED
    BY <1>1, <1>3, <2>1, RowsStay
<1>7. Tables'
  <2>1. GoodRows(queue', nextId', local', rejections')
    BY <1>5, <1>6, WithGood
  <2> QED
    BY <1>1, <1>3, <2>1 DEF Tables
<1>8. \A q \in DOMAIN new : q \in Int /\ q >= nextId
  BY <1>1, <1>2
<1>9. \A u \in Tasks : Agree(queue', batch[u])
  <2> HIDE DEF new
  <2> QED
    BY <1>8, FreshIds, AgreeWith DEF new, IInv, Agreement
<1>10. SalesOf(new) = S
  <2>1. DOMAIN new = DOMAIN f /\ \A q \in DOMAIN f : new[q].sale = f[q]
    BY <1>4
  <2> HIDE DEF new
  <2>2. \A x \in SalesOf(new) : x \in S
    BY <1>2, <2>1 DEF SalesOf
  <2>3. \A x \in S : x \in SalesOf(new)
    BY <1>2, <2>1 DEF SalesOf
  <2> QED
    BY <2>2, <2>3
<1>11. SalesOf(queue') = SalesOf(queue) \cup S
  <2>1. Agree(new, queue)
    <3> HIDE DEF new
    <3> QED
      BY <1>8, FreshIds
  <2> QED
    BY <1>10, <2>1, SalesOfWith
<1>12. KeptUntilRejected'
  BY <1>11 DEF IInv, KeptUntilRejected
<1> QED
  BY <1>3, <1>7, <1>9, <1>12

LEMMA EnqueueSaleKeeps ==
  ASSUME IInv, NEW s \in Sales, EnqueueSale(s)
  PROVE  IInv'
<1> DEFINE f == [q \in {nextId} |-> s]
<1>1. /\ Tables /\ nextId \in 1 .. MaxItems + 1 /\ MaxItems \in Nat
      /\ local \in [Sales -> {"absent", "unsynced", "synced"}]
      /\ rejections \in [Sales -> Nat]
  BY CountersAreNat, OfflineSyncAssumption DEF IInv, Tables
<1>2. /\ nextId' = nextId + 1 /\ nextId' <= MaxItems + 1
      /\ rejections' = rejections /\ recorded' = recorded /\ late' = late
      /\ pc' = pc /\ batch' = batch /\ todo' = todo /\ accepted' = accepted /\ seen' = seen
  BY <1>1 DEF EnqueueSale, serverVars, taskVars
<1>3. local' = [v \in Sales |-> IF v \in {s} THEN "unsynced" ELSE local[v]]
  BY <1>1 DEF EnqueueSale
<1>4. nextId .. nextId + 1 - 1 = {nextId}
  BY <1>1
<1>5. f \in Surjection(nextId .. nextId + 1 - 1, {s})
  BY <1>4 DEF Surjection
<1>6. queue' = With(queue, [q \in DOMAIN f |-> Row(f[q])])
  BY DEF EnqueueSale
<1> HIDE DEF f
<1>7. /\ Tables' /\ KeptUntilRejected'
      /\ \A u \in Tasks : Agree(queue', batch[u])
      /\ \A v \in Sales : local[v] # "absent" => local'[v] # "absent"
  BY <1>2, <1>3, <1>5, <1>6, NewRowsKeep
<1>8. Grows
  BY <1>1, <1>2, <1>7 DEF Grows
<1>9. TasksHold'
  <2>1. \A u \in Tasks : Unmoved(u)
    BY <1>2 DEF Unmoved
  <2>2. \A u \in Tasks : GoodTask(u)'
    BY <1>7, <1>8, <2>1, TaskStays
  <2> QED
    BY <1>2, <2>2 DEF TasksHold, IInv
<1>10. Agreement'
  BY <1>2, <1>7 DEF IInv, Agreement
<1>11. ServerHolds'
  BY <1>2, <1>3, <1>7 DEF IInv, ServerHolds
<1> QED
  BY <1>7, <1>9, <1>10, <1>11 DEF IInv

LEMMA DueKeeps ==
  ASSUME IInv, NEW q \in DOMAIN queue, Due(q)
  PROVE  IInv'
<1>1. /\ local' = local /\ nextId' = nextId
      /\ rejections' = rejections /\ recorded' = recorded /\ late' = late
      /\ pc' = pc /\ batch' = batch /\ todo' = todo /\ accepted' = accepted /\ seen' = seen
      /\ queue' = [queue EXCEPT ![q].ready = TRUE]
  BY DEF Due, serverVars, taskVars
<1>2. /\ Tables /\ nextId \in Int /\ rejections \in [Sales -> Nat]
      /\ GoodRows(queue, nextId, local, rejections)
  BY CountersAreNat DEF IInv, Tables
<1>3. DOMAIN queue' = DOMAIN queue
  BY <1>1
<1>4. ASSUME NEW p \in DOMAIN queue
      PROVE  GoodRow(queue'[p], local, rejections) /\ queue'[p].sale = queue[p].sale
  <2>1. GoodRow(queue[p], local, rejections)
    BY <1>2 DEF GoodRows
  <2>2. CASE p # q
    BY <1>1, <2>1, <2>2
  <2>3. CASE p = q
    <3>1. queue'[p] = [queue[p] EXCEPT !.ready = TRUE]
      BY <1>1, <2>3
    <3>2. queue'[p] \in Rows
      BY <2>1, <3>1, Zenon DEF GoodRow, Rows
    <3>3. /\ queue'[p].sale = queue[p].sale /\ queue'[p].tries = queue[p].tries
          /\ queue'[p].status = queue[p].status
      BY <2>1, <3>1 DEF GoodRow, Rows
    <3> QED
      BY <2>1, <3>2, <3>3 DEF GoodRow
  <2> QED
    BY <2>2, <2>3
<1>5. Tables'
  BY <1>1, <1>2, <1>3, <1>4 DEF Tables, GoodRows
<1>6. TasksHold'
  BY <1>1 DEF IInv, TasksHold, GoodTask
<1>7. Agreement'
  BY <1>1, <1>3, <1>4 DEF IInv, Agreement, Agree
<1>8. SalesOf(queue') = SalesOf(queue)
  BY <1>3, <1>4 DEF SalesOf
<1> QED
  BY <1>1, <1>5, <1>6, <1>7, <1>8 DEF IInv, ServerHolds, KeptUntilRejected

(* ReadBatch and ReadErrorItems: a task takes copies of rows. *)
LEMMA ReadKeeps ==
  ASSUME IInv, NEW t \in Tasks, UNCHANGED <<dbVars, serverVars, accepted, seen>>,
         NEW S \in SUBSET DOMAIN queue, NEW place \in Lugares,
         batch' = [batch EXCEPT ![t] = Restrict(queue, S)],
         accepted[t] = {}, place # "sent" => todo'[t] = {},
         DOMAIN todo' = Tasks, \A u \in Tasks \ {t} : todo'[u] = todo[u],
         todo'[t] \subseteq SalesOf(batch'[t]),
         pc' = [pc EXCEPT ![t] = place],
         place = "sent" => \A q \in S : queue[q].status = "pending"
  PROVE  IInv'
<1>1. /\ local' = local /\ queue' = queue /\ nextId' = nextId
      /\ rejections' = rejections /\ recorded' = recorded /\ late' = late
      /\ accepted' = accepted /\ seen' = seen
  BY DEF dbVars, serverVars
<1>2. /\ Tables /\ TasksHold /\ Agreement /\ nextId \in Int /\ rejections \in [Sales -> Nat]
      /\ GoodTask(t)
  BY CountersAreNat DEF IInv, TasksHold
<1>3. Tables' /\ ServerHolds' /\ KeptUntilRejected'
  BY <1>1 DEF IInv, Tables, ServerHolds, KeptUntilRejected
<1>4. Grows
  BY <1>1, <1>2 DEF Grows
<1>5. /\ batch'[t] = Restrict(queue, S) /\ pc'[t] = place
      /\ \A u \in Tasks \ {t} : Unmoved(u)
      /\ DOMAIN batch' = Tasks /\ pc' \in [Tasks -> Lugares]
  BY <1>1, <1>2 DEF TasksHold, Unmoved
<1>6. GoodTask(t)'
  <2>1. GoodRows(batch'[t], nextId', local', rejections')
    BY <1>1, <1>2, <1>5, RestrictGood DEF Tables
  <2>2. pc'[t] = "sent" => \A q \in DOMAIN batch'[t] : batch'[t][q].status = "pending"
    BY <1>5 DEF Restrict
  <2> QED
    BY <1>1, <1>2, <1>5, <2>1, <2>2 DEF GoodTask
<1>7. TasksHold'
  BY <1>1, <1>2, <1>3, <1>4, <1>5, <1>6, OthersStay DEF TasksHold
<1>8. Agreement'
  <2>1. \A u \in Tasks : Agree(queue', batch[u])
    BY <1>1, <1>2 DEF Agreement
  <2>2. Agree(queue', batch'[t])
    BY <1>1, <1>5 DEF Agree, Restrict
  <2> QED
    BY <1>5, <2>1, <2>2, AgreementStays
<1> QED
  BY <1>3, <1>7, <1>8 DEF IInv

LEMMA ReadBatchKeeps ==
  ASSUME IInv, NEW t \in Tasks, ReadBatch(t)
  PROVE  IInv'
<1> DEFINE due == {q \in DOMAIN queue : queue[q].status = "pending" /\ queue[q].ready}
<1>1. /\ pc[t] = "idle" /\ batch' = [batch EXCEPT ![t] = Restrict(queue, Oldest(due))]
      /\ todo' = [todo EXCEPT ![t] = SalesOf(batch'[t])]
      /\ pc' = [pc EXCEPT ![t] = "sent"]
      /\ UNCHANGED <<dbVars, serverVars, accepted, seen>>
  BY DEF ReadBatch, AttemptSync
<1>2. TasksHold /\ GoodTask(t)
  BY DEF IInv, TasksHold
<1>3. Oldest(due) \in SUBSET DOMAIN queue /\ \A q \in Oldest(due) : queue[q].status = "pending"
  BY DEF Oldest
<1>4. accepted[t] = {} /\ "sent" \in Lugares
  BY <1>1, <1>2 DEF GoodTask, Lugares
<1>5. /\ DOMAIN todo' = Tasks /\ todo'[t] = SalesOf(batch'[t])
      /\ \A u \in Tasks \ {t} : todo'[u] = todo[u]
  BY <1>1, <1>2 DEF TasksHold
<1> HIDE DEF due
<1> QED
  BY <1>1, <1>3, <1>4, <1>5, ReadKeeps

LEMMA ReadErrorItemsKeeps ==
  ASSUME IInv, NEW t \in Tasks, ReadErrorItems(t)
  PROVE  IInv'
<1> DEFINE S == {q \in DOMAIN queue : queue[q].status = "error"}
<1>1. /\ pc[t] = "idle" /\ batch' = [batch EXCEPT ![t] = Restrict(queue, S)]
      /\ pc' = [pc EXCEPT ![t] = "purge"] /\ todo' = todo
      /\ UNCHANGED <<dbVars, serverVars, accepted, seen>>
  BY DEF ReadErrorItems
<1>2. TasksHold /\ GoodTask(t)
  BY DEF IInv, TasksHold
<1>3. accepted[t] = {} /\ todo[t] = {} /\ "purge" \in Lugares
  BY <1>1, <1>2 DEF GoodTask, Lugares
<1>4. S \in SUBSET DOMAIN queue
  OBVIOUS
<1>5. /\ DOMAIN todo' = Tasks /\ todo'[t] = {} /\ todo'[t] \subseteq SalesOf(batch'[t])
      /\ \A u \in Tasks \ {t} : todo'[u] = todo[u]
  BY <1>1, <1>2, <1>3 DEF TasksHold
<1> HIDE DEF S
<1> QED
  BY <1>1, <1>3, <1>4, <1>5, ReadKeeps

(* The server takes a sale of a request: its row is there from then on. *)
LEMMA ServerProcessKeeps ==
  ASSUME IInv, NEW t \in Tasks, NEW s \in Sales, ServerProcess(t, s)
  PROVE  IInv'
<1>1. /\ local' = local /\ queue' = queue /\ nextId' = nextId /\ rejections' = rejections
      /\ late' = late /\ pc' = pc /\ batch' = batch /\ seen' = seen
      /\ todo' = [todo EXCEPT ![t] = @ \ {s}] /\ s \in todo[t] /\ pc[t] = "sent"
  BY DEF ServerProcess, dbVars
<1>2. /\ Tables /\ ServerHolds /\ TasksHold /\ Agreement /\ nextId \in Int
      /\ rejections \in [Sales -> Nat] /\ GoodTask(t) /\ recorded \in [Sales -> 0 .. 1]
  BY CountersAreNat DEF IInv, TasksHold, ServerHolds
<1>3. s \in SalesOf(batch[t]) /\ local[s] # "absent"
  BY <1>1, <1>2, SalesOfBatch DEF GoodTask
<1>4. /\ recorded' \in [Sales -> 0 .. 1]
      /\ \A v \in Sales : recorded[v] = 1 => recorded'[v] = 1
      /\ \A v \in Sales : v # s => recorded'[v] = recorded[v]
      /\ \/ accepted' = [accepted EXCEPT ![t] = @ \cup {s}] /\ recorded'[s] = 1
         \/ accepted' = accepted
  BY <1>2 DEF ServerProcess
<1>5. Tables' /\ KeptUntilRejected' /\ Agreement'
  BY <1>1 DEF IInv, Tables, KeptUntilRejected, Agreement
<1>6. ServerHolds'
  BY <1>1, <1>2, <1>3, <1>4 DEF ServerHolds
<1>7. Grows
  BY <1>1, <1>2, <1>4 DEF Grows
<1>8. /\ DOMAIN todo' = Tasks /\ DOMAIN accepted' = Tasks
      /\ \A u \in Tasks \ {t} : Unmoved(u)
      /\ todo'[t] \subseteq todo[t]
      /\ accepted'[t] = accepted[t] \/ (accepted'[t] = accepted[t] \cup {s} /\ recorded'[s] = 1)
  BY <1>1, <1>2, <1>4 DEF TasksHold, Unmoved
<1>9. GoodTask(t)'
  <2>1. accepted[t] \subseteq Sales
    BY <1>2, SalesOfBatch DEF GoodTask
  <2> QED
    BY <1>1, <1>2, <1>3, <1>4, <1>8, <2>1 DEF GoodTask
<1>10. TasksHold'
  BY <1>1, <1>2, <1>5, <1>7, <1>8, <1>9, OthersStay DEF TasksHold
<1> QED
  BY <1>5, <1>6, <1>10 DEF IInv

LEMMA ServerProcessLateKeeps ==
  ASSUME IInv, NEW s \in Sales, ServerProcessLate(s)
  PROVE  IInv'
<1>1. /\ local' = local /\ queue' = queue /\ nextId' = nextId /\ rejections' = rejections
      /\ late' = late \ {s} /\ s \in late
      /\ pc' = pc /\ batch' = batch /\ seen' = seen /\ todo' = todo /\ accepted' = accepted
      /\ recorded' \in {recorded, [recorded EXCEPT ![s] = 1]}
  BY DEF ServerProcessLate, dbVars, taskVars
<1>2. /\ Tables /\ ServerHolds /\ TasksHold /\ nextId \in Int
      /\ rejections \in [Sales -> Nat] /\ recorded \in [Sales -> 0 .. 1] /\ local[s] # "absent"
  BY <1>1, CountersAreNat DEF IInv, TasksHold, ServerHolds
<1>3. /\ recorded' \in [Sales -> 0 .. 1]
      /\ \A v \in Sales : recorded[v] = 1 => recorded'[v] = 1
      /\ \A v \in Sales : v # s => recorded'[v] = recorded[v]
  BY <1>1, <1>2
<1>4. Tables' /\ KeptUntilRejected' /\ Agreement'
  BY <1>1 DEF IInv, Tables, KeptUntilRejected, Agreement
<1>5. ServerHolds'
  BY <1>1, <1>2, <1>3 DEF ServerHolds
<1>6. Grows
  BY <1>1, <1>2, <1>3 DEF Grows
<1>7. \A u \in Tasks : GoodTask(u)'
  BY <1>1, <1>4, <1>6, TaskStays DEF Unmoved
<1>8. TasksHold'
  BY <1>1, <1>2, <1>7 DEF TasksHold
<1> QED
  BY <1>4, <1>5, <1>8 DEF IInv

(* Every way in which the answer of trySyncQueue's request can end. *)
Answer(t) ==
  ApplyResults(t) \/ ReplyObject(t) \/ ReplyObjectOffline(t) \/ ReplyError(t) \/ ConnectionLost(t)

LEMMA AnswerKeeps ==
  ASSUME IInv, NEW t \in Tasks, Answer(t)
  PROVE  IInv'
<1>1. Tables' /\ TasksHold' /\ Agreement' /\ KeptUntilRejected'
  BY ApplyResultsKeeps, CatchServerErrorKeeps, CatchOfflineKeeps
     DEF Answer, ReplyObject, ReplyObjectOffline, ReplyError, ConnectionLost
<1>2. recorded' = recorded /\ late \subseteq late' /\ late' \subseteq late \cup todo[t]
  BY DEF Answer, ApplyResults, ReplyObject, ReplyObjectOffline, ReplyError, ConnectionLost,
         CatchServerError, CatchOffline
<1>3. /\ Tables /\ ServerHolds /\ \A s \in todo[t] : s \in Sales /\ local[s] # "absent"
  BY SalesOfBatch DEF IInv, TasksHold, GoodTask
<1>4. \A s \in Sales : local'[s] = "absent" <=> local[s] = "absent"
  <2>1. CASE ApplyResults(t)
    <3>1. \A s \in Sales : local'[s] = IF s \in accepted[t] THEN "synced" ELSE local[s]
      BY <2>1 DEF ApplyResults
    <3>2. \A s \in accepted[t] : local[s] # "absent"
      BY SalesOfBatch DEF IInv, TasksHold, GoodTask
    <3> QED
      BY <3>1, <3>2
  <2>2. CASE ~ApplyResults(t)
    BY <2>2 DEF Answer, ReplyObject, ReplyObjectOffline, ReplyError, ConnectionLost,
                CatchServerError, CatchOffline
  <2> QED
    BY <2>1, <2>2
<1>5. ServerHolds'
  BY <1>2, <1>3, <1>4 DEF ServerHolds
<1> QED
  BY <1>1, <1>5 DEF IInv

(* The purge looks at the copy; a copy's tries are refusals of its sale. *)
LEMMA ResetOrPurgeKeeps ==
  ASSUME IInv, NEW t \in Tasks, ResetOrPurge(t)
  PROVE  IInv'
<1> DEFINE toPurge == {q \in DOMAIN batch[t] : batch[t][q].tries >= MaxTries}
           toReset == DOMAIN batch[t] \ toPurge
           new == [q \in toReset |-> Row(batch[t][q].sale)]
           all == With(queue, new)
<1>1. /\ local' = local /\ nextId' = nextId /\ rejections' = rejections
      /\ recorded' = recorded /\ late' = late
      /\ todo' = todo /\ accepted' = accepted /\ seen' = seen
      /\ pc[t] = "purge" /\ pc' = [pc EXCEPT ![t] = "readSynced"]
      /\ batch' = [batch EXCEPT ![t] = NoRows]
      /\ queue' = Without(all, toPurge)
  BY DEF ResetOrPurge, serverVars
<1>2. /\ Tables /\ ServerHolds /\ TasksHold /\ Agreement /\ KeptUntilRejected
      /\ nextId \in Int /\ rejections \in [Sales -> Nat] /\ GoodTask(t)
      /\ rejections \in [Sales -> 0 .. MaxTries] /\ MaxTries \in Nat
  BY CountersAreNat DEF IInv, TasksHold, Tables
<1>3. \A q \in DOMAIN batch[t] :
        /\ batch[t][q].sale \in Sales /\ local[batch[t][q].sale] # "absent"
        /\ batch[t][q].tries \in Nat /\ batch[t][q].tries <= rejections[batch[t][q].sale]
  BY <1>2 DEF GoodTask, GoodRows, GoodRow, Rows
<1>4. \A q \in DOMAIN new : GoodRow(new[q], local, rejections) /\ new[q].sale = batch[t][q].sale
  BY <1>2, <1>3, NewRowGood
<1>5. GoodRows(new, nextId, local, rejections)
  BY <1>2, <1>4 DEF GoodRows, GoodTask
<1>6. Agree(new, queue) /\ \A u \in Tasks : Agree(new, batch[u])
  BY <1>2, <1>4 DEF Agreement, Agree
<1>7. DOMAIN new = toReset
  OBVIOUS
<1> HIDE DEF new
<1>8. Tables'
  <2>1. GoodRows(all, nextId, local, rejections)
    BY <1>2, <1>5, WithGood DEF Tables
  <2> HIDE DEF all
  <2>2. GoodRows(queue', nextId', local', rejections')
    BY <1>1, <2>1, RestrictGood DEF Without
  <2> QED
    BY <1>1, <1>2, <2>2 DEF Tables
<1>9. Grows
  BY <1>1, <1>2 DEF Grows
<1>10. /\ batch'[t] = NoRows /\ DOMAIN batch' = Tasks /\ pc' \in [Tasks -> Lugares]
       /\ pc'[t] = "readSynced" /\ \A u \in Tasks \ {t} : Unmoved(u)
  BY <1>1, <1>2 DEF TasksHold, Unmoved, Lugares
<1>11. GoodTask(t)'
  BY <1>1, <1>2, <1>10, NoRowsGood DEF GoodTask
<1>12. TasksHold'
  BY <1>1, <1>2, <1>8, <1>9, <1>10, <1>11, OthersStay DEF TasksHold
<1>13. Agreement'
  <2>1. \A u \in Tasks : Agree(all, batch[u])
    BY <1>2, <1>6, AgreeWith DEF Agreement
  <2> HIDE DEF all
  <2>2. \A u \in Tasks : Agree(queue', batch[u])
    BY <1>1, <2>1, AgreeRestrict DEF Without
  <2> QED
    BY <1>10, <2>2, AgreeNoRows, AgreementStays
<1>14. KeptUntilRejected'
  <2> SUFFICES ASSUME NEW s \in Sales, local'[s] = "unsynced", s \notin SalesOf(queue')
               PROVE  rejections'[s] >= MaxTries
    BY DEF KeptUntilRejected
  <2>1. CASE s \notin SalesOf(queue)
    BY <1>1, <1>2, <2>1 DEF KeptUntilRejected
  <2>2. CASE s \in SalesOf(queue)
    <3>1. s \in SalesOf(all)
      BY <1>6, <2>2, SalesOfWith
    <3> HIDE DEF all
    <3>2. PICK q \in DOMAIN all : all[q].sale = s
      BY <3>1 DEF SalesOf
    <3>3. q \in toPurge
      <4> SUFFICES ASSUME q \notin toPurge PROVE FALSE
        OBVIOUS
      <4>1. q \in DOMAIN queue' /\ queue'[q].sale = s
        BY <1>1, <3>2 DEF Without, Restrict
      <4> QED
        BY <4>1 DEF SalesOf
    <3>4. batch[t][q].sale = s
      <4>1. Agree(all, batch[t])
        BY <1>2, <1>6, AgreeWith DEF Agreement, all
      <4> QED
        BY <3>2, <3>3, <4>1 DEF Agree
    <3> QED
      BY <1>1, <1>2, <1>3, <3>3, <3>4
  <2> QED
    BY <2>1, <2>2
<1> QED
  BY <1>1, <1>2, <1>8, <1>12, <1>13, <1>14 DEF IInv, ServerHolds

(* A step of one task that touches neither tables nor server. *)
LEMMA OwnStepKeeps ==
  ASSUME IInv, NEW t \in Tasks, UNCHANGED <<dbVars, recorded, rejections>>,
         late \subseteq late', late' \subseteq late \cup todo[t],
         \A u \in Tasks \ {t} : Unmoved(u), GoodTask(t)',
         batch'[t] = batch[t] \/ batch'[t] = NoRows,
         pc' \in [Tasks -> Lugares],
         DOMAIN batch' = Tasks, DOMAIN todo' = Tasks,
         DOMAIN accepted' = Tasks, DOMAIN seen' = Tasks
  PROVE  IInv'
<1>1. /\ local' = local /\ queue' = queue /\ nextId' = nextId
      /\ rejections' = rejections /\ recorded' = recorded
  BY DEF dbVars
<1>2. /\ Tables /\ ServerHolds /\ Agreement /\ nextId \in Int /\ rejections \in [Sales -> Nat]
      /\ \A s \in todo[t] : s \in Sales /\ local[s] # "absent"
  BY CountersAreNat, SalesOfBatch DEF IInv, TasksHold, GoodTask
<1>3. Tables' /\ KeptUntilRejected' /\ ServerHolds'
  BY <1>1, <1>2 DEF IInv, Tables, KeptUntilRejected, ServerHolds
<1>4. Grows
  BY <1>1, <1>2 DEF Grows
<1>5. TasksHold'
  BY <1>3, <1>4, OthersStay
<1>6. Agreement'
  <2>1. CASE batch'[t] = batch[t]
    <3>1. \A u \in Tasks : batch'[u] = batch[u]
      BY <2>1 DEF Unmoved
    <3> QED
      BY <1>1, <1>2, <3>1 DEF Agreement
  <2>2. CASE batch'[t] = NoRows
    <3>1. \A u \in Tasks : Agree(queue', batch[u])
      BY <1>1, <1>2 DEF Agreement
    <3> QED
      BY <2>2, <3>1, AgreeNoRows, AgreementStays
  <2> QED
    BY <2>1, <2>2
<1> QED
  BY <1>3, <1>5, <1>6 DEF IInv

LEMMA EndKeeps ==
  ASSUME IInv, NEW t \in Tasks, End(t), UNCHANGED <<dbVars, recorded, rejections>>,
         late \subseteq late', late' \subseteq late \cup todo[t]
  PROVE  IInv'
BY TaskEnds, OwnStepKeeps

LEMMA ReadSyncedKeeps ==
  ASSUME IInv, NEW t \in Tasks, ReadSynced(t) \/ ReadQueue(t)
  PROVE  IInv'
<1>1. pc[t] \in {"readSynced", "readQueue"} /\ UNCHANGED <<dbVars, recorded, rejections, late>>
  BY DEF ReadSynced, ReadQueue, serverVars
<1>2. /\ TasksHold /\ GoodTask(t)
  BY DEF IInv, TasksHold
<1>3. CASE End(t)
  BY <1>1, <1>3, EndKeeps
<1>4. CASE ~End(t)
  <2>1. /\ batch' = batch /\ todo' = todo /\ accepted' = accepted
        /\ \E S \in SUBSET Sales : /\ seen' = [seen EXCEPT ![t] = S]
                                   /\ \A s \in S : local[s] # "absent"
        /\ \E place \in {"readQueue", "reenqueue"} : pc' = [pc EXCEPT ![t] = place]
    <3>1. CASE ReadSynced(t)
      <4> DEFINE S == {s \in Sales : local[s] = "synced"}
      <4>1. seen' = [seen EXCEPT ![t] = S] /\ S \in SUBSET Sales /\ \A s \in S : local[s] # "absent"
        BY <1>4, <3>1 DEF ReadSynced
      <4> QED
        BY <1>4, <3>1, <4>1 DEF ReadSynced
    <3>2. CASE ReadQueue(t)
      <4>1. seen' = [seen EXCEPT ![t] = seen[t] \ SalesOf(queue)]
        BY <3>2 DEF ReadQueue
      <4>2. (seen[t] \ SalesOf(queue)) \in SUBSET Sales
            /\ \A s \in seen[t] \ SalesOf(queue) : local[s] # "absent"
        BY <1>2 DEF GoodTask
      <4> QED
        BY <3>2, <4>1, <4>2 DEF ReadQueue
    <3> QED
      BY <3>1, <3>2
  <2>2. PICK S \in SUBSET Sales : seen' = [seen EXCEPT ![t] = S] /\ \A s \in S : local[s] # "absent"
    BY <2>1
  <2>3. PICK place \in {"readQueue", "reenqueue"} : pc' = [pc EXCEPT ![t] = place]
    BY <2>1
  <2>4. /\ seen'[t] = S /\ pc'[t] = place /\ pc' \in [Tasks -> Lugares] /\ DOMAIN seen' = Tasks
        /\ \A u \in Tasks \ {t} : Unmoved(u)
    BY <1>2, <2>1, <2>2, <2>3 DEF TasksHold, Unmoved, Lugares
  <2>5. GoodTask(t)'
    BY <1>1, <1>2, <2>1, <2>2, <2>4 DEF GoodTask, dbVars
  <2> QED
    BY <1>1, <1>2, <2>1, <2>4, <2>5, OwnStepKeeps DEF TasksHold
<1> QED
  BY <1>3, <1>4

LEMMA ReenqueueKeeps ==
  ASSUME IInv, NEW t \in Tasks, Reenqueue(t)
  PROVE  IInv'
<1> DEFINE n == Cardinality(seen[t])
<1>1. /\ End(t) /\ nextId + n <= MaxItems + 1 /\ nextId' = nextId + n
      /\ local' = [s \in Sales |-> IF s \in seen[t] THEN "unsynced" ELSE local[s]]
      /\ rejections' = rejections /\ recorded' = recorded /\ late' = late
  BY DEF Reenqueue, serverVars
<1>2. PICK f \in Bijection(nextId .. nextId + n - 1, seen[t]) :
        queue' = With(queue, [q \in DOMAIN f |-> Row(f[q])])
  BY DEF Reenqueue
<1>3. /\ TasksHold /\ GoodTask(t) /\ ServerHolds /\ nextId \in Int /\ rejections \in [Sales -> Nat]
      /\ seen[t] \in SUBSET Sales
  BY CountersAreNat DEF IInv, TasksHold, GoodTask
<1>4. n \in Nat
  <2>1. IsFiniteSet(seen[t])
    BY <1>3, OfflineSyncAssumption, FS_Subset
  <2> QED
    BY <2>1, FS_CardinalityType
<1>5. f \in Surjection(nextId .. nextId + n - 1, seen[t])
  BY <1>2 DEF Bijection
<1> HIDE DEF n
<1>6. /\ Tables' /\ KeptUntilRejected'
      /\ \A u \in Tasks : Agree(queue', batch[u])
      /\ \A s \in Sales : local[s] # "absent" => local'[s] # "absent"
  BY <1>1, <1>2, <1>3, <1>4, <1>5, NewRowsKeep
<1>7. Grows
  BY <1>1, <1>3, <1>4, <1>6 DEF Grows
<1>8. TasksHold'
  BY <1>1, <1>6, <1>7, TaskEnds, OthersStay
<1>9. Agreement'
  BY <1>1, <1>6, TaskEnds, AgreeNoRows, AgreementStays
<1>10. ServerHolds'
  <2>1. \A s \in seen[t] : local[s] # "absent"
    BY <1>3 DEF GoodTask
  <2> QED
    BY <1>1, <1>3, <1>6, <2>1 DEF ServerHolds
<1> QED
  BY <1>6, <1>8, <1>9, <1>10 DEF IInv

LEMMA CloseTabKeeps ==
  ASSUME IInv, NEW t \in Tasks, CloseTab(t)
  PROVE  IInv'
BY EndKeeps DEF CloseTab

-----------------------------------------------------------------------------
(* The invariant *)

LEMMA InitHolds == Init => IInv
<1> SUFFICES ASSUME Init PROVE IInv
  OBVIOUS
<1>1. Tables
  <2>1. GoodRows(NoRows, nextId, local, rejections)
    BY NoRowsGood
  <2> QED
    BY <2>1, OfflineSyncAssumption DEF Init, Tables
<1>2. ServerHolds
  BY DEF Init, ServerHolds
<1>3. TasksHold
  BY NoRowsGood DEF Init, TasksHold, GoodTask, Lugares
<1>4. Agreement
  BY AgreeNoRows DEF Init, Agreement
<1>5. KeptUntilRejected
  BY DEF Init, KeptUntilRejected
<1> QED
  BY <1>1, <1>2, <1>3, <1>4, <1>5 DEF IInv

LEMMA StutterKeeps == IInv /\ UNCHANGED vars => IInv'
BY DEF IInv, Tables, ServerHolds, TasksHold, GoodTask, Agreement, KeptUntilRejected,
       vars, dbVars, serverVars, taskVars

LEMMA NextKeeps == IInv /\ [Next]_vars => IInv'
<1> SUFFICES ASSUME IInv, Next PROVE IInv'
  BY StutterKeeps
<1>1. CASE \E s \in Sales : EnqueueSale(s) \/ ServerProcessLate(s)
  BY <1>1, EnqueueSaleKeeps, ServerProcessLateKeeps
<1>2. CASE \E q \in DOMAIN queue : Due(q)
  BY <1>2, DueKeeps
<1>3. CASE \E t \in Tasks : ReadBatch(t) \/ Server(t) \/ ReadErrorItems(t) \/ CloseTab(t)
  BY <1>3, ReadBatchKeeps, ServerProcessKeeps, ReadErrorItemsKeeps, CloseTabKeeps DEF Server
<1>4. CASE \E t \in Tasks : Answer(t)
  BY <1>4, AnswerKeeps
<1>5. CASE \E t \in Tasks : Recover(t)
  BY <1>5, ResetOrPurgeKeeps, ReadSyncedKeeps, ReenqueueKeeps DEF Recover
<1> QED
  BY <1>1, <1>2, <1>3, <1>4, <1>5 DEF Next, Answer, Reply

(* The rows, copies and refusals of all tasks stay in step in every behaviour *)
(* of the queue.                                                            *)
THEOREM Invariance == Spec => []IInv
BY InitHolds, NextKeeps, PTL DEF Spec

(* No unsynced sale leaves sync_queue before the server has answered        *)
(* MAX_TRIES_BEFORE_ERROR times without taking it, whatever calls of        *)
(* trySyncQueue and recoverLostSales overlap and whichever tabs close; and  *)
(* no row is ever without its sale.                                         *)
THEOREM SalesKeepTheirPlace == Spec => []QueueKeepsSales
<1>1. IInv => QueueKeepsSales
  <2> SUFFICES ASSUME IInv PROVE QueueKeepsSales
    OBVIOUS
  <2>1. /\ Tables /\ ServerHolds /\ TasksHold /\ KeptUntilRejected
    BY DEF IInv
  <2>2. \A q \in DOMAIN queue : queue[q] \in Rows /\ local[queue[q].sale] # "absent"
    BY <2>1 DEF Tables, GoodRows, GoodRow
  <2>3. \A t \in Tasks :
       /\ DOMAIN batch[t] \subseteq 1 .. nextId - 1
       /\ \A q \in DOMAIN batch[t] : batch[t][q] \in Rows
       /\ todo[t] \subseteq SalesOf(batch[t]) /\ accepted[t] \subseteq SalesOf(batch[t])
       /\ seen[t] \subseteq Sales
    BY <2>1 DEF TasksHold, GoodTask, GoodRows, GoodRow
  <2>4. recorded \in [Sales -> 0 .. 2]
    BY <2>1 DEF ServerHolds
  <2> QED
    BY <2>1, <2>2, <2>3, <2>4 DEF QueueKeepsSales, TypeOK, Tables, GoodRows, ServerHolds, TasksHold, Lugares
<1> QED
  BY <1>1, Invariance, PTL

-----------------------------------------------------------------------------
(* The refinement *)

(* The refinement mapping. *)
Confirmed == {s \in Sales : local[s] # "absent"}
Marked == {s \in Sales : local[s] = "synced"}

LEMMA InitMaps == Init => Delivery!Init
BY OfflineSyncAssumption DEF Init, Delivery!Init

(* A step that leaves sales and server alone is a stuttering step. *)
LEMMA SameStutters ==
  ASSUME local' = local, recorded' = recorded
  PROVE  UNCHANGED Delivery!vars
BY DEF Delivery!vars

LEMMA EnqueueSaleConfirms ==
  ASSUME IInv, NEW s \in Sales, EnqueueSale(s)
  PROVE  Delivery!Confirm(s)
<1>1. /\ local \in [Sales -> {"absent", "unsynced", "synced"}] /\ local[s] = "absent"
      /\ local' = [local EXCEPT ![s] = "unsynced"] /\ recorded' = recorded
  BY DEF IInv, Tables, EnqueueSale, serverVars
<1>2. Confirmed' = Confirmed \cup {s} /\ s \notin Confirmed /\ Marked' = Marked
  BY <1>1 DEF Confirmed, Marked
<1> QED
  BY <1>1, <1>2 DEF Delivery!Confirm, Confirmed, Marked

(* The server takes a sale at most once, a sale that the cashier has closed. *)
LEMMA ServerRecords ==
  ASSUME IInv, NEW s \in Sales, local[s] # "absent", local' = local,
         recorded' = recorded \/ recorded' = [recorded EXCEPT ![s] = 1]
  PROVE  Delivery!Record(s) \/ UNCHANGED Delivery!vars
<1>1. recorded \in [Sales -> 0 .. 1]
  BY DEF IInv, ServerHolds
<1>2. CASE recorded' = recorded
  BY <1>2, SameStutters
<1>3. CASE recorded[s] = 1 /\ recorded' = [recorded EXCEPT ![s] = 1]
  <2>1. recorded' = recorded
    BY <1>1, <1>3
  <2> QED
    BY <2>1, SameStutters
<1>4. CASE recorded[s] = 0 /\ recorded' = [recorded EXCEPT ![s] = 1]
  BY <1>4 DEF Delivery!Record
<1> QED
  BY <1>1, <1>2, <1>3, <1>4

LEMMA ApplyResultsMarks ==
  ASSUME IInv, NEW t \in Tasks, ApplyResults(t), NEW S \in SUBSET Sales, S = accepted[t]
  PROVE  Delivery!Mark(S)
<1>1. /\ local \in [Sales -> {"absent", "unsynced", "synced"}] /\ recorded' = recorded
      /\ local' = [s \in Sales |-> IF s \in accepted[t] THEN "synced" ELSE local[s]]
  BY DEF IInv, Tables, ApplyResults
<1>2. /\ accepted[t] \subseteq Sales
      /\ \A s \in accepted[t] : recorded[s] = 1 /\ local[s] # "absent"
  BY SalesOfBatch DEF IInv, TasksHold, GoodTask
<1>3. Marked' = Marked \cup accepted[t] /\ Confirmed' = Confirmed
  BY <1>1, <1>2 DEF Marked, Confirmed
<1> QED
  BY <1>1, <1>2, <1>3 DEF Delivery!Mark, Confirmed, Marked

LEMMA ReenqueueUnmarks ==
  ASSUME IInv, NEW t \in Tasks, Reenqueue(t), NEW S \in SUBSET Sales, S = seen[t]
  PROVE  Delivery!Unmark(S)
<1>1. /\ local \in [Sales -> {"absent", "unsynced", "synced"}] /\ recorded' = recorded
      /\ local' = [s \in Sales |-> IF s \in seen[t] THEN "unsynced" ELSE local[s]]
  BY DEF IInv, Tables, Reenqueue, serverVars
<1>2. \A s \in seen[t] : s \in Sales /\ local[s] # "absent"
  BY DEF IInv, TasksHold, GoodTask
<1>3. Marked' = Marked \ seen[t] /\ Confirmed' = Confirmed
  BY <1>1, <1>2 DEF Marked, Confirmed
<1> QED
  BY <1>1, <1>3 DEF Delivery!Unmark, Confirmed, Marked

LEMMA StepMaps ==
  ASSUME IInv, [Next]_vars
  PROVE  [Delivery!Next]_(Delivery!vars)
<1>1. CASE UNCHANGED vars
  BY <1>1, SameStutters DEF vars, dbVars, serverVars
<1>2. CASE \E s \in Sales : EnqueueSale(s)
  BY <1>2, EnqueueSaleConfirms DEF Delivery!Next
<1>3. CASE \E s \in Sales : ServerProcessLate(s)
  <2>1. PICK s \in Sales : ServerProcessLate(s)
    BY <1>3
  <2>2. local[s] # "absent" /\ local' = local
    BY <2>1 DEF IInv, ServerHolds, ServerProcessLate, dbVars
  <2>3. Delivery!Record(s) \/ UNCHANGED Delivery!vars
    BY <2>1, <2>2, ServerRecords DEF ServerProcessLate
  <2> QED
    BY <2>3 DEF Delivery!Next
<1>4. CASE \E t \in Tasks : Server(t)
  <2>1. PICK t \in Tasks, s \in Sales : ServerProcess(t, s)
    BY <1>4 DEF Server
  <2>2. local[s] # "absent" /\ local' = local
    BY <2>1, SalesOfBatch DEF IInv, TasksHold, GoodTask, ServerProcess, dbVars
  <2>3. recorded' = recorded \/ recorded' = [recorded EXCEPT ![s] = 1]
    BY <2>1 DEF ServerProcess
  <2>4. Delivery!Record(s) \/ UNCHANGED Delivery!vars
    BY <2>2, <2>3, ServerRecords
  <2> QED
    BY <2>4 DEF Delivery!Next
<1>5. CASE \E t \in Tasks : ApplyResults(t)
  <2>1. PICK t \in Tasks : ApplyResults(t)
    BY <1>5
  <2>2. accepted[t] \in SUBSET Sales
    BY SalesOfBatch DEF IInv, TasksHold, GoodTask
  <2>3. PICK S \in SUBSET Sales : S = accepted[t]
    BY <2>2
  <2>4. Delivery!Mark(S)
    BY <2>1, <2>3, ApplyResultsMarks
  <2> QED
    BY <2>4 DEF Delivery!Next
<1>6. CASE \E t \in Tasks : Reenqueue(t)
  <2>1. PICK t \in Tasks : Reenqueue(t)
    BY <1>6
  <2>2. seen[t] \in SUBSET Sales
    BY DEF IInv, TasksHold, GoodTask
  <2>3. PICK S \in SUBSET Sales : S = seen[t]
    BY <2>2
  <2>4. Delivery!Unmark(S)
    BY <2>1, <2>3, ReenqueueUnmarks
  <2> QED
    BY <2>4 DEF Delivery!Next
<1>7. CASE \E q \in DOMAIN queue : Due(q)
  BY <1>7, SameStutters DEF Due, serverVars
<1>8. CASE \E t \in Tasks : \/ ReplyObject(t) \/ ReplyObjectOffline(t) \/ ReplyError(t)
                            \/ ConnectionLost(t)
  BY <1>8, SameStutters DEF ReplyObject, ReplyObjectOffline, ReplyError, ConnectionLost,
                            CatchServerError, CatchOffline
<1>9. CASE \E t \in Tasks : \/ ReadBatch(t) \/ ReadErrorItems(t) \/ CloseTab(t)
                            \/ ResetOrPurge(t) \/ ReadSynced(t) \/ ReadQueue(t)
  BY <1>9, SameStutters DEF ReadBatch, ReadErrorItems, CloseTab, ResetOrPurge, ReadSynced,
                            ReadQueue, dbVars, serverVars
<1> QED
  BY <1>1, <1>2, <1>3, <1>4, <1>5, <1>6, <1>7, <1>8, <1>9 DEF Next, Reply, Recover

(* The queue implements SaleDelivery: a confirmed sale is recorded at most  *)
(* once and marked as synced only when it is recorded, for every number of  *)
(* sales, calls, rows and lost answers.                                     *)
THEOREM QueueImplementsDelivery == Spec => ImplementsDelivery
<1>1. IInv /\ [Next]_vars => [Delivery!Next]_(Delivery!vars)
  BY StepMaps
<1> QED
  BY <1>1, InitMaps, Invariance, PTL DEF Spec, ImplementsDelivery, Delivery!Spec
=============================================================================
