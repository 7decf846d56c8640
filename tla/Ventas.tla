------------------------------- MODULE Ventas -------------------------------
(***************************************************************************)
(* Sales and stock of one tenant (venta_service.go, inventario_service.go  *)
(* and the repositories below them).                                       *)
(*                                                                         *)
(* A request is a goroutine that goes through one handler: the checks that *)
(* the service makes outside its transaction, then the transaction, one    *)
(* action per statement that takes a row lock or reads a row another       *)
(* request may change, then what follows the commit.  PostgreSQL runs at   *)
(* READ COMMITTED: an UPDATE or a SELECT ... FOR UPDATE waits for the row  *)
(* lock and keeps it until the transaction ends; a plain SELECT sees what  *)
(* is committed and the transaction's own writes.                          *)
(***************************************************************************)
EXTENDS Integers, Sequences, FiniteSets, Functions, Relation

CONSTANTS
  Requests,      \* concurrent HTTP requests
  Productos,
  Stock0,        \* productos.stock_actual at the start
  Sucursal0,     \* stock_sucursal.stock_actual of the session's branch
  Vinculo,       \* Vinculo[hijo] = [padre, unidades]: links with desarme_auto
  Peso,          \* what one unit of each product is worth, as the links say
  PorPeso,       \* products sold by kg or gramo
  Carritos,      \* the item lists a request may carry
  OfflineIds,
  SinId,         \* no offline_id
  Nadie,         \* no transaction holds the row lock
  Tipos,         \* which handlers are called
  MaxRequests    \* bound: requests received in a behaviour

\* The quantity of a line is an int >= 1 (dto/venta_dto.go, validate:"min=1").
Lineas == [p : Productos, c : Nat \ {0}]

TiposDeRequest == {"online", "sync", "anular", "desarme"}

ASSUME VentasAssumption ==
  /\ Stock0 \in [Productos -> Int]
  /\ Sucursal0 \in [Productos -> Int]
  /\ DOMAIN Vinculo \subseteq Productos
  /\ \A h \in DOMAIN Vinculo :
       /\ Vinculo[h].padre \in Productos \ {h}
       /\ Vinculo[h].unidades \in Nat \ {0}
  /\ IsFiniteSet(Productos)
  \* a padre is worth the units it opens into
  /\ Peso \in [Productos -> Int]
  /\ \A h \in DOMAIN Vinculo : Peso[Vinculo[h].padre] = Vinculo[h].unidades * Peso[h]
  /\ PorPeso \subseteq Productos
  /\ Carritos \subseteq Seq(Lineas) \ {<< >>}
  /\ SinId \notin OfflineIds
  /\ Nadie \notin Requests
  /\ Tipos \subseteq TiposDeRequest
  /\ MaxRequests \in Nat

VARIABLES
  stock,      \* productos.stock_actual, committed
  sucursal,   \* stock_sucursal.stock_actual of the branch, committed
  ledger,     \* sum of movimientos_stock.cantidad per product, committed
  ventas,     \* the ventas table, in commit order
  sesion,     \* estado of the caja session the requests name
  lock,       \* lock[p]: the request whose transaction holds the row
  recibidas,  \* requests received so far
  pc,         \* where each request is
  op,         \* the request's body
  conflicto,  \* conflictoStock, computed before the transaction
  k,          \* next line of the item loop the request is in
  plan,       \* UPDATEs of stock_actual still to run for the current line
  delta       \* the transaction's own, uncommitted stock changes

dbVars == <<stock, sucursal, ledger, ventas>>
reqVars == <<op, conflicto>>
txVars == <<k, plan, delta>>
vars == <<dbVars, sesion, lock, recibidas, pc, reqVars, txVars>>

EsVenta(o) == o.tipo \in {"online", "sync"}

\* Body of a request that is not there (an idle goroutine).
SinOp == [tipo |-> "online", items |-> << >>, off |-> SinId, valida |-> TRUE, venta |-> 0,
          suc |-> TRUE]

SinDelta == [p \in Productos |-> 0]

Init ==
  /\ stock = Stock0
  /\ sucursal = Sucursal0
  /\ ledger = [p \in Productos |-> 0]
  /\ ventas = << >>
  /\ sesion = "abierta"
  /\ lock = [p \in Productos |-> Nadie]
  /\ recibidas = 0
  /\ pc = [r \in Requests |-> "libre"]
  /\ op = [r \in Requests |-> SinOp]
  /\ conflicto = [r \in Requests |-> FALSE]
  /\ k = [r \in Requests |-> 1]
  /\ plan = [r \in Requests |-> << >>]
  /\ delta = [r \in Requests |-> SinDelta]

-----------------------------------------------------------------------------
(* Helpers: rows, locks and the end of a request. *)

Registrada(off) == \E i \in DOMAIN ventas : ventas[i].off = off

\* The row lock of p is free for r.
Puede(r, p) == lock[p] \in {Nadie, r}

\* What r's transaction reads in productos.stock_actual.
Lee(r, p) == stock[p] + delta[r][p]

\* (deficit + unidades - 1) / unidades
PadresNecesarios(deficit, unidades) == (deficit + unidades - 1) \div unidades

\* Mutant: the end of a transaction releases nothing.
SueltaNada(r) == lock' = lock

Suelta(r) == lock' = [p \in Productos |-> IF lock[p] = r THEN Nadie ELSE lock[p]]

LimpiaTx(r) ==
  /\ k' = [k EXCEPT ![r] = 1]
  /\ plan' = [plan EXCEPT ![r] = << >>]
  /\ delta' = [delta EXCEPT ![r] = SinDelta]

\* The goroutine ends and its variables with it.
Olvida(r) ==
  /\ pc' = [pc EXCEPT ![r] = "libre"]
  /\ op' = [op EXCEPT ![r] = SinOp]
  /\ conflicto' = [conflicto EXCEPT ![r] = FALSE]

\* The handler returns; if it was in a transaction, the transaction rolls back.
Responder(r) ==
  /\ Olvida(r)
  /\ Suelta(r)
  /\ LimpiaTx(r)
  /\ UNCHANGED <<dbVars, sesion, recibidas>>

Avanza(r, donde) ==
  /\ pc' = [pc EXCEPT ![r] = donde]
  /\ UNCHANGED <<dbVars, sesion, recibidas, op>>

-----------------------------------------------------------------------------
(* The requests that the handlers bind (handler/ventas.go, inventario.go). *)

\* suc: a branch is in the request's context (always so for a session with one).
Cuerpos ==
  [tipo : Tipos \cap {"online", "sync"}, items : Carritos, off : OfflineIds \cup {SinId},
   valida : BOOLEAN, venta : {0}, suc : {TRUE}]
  \cup [tipo : Tipos \cap {"anular"}, items : {<< >>}, off : {SinId}, valida : {TRUE},
        venta : DOMAIN ventas, suc : {TRUE}]
  \cup [tipo : Tipos \cap {"desarme"}, items : {<<[p |-> h, c |-> 1]>> : h \in DOMAIN Vinculo},
        off : {SinId}, valida : {TRUE}, venta : {0}, suc : BOOLEAN]

\* Only sales of sync-batch go through its duplicate filter first.
Recibir(r) ==
  /\ pc[r] = "libre"
  /\ recibidas < MaxRequests
  /\ recibidas' = recibidas + 1
  /\ \E o \in Cuerpos :
       /\ o.tipo = "sync" => o.off # SinId
       /\ op' = [op EXCEPT ![r] = o]
       /\ pc' = [pc EXCEPT ![r] = IF o.tipo = "online" THEN "sesion" ELSE "recibida"]
  /\ conflicto' = [conflicto EXCEPT ![r] = FALSE]
  /\ UNCHANGED <<dbVars, sesion, lock, txVars>>

\* SyncBatch: FindExistingOfflineIDs, duplicates are skipped.
FiltrarDuplicados(r) ==
  /\ pc[r] = "recibida" /\ op[r].tipo = "sync"
  /\ \/ Registrada(op[r].off) /\ Responder(r)
     \/ /\ ~Registrada(op[r].off)
        /\ Avanza(r, "sesion")
        /\ UNCHANGED <<lock, txVars, conflicto>>

\* FindSesionAbierta, then FindByOfflineID (registrarVentaInternal 1 and 2).
RevisarSesion(r) ==
  /\ pc[r] = "sesion"
  /\ \/ sesion = "cerrada" /\ Responder(r)
     \/ sesion = "abierta" /\ op[r].off # SinId /\ Registrada(op[r].off)
          /\ Responder(r)
     \/ /\ sesion = "abierta"
        /\ op[r].off = SinId \/ ~Registrada(op[r].off)
        /\ Avanza(r, "lineas")
        /\ UNCHANGED <<lock, txVars, conflicto>>

\* The pre-flight finds too little stock for line l.
Falta(l) == l.p \notin PorPeso /\ stock[l.p] < l.c

\* canDesarme
CanDesarme(l) ==
  /\ l.p \in DOMAIN Vinculo
  /\ stock[Vinculo[l.p].padre] >= PadresNecesarios(l.c - stock[l.p], Vinculo[l.p].unidades)

\* The item loop and the payment checks outside the transaction.  valida stands
\* for what depends on the request alone: weight, discount cap, sum of the
\* payments, client of a fiado.
RevisarLineas(r) ==
  /\ pc[r] = "lineas"
  /\ LET faltan == {i \in DOMAIN op[r].items : Falta(op[r].items[i])}
         rechaza == /\ op[r].tipo = "online"
                    /\ \E i \in faltan : ~CanDesarme(op[r].items[i])
     IN \/ rechaza /\ Responder(r)
        \/ ~rechaza /\ ~op[r].valida /\ Responder(r)
        \/ /\ ~rechaza /\ op[r].valida
           /\ conflicto' = [conflicto EXCEPT ![r] = faltan # {}]
           /\ Avanza(r, IF op[r].tipo = "online" THEN "bloqueo" ELSE "insertar")
           /\ UNCHANGED <<lock, txVars>>

-----------------------------------------------------------------------------
(* The transaction of a sale. *)

\* Mutant: the re-validation reads without FOR UPDATE.
BloquearLineaSinLock(r) ==
  /\ pc[r] = "bloqueo"
  /\ LET l == op[r].items[k[r]]
         ultima == k[r] = Len(op[r].items)
     IN \/ stock[l.p] < l.c /\ Responder(r)
        \/ /\ stock[l.p] >= l.c
           /\ k' = [k EXCEPT ![r] = IF ultima THEN 1 ELSE k[r] + 1]
           /\ pc' = [pc EXCEPT ![r] = IF ultima THEN "insertar" ELSE "bloqueo"]
           /\ UNCHANGED <<lock, dbVars, sesion, recibidas, reqVars, plan, delta>>

\* SELECT stock_actual ... FOR UPDATE of the next line, online sales only.
BloquearLinea(r) ==
  /\ pc[r] = "bloqueo"
  /\ LET l == op[r].items[k[r]]
         ultima == k[r] = Len(op[r].items)
     IN /\ Puede(r, l.p)
        /\ \/ stock[l.p] < l.c /\ Responder(r)
           \/ /\ stock[l.p] >= l.c
              /\ lock' = [lock EXCEPT ![l.p] = r]
              /\ k' = [k EXCEPT ![r] = IF ultima THEN 1 ELSE k[r] + 1]
              /\ pc' = [pc EXCEPT ![r] = IF ultima THEN "insertar" ELSE "bloqueo"]
              /\ UNCHANGED <<dbVars, sesion, recibidas, reqVars, plan, delta>>

\* Another transaction has inserted the same offline_id and is still open: the
\* unique index makes this one wait for its outcome.
EsperaIndice(r, s) ==
  /\ s # r /\ pc[s] = "escritura"
  /\ op[r].off # SinId /\ op[s].off = op[r].off

\* Mutant: ventas.offline_id has no unique index.
InsertarSinIndice(r) ==
  /\ pc[r] = "insertar"
  /\ Avanza(r, "escritura")
  /\ UNCHANGED <<lock, txVars, conflicto>>

\* nextval and repo.Create under UNIQUE (tenant_id, offline_id).
Insertar(r) ==
  /\ pc[r] = "insertar"
  /\ ~\E s \in Requests : EsperaIndice(r, s)
  /\ \/ op[r].off # SinId /\ Registrada(op[r].off) /\ Responder(r)
     \/ /\ op[r].off = SinId \/ ~Registrada(op[r].off)
        /\ Avanza(r, "escritura")
        /\ UNCHANGED <<lock, txVars, conflicto>>

\* Mutant: the units the opened parents yield are not added to the child.
PlanDescuentoSinUnidades(r, l) ==
  LET sim == <<[p |-> l.p, d |-> -l.c]>>
  IN IF Lee(r, l.p) >= l.c \/ l.p \notin DOMAIN Vinculo THEN sim
     ELSE LET v == Vinculo[l.p]
              n == PadresNecesarios(l.c - Lee(r, l.p), v.unidades)
          IN IF Lee(r, v.padre) < n THEN sim
             ELSE <<[p |-> v.padre, d |-> -n], [p |-> l.p, d |-> -l.c]>>

\* The UPDATEs that DescontarStockTx decides on for line l from what it reads.
PlanDescuento(r, l) ==
  LET sim == <<[p |-> l.p, d |-> -l.c]>>
  IN IF Lee(r, l.p) >= l.c \/ l.p \notin DOMAIN Vinculo THEN sim
     ELSE LET v == Vinculo[l.p]
              n == PadresNecesarios(l.c - Lee(r, l.p), v.unidades)
          IN IF Lee(r, v.padre) < n THEN sim
             ELSE <<[p |-> v.padre, d |-> -n], [p |-> l.p, d |-> n * v.unidades - l.c]>>

\* The reads of DescontarStockTx, without a lock.
LeerLinea(r) ==
  /\ pc[r] = "escritura" /\ EsVenta(op[r])
  /\ plan[r] = << >> /\ k[r] <= Len(op[r].items)
  /\ plan' = [plan EXCEPT ![r] = PlanDescuento(r, op[r].items[k[r]])]
  /\ k' = [k EXCEPT ![r] = k[r] + 1]
  /\ Avanza(r, "escritura")
  /\ UNCHANGED <<lock, delta, conflicto>>

\* UpdateStockTx: UPDATE productos SET stock_actual = stock_actual + delta.
UpdateStockTx(r) ==
  /\ pc[r] = "escritura" /\ plan[r] # << >>
  /\ LET u == Head(plan[r])
     IN /\ Puede(r, u.p)
        /\ lock' = [lock EXCEPT ![u.p] = r]
        /\ delta' = [delta EXCEPT ![r][u.p] = @ + u.d]
  /\ plan' = [plan EXCEPT ![r] = Tail(plan[r])]
  /\ Avanza(r, "escritura")
  /\ UNCHANGED <<k, conflicto>>

\* Sum of the quantities of product p in an item list.
Cantidad(items, p) == SumFunction([i \in DOMAIN items |-> IF items[i].p = p THEN items[i].c ELSE 0])

\* All of the transaction's statements have run.
TxCompleta(r) == pc[r] = "escritura" /\ plan[r] = << >> /\ k[r] > Len(op[r].items)

\* Stock becomes visible and the row locks are released.
Confirma(r) ==
  /\ stock' = [p \in Productos |-> stock[p] + delta[r][p]]
  /\ Suelta(r)
  /\ LimpiaTx(r)
  /\ UNCHANGED <<sesion, recibidas>>

\* COMMIT of a sale: its row, one movimiento_stock per line, the branch's stock
\* by the quantities of the lines, one movimiento_caja per payment.
ConfirmarVenta(r) ==
  /\ TxCompleta(r) /\ EsVenta(op[r])
  /\ LET o == op[r]
     IN /\ ventas' = Append(ventas,
              [items |-> o.items, off |-> o.off, tipo |-> o.tipo, conflicto |-> conflicto[r],
               estado |-> "completada", restauraciones |-> 0, factura |-> "ninguna"])
        /\ op' = [op EXCEPT ![r].venta = Len(ventas) + 1]
        /\ ledger' = [p \in Productos |-> ledger[p] - Cantidad(o.items, p)]
        /\ sucursal' = [p \in Productos |-> sucursal[p] - Cantidad(o.items, p)]
  /\ Confirma(r)
  /\ pc' = [pc EXCEPT ![r] = "encolar"]
  /\ UNCHANGED conflicto

\* After the commit: the facturacion job is queued in Redis, or a pending
\* comprobante stands in for it, or neither could be written (logged only).
Encolar(r) ==
  /\ pc[r] = "encolar"
  /\ \E f \in {"cola", "pendiente", "ninguna"} :
       ventas' = [ventas EXCEPT ![op[r].venta].factura = f]
  /\ Olvida(r)
  /\ UNCHANGED <<stock, sucursal, ledger, sesion, lock, recibidas, txVars>>

-----------------------------------------------------------------------------
(* AnularVenta *)

\* FindByID and the estado check, outside the transaction.
BuscarVenta(r) ==
  /\ pc[r] = "recibida" /\ op[r].tipo = "anular"
  /\ LET v == ventas[op[r].venta]
     IN \/ v.estado = "anulada" /\ Responder(r)
        \/ /\ v.estado # "anulada"
           /\ op' = [op EXCEPT ![r].items = v.items]
           /\ plan' = [plan EXCEPT ![r] = [i \in DOMAIN v.items |->
                        [p |-> v.items[i].p, d |-> v.items[i].c]]]
           /\ k' = [k EXCEPT ![r] = Len(v.items) + 1]
           /\ pc' = [pc EXCEPT ![r] = "escritura"]
           /\ UNCHANGED <<dbVars, sesion, lock, recibidas, conflicto, delta>>

\* COMMIT of an anulacion: restore movements, inverse caja movements, estado.
ConfirmarAnulacion(r) ==
  /\ TxCompleta(r) /\ op[r].tipo = "anular"
  /\ LET o == op[r]
     IN /\ ventas' = [ventas EXCEPT ![o.venta].estado = "anulada",
                                    ![o.venta].restauraciones = @ + 1]
        /\ ledger' = [p \in Productos |-> ledger[p] + Cantidad(o.items, p)]
        /\ sucursal' = [p \in Productos |-> sucursal[p] + Cantidad(o.items, p)]
  /\ Confirma(r)
  /\ Olvida(r)

-----------------------------------------------------------------------------
(* DesarmeManual *)

\* The link and the parent's stock are read outside the transaction.
BuscarVinculo(r) ==
  /\ pc[r] = "recibida" /\ op[r].tipo = "desarme"
  /\ LET l == op[r].items[1]
         v == Vinculo[l.p]
     IN \/ stock[v.padre] < l.c /\ Responder(r)
        \/ /\ stock[v.padre] >= l.c
           /\ plan' = [plan EXCEPT ![r] = <<[p |-> v.padre, d |-> -l.c],
                                            [p |-> l.p, d |-> l.c * v.unidades]>>]
           /\ k' = [k EXCEPT ![r] = 2]
           /\ pc' = [pc EXCEPT ![r] = "escritura"]
           /\ UNCHANGED <<dbVars, sesion, lock, recibidas, reqVars, delta>>

\* COMMIT of a desarme: the branch follows when one is in the context; no
\* movimiento_stock is written.
ConfirmarDesarme(r) ==
  /\ TxCompleta(r) /\ op[r].tipo = "desarme"
  /\ sucursal' = [p \in Productos |->
                    IF op[r].suc THEN sucursal[p] + delta[r][p] ELSE sucursal[p]]
  /\ Confirma(r)
  /\ Olvida(r)
  /\ UNCHANGED <<ventas, ledger>>

-----------------------------------------------------------------------------
(* The surroundings. *)

\* The arqueo of the session (module Caja) closes it for good.
CerrarSesion ==
  /\ sesion = "abierta"
  /\ sesion' = "cerrada"
  /\ UNCHANGED <<dbVars, lock, recibidas, pc, reqVars, txVars>>

\* r cannot go on before s ends its transaction.
Espera(r, s) ==
  /\ r # s
  /\ \/ pc[r] = "bloqueo" /\ lock[op[r].items[k[r]].p] = s
     \/ pc[r] = "insertar" /\ EsperaIndice(r, s)
     \/ pc[r] = "escritura" /\ plan[r] # << >> /\ lock[Head(plan[r]).p] = s

\* r waits, through others, for itself.
EnCiclo(r) == TransitiveClosure([x, y \in Requests |-> Espera(x, y)], Requests)[r, r]

\* PostgreSQL aborts a transaction that is part of a cycle of waits.
DeadlockAbort(r) == EnCiclo(r) /\ Responder(r)

\* The process or its connection dies: an open transaction is rolled back.
Caida(r) ==
  /\ pc[r] # "libre"
  /\ Responder(r)

Paso(r) ==
  \/ FiltrarDuplicados(r) \/ RevisarSesion(r) \/ RevisarLineas(r)
  \/ BloquearLinea(r) \/ Insertar(r) \/ LeerLinea(r) \/ UpdateStockTx(r)
  \/ ConfirmarVenta(r) \/ Encolar(r)
  \/ BuscarVenta(r) \/ ConfirmarAnulacion(r)
  \/ BuscarVinculo(r) \/ ConfirmarDesarme(r)

Next ==
  \/ CerrarSesion
  \/ \E r \in Requests : Recibir(r) \/ Paso(r) \/ DeadlockAbort(r) \/ Caida(r)

(* A goroutine that can run does, and PostgreSQL breaks deadlocks. *)
Fairness == \A r \in Requests : WF_vars(Paso(r)) /\ WF_vars(DeadlockAbort(r))

Spec == Init /\ [][Next]_vars

FairSpec == Spec /\ Fairness

-----------------------------------------------------------------------------
(* Type invariant. *)
Pcs == {"libre", "recibida", "sesion", "lineas", "bloqueo", "insertar", "escritura", "encolar"}

TypeOK ==
  /\ stock \in [Productos -> Int] /\ sucursal \in [Productos -> Int]
  /\ ledger \in [Productos -> Int] /\ delta \in [Requests -> [Productos -> Int]]
  /\ sesion \in {"abierta", "cerrada"}
  /\ lock \in [Productos -> Requests \cup {Nadie}]
  /\ recibidas \in 0 .. MaxRequests
  /\ pc \in [Requests -> Pcs]
  /\ conflicto \in [Requests -> BOOLEAN]
  /\ k \in [Requests -> Nat \ {0}]
  /\ \A r \in Requests : op[r].tipo \in TiposDeRequest /\ op[r].venta \in 0 .. Len(ventas)
  /\ \A i \in DOMAIN ventas : ventas[i].estado \in {"completada", "anulada"}

(* An offline sale is recorded at most once, whatever batches, retries and *)
(* online requests carry it concurrently (the look-ups are outside the     *)
(* transaction; UNIQUE (tenant_id, offline_id) decides).                   *)
OfflineUnico ==
  \A i, j \in DOMAIN ventas :
    i # j /\ ventas[i].off = ventas[j].off => ventas[i].off = SinId

Distintas(items) == \A i, j \in DOMAIN items : i # j => items[i].p # items[j].p

(* An online sale whose lines name different products never takes a stock  *)
(* below zero, whatever syncs, anulaciones and desarmes run with it: what  *)
(* it re-validated under FOR UPDATE still holds when it commits.           *)
OnlineNoSobrevende ==
  [][\A r \in Requests :
       TxCompleta(r) /\ op[r].tipo = "online" /\ Distintas(op[r].items) /\ Len(ventas') > Len(ventas)
         /\ pc'[r] = "encolar"
       => \A p \in Productos : stock'[p] < stock[p] => stock'[p] >= 0]_vars

(* What a column of stock is worth, in the units of Peso. *)
Total(f) == SumFunction([p \in Productos |-> Peso[p] * f[p]])

(* No unit appears or vanishes: in any valuation that the links respect    *)
(* (one that is zero outside a family counts that family alone), the stock *)
(* is the initial stock plus the movimientos_stock, through every          *)
(* disassembly, rollback and race (disassemblies write no movement).       *)
StockConservado ==
  Total(stock) = Total(Stock0) + Total(ledger)

(* The branch's stock_sucursal and the global stock differ only by what    *)
(* disassemblies moved inside a family.                                    *)
SucursalConservada ==
  Total(stock) - Total(sucursal) = Total(Stock0) - Total(Sucursal0)

(* Both books of stock hold, the global one and the branch's, whatever     *)
(* sales, syncs, anulaciones and disassemblies interleave, roll back or    *)
(* die (UpdateStockTx, ConfirmarVenta, ConfirmarAnulacion).                *)
ExistenciasCuadran == TypeOK /\ StockConservado /\ SucursalConservada

(* Every request is answered: lock queues and deadlocks are transient.     *)
TodaRequestTermina == \A r \in Requests : pc[r] # "libre" ~> pc[r] = "libre"

-----------------------------------------------------------------------------
(* Statements of the repository that the code does not keep. *)

(* venta_service.go:531: "If stock goes negative, the sale is flagged      *)
(* (ConflictoStock=true) for supervisor review".                           *)
NegativoMarcado ==
  [][\A r \in Requests :
       TxCompleta(r) /\ op[r].tipo = "sync" /\ pc'[r] = "encolar"
       => \A i \in DOMAIN op[r].items :
            stock'[op[r].items[i].p] < 0 => conflicto[r]]_vars

(* venta_service.go:96: "When fromSync=false (online POS), insufficient    *)
(* stock is rejected with an error".                                       *)
OnlineNuncaNegativo ==
  [][\A r \in Requests :
       TxCompleta(r) /\ op[r].tipo = "online" /\ pc'[r] = "encolar"
       => \A p \in Productos : stock'[p] < stock[p] => stock'[p] >= 0]_vars

(* tests/ventas_test.go:333: "When hijo stock is 0 but padre has units,    *)
(* auto-desarme should trigger": with one request at a time, an online     *)
(* sale that the pre-flight accepts finds the stock it needs when its      *)
(* transaction re-validates the lines.                                     *)
PreflightDecide ==
  \A r \in Requests : pc[r] = "bloqueo" =>
    stock[op[r].items[k[r]].p] >= op[r].items[k[r]].c

(* venta_service.go:464: an anulada sale is not annulled again, so its     *)
(* stock and its payments are given back once.                             *)
RestauradaUnaVez == \A i \in DOMAIN ventas : ventas[i].restauraciones <= 1
=============================================================================
