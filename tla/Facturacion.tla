----------------------------- MODULE Facturacion -----------------------------
(***************************************************************************)
(* Fiscal documents (worker/facturacion_worker.go, worker/retry_cron.go,   *)
(* worker/pool.go, service/facturacion_service.go).                        *)
(*                                                                         *)
(* A sale leaves a job in Redis, or a pending comprobante when Redis       *)
(* fails.  Workers pop jobs, the retry cron lists pending comprobantes,    *)
(* administrators reset them, and whoever asks for a PDF saves its path.   *)
(* Everyone reads the row, works on the copy (for the workers and the cron *)
(* across a call to AFIP of up to 30 s, for a PDF while it is rendered)    *)
(* and writes the whole copy back: db.Save.                                *)
(***************************************************************************)
EXTENDS Integers, FiniteSets, Functions

CONSTANTS
  Ventas,
  Workers,        \* goroutines of the pool on jobs:facturacion
  Admins,         \* concurrent requests to the handlers of comprobantes
  Contextos,      \* whether the context of workers and cron may carry a tenant
  MaxRetries,     \* MaxComprobanteRetries
  RetryBatch,     \* retryBatchSize
  MaxAdmin,       \* bound: requests to reset or cancel
  MaxPdf,         \* bound: requests for a PDF
  MaxCaidas,      \* bound: restarts of the server process
  MaxFallas,      \* bound: writes of a comprobante that the database refuses
  MaxLlamadas,    \* bound of the ghost counter of AFIP calls
  MaxCAEs         \* bound of the authorisations of a sale that are told apart

ASSUME FacturacionAssumption ==
  /\ Ventas # {}
  /\ Workers \cap Admins = {} /\ "cron" \notin Workers \cup Admins
  /\ Contextos \subseteq BOOLEAN
  /\ MaxRetries \in Nat \ {0} /\ RetryBatch \in Nat \ {0}
  /\ MaxAdmin \in Nat /\ MaxPdf \in Nat /\ MaxCaidas \in Nat /\ MaxFallas \in Nat
  /\ MaxLlamadas \in Nat /\ MaxCAEs \in Nat \ {0}

VARIABLES
  fiscal,     \* sales invoiced with factura_a, b or c; the others ticket_interno
  conTenant,  \* the context that main.go hands to workers and cron has a tenant
  vendidas,   \* committed sales
  cola,       \* jobs:facturacion: sales with a job in Redis
  comp,       \* comprobantes, one row per venta_id, or SinFila
  dlq,        \* sales with an entry in dlq:jobs:facturacion
  cb,         \* what CircuitBreaker.State answers
  caes,       \* authorisations AFIP has issued per sale
  llamadas,   \* AFIP calls made per sale
  reintentos, \* manual resets that were written, per sale
  pisadas,    \* saves of a PDF's path that took the row back, per sale
  pc, obj, mem,  \* per agent: where it is, which sale, its copy of the row
  lote,       \* the rows that the cron has listed and not processed yet
  admins, pdfs, caidas, fallas

externas == <<fiscal, conTenant, cb, caes, llamadas>>
cuentas == <<reintentos, pisadas, admins, pdfs, caidas, fallas>>
agentes == <<pc, obj, mem, lote>>
vars == <<vendidas, cola, comp, dlq, externas, cuentas, agentes>>

Cron == "cron"
Agentes == Workers \cup Admins \cup {Cron}

\* next_retry_at is NULL, in the future or past.
Fila(estado, next) == [estado |-> estado, cae |-> 0, retry |-> 0, next |-> next]
SinFila == Fila("ninguno", "null")

Init ==
  /\ fiscal \in SUBSET Ventas
  /\ conTenant \in Contextos
  /\ vendidas = {} /\ cola = {} /\ dlq = {}
  /\ comp = [v \in Ventas |-> SinFila]
  /\ cb = "cerrado"
  /\ caes = [v \in Ventas |-> 0]
  /\ llamadas = [v \in Ventas |-> 0]
  /\ reintentos = [v \in Ventas |-> 0] /\ pisadas = [v \in Ventas |-> 0]
  /\ pc = [a \in Agentes |-> "libre"]
  /\ obj = [a \in Agentes |-> CHOOSE v \in Ventas : TRUE]
  /\ mem = [a \in Agentes |-> SinFila]
  /\ lote = [v \in {} |-> SinFila]
  /\ admins = 0 /\ pdfs = 0 /\ caidas = 0 /\ fallas = 0

-----------------------------------------------------------------------------
(* Helpers *)

Existe(v) == comp[v].estado # "ninguno"

Ir(a, donde, v, fila) ==
  /\ pc' = [pc EXCEPT ![a] = donde]
  /\ obj' = [obj EXCEPT ![a] = v]
  /\ mem' = [mem EXCEPT ![a] = fila]

Fin(a) == Ir(a, "libre", obj[a], SinFila)

\* Workers and cron log a write that fails and go on.
Escribe(v, fila) ==
  /\ \/ comp' = [comp EXCEPT ![v] = fila] /\ UNCHANGED fallas
     \/ fallas < MaxFallas /\ fallas' = fallas + 1 /\ UNCHANGED comp
  /\ UNCHANGED <<reintentos, pisadas, admins, pdfs, caidas>>

\* Answers of callAFIPWithCB: with the breaker open the call is not made.  In
\* "perdida" AFIP has authorised and the answer does not arrive (timeout).
Resultados == IF cb = "abierto" THEN {"fallo"}
              ELSE {"A", "R", "fallo", "validacion", "perdida"}

\* AFIP numbers every authorisation: a second call is a second invoice.
Facturar(v, r) ==
  /\ caes' = [caes EXCEPT ![v] = IF r \in {"A", "perdida"} /\ @ < MaxCAEs THEN @ + 1 ELSE @]
  /\ llamadas' = [llamadas EXCEPT ![v] = IF cb = "cerrado" /\ @ < MaxLlamadas THEN @ + 1 ELSE @]
  /\ UNCHANGED <<fiscal, conTenant, cb>>

Emitida(fila, v) == [fila EXCEPT !.estado = "emitido", !.cae = caes'[v], !.next = "null"]

-----------------------------------------------------------------------------
(* The last step of RegistrarVenta *)

\* LPUSH succeeds; or it fails and a pending row stands in for the job, or not
\* even that; or it reports a failure after Redis has taken the job.
RegistrarVenta(v) ==
  /\ v \notin vendidas
  /\ vendidas' = vendidas \cup {v}
  /\ \/ cola' = cola \cup {v} /\ UNCHANGED comp
     \/ /\ cola' \in {cola, cola \cup {v}}
        /\ comp' = [comp EXCEPT ![v] = Fila("pendiente", "espera")]
     \/ UNCHANGED <<cola, comp>>
  /\ UNCHANGED <<dlq, externas, cuentas, agentes>>

\* The clock reaches a next_retry_at.
Vence(v) ==
  /\ comp[v].next = "espera"
  /\ comp' = [comp EXCEPT ![v].next = "vencido"]
  /\ UNCHANGED <<vendidas, cola, dlq, externas, cuentas, agentes>>

-----------------------------------------------------------------------------
(* FacturacionWorker.Process *)

\* BRPOP: from here on the job is only in this goroutine.
Tomar(w) ==
  /\ pc[w] = "libre"
  /\ \E v \in cola :
       /\ cola' = cola \ {v}
       /\ Ir(w, "buscar", v, SinFila)
  /\ UNCHANGED <<vendidas, comp, dlq, externas, cuentas, lote>>

\* ventaRepo.FindByID and comprobanteRepo.FindByVentaID, both scoped to the
\* tenant of the context; a row with a CAE ends the job.
Buscar(w) ==
  /\ pc[w] = "buscar"
  /\ LET v == obj[w]
     IN \/ ~conTenant /\ Fin(w)
        \/ conTenant /\ Existe(v) /\ comp[v].cae # 0 /\ Fin(w)
        \/ conTenant /\ Existe(v) /\ comp[v].cae = 0 /\ Ir(w, "emitir", v, comp[v])
        \/ conTenant /\ ~Existe(v) /\ Ir(w, "crear", v, SinFila)
  /\ UNCHANGED <<vendidas, cola, comp, dlq, externas, cuentas, lote>>

\* INSERT of the pending row under UNIQUE (venta_id).
Crear(w) ==
  /\ pc[w] = "crear"
  /\ \/ Existe(obj[w]) /\ Fin(w) /\ UNCHANGED <<comp, cuentas>>
     \/ /\ ~Existe(obj[w])
        /\ Escribe(obj[w], Fila("pendiente", "null"))
        /\ IF fallas' = fallas THEN Ir(w, "emitir", obj[w], comp'[obj[w]]) ELSE Fin(w)
  /\ UNCHANGED <<vendidas, cola, dlq, externas, lote>>

\* A ticket_interno is emitted without AFIP.
EmitirTicket(w) ==
  /\ pc[w] = "emitir" /\ obj[w] \notin fiscal
  /\ Ir(w, "guardar", obj[w], [mem[w] EXCEPT !.estado = "emitido"])
  /\ UNCHANGED <<vendidas, cola, comp, dlq, externas, cuentas, lote>>

\* Mutant: an AFIP error leaves next_retry_at alone.
ResultadoWorkerSinTurno(fila, v, r) ==
  CASE r = "A" -> [Emitida(fila, v) EXCEPT !.retry = 0]
    [] r = "R" -> [fila EXCEPT !.estado = "rechazado"]
    [] OTHER -> [fila EXCEPT !.retry = @ + 1,
                   !.estado = IF fila.retry + 1 >= MaxRetries THEN "error" ELSE @]

\* handleAFIPResult on the worker's copy; a validation error is an error as any.
ResultadoWorker(fila, v, r) ==
  CASE r = "A" -> [Emitida(fila, v) EXCEPT !.retry = 0]
    [] r = "R" -> [fila EXCEPT !.estado = "rechazado"]
    [] OTHER -> [fila EXCEPT !.retry = @ + 1, !.next = "espera",
                   !.estado = IF fila.retry + 1 >= MaxRetries THEN "error" ELSE @]

\* callAFIPWithCB
LlamarAFIP(w) ==
  /\ pc[w] = "emitir" /\ obj[w] \in fiscal
  /\ \E r \in Resultados :
       /\ Facturar(obj[w], r)
       /\ Ir(w, "guardar", obj[w], ResultadoWorker(mem[w], obj[w], r))
  /\ UNCHANGED <<vendidas, cola, comp, dlq, cuentas, lote>>

\* Save of the result, then generatePDF.
Guardar(w) ==
  /\ w \in Workers /\ pc[w] = "guardar"
  /\ Escribe(obj[w], mem[w])
  /\ Ir(w, "pdf", obj[w], mem[w])
  /\ UNCHANGED <<vendidas, cola, dlq, externas, lote>>

\* The same copy is saved again with pdf_path, unless the PDF failed.
GenerarPDF(w) ==
  /\ pc[w] = "pdf"
  /\ comp' \in {comp, [comp EXCEPT ![obj[w]] = mem[w]]}
  /\ Fin(w)
  /\ UNCHANGED <<vendidas, cola, dlq, externas, cuentas, lote>>

-----------------------------------------------------------------------------
(* processRetries *)

Vencidas == {v \in Ventas : comp[v].estado = "pendiente" /\ comp[v].next = "vencido"}

\* ListPendingRetries, across tenants, at most retryBatchSize rows.
ListarPendientes ==
  /\ pc[Cron] = "libre" /\ cb = "cerrado" /\ Vencidas # {}
  /\ \E L \in SUBSET Vencidas :
       /\ L = Vencidas \/ Cardinality(L) = RetryBatch
       /\ Cardinality(L) <= RetryBatch
       /\ lote' = [v \in L |-> comp[v]]
  /\ pc' = [pc EXCEPT ![Cron] = "lote"]
  /\ UNCHANGED <<vendidas, cola, comp, dlq, externas, cuentas, obj, mem>>

\* The breaker opened in the middle of the batch.
DetenerLote ==
  /\ pc[Cron] = "lote" /\ cb = "abierto"
  /\ Fin(Cron)
  /\ lote' = [v \in {} |-> SinFila]
  /\ UNCHANGED <<vendidas, cola, comp, dlq, externas, cuentas>>

\* Mutant: the success path sets the CAE and not the estado.
ResultadoCronSinEstado(fila, v, r) ==
  CASE r = "A" -> [Emitida(fila, v) EXCEPT !.estado = fila.estado]
    [] r = "R" -> [fila EXCEPT !.estado = "rechazado", !.next = "null"]
    [] r = "validacion" -> [fila EXCEPT !.estado = "error", !.next = "null"]
    [] OTHER -> [fila EXCEPT !.retry = @ + 1,
                   !.next = IF fila.retry + 1 >= MaxRetries THEN "null" ELSE "espera",
                   !.estado = IF fila.retry + 1 >= MaxRetries THEN "error" ELSE @]

\* Mutant: a transient error does not count.
ResultadoCronSinCuenta(fila, v, r) ==
  CASE r = "A" -> Emitida(fila, v)
    [] r = "R" -> [fila EXCEPT !.estado = "rechazado", !.next = "null"]
    [] r = "validacion" -> [fila EXCEPT !.estado = "error", !.next = "null"]
    [] OTHER -> [fila EXCEPT !.next = "espera"]

\* The cron's copy after the answer.
ResultadoCron(fila, v, r) ==
  CASE r = "A" -> Emitida(fila, v)
    [] r = "R" -> [fila EXCEPT !.estado = "rechazado", !.next = "null"]
    [] r = "validacion" -> [fila EXCEPT !.estado = "error", !.next = "null"]
    [] OTHER -> [fila EXCEPT !.retry = @ + 1,
                   !.next = IF fila.retry + 1 >= MaxRetries THEN "null" ELSE "espera",
                   !.estado = IF fila.retry + 1 >= MaxRetries THEN "error" ELSE @]

\* One row of the batch: AFIP is called whatever the row's tipo; at the limit of
\* retries the DLQ gets an entry.
ReintentarFila ==
  /\ pc[Cron] = "lote" /\ cb = "cerrado"
  /\ \E v \in DOMAIN lote, r \in Resultados :
       LET fila == ResultadoCron(lote[v], v, r)
       IN /\ Facturar(v, r)
          /\ Ir(Cron, "guardar", v, fila)
          /\ dlq' = IF fila.estado = "error" /\ r # "validacion" THEN dlq \cup {v} ELSE dlq
          /\ lote' = Restrict(lote, DOMAIN lote \ {v})
  /\ UNCHANGED <<vendidas, cola, comp, cuentas>>

\* Update is scoped: without a tenant it fails and is only logged.
GuardarFila ==
  /\ pc[Cron] = "guardar"
  /\ IF conTenant THEN Escribe(obj[Cron], mem[Cron]) ELSE UNCHANGED <<comp, cuentas>>
  /\ Ir(Cron, IF DOMAIN lote = {} THEN "libre" ELSE "lote", obj[Cron], SinFila)
  /\ UNCHANGED <<vendidas, cola, dlq, externas, lote>>

-----------------------------------------------------------------------------
(* Administrator requests *)

Pide == admins < MaxAdmin /\ admins' = admins + 1

\* ReintentarComprobante: error or rechazado goes back to pendiente, due now.
BuscarReintento(a, v) ==
  /\ pc[a] = "libre" /\ Pide
  /\ comp[v].estado \in {"error", "rechazado"}
  /\ Ir(a, "reintentar", v, [comp[v] EXCEPT !.estado = "pendiente", !.retry = 0, !.next = "vencido"])
  /\ UNCHANGED <<vendidas, cola, comp, dlq, externas, reintentos, pisadas, pdfs, caidas, fallas, lote>>

GuardarReintento(a) ==
  /\ pc[a] = "reintentar"
  /\ comp' = [comp EXCEPT ![obj[a]] = mem[a]]
  /\ reintentos' = [reintentos EXCEPT ![obj[a]] = @ + 1]
  /\ Fin(a)
  /\ UNCHANGED <<vendidas, cola, dlq, externas, pisadas, admins, pdfs, caidas, fallas, lote>>

\* CancelarPendientes: one UPDATE over all pending rows that have a turn.
CancelarPendientes ==
  /\ Pide
  /\ \E v \in Ventas : comp[v].estado = "pendiente" /\ comp[v].next # "null"
  /\ comp' = [v \in Ventas |->
       IF comp[v].estado = "pendiente" /\ comp[v].next # "null"
       THEN [comp[v] EXCEPT !.estado = "error", !.next = "null"] ELSE comp[v]]
  /\ UNCHANGED <<vendidas, cola, dlq, externas, reintentos, pisadas, pdfs, caidas, fallas, agentes>>

-----------------------------------------------------------------------------
(* The PDF of a comprobante: read, rendered, and the whole row saved for its *)
(* pdf_path.                                                               *)

LeerFila(a, v) ==
  /\ pc[a] = "libre" /\ pdfs < MaxPdf /\ pdfs' = pdfs + 1
  /\ Existe(v)
  /\ Ir(a, "renderizar", v, comp[v])
  /\ UNCHANGED <<vendidas, cola, comp, dlq, externas, reintentos, pisadas, admins, caidas, fallas, lote>>

\* Whatever the estado, with or without a CAE.
DescargarPDF(a, v) == LeerFila(a, v)

\* Only a comprobante with a CAE.
RegenerarPDF(a, v) == comp[v].cae # 0 /\ LeerFila(a, v)

\* The PDF is rendered anew only for a factura, with or without a CAE.
EnviarEmailComprobante(a, v) == v \in fiscal /\ LeerFila(a, v)

\* The render, or the save, may fail: the handler logs it and answers.
GuardarPDF(a) ==
  /\ pc[a] = "renderizar"
  /\ comp' \in {comp, [comp EXCEPT ![obj[a]] = mem[a]]}
  /\ pisadas' = [pisadas EXCEPT ![obj[a]] = IF comp' = comp THEN @ ELSE @ + 1]
  /\ Fin(a)
  /\ UNCHANGED <<vendidas, cola, dlq, externas, reintentos, admins, pdfs, caidas, fallas, lote>>

-----------------------------------------------------------------------------
(* The surroundings *)

\* The breaker of module CircuitBreaker opens, or lets calls through again.
CambiaCB ==
  /\ cb' = IF cb = "cerrado" THEN "abierto" ELSE "cerrado"
  /\ UNCHANGED <<vendidas, cola, comp, dlq, fiscal, conTenant, caes, llamadas, cuentas, agentes>>

\* The process stops: Redis and PostgreSQL keep what they have; the context of
\* a call under way is cancelled and nothing of it is written.
Caida ==
  /\ caidas < MaxCaidas
  /\ caidas' = caidas + 1
  /\ pc' = [a \in Agentes |-> "libre"]
  /\ mem' = [a \in Agentes |-> SinFila]
  /\ lote' = [v \in {} |-> SinFila]
  /\ UNCHANGED <<vendidas, cola, comp, dlq, externas, reintentos, pisadas, admins, pdfs, fallas, obj>>

PasoWorker(w) ==
  \/ Tomar(w) \/ Buscar(w) \/ Crear(w) \/ EmitirTicket(w) \/ LlamarAFIP(w)
  \/ Guardar(w) \/ GenerarPDF(w)

PasoCron == ListarPendientes \/ ReintentarFila \/ GuardarFila

PasoAdmin(a) ==
  \/ GuardarReintento(a) \/ GuardarPDF(a)
  \/ \E v \in Ventas : \/ BuscarReintento(a, v) \/ DescargarPDF(a, v)
                      \/ RegenerarPDF(a, v) \/ EnviarEmailComprobante(a, v)

Next ==
  \/ \E v \in Ventas : RegistrarVenta(v) \/ Vence(v)
  \/ \E w \in Workers : PasoWorker(w)
  \/ PasoCron \/ DetenerLote
  \/ \E a \in Admins : PasoAdmin(a)
  \/ CancelarPendientes \/ CambiaCB \/ Caida

Spec == Init /\ [][Next]_vars

(* Goroutines run and the ticker ticks; the breaker is closed again and     *)
(* again (CircuitBreaker, RecoversOnceUp), which gives the cron its turns.  *)
Fairness ==
  /\ \A w \in Workers : WF_vars(PasoWorker(w))
  /\ \A a \in Admins : WF_vars(GuardarReintento(a))
  /\ \A v \in Ventas : WF_vars(Vence(v))
  /\ SF_vars(ListarPendientes) /\ SF_vars(ReintentarFila)
  /\ WF_vars(GuardarFila) /\ WF_vars(DetenerLote)
  /\ WF_vars(cb = "abierto" /\ CambiaCB)

FairSpec == Spec /\ Fairness

-----------------------------------------------------------------------------
Estados == {"ninguno", "pendiente", "emitido", "rechazado", "error"}
Filas == [estado : Estados, cae : 0 .. MaxCAEs, retry : 0 .. MaxRetries + 1,
          next : {"null", "espera", "vencido"}]

(* Type invariant: estado stays inside the table's CHECK. *)
TypeOK ==
  /\ fiscal \subseteq Ventas /\ conTenant \in Contextos
  /\ vendidas \subseteq Ventas /\ cola \subseteq vendidas /\ dlq \subseteq vendidas
  /\ comp \in [Ventas -> Filas]
  /\ cb \in {"cerrado", "abierto"}
  /\ caes \in [Ventas -> 0 .. MaxCAEs] /\ llamadas \in [Ventas -> 0 .. MaxLlamadas]
  /\ pc \in [Agentes -> {"libre", "buscar", "crear", "emitir", "guardar", "pdf", "lote",
                       "reintentar", "renderizar"}]
  /\ obj \in [Agentes -> Ventas] /\ mem \in [Agentes -> Filas]
  /\ DOMAIN lote \subseteq Ventas /\ \A v \in DOMAIN lote : lote[v] \in Filas

(* Whole rows are saved from stale copies by four kinds of agents, yet a    *)
(* factura is emitido exactly when it carries a CAE, and the CAE is one     *)
(* that AFIP issued for that sale.                                          *)
EmitidoConCAE ==
  \A v \in fiscal :
    /\ comp[v].estado = "emitido" <=> comp[v].cae # 0
    /\ comp[v].cae <= caes[v]

(* Rows, queues and copies have the values that the tables admit, and       *)
(* estado and CAE stay together.                                            *)
FilasFieles == TypeOK /\ EmitidoConCAE

(* A pending comprobante has a turn: its next_retry_at is set or a worker   *)
(* is about to decide it.  Nothing else ever looks at it again.  Only a     *)
(* restart in the middle of a job, a write that is refused, or the save of  *)
(* a PDF's path that puts an old copy of the row back, takes it.            *)
PendienteTieneTurno ==
  \A v \in Ventas :
    comp[v].estado = "pendiente" /\ comp[v].next = "null"
    => \/ \E w \in Workers : obj[w] = v /\ pc[w] \in {"emitir", "guardar"}
       \/ caidas + fallas + pisadas[v] > 0

(* facturacion_worker.go:25: "the maximum number of retry attempts before a *)
(* comprobante is moved to estado='error'".  Copies written back late lose  *)
(* counts, but only so many: each of the worker's two saves, each manual    *)
(* reset and each save of a PDF's path that puts an old copy back gives a   *)
(* sale at most MaxComprobanteRetries further calls, and a restart or a     *)
(* write that fails the one whose result it loses.  (With a tenant in the   *)
(* context; without one no count is ever saved.)                            *)
IntentosAcotados ==
  \A v \in Ventas :
    conTenant => llamadas[v] <= MaxRetries * (3 + reintentos[v] + pisadas[v]) + caidas + fallas

Decidida(v) == comp[v].estado # "pendiente" \/ caidas + fallas + pisadas[v] > 0

(* venta_service.go:406: "a pending comprobante directly so that retry_cron *)
(* picks it up on next cycle": with a tenant in the context, a pending      *)
(* comprobante is decided at last, unless a restart, a refused write or the *)
(* save of a PDF's path took its turn away.                                 *)
PendienteSeResuelve ==
  \A v \in Ventas : conTenant /\ comp[v].estado = "pendiente" ~> Decidida(v)

-----------------------------------------------------------------------------
(* Statements of the repository that the code does not keep. *)

(* venta_service.go:406 of the context that main.go hands to the workers    *)
(* and the cron, which carries no tenant.                                   *)
PendienteAlCiclo ==
  \A v \in Ventas : comp[v].estado = "pendiente" ~> Decidida(v)

(* 000010_comprobante_unique_venta.up.sql:1: "prevent duplicate fiscal      *)
(* records for the same sale (idempotency guard)".                          *)
UnaAutorizacion == \A v \in Ventas : caes[v] <= 1

(* facturacion_worker.go:126: a comprobante that has its CAE is done; no    *)
(* later write takes the CAE from it.                                       *)
CAEPersiste == [][\A v \in Ventas : comp[v].cae # 0 => comp'[v].cae = comp[v].cae]_vars

(* inventario.go:405, "Update pdf_path in DB": the save that follows the    *)
(* render of a PDF changes nothing else of the row.                         *)
SoloPdfPath == \A v \in Ventas : pisadas[v] = 0

(* facturacion_worker.go:155: "For ticket_interno: mark as emitido          *)
(* immediately (no AFIP call needed)".                                      *)
TicketSinAFIP == \A v \in Ventas \ fiscal : caes[v] = 0
=============================================================================
