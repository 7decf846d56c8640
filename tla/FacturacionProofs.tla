------------------------- MODULE FacturacionProofs --------------------------
(***************************************************************************)
(* The breaker in front of AFIP, for every number of callers and every     *)
(* threshold.  Fiscal documents, for every number of sales, workers,       *)
(* administrators, downloads, retries, restarts and refused writes: estado *)
(* and CAE stay together, a pending row keeps its turn, and AFIP is called *)
(* boundedly often.                                                        *)
(***************************************************************************)
EXTENDS Facturacion, CircuitBreaker, FiniteSetTheorems, TLAPS

-----------------------------------------------------------------------------
(* The breaker *)

(* What an open breaker has counted plus what may still fail: no call is   *)
(* admitted while open, so the sum only shrinks after the trip.  In half-  *)
(* open calls are admitted again, and the first failure resets the count.  *)
BurstAccounting ==
  /\ state = "open" =>
       failureCount + Cardinality(InFlight) <= FailureThreshold + Cardinality(Callers) - 1
  /\ state = "half-open" =>
       failureCount <= FailureThreshold + Cardinality(Callers) - 1

BreakerInv == BreakerTypeOK /\ CountersFitState /\ BurstAccounting

-----------------------------------------------------------------------------
(* The calls in flight are finitely many, at most one per caller. *)
LEMMA InFlightFinite ==
  /\ IsFiniteSet(Callers)
  /\ Cardinality(Callers) \in Nat \ {0}
  /\ IsFiniteSet(InFlight)
  /\ Cardinality(InFlight) \in Nat
  /\ Cardinality(InFlight) <= Cardinality(Callers)
<1>1. IsFiniteSet(Callers) /\ Callers # {}
  BY BreakerAssumption
<1>2. InFlight \subseteq Callers
  BY DEF InFlight
<1>3. Cardinality(Callers) \in Nat /\ Cardinality(Callers) # 0
  BY <1>1, FS_CardinalityType, FS_EmptySet
<1>4. IsFiniteSet(InFlight) /\ Cardinality(InFlight) <= Cardinality(Callers)
  BY <1>1, <1>2, FS_Subset
<1>5. Cardinality(InFlight) \in Nat
  BY <1>4, FS_CardinalityType
<1> QED
  BY <1>1, <1>3, <1>4, <1>5

(* A call that returns leaves one call fewer in flight. *)
LEMMA ReturnShrinksInFlight ==
  ASSUME BreakerTypeOK, NEW c \in Callers, call[c] = "calling",
         call' = [call EXCEPT ![c] = "idle"]
  PROVE  /\ InFlight' = InFlight \ {c}
         /\ Cardinality(InFlight') = Cardinality(InFlight) - 1
<1>1. InFlight' = InFlight \ {c}
  BY DEF InFlight, BreakerTypeOK
<1>2. c \in InFlight
  BY DEF InFlight
<1> QED
  BY <1>1, <1>2, InFlightFinite, FS_RemoveElement

(* State() keeps the invariant, and answers "open" without moving. *)
LEMMA ObserveKeeps ==
  ASSUME BreakerInv, Observe, UNCHANGED <<failureCount, sinceFailure>>
  PROVE  /\ state' \in CBState /\ successCount' \in Nat
         /\ CountersFitState'
         /\ state' = "open" => state = "open"
         /\ state' = "half-open" =>
              failureCount' <= FailureThreshold + Cardinality(Callers) - 1
  BY InFlightFinite, BreakerAssumption
  DEF BreakerInv, BreakerTypeOK, CountersFitState, BurstAccounting, Observe, Observed, CBState

-----------------------------------------------------------------------------
LEMMA BreakerStart == BreakerInit => BreakerInv
  BY BreakerAssumption DEF BreakerInit, BreakerInv, BreakerTypeOK, CountersFitState, BurstAccounting, CBState

LEMMA ExecuteKeeps ==
  ASSUME BreakerInv, NEW c \in Callers, Execute(c)
  PROVE  BreakerInv'
<1>1. /\ state' \in CBState /\ successCount' \in Nat
      /\ CountersFitState'
      /\ state' = "open" => state = "open"
      /\ state' = "half-open" => failureCount' <= FailureThreshold + Cardinality(Callers) - 1
  BY ObserveKeeps DEF Execute
<1>2. BreakerTypeOK'
  BY <1>1 DEF BreakerInv, BreakerTypeOK, Execute
<1>3. state' = "open" => call' = call
  BY <1>1 DEF Execute, Observe, BreakerInv, BreakerTypeOK
<1>4. state' = "open" => InFlight' = InFlight
  BY <1>3 DEF InFlight
<1>5. BurstAccounting'
  BY <1>1, <1>4 DEF BreakerInv, BurstAccounting, Execute
<1> QED
  BY <1>1, <1>2, <1>5 DEF BreakerInv

LEMMA OnFailureKeeps ==
  ASSUME BreakerInv, NEW c \in Callers, OnFailure(c)
  PROVE  BreakerInv'
<1>1. /\ InFlight' = InFlight \ {c}
      /\ Cardinality(InFlight') = Cardinality(InFlight) - 1
  BY ReturnShrinksInFlight DEF BreakerInv, OnFailure
<1>2. BreakerTypeOK'
  BY BreakerAssumption DEF BreakerInv, BreakerTypeOK, OnFailure, CBState
<1>3. CountersFitState'
  BY DEF BreakerInv, BreakerTypeOK, OnFailure, CountersFitState
<1>4. BurstAccounting'
  BY <1>1, InFlightFinite, BreakerAssumption
  DEF BreakerInv, BreakerTypeOK, OnFailure, CountersFitState, BurstAccounting
<1> QED
  BY <1>2, <1>3, <1>4 DEF BreakerInv

LEMMA OnSuccessKeeps ==
  ASSUME BreakerInv, NEW c \in Callers, OnSuccess(c)
  PROVE  BreakerInv'
<1>1. /\ InFlight' = InFlight \ {c}
      /\ Cardinality(InFlight') = Cardinality(InFlight) - 1
  BY ReturnShrinksInFlight DEF BreakerInv, OnSuccess
<1>2. BreakerTypeOK'
  BY BreakerAssumption DEF BreakerInv, BreakerTypeOK, OnSuccess, CBState
<1>3. CountersFitState'
  BY BreakerAssumption DEF BreakerInv, BreakerTypeOK, OnSuccess, CountersFitState
<1>4. BurstAccounting'
  BY <1>1, InFlightFinite, BreakerAssumption
  DEF BreakerInv, BreakerTypeOK, OnSuccess, CountersFitState, BurstAccounting
<1> QED
  BY <1>2, <1>3, <1>4 DEF BreakerInv

LEMMA BreakerStep == BreakerInv /\ [BreakerNext]_breakerVars => BreakerInv'
<1> SUFFICES ASSUME BreakerInv, [BreakerNext]_breakerVars
             PROVE  BreakerInv'
  OBVIOUS
<1>1. CASE ReadState
  <2>1. /\ state' \in CBState /\ successCount' \in Nat
        /\ CountersFitState'
        /\ state' = "open" => state = "open"
        /\ state' = "half-open" => failureCount' <= FailureThreshold + Cardinality(Callers) - 1
    BY <1>1, ObserveKeeps DEF ReadState
  <2>2. InFlight' = InFlight
    BY <1>1 DEF ReadState, InFlight
  <2> QED
    BY <1>1, <2>1, <2>2 DEF ReadState, BreakerInv, BreakerTypeOK, BurstAccounting
<1>2. CASE Tick
  <2>1. InFlight' = InFlight
    BY <1>2 DEF Tick, InFlight
  <2> QED
    BY <1>2, <2>1, BreakerAssumption DEF Tick, BreakerInv, BreakerTypeOK, BurstAccounting, CountersFitState
<1>3. CASE SidecarFlips
  <2>1. InFlight' = InFlight
    BY <1>3 DEF SidecarFlips, InFlight
  <2> QED
    BY <1>3, <2>1 DEF SidecarFlips, BreakerInv, BreakerTypeOK, BurstAccounting, CountersFitState
<1>4. ASSUME NEW c \in Callers, Execute(c) \/ OnFailure(c) \/ OnSuccess(c)
      PROVE  BreakerInv'
  BY <1>4, ExecuteKeeps, OnFailureKeeps, OnSuccessKeeps
<1>5. CASE UNCHANGED breakerVars
  <2>1. InFlight' = InFlight
    BY <1>5 DEF breakerVars, InFlight
  <2> QED
    BY <1>5, <2>1 DEF breakerVars, BreakerInv, BreakerTypeOK, BurstAccounting, CountersFitState
<1> QED
  BY <1>1, <1>2, <1>3, <1>4, <1>5 DEF BreakerNext

-----------------------------------------------------------------------------
LEMMA BreakerInvariance == BreakerSpec => []BreakerInv
  BY BreakerStart, BreakerStep, PTL DEF BreakerSpec

(* The breaker's variables keep their types. *)
THEOREM BreakerTyped == BreakerSpec => []BreakerTypeOK
<1>1. BreakerInv => BreakerTypeOK
  BY DEF BreakerInv
<1> QED
  BY <1>1, BreakerInvariance, PTL

(* circuit_breaker.go: no carried-over counter crosses a threshold. *)
THEOREM CountersAreFresh == BreakerSpec => []CountersFitState
<1>1. BreakerInv => CountersFitState
  BY DEF BreakerInv
<1> QED
  BY <1>1, BreakerInvariance, PTL

(* circuit_breaker.go: a sidecar that is down sees at most the threshold   *)
(* plus the calls already in flight fail, for any number of goroutines.    *)
THEOREM BurstIsBounded == BreakerSpec => []FailureBurstBounded
<1>1. BreakerInv => FailureBurstBounded
  BY InFlightFinite, BreakerAssumption
  DEF BreakerInv, BreakerTypeOK, CBState, CountersFitState, BurstAccounting, FailureBurstBounded
<1> QED
  BY <1>1, BreakerInvariance, PTL

(* circuit_breaker.go: Execute admits nothing while the open timeout runs. *)
THEOREM OpenAdmitsNothing == BreakerSpec => NoAdmissionWhileOpen
<1>1. ASSUME BreakerInv, [BreakerNext]_breakerVars
      PROVE  [state = "open" /\ sinceFailure < OpenTimeout
                => InFlight' \subseteq InFlight]_breakerVars
  <2> SUFFICES ASSUME state = "open", sinceFailure < OpenTimeout, BreakerNext
               PROVE  InFlight' \subseteq InFlight
    BY <1>1 DEF breakerVars
  <2>1. CASE ReadState \/ Tick \/ SidecarFlips
    BY <2>1 DEF ReadState, Tick, SidecarFlips, InFlight
  <2>2. ASSUME NEW c \in Callers, Execute(c)
        PROVE  InFlight' \subseteq InFlight
    <3>1. sinceFailure \in Int /\ OpenTimeout \in Int
      BY <1>1, BreakerAssumption DEF BreakerInv, BreakerTypeOK
    <3>2. Observed = "open"
      BY <3>1 DEF Observed
    <3> QED
      BY <2>2, <3>2, <1>1 DEF Execute, InFlight, BreakerInv, BreakerTypeOK
  <2>3. ASSUME NEW c \in Callers, OnFailure(c) \/ OnSuccess(c)
        PROVE  InFlight' \subseteq InFlight
    BY <2>3, <1>1 DEF OnFailure, OnSuccess, InFlight, BreakerInv, BreakerTypeOK
  <2> QED
    BY <2>1, <2>2, <2>3 DEF BreakerNext
<1> QED
  BY <1>1, BreakerInvariance, PTL DEF BreakerSpec, NoAdmissionWhileOpen

-----------------------------------------------------------------------------
(* Fiscal documents *)

Tipos ==
  /\ fiscal \subseteq Ventas /\ conTenant \in Contextos
  /\ vendidas \subseteq Ventas /\ cola \subseteq vendidas /\ dlq \subseteq vendidas
  /\ cb \in {"cerrado", "abierto"}
  /\ caes \in [Ventas -> 0 .. MaxCAEs] /\ llamadas \in [Ventas -> 0 .. MaxLlamadas]
  /\ reintentos \in [Ventas -> Nat] /\ pisadas \in [Ventas -> Nat]
  /\ admins \in Nat /\ pdfs \in Nat /\ caidas \in Nat /\ fallas \in Nat
  /\ comp \in [Ventas -> Filas]
  /\ pc \in [Agentes -> {"libre", "buscar", "crear", "emitir", "guardar", "pdf", "lote",
                      "reintentar", "renderizar"}]
  /\ obj \in [Agentes -> Ventas] /\ mem \in [Agentes -> Filas]

(* A row of sale v, in the table or in somebody's copy, when the facturas   *)
(* are f and AFIP has authorised c: pending rows have tries left, and a     *)
(* factura is emitido exactly when it carries a CAE of its own.             *)
FilaBien(fila, v, f, c) ==
  /\ fila \in Filas
  /\ fila.estado = "pendiente" => fila.retry < MaxRetries
  /\ fila.estado = "ninguno" => fila = SinFila
  /\ v \in f => /\ fila.estado = "emitido" <=> fila.cae # 0
                /\ fila.cae <= c[v]

(* A copy that leaves a row pending gives it a turn. *)
ConTurno(fila) == fila.estado = "pendiente" => fila.next # "null"

(* What each kind of agent holds at each of its steps. *)
WorkerBien(w) ==
  /\ pc[w] \in {"libre", "buscar", "crear", "emitir", "guardar", "pdf"}
  /\ pc[w] = "emitir" => mem[w].cae = 0 /\ mem[w].retry <= MaxRetries /\ mem[w].estado # "ninguno"
  /\ pc[w] \in {"guardar", "pdf"} => ConTurno(mem[w]) /\ mem[w].estado # "ninguno"
  /\ pc[w] # "libre" => obj[w] \in vendidas

AdminBien(a) ==
  /\ pc[a] \in {"libre", "reintentar", "renderizar"}
  /\ pc[a] = "reintentar" => /\ mem[a].estado = "pendiente" /\ mem[a].retry = 0
                             /\ mem[a].next = "vencido" /\ obj[a] \in vendidas

CronBien ==
  /\ pc[Cron] \in {"libre", "lote", "guardar"}
  /\ pc[Cron] = "libre" => DOMAIN lote = {}
  /\ pc[Cron] = "guardar" => /\ mem[Cron].retry <= MaxRetries /\ ConTurno(mem[Cron])
                             /\ mem[Cron].estado # "ninguno"
                             /\ obj[Cron] \in vendidas \ DOMAIN lote

AgentesBien ==
  /\ \A a \in Agentes : FilaBien(mem[a], obj[a], fiscal, caes)
  /\ \A w \in Workers : WorkerBien(w)
  /\ \A a \in Admins : AdminBien(a)
  /\ CronBien

LoteBien ==
  \A v \in DOMAIN lote :
    /\ v \in vendidas /\ FilaBien(lote[v], v, fiscal, caes)
    /\ lote[v].estado = "pendiente"

(* The job of a sale is in Redis, or in one goroutine. *)
JobUnico ==
  \A w \in Workers : pc[w] # "libre" =>
    /\ obj[w] \notin cola
    /\ \A u \in Workers : pc[u] # "libre" /\ obj[u] = obj[w] => u = w

Ocupa(w, v, pasos) == obj[w] = v /\ pc[w] \in pasos

(* No worker has called AFIP for v yet, and one may still do. *)
PorLlamar(v) ==
  v \notin vendidas \/ v \in cola \/ \E w \in Workers : Ocupa(w, v, {"buscar", "crear", "emitir"})

(* A copy that waits for its PDF leaves the job's call its place in the     *)
(* count.                                                                   *)
CopiaPDF(a) ==
  pc[a] = "renderizar" => /\ obj[a] \in vendidas
                          /\ PorLlamar(obj[a]) => mem[a].retry <= MaxRetries

FilasBien ==
  /\ \A v \in Ventas : FilaBien(comp[v], v, fiscal, caes)
  /\ \A v \in Ventas : v \notin vendidas => comp[v] = SinFila /\ llamadas[v] = 0
  /\ \A v \in Ventas : PorLlamar(v) => comp[v].retry <= MaxRetries
  /\ \A a \in Admins : CopiaPDF(a)

(* The inductive invariant: estado and CAE must agree in every copy that    *)
(* may still be saved, and the counter fits its column only because a sale  *)
(* has one job.                                                             *)
IInv == Tipos /\ FilasBien /\ AgentesBien /\ LoteBien /\ JobUnico

-----------------------------------------------------------------------------
(* Rows *)

LEMMA Constantes ==
  /\ MaxRetries \in Nat \ {0} /\ MaxLlamadas \in Nat /\ MaxCAEs \in Nat \ {0}
  /\ Cron \in Agentes /\ Cron \notin Workers /\ Cron \notin Admins
  /\ Workers \subseteq Agentes /\ Admins \subseteq Agentes
  /\ \A w \in Workers : w \notin Admins
BY FacturacionAssumption DEF Cron, Agentes

LEMMA SinFilaBien ==
  ASSUME NEW v, NEW f, NEW c, v \in f => c[v] \in Nat
  PROVE  FilaBien(SinFila, v, f, c) /\ SinFila.retry = 0 /\ SinFila.estado = "ninguno"
BY Constantes DEF FilaBien, SinFila, Fila, Filas, Estados

LEMMA FilaNuevaBien ==
  ASSUME NEW v, NEW f, NEW c, v \in f => c[v] \in Nat, NEW next \in {"null", "espera"}
  PROVE  LET fila == Fila("pendiente", next)
         IN FilaBien(fila, v, f, c) /\ fila.retry = 0 /\ fila.estado = "pendiente" /\ fila.cae = 0
            /\ fila.next = next
BY Constantes DEF FilaBien, Fila, Filas, Estados

(* AFIP may have authorised more since the copy was taken. *)
LEMMA FilaSigue ==
  ASSUME NEW fila, NEW v \in Ventas, NEW f, NEW c \in [Ventas -> 0 .. MaxCAEs], NEW d \in [Ventas -> 0 .. MaxCAEs],
         \A x \in Ventas : c[x] <= d[x], FilaBien(fila, v, f, c)
  PROVE  FilaBien(fila, v, f, d)
<1>1. fila.cae \in Nat
  BY DEF FilaBien, Filas
<1> QED
  BY <1>1 DEF FilaBien

LEMMA TicketBien ==
  ASSUME NEW fila, NEW v, NEW f, NEW c, FilaBien(fila, v, f, c), v \notin f
  PROVE  LET g == [fila EXCEPT !.estado = "emitido"]
         IN FilaBien(g, v, f, c) /\ g.estado = "emitido"
BY DEF FilaBien, Filas, Estados

LEMMA CanceladaBien ==
  ASSUME NEW fila, NEW v, NEW f, NEW c, FilaBien(fila, v, f, c), fila.estado = "pendiente"
  PROVE  LET g == [fila EXCEPT !.estado = "error", !.next = "null"]
         IN FilaBien(g, v, f, c) /\ g.estado = "error" /\ g.retry = fila.retry
BY DEF FilaBien, Filas, Estados

LEMMA VencidaBien ==
  ASSUME NEW fila, NEW v, NEW f, NEW c, FilaBien(fila, v, f, c), fila.next = "espera"
  PROVE  LET g == [fila EXCEPT !.next = "vencido"]
         IN FilaBien(g, v, f, c) /\ g.estado = fila.estado /\ g.retry = fila.retry /\ g.next = "vencido"
            /\ g.estado # "ninguno"
BY DEF FilaBien, Filas, Estados, SinFila, Fila

LEMMA ReintentoBien ==
  ASSUME NEW fila, NEW v, NEW f, NEW c, FilaBien(fila, v, f, c), fila.estado \in {"error", "rechazado"}
  PROVE  LET g == [fila EXCEPT !.estado = "pendiente", !.retry = 0, !.next = "vencido"]
         IN FilaBien(g, v, f, c) /\ g.estado = "pendiente" /\ g.retry = 0 /\ g.next = "vencido"
<1> DEFINE g == [fila EXCEPT !.estado = "pendiente", !.retry = 0, !.next = "vencido"]
<1>1. fila \in Filas /\ 0 \in 0 .. MaxRetries + 1 /\ 0 < MaxRetries
  BY Constantes DEF FilaBien
<1>2. g \in Filas
  BY <1>1 DEF Filas, Estados
<1>3. g.estado = "pendiente" /\ g.retry = 0 /\ g.next = "vencido" /\ g.cae = fila.cae
  BY <1>1 DEF Filas
<1> HIDE DEF g
<1>4. FilaBien(g, v, f, c)
  BY <1>1, <1>2, <1>3 DEF FilaBien
<1> QED
  BY <1>3, <1>4 DEF g

-----------------------------------------------------------------------------
(* Calls to AFIP *)

Respuestas == {"A", "R", "fallo", "validacion", "perdida"}

LEMMA FacturarCrece ==
  ASSUME Tipos, NEW v \in Ventas, NEW r \in Resultados, Facturar(v, r)
  PROVE  /\ r \in Respuestas
         /\ caes' \in [Ventas -> 0 .. MaxCAEs] /\ \A x \in Ventas : caes[x] <= caes'[x]
         /\ r = "A" => caes'[v] \in 1 .. MaxCAEs
         /\ llamadas' \in [Ventas -> 0 .. MaxLlamadas]
         /\ llamadas'[v] <= llamadas[v] + 1
         /\ \A x \in Ventas \ {v} : llamadas'[x] = llamadas[x]
         /\ fiscal' = fiscal /\ conTenant' = conTenant /\ cb' = cb
<1>1. r \in Respuestas
  BY DEF Resultados, Respuestas
<1>2. /\ caes' = [caes EXCEPT ![v] = IF r \in {"A", "perdida"} /\ caes[v] < MaxCAEs THEN caes[v] + 1 ELSE caes[v]]
      /\ llamadas' = [llamadas EXCEPT ![v] =
                        IF cb = "cerrado" /\ llamadas[v] < MaxLlamadas THEN llamadas[v] + 1 ELSE llamadas[v]]
      /\ fiscal' = fiscal /\ conTenant' = conTenant /\ cb' = cb
  BY DEF Facturar
<1>3. /\ caes \in [Ventas -> 0 .. MaxCAEs] /\ llamadas \in [Ventas -> 0 .. MaxLlamadas]
      /\ MaxLlamadas \in Nat /\ MaxCAEs \in Nat \ {0}
  BY Constantes DEF Tipos
<1>4. caes' \in [Ventas -> 0 .. MaxCAEs] /\ \A x \in Ventas : caes[x] <= caes'[x]
  BY <1>2, <1>3
<1>5. r = "A" => caes'[v] \in 1 .. MaxCAEs
  BY <1>2, <1>3
<1>6. llamadas' \in [Ventas -> 0 .. MaxLlamadas]
  BY <1>2, <1>3
<1>7. llamadas'[v] <= llamadas[v] + 1 /\ \A x \in Ventas \ {v} : llamadas'[x] = llamadas[x]
  BY <1>2, <1>3
<1> QED
  BY <1>1, <1>2, <1>4, <1>5, <1>6, <1>7

(* An authorised row carries the CAE. *)
LEMMA EmitidaBien ==
  ASSUME NEW fila, NEW v \in Ventas, FilaBien(fila, v, fiscal, caes),
         caes' \in [Ventas -> 0 .. MaxCAEs], caes'[v] \in 1 .. MaxCAEs
  PROVE  /\ FilaBien(Emitida(fila, v), v, fiscal, caes')
         /\ Emitida(fila, v).estado = "emitido" /\ Emitida(fila, v).retry = fila.retry
<1>1. fila \in Filas
  BY DEF FilaBien
<1>2. /\ Emitida(fila, v).estado = "emitido" /\ Emitida(fila, v).cae = caes'[v]
      /\ Emitida(fila, v).retry = fila.retry
  BY <1>1 DEF Emitida, Filas
<1>3. Emitida(fila, v) \in Filas
  BY <1>1 DEF Emitida, Filas, Estados
<1> QED
  BY <1>2, <1>3 DEF FilaBien

(* A row that was not authorised, with a new estado, count and turn. *)
LEMMA NoEmitidaBien ==
  ASSUME NEW fila, NEW v \in Ventas, FilaBien(fila, v, fiscal, caes), fila.estado # "ninguno",
         v \in fiscal => fila.estado # "emitido",
         NEW g, g \in Filas, g.cae = fila.cae,
         g.estado \in {"rechazado", "error"} \/ g.estado = fila.estado,
         g.estado = "pendiente" => g.retry < MaxRetries,
         caes \in [Ventas -> 0 .. MaxCAEs], caes' \in [Ventas -> 0 .. MaxCAEs], caes[v] <= caes'[v]
  PROVE  FilaBien(g, v, fiscal, caes') /\ g.estado # "ninguno"
<1>1. fila.cae \in 0 .. MaxCAEs
  BY DEF FilaBien, Filas
<1> QED
  BY <1>1 DEF FilaBien

LEMMA ResultadoWorkerBien ==
  ASSUME Tipos, NEW fila, NEW v \in Ventas, FilaBien(fila, v, fiscal, caes), fila.estado # "ninguno",
         fila.retry <= MaxRetries, v \in fiscal, fila.cae = 0,
         NEW r \in Resultados, Facturar(v, r)
  PROVE  LET g == ResultadoWorker(fila, v, r)
         IN /\ FilaBien(g, v, fiscal, caes') /\ ConTurno(g) /\ g.estado # "ninguno"
            /\ g.estado = "pendiente" => g.retry = fila.retry + 1
<1> DEFINE g == ResultadoWorker(fila, v, r)
<1>1. /\ r \in Respuestas /\ caes' \in [Ventas -> 0 .. MaxCAEs] /\ caes \in [Ventas -> 0 .. MaxCAEs]
      /\ caes[v] <= caes'[v]
      /\ r = "A" => caes'[v] \in 1 .. MaxCAEs
  BY FacturarCrece DEF Tipos
<1>2. fila \in Filas /\ fila.estado # "emitido" /\ fila.retry \in 0 .. MaxRetries + 1 /\ MaxRetries \in Nat
  BY Constantes DEF FilaBien, Filas
<1>3. CASE r = "A"
  <2>1. FilaBien(Emitida(fila, v), v, fiscal, caes') /\ Emitida(fila, v).estado = "emitido"
    BY <1>1, <1>3, EmitidaBien
  <2>2. g = [Emitida(fila, v) EXCEPT !.retry = 0]
    BY <1>3 DEF ResultadoWorker
  <2>3. Emitida(fila, v) \in Filas
    BY <2>1 DEF FilaBien
  <2>4. g \in Filas /\ g.estado = "emitido" /\ g.cae = Emitida(fila, v).cae
    BY <1>2, <2>1, <2>2, <2>3 DEF Filas
  <2> QED
    BY <2>1, <2>4 DEF FilaBien, ConTurno
<1>4. CASE r = "R"
  <2>1. g = [fila EXCEPT !.estado = "rechazado"]
    BY <1>4 DEF ResultadoWorker
  <2>2. g \in Filas /\ g.estado = "rechazado" /\ g.cae = fila.cae
    BY <1>2, <2>1 DEF Filas, Estados
  <2> QED
    BY <1>1, <1>2, <2>2, NoEmitidaBien DEF ConTurno
<1>5. CASE r \notin {"A", "R"}
  <2> DEFINE e == IF fila.retry + 1 >= MaxRetries THEN "error" ELSE fila.estado
  <2>1. g = [fila EXCEPT !.retry = fila.retry + 1, !.next = "espera", !.estado = e]
    BY <1>5 DEF ResultadoWorker
  <2>2. e \in Estados /\ fila.retry + 1 \in 0 .. MaxRetries + 1
    BY <1>2 DEF Filas, Estados
  <2>3. e = "error" \/ (e = fila.estado /\ fila.retry + 1 < MaxRetries)
    BY <1>2
  <2> HIDE DEF e
  <2>4. g \in Filas /\ g.estado = e /\ g.cae = fila.cae /\ g.retry = fila.retry + 1 /\ g.next = "espera"
    BY <1>2, <2>1, <2>2 DEF Filas
  <2> QED
    BY <1>1, <1>2, <2>3, <2>4, NoEmitidaBien DEF ConTurno
<1> QED
  BY <1>3, <1>4, <1>5

LEMMA ResultadoCronBien ==
  ASSUME Tipos, NEW fila, NEW v \in Ventas, FilaBien(fila, v, fiscal, caes),
         fila.estado = "pendiente", NEW r \in Resultados, Facturar(v, r)
  PROVE  LET g == ResultadoCron(fila, v, r)
         IN /\ FilaBien(g, v, fiscal, caes') /\ ConTurno(g) /\ g.estado # "ninguno"
            /\ g.retry <= MaxRetries
            /\ g.estado = "pendiente" => g.retry = fila.retry + 1
<1> DEFINE g == ResultadoCron(fila, v, r)
<1>1. /\ r \in Respuestas /\ caes' \in [Ventas -> 0 .. MaxCAEs] /\ caes \in [Ventas -> 0 .. MaxCAEs]
      /\ caes[v] <= caes'[v]
      /\ r = "A" => caes'[v] \in 1 .. MaxCAEs
  BY FacturarCrece DEF Tipos
<1>2. fila \in Filas /\ fila.retry \in Nat /\ fila.retry < MaxRetries /\ MaxRetries \in Nat
  BY Constantes DEF FilaBien, Filas
<1>3. CASE r = "A"
  <2>1. g = Emitida(fila, v)
    BY <1>3 DEF ResultadoCron
  <2> QED
    BY <1>1, <1>2, <1>3, <2>1, EmitidaBien DEF ConTurno
<1>4. CASE r \in {"R", "validacion"}
  <2>1. g = [fila EXCEPT !.estado = IF r = "R" THEN "rechazado" ELSE "error", !.next = "null"]
    BY <1>4 DEF ResultadoCron
  <2>2. g \in Filas /\ g.estado \in {"rechazado", "error"} /\ g.cae = fila.cae /\ g.retry = fila.retry
    BY <1>2, <2>1 DEF Filas, Estados
  <2> QED
    BY <1>1, <1>2, <2>2, NoEmitidaBien DEF ConTurno
<1>5. CASE r \notin {"A", "R", "validacion"}
  <2> DEFINE e == IF fila.retry + 1 >= MaxRetries THEN "error" ELSE fila.estado
             n == IF fila.retry + 1 >= MaxRetries THEN "null" ELSE "espera"
  <2>1. g = [fila EXCEPT !.retry = fila.retry + 1, !.next = n, !.estado = e]
    BY <1>5 DEF ResultadoCron
  <2>2. e \in Estados /\ fila.retry + 1 \in 0 .. MaxRetries + 1 /\ n \in {"null", "espera", "vencido"}
    BY <1>2 DEF Filas, Estados
  <2>3. (e = "error") \/ (e = "pendiente" /\ fila.retry + 1 < MaxRetries /\ n = "espera")
    BY <1>2
  <2> HIDE DEF e, n
  <2>4. g \in Filas /\ g.estado = e /\ g.cae = fila.cae /\ g.retry = fila.retry + 1 /\ g.next = n
    BY <1>2, <2>1, <2>2 DEF Filas
  <2> QED
    BY <1>1, <1>2, <2>3, <2>4, NoEmitidaBien DEF ConTurno
<1> QED
  BY <1>3, <1>4, <1>5

-----------------------------------------------------------------------------
(* What a step leaves alone *)

Crece ==
  /\ fiscal' = fiscal /\ vendidas \subseteq vendidas'
  /\ \A x \in Ventas : caes[x] <= caes'[x]

Quieto(a) == pc'[a] = pc[a] /\ obj'[a] = obj[a] /\ mem'[a] = mem[a]

Antes == {"buscar", "crear", "emitir"}

LEMMA FilasSiguen ==
  ASSUME IInv, Tipos', Crece, NEW fila, NEW v \in Ventas, FilaBien(fila, v, fiscal, caes)
  PROVE  FilaBien(fila, v, fiscal', caes')
BY FilaSigue DEF IInv, Tipos, Crece

LEMMA CronSigue ==
  ASSUME IInv, Crece, Quieto(Cron), lote' = lote
  PROVE  CronBien'
BY DEF IInv, AgentesBien, CronBien, Crece, Quieto

LEMMA AgentesSiguen ==
  ASSUME IInv, Tipos', Crece, NEW a \in Agentes, \A b \in Agentes \ {a} : Quieto(b),
         FilaBien(mem'[a], obj'[a], fiscal', caes'),
         a \in Workers => WorkerBien(a)', a \in Admins => AdminBien(a)', CronBien'
  PROVE  AgentesBien'
<1>1. ASSUME NEW b \in Agentes PROVE FilaBien(mem'[b], obj'[b], fiscal', caes')
  <2>1. CASE b = a
    BY <2>1
  <2>2. CASE b # a
    <3>1. mem'[b] = mem[b] /\ obj'[b] = obj[b] /\ obj[b] \in Ventas
      BY <2>2 DEF Quieto, IInv, Tipos
    <3>2. FilaBien(mem[b], obj[b], fiscal, caes)
      BY DEF IInv, AgentesBien
    <3> QED
      BY <3>1, <3>2, FilasSiguen
  <2> QED
    BY <2>1, <2>2
<1>2. ASSUME NEW w \in Workers PROVE WorkerBien(w)'
  <2>1. CASE w = a
    BY <2>1
  <2>2. CASE w # a
    BY <2>2, Constantes DEF IInv, AgentesBien, WorkerBien, Quieto, Crece
  <2> QED
    BY <2>1, <2>2
<1>3. ASSUME NEW d \in Admins PROVE AdminBien(d)'
  <2>1. CASE d = a
    BY <2>1
  <2>2. CASE d # a
    BY <2>2, Constantes DEF IInv, AgentesBien, AdminBien, Quieto, Crece
  <2> QED
    BY <2>1, <2>2
<1> QED
  BY <1>1, <1>2, <1>3 DEF AgentesBien

LEMMA LoteSigue ==
  ASSUME IInv, Tipos', Crece, DOMAIN lote' \subseteq DOMAIN lote,
         \A v \in DOMAIN lote' : lote'[v] = lote[v]
  PROVE  LoteBien'
<1> SUFFICES ASSUME NEW v \in DOMAIN lote'
             PROVE  /\ v \in vendidas' /\ FilaBien(lote'[v], v, fiscal', caes')
                    /\ lote'[v].estado = "pendiente"
  BY DEF LoteBien
<1>1. v \in vendidas /\ FilaBien(lote[v], v, fiscal, caes) /\ lote[v].estado = "pendiente" /\ v \in Ventas
  BY DEF IInv, LoteBien, Tipos
<1>2. FilaBien(lote[v], v, fiscal', caes')
  BY <1>1, FilasSiguen
<1> QED
  BY <1>1, <1>2 DEF Crece

(* Nobody has taken a job, at most agent a has moved, and rows were only    *)
(* written with good copies of sold sales.                                  *)
LEMMA PasoComun ==
  ASSUME IInv, Tipos', Crece, vendidas' = vendidas, cola' = cola,
         NEW a \in Agentes, \A b \in Agentes \ {a} : Quieto(b),
         a \in Workers => /\ pc'[a] # "libre" => pc[a] # "libre" /\ obj'[a] = obj[a]
                          /\ pc'[a] \in Antes => pc[a] \in Antes,
         \A v \in Ventas : \/ comp'[v] = comp[v]
                           \/ /\ v \in vendidas /\ FilaBien(comp'[v], v, fiscal', caes')
                              /\ comp'[v].retry <= MaxRetries \/ ~PorLlamar(v)',
         \A v \in Ventas : llamadas'[v] = llamadas[v] \/ v \in vendidas,
         a \in Admins => CopiaPDF(a)'
  PROVE  FilasBien' /\ JobUnico'
<1>1. \A w \in Workers :
        /\ pc'[w] # "libre" => pc[w] # "libre" /\ obj'[w] = obj[w]
        /\ pc'[w] \in Antes => pc[w] \in Antes
  BY Constantes DEF Quieto
<1>2. JobUnico'
  BY <1>1 DEF IInv, JobUnico
<1>3. ASSUME NEW v \in Ventas, PorLlamar(v)' PROVE PorLlamar(v)
  <2>1. CASE v \notin vendidas' \/ v \in cola'
    BY <2>1 DEF PorLlamar
  <2>2. CASE \E w \in Workers : obj'[w] = v /\ pc'[w] \in Antes
    <3>1. PICK w \in Workers : obj'[w] = v /\ pc'[w] \in Antes
      BY <2>2
    <3>2. obj[w] = v /\ pc[w] \in Antes
      BY <1>1, <3>1 DEF Antes
    <3> QED
      BY <3>2 DEF PorLlamar, Ocupa, Antes
  <2> QED
    BY <1>3, <2>1, <2>2 DEF PorLlamar, Ocupa, Antes
<1>4. ASSUME NEW v \in Ventas
      PROVE  /\ FilaBien(comp'[v], v, fiscal', caes')
             /\ v \notin vendidas' => comp'[v] = SinFila /\ llamadas'[v] = 0
             /\ PorLlamar(v)' => comp'[v].retry <= MaxRetries
  <2>1. FilaBien(comp[v], v, fiscal, caes) /\ (v \notin vendidas => comp[v] = SinFila /\ llamadas[v] = 0)
        /\ (PorLlamar(v) => comp[v].retry <= MaxRetries)
    BY DEF IInv, FilasBien
  <2>2. FilaBien(comp[v], v, fiscal', caes')
    BY <2>1, FilasSiguen
  <2> QED
    BY <1>3, <2>1, <2>2
<1>5. ASSUME NEW d \in Admins PROVE CopiaPDF(d)'
  <2>1. CASE d = a
    BY <2>1
  <2>2. CASE d # a
    <3>1. Quieto(d) /\ CopiaPDF(d) /\ obj[d] \in Ventas
      BY <2>2, Constantes DEF IInv, FilasBien, Tipos
    <3> QED
      BY <1>3, <3>1 DEF CopiaPDF, Quieto
  <2> QED
    BY <2>1, <2>2
<1> QED
  BY <1>2, <1>4, <1>5 DEF FilasBien

(* Copies that wait for their PDF stay what they are while their agents do. *)
LEMMA CopiasSiguen ==
  ASSUME IInv, vendidas \subseteq vendidas', \A x \in Ventas : PorLlamar(x)' => PorLlamar(x),
         \A d \in Admins : Quieto(d)
  PROVE  \A d \in Admins : CopiaPDF(d)'
<1> SUFFICES ASSUME NEW d \in Admins PROVE CopiaPDF(d)'
  OBVIOUS
<1>1. Quieto(d) /\ CopiaPDF(d) /\ obj[d] \in Ventas
  BY Constantes DEF IInv, FilasBien, Tipos
<1> QED
  BY <1>1 DEF CopiaPDF, Quieto

-----------------------------------------------------------------------------
(* Workers *)

Pasos == {"libre", "buscar", "crear", "emitir", "guardar", "pdf", "lote", "reintentar", "renderizar"}

LEMMA IrMueve ==
  ASSUME Tipos, NEW a \in Agentes, NEW d \in Pasos, NEW v \in Ventas, NEW fila \in Filas,
         pc' = [pc EXCEPT ![a] = d], obj' = [obj EXCEPT ![a] = v], mem' = [mem EXCEPT ![a] = fila]
  PROVE  /\ pc' \in [Agentes -> Pasos] /\ obj' \in [Agentes -> Ventas] /\ mem' \in [Agentes -> Filas]
         /\ pc'[a] = d /\ obj'[a] = v /\ mem'[a] = fila
         /\ \A b \in Agentes \ {a} : Quieto(b)
BY DEF Tipos, Pasos, Quieto

(* A worker that has a job takes one step of it: what its copy must satisfy *)
(* where it goes, and what it may write.                                    *)
LEMMA WorkerMueve ==
  ASSUME IInv, NEW w \in Workers, NEW d \in {"libre"} \cup Antes \cup {"guardar", "pdf"}, NEW fila,
         pc' = [pc EXCEPT ![w] = d], obj' = [obj EXCEPT ![w] = obj[w]], mem' = [mem EXCEPT ![w] = fila],
         pc[w] # "libre", d \in Antes => pc[w] \in Antes,
         UNCHANGED <<vendidas, cola, dlq, lote, cb, fiscal, conTenant, reintentos, pisadas, pdfs, admins, caidas>>,
         fallas' \in Nat,
         caes' \in [Ventas -> 0 .. MaxCAEs], \A x \in Ventas : caes[x] <= caes'[x],
         llamadas' \in [Ventas -> 0 .. MaxLlamadas],
         \A x \in Ventas : llamadas'[x] = llamadas[x] \/ x = obj[w],
         FilaBien(fila, obj[w], fiscal, caes'),
         d = "emitir" => fila.cae = 0 /\ fila.retry <= MaxRetries /\ fila.estado # "ninguno",
         d \in {"guardar", "pdf"} => ConTurno(fila) /\ fila.estado # "ninguno",
         NEW g, FilaBien(g, obj[w], fiscal, caes'), g.retry <= MaxRetries \/ d \notin Antes,
         comp' = comp \/ comp' = [comp EXCEPT ![obj[w]] = g]
  PROVE  IInv'
<1>1. /\ Tipos /\ w \in Agentes /\ w # Cron /\ w \notin Admins /\ d \in Pasos
      /\ fila \in Filas /\ g \in Filas /\ obj[w] \in Ventas /\ obj[w] \in vendidas /\ WorkerBien(w)
  BY Constantes DEF IInv, FilaBien, Antes, Pasos, Tipos, AgentesBien, WorkerBien
<1>2. /\ pc' \in [Agentes -> Pasos] /\ obj' \in [Agentes -> Ventas] /\ mem' \in [Agentes -> Filas]
      /\ pc'[w] = d /\ obj'[w] = obj[w] /\ mem'[w] = fila
      /\ \A b \in Agentes \ {w} : Quieto(b)
  BY <1>1, IrMueve
<1>3. Tipos'
  BY <1>1, <1>2 DEF Tipos, Pasos
<1>4. Crece
  BY DEF Crece
<1>5. WorkerBien(w)'
  BY <1>1, <1>2 DEF WorkerBien, Antes
<1>6. AgentesBien'
  <2>1. CronBien'
    BY <1>1, <1>2, <1>4, Constantes, CronSigue
  <2> QED
    BY <1>1, <1>2, <1>3, <1>4, <1>5, <2>1, AgentesSiguen
<1>7. LoteBien'
  BY <1>3, <1>4, LoteSigue
<1>8. d \notin Antes => ~PorLlamar(obj[w])'
  <2> SUFFICES ASSUME d \notin Antes, PorLlamar(obj[w])' PROVE FALSE
    OBVIOUS
  <2>1. obj[w] \notin cola /\ \A u \in Workers : pc[u] # "libre" /\ obj[u] = obj[w] => u = w
    BY DEF IInv, JobUnico
  <2>2. PICK u \in Workers : obj'[u] = obj[w] /\ pc'[u] \in Antes
    BY <1>1, <1>2, <2>1 DEF PorLlamar, Ocupa, Antes
  <2>3. u # w
    BY <1>2, <2>2
  <2>4. obj[u] = obj[w] /\ pc[u] # "libre"
    BY <1>2, <2>2, <2>3, Constantes DEF Quieto, Antes
  <2> QED
    BY <2>1, <2>3, <2>4
<1>9. \A v \in Ventas : \/ comp'[v] = comp[v]
                        \/ /\ v \in vendidas /\ FilaBien(comp'[v], v, fiscal', caes')
                           /\ comp'[v].retry <= MaxRetries \/ ~PorLlamar(v)'
  BY <1>1, <1>8 DEF Tipos
<1>10. FilasBien' /\ JobUnico'
  BY <1>1, <1>2, <1>3, <1>4, <1>9, PasoComun
<1> QED
  BY <1>3, <1>6, <1>7, <1>10 DEF IInv

LEMMA BuscarConserva ==
  ASSUME IInv, NEW w \in Workers, Buscar(w)
  PROVE  IInv'
<1> DEFINE v == obj[w]
<1>1. /\ Tipos /\ w \in Agentes /\ v \in Ventas /\ FilaBien(comp[v], v, fiscal, caes)
      /\ PorLlamar(v) => comp[v].retry <= MaxRetries
  BY Constantes DEF IInv, Tipos, FilasBien
<1>2. /\ UNCHANGED <<vendidas, cola, comp, dlq, lote, cb, fiscal, conTenant, reintentos, pisadas, pdfs, admins, caidas>>
      /\ fallas' = fallas /\ caes' = caes /\ llamadas' = llamadas /\ pc[w] = "buscar"
  BY DEF Buscar, externas, cuentas
<1>3. comp[v].retry <= MaxRetries
  BY <1>1, <1>2 DEF PorLlamar, Ocupa
<1>4. FilaBien(SinFila, v, fiscal, caes)
  BY <1>1, SinFilaBien DEF Tipos
<1>5. /\ fallas' \in Nat /\ caes' \in [Ventas -> 0 .. MaxCAEs] /\ \A x \in Ventas : caes[x] <= caes'[x]
      /\ llamadas' \in [Ventas -> 0 .. MaxLlamadas]
  BY <1>1, <1>2 DEF Tipos
<1>6. PICK d \in {"libre", "crear", "emitir"}, fila \in {SinFila, comp[v]} :
        /\ pc' = [pc EXCEPT ![w] = d] /\ obj' = [obj EXCEPT ![w] = v] /\ mem' = [mem EXCEPT ![w] = fila]
        /\ d = "emitir" => fila = comp[v] /\ comp[v].cae = 0 /\ comp[v].estado # "ninguno"
  BY DEF Buscar, Ir, Fin, Existe
<1>7. FilaBien(fila, v, fiscal, caes')
  BY <1>1, <1>2, <1>4, <1>6
<1> QED
  BY <1>1, <1>2, <1>3, <1>5, <1>6, <1>7, WorkerMueve DEF Antes

LEMMA CrearConserva ==
  ASSUME IInv, NEW w \in Workers, Crear(w)
  PROVE  IInv'
<1> DEFINE v == obj[w]
           nueva == Fila("pendiente", "null")
<1>1. Tipos /\ w \in Agentes /\ v \in Ventas
  BY Constantes DEF IInv, Tipos
<1>2. /\ UNCHANGED <<vendidas, cola, dlq, lote, cb, fiscal, conTenant>>
      /\ caes' = caes /\ llamadas' = llamadas /\ pc[w] = "crear"
      /\ UNCHANGED <<reintentos, pisadas, pdfs, admins, caidas>>
  BY DEF Crear, externas, cuentas, Escribe
<1>3. FilaBien(SinFila, v, fiscal, caes)
  BY <1>1, SinFilaBien DEF Tipos
<1>4. FilaBien(nueva, v, fiscal, caes) /\ nueva.retry = 0 /\ nueva.estado = "pendiente" /\ nueva.cae = 0
  BY <1>1, FilaNuevaBien DEF Tipos
<1> HIDE DEF nueva
<1>5. fallas' \in Nat /\ (comp' = comp \/ comp' = [comp EXCEPT ![v] = nueva])
  BY <1>1 DEF Crear, Escribe, cuentas, nueva, Tipos
<1>6. PICK d \in {"libre", "emitir"}, fila \in {SinFila, nueva} :
        /\ pc' = [pc EXCEPT ![w] = d] /\ obj' = [obj EXCEPT ![w] = v] /\ mem' = [mem EXCEPT ![w] = fila]
        /\ d = "emitir" => fila = nueva
  <2>1. CASE Existe(v) /\ Fin(w)
    BY <2>1 DEF Ir, Fin
  <2>2. CASE Escribe(v, nueva) /\ IF fallas' = fallas THEN Ir(w, "emitir", v, comp'[v]) ELSE Fin(w)
    <3>1. CASE fallas' = fallas
      <4>1. comp' = [comp EXCEPT ![v] = nueva]
        BY <1>1, <2>2, <3>1 DEF Escribe, Tipos
      <4>2. comp'[v] = nueva
        BY <1>1, <4>1 DEF Tipos
      <4> QED
        BY <2>2, <3>1, <4>2 DEF Ir
    <3>2. CASE fallas' # fallas
      BY <2>2, <3>2 DEF Ir, Fin
    <3> QED
      BY <3>1, <3>2
  <2> QED
    BY <2>1, <2>2 DEF Crear, nueva
<1>7. /\ caes' \in [Ventas -> 0 .. MaxCAEs] /\ \A x \in Ventas : caes[x] <= caes'[x]
      /\ llamadas' \in [Ventas -> 0 .. MaxLlamadas]
  BY <1>1, <1>2 DEF Tipos
<1>8. FilaBien(fila, v, fiscal, caes') /\ FilaBien(nueva, v, fiscal, caes') /\ nueva.retry <= MaxRetries
  BY <1>2, <1>3, <1>4, <1>6, Constantes
<1> QED
  BY <1>1, <1>2, <1>4, <1>5, <1>6, <1>7, <1>8, WorkerMueve DEF Antes

LEMMA EmitirTicketConserva ==
  ASSUME IInv, NEW w \in Workers, EmitirTicket(w)
  PROVE  IInv'
<1> DEFINE v == obj[w]
           fila == [mem[w] EXCEPT !.estado = "emitido"]
<1>0. PICK d : d = "guardar"
  OBVIOUS
<1>1. Tipos /\ w \in Agentes /\ v \in Ventas /\ FilaBien(mem[w], v, fiscal, caes)
  BY Constantes DEF IInv, Tipos, AgentesBien
<1>2. /\ UNCHANGED <<vendidas, cola, comp, dlq, lote, cb, fiscal, conTenant, reintentos, pisadas, pdfs, admins, caidas>>
      /\ fallas' = fallas /\ caes' = caes /\ llamadas' = llamadas /\ pc[w] = "emitir"
      /\ pc' = [pc EXCEPT ![w] = d] /\ obj' = [obj EXCEPT ![w] = v] /\ mem' = [mem EXCEPT ![w] = fila]
      /\ v \notin fiscal
  BY <1>0 DEF EmitirTicket, externas, cuentas, Ir
<1>3. FilaBien(fila, v, fiscal, caes) /\ fila.estado = "emitido"
  BY <1>0, <1>1, <1>2, TicketBien
<1> HIDE DEF fila
<1>4. /\ fallas' \in Nat /\ caes' \in [Ventas -> 0 .. MaxCAEs] /\ \A x \in Ventas : caes[x] <= caes'[x]
      /\ llamadas' \in [Ventas -> 0 .. MaxLlamadas]
  BY <1>0, <1>1, <1>2 DEF Tipos
<1>5. ConTurno(fila) /\ fila.estado # "ninguno"
  BY <1>3 DEF ConTurno
<1>9. /\ d \in {"libre"} \cup Antes \cup {"guardar", "pdf"} /\ d \notin Antes /\ d # "emitir"
      /\ pc[w] # "libre"
  BY <1>0, <1>2 DEF Antes
<1> QED
  BY <1>1, <1>2, <1>3, <1>4, <1>5, <1>9, WorkerMueve

LEMMA LlamarAFIPConserva ==
  ASSUME IInv, NEW w \in Workers, LlamarAFIP(w)
  PROVE  IInv'
<1> DEFINE v == obj[w]
<1>0. PICK d : d = "guardar"
  OBVIOUS
<1>1. /\ Tipos /\ w \in Agentes /\ v \in Ventas /\ FilaBien(mem[w], v, fiscal, caes) /\ WorkerBien(w)
      /\ pc[w] = "emitir" /\ v \in fiscal
  BY Constantes DEF IInv, Tipos, AgentesBien, LlamarAFIP
<1>2. PICK r \in Resultados : Facturar(v, r) /\ Ir(w, "guardar", v, ResultadoWorker(mem[w], v, r))
  BY DEF LlamarAFIP
<1>3. PICK fila : fila = ResultadoWorker(mem[w], v, r)
  OBVIOUS
<1>4. /\ FilaBien(fila, v, fiscal, caes') /\ ConTurno(fila) /\ fila.estado # "ninguno"
  BY <1>0, <1>1, <1>2, <1>3, ResultadoWorkerBien DEF WorkerBien
<1>5. /\ caes' \in [Ventas -> 0 .. MaxCAEs] /\ \A x \in Ventas : caes[x] <= caes'[x]
      /\ llamadas' \in [Ventas -> 0 .. MaxLlamadas]
      /\ \A x \in Ventas : llamadas'[x] = llamadas[x] \/ x = v
      /\ fiscal' = fiscal /\ conTenant' = conTenant /\ cb' = cb
  BY <1>0, <1>1, <1>2, FacturarCrece
<1>6. pc' = [pc EXCEPT ![w] = d] /\ obj' = [obj EXCEPT ![w] = v] /\ mem' = [mem EXCEPT ![w] = fila]
  BY <1>0, <1>2, <1>3 DEF Ir
<1>7. UNCHANGED <<vendidas, cola, comp, dlq, lote, reintentos, pisadas, pdfs, admins, caidas>> /\ fallas' = fallas
  BY DEF LlamarAFIP, cuentas
<1>8. fallas' \in Nat
  BY <1>0, <1>1, <1>7 DEF Tipos
<1>9. /\ d \in {"libre"} \cup Antes \cup {"guardar", "pdf"} /\ d \notin Antes /\ d # "emitir"
      /\ pc[w] # "libre"
  BY <1>0, <1>1 DEF Antes
<1> QED
  BY <1>1, <1>4, <1>5, <1>6, <1>7, <1>8, <1>9, WorkerMueve

LEMMA GuardarConserva ==
  ASSUME IInv, NEW w \in Workers, Guardar(w)
  PROVE  IInv'
<1> DEFINE v == obj[w]
<1>0. PICK d : d = "pdf"
  OBVIOUS
<1>1. /\ Tipos /\ w \in Agentes /\ v \in Ventas /\ FilaBien(mem[w], v, fiscal, caes) /\ WorkerBien(w)
  BY Constantes DEF IInv, Tipos, AgentesBien
<1>2. PICK fila : fila = mem[w]
  OBVIOUS
<1>3. /\ UNCHANGED <<vendidas, cola, dlq, lote, cb, fiscal, conTenant, reintentos, pisadas, pdfs, admins, caidas>>
      /\ caes' = caes /\ llamadas' = llamadas /\ pc[w] = "guardar"
      /\ pc' = [pc EXCEPT ![w] = d] /\ obj' = [obj EXCEPT ![w] = v] /\ mem' = [mem EXCEPT ![w] = fila]
      /\ comp' = comp \/ comp' = [comp EXCEPT ![v] = fila]
      /\ fallas' \in Nat
  BY <1>0, <1>1, <1>2 DEF Guardar, Escribe, externas, Ir, Tipos
<1>4. /\ caes' \in [Ventas -> 0 .. MaxCAEs] /\ \A x \in Ventas : caes[x] <= caes'[x]
      /\ llamadas' \in [Ventas -> 0 .. MaxLlamadas]
  BY <1>0, <1>1, <1>3 DEF Tipos
<1>5. ConTurno(fila) /\ fila.estado # "ninguno" /\ FilaBien(fila, v, fiscal, caes')
  BY <1>0, <1>1, <1>2, <1>3 DEF WorkerBien
<1>9. /\ d \in {"libre"} \cup Antes \cup {"guardar", "pdf"} /\ d \notin Antes /\ d # "emitir"
      /\ pc[w] # "libre"
  BY <1>0, <1>3 DEF Antes
<1> QED
  BY <1>1, <1>3, <1>4, <1>5, <1>9, WorkerMueve

LEMMA GenerarPDFConserva ==
  ASSUME IInv, NEW w \in Workers, GenerarPDF(w)
  PROVE  IInv'
<1> DEFINE v == obj[w]
<1>0. PICK d : d = "libre"
  OBVIOUS
<1>1. /\ Tipos /\ w \in Agentes /\ v \in Ventas /\ FilaBien(mem[w], v, fiscal, caes)
  BY Constantes DEF IInv, Tipos, AgentesBien
<1>2. PICK g : g = mem[w]
  OBVIOUS
<1>3. /\ UNCHANGED <<vendidas, cola, dlq, lote, cb, fiscal, conTenant, reintentos, pisadas, pdfs, admins, caidas>>
      /\ caes' = caes /\ llamadas' = llamadas /\ fallas' = fallas /\ pc[w] = "pdf"
      /\ pc' = [pc EXCEPT ![w] = d] /\ obj' = [obj EXCEPT ![w] = v] /\ mem' = [mem EXCEPT ![w] = SinFila]
      /\ comp' = comp \/ comp' = [comp EXCEPT ![v] = g]
  BY <1>0, <1>2 DEF GenerarPDF, externas, cuentas, Ir, Fin
<1>4. /\ caes' \in [Ventas -> 0 .. MaxCAEs] /\ \A x \in Ventas : caes[x] <= caes'[x]
      /\ llamadas' \in [Ventas -> 0 .. MaxLlamadas] /\ fallas' \in Nat
  BY <1>0, <1>1, <1>3 DEF Tipos
<1>5. FilaBien(SinFila, v, fiscal, caes') /\ FilaBien(g, v, fiscal, caes')
  BY <1>0, <1>1, <1>2, <1>3, SinFilaBien DEF Tipos
<1>9. /\ d \in {"libre"} \cup Antes \cup {"guardar", "pdf"} /\ d \notin Antes /\ d \notin {"emitir", "guardar", "pdf"}
      /\ pc[w] # "libre"
  BY <1>0, <1>3 DEF Antes
<1> QED
  BY <1>1, <1>3, <1>4, <1>5, <1>9, WorkerMueve

LEMMA TomarConserva ==
  ASSUME IInv, NEW w \in Workers, Tomar(w)
  PROVE  IInv'
<1>1. PICK v \in cola : cola' = cola \ {v} /\ Ir(w, "buscar", v, SinFila)
  BY DEF Tomar
<1>2. /\ Tipos /\ w \in Agentes /\ w # Cron /\ w \notin Admins /\ v \in Ventas /\ v \in vendidas
      /\ pc[w] = "libre"
  BY Constantes DEF IInv, Tipos, Tomar
<1>3. /\ UNCHANGED <<vendidas, comp, dlq, lote, cb, fiscal, conTenant, reintentos, pisadas, pdfs, admins, caidas>>
      /\ fallas' = fallas /\ caes' = caes /\ llamadas' = llamadas
      /\ pc' = [pc EXCEPT ![w] = "buscar"] /\ obj' = [obj EXCEPT ![w] = v] /\ mem' = [mem EXCEPT ![w] = SinFila]
  BY <1>1 DEF Tomar, externas, cuentas, Ir
<1>4. FilaBien(SinFila, v, fiscal, caes)
  BY <1>2, SinFilaBien DEF Tipos
<1>5. /\ pc' \in [Agentes -> Pasos] /\ obj' \in [Agentes -> Ventas] /\ mem' \in [Agentes -> Filas]
      /\ pc'[w] = "buscar" /\ obj'[w] = v /\ mem'[w] = SinFila
      /\ \A b \in Agentes \ {w} : Quieto(b)
  BY <1>2, <1>3, <1>4, IrMueve DEF Pasos, FilaBien
<1>6. Tipos' /\ Crece
  BY <1>1, <1>2, <1>3, <1>5 DEF Tipos, Pasos, Crece
<1>7. AgentesBien' /\ LoteBien'
  <2>1. WorkerBien(w)' /\ CronBien'
    BY <1>2, <1>3, <1>5, <1>6, Constantes, CronSigue DEF WorkerBien
  <2> QED
    BY <1>2, <1>3, <1>4, <1>5, <1>6, <2>1, AgentesSiguen, LoteSigue
<1>8. \A u \in Workers \ {w} : pc'[u] = pc[u] /\ obj'[u] = obj[u]
  BY <1>5, Constantes DEF Quieto
<1>9. JobUnico'
  <2>1. \A u \in Workers \ {w} : pc'[u] # "libre" => obj'[u] # v /\ obj'[u] \notin cola'
    BY <1>1, <1>8 DEF IInv, JobUnico
  <2>2. \A u, t \in Workers \ {w} : pc'[u] # "libre" /\ pc'[t] # "libre" /\ obj'[u] = obj'[t] => u = t
    BY <1>8 DEF IInv, JobUnico
  <2> QED
    BY <1>1, <1>5, <2>1, <2>2 DEF JobUnico
<1>10. ASSUME NEW x \in Ventas, PorLlamar(x)' PROVE PorLlamar(x)
  BY <1>1, <1>3, <1>5, <1>8, <1>10 DEF PorLlamar, Ocupa
<1>11. \A d \in Admins : CopiaPDF(d)'
  BY <1>2, <1>3, <1>5, <1>10, Constantes, CopiasSiguen
<1>12. FilasBien'
  BY <1>3, <1>10, <1>11 DEF IInv, FilasBien
<1> QED
  BY <1>6, <1>7, <1>9, <1>12 DEF IInv

-----------------------------------------------------------------------------
(* Sales, the clock and the breaker: no agent moves *)

LEMMA NadieMueve ==
  ASSUME IInv, Tipos', Crece, UNCHANGED <<pc, obj, mem, lote>>
  PROVE  AgentesBien' /\ LoteBien' /\ \A b \in Agentes : Quieto(b)
<1>1. \A b \in Agentes : Quieto(b)
  BY DEF Quieto
<1>2. CronBien' /\ LoteBien'
  BY <1>1, Constantes, CronSigue, LoteSigue
<1>3. FilaBien(mem[Cron], obj[Cron], fiscal, caes) /\ obj[Cron] \in Ventas
  BY Constantes DEF IInv, AgentesBien, Tipos
<1>4. FilaBien(mem'[Cron], obj'[Cron], fiscal', caes')
  BY <1>3, FilasSiguen
<1> QED
  BY <1>1, <1>2, <1>4, Constantes, AgentesSiguen

LEMMA RegistrarVentaConserva ==
  ASSUME IInv, NEW v \in Ventas, RegistrarVenta(v)
  PROVE  IInv'
<1> DEFINE nueva == Fila("pendiente", "espera")
<1>1. /\ v \notin vendidas /\ vendidas' = vendidas \cup {v} /\ cola' \in {cola, cola \cup {v}}
      /\ comp' = comp \/ comp' = [comp EXCEPT ![v] = nueva]
      /\ UNCHANGED <<dlq, lote, cb, fiscal, conTenant, reintentos, pisadas, pdfs, admins, caidas>>
      /\ fallas' = fallas /\ caes' = caes /\ llamadas' = llamadas
      /\ UNCHANGED <<pc, obj, mem, lote>>
  BY DEF RegistrarVenta, externas, cuentas, agentes
<1>2. FilaBien(nueva, v, fiscal, caes) /\ nueva.retry = 0
  BY FilaNuevaBien DEF IInv, Tipos
<1> HIDE DEF nueva
<1>3. Tipos' /\ Crece
  BY <1>1, <1>2 DEF IInv, Tipos, Crece, FilaBien
<1>4. AgentesBien' /\ LoteBien'
  BY <1>1, <1>3, NadieMueve
<1>5. JobUnico'
  BY <1>1 DEF IInv, JobUnico, AgentesBien, WorkerBien
<1>6. ASSUME NEW x \in Ventas, PorLlamar(x)' PROVE PorLlamar(x)
  BY <1>1, <1>6 DEF PorLlamar, Ocupa
<1>7. \A x \in Ventas : comp'[x] = comp[x] \/ (x = v /\ comp'[x] = nueva)
  BY <1>1 DEF IInv, Tipos
<1>8. \A d \in Admins : CopiaPDF(d)'
  BY <1>1, <1>6, CopiasSiguen DEF Quieto
<1>9. FilasBien'
  BY <1>1, <1>2, <1>6, <1>7, <1>8, Constantes DEF IInv, FilasBien
<1> QED
  BY <1>3, <1>4, <1>5, <1>9 DEF IInv

(* Rows may change where they are, keeping their counts. *)
LEMMA FilasCambian ==
  ASSUME IInv, comp' \in [Ventas -> Filas], admins' \in Nat,
         UNCHANGED <<fiscal, conTenant, vendidas, cola, dlq, cb, caes, llamadas, reintentos, pisadas, pdfs, caidas, fallas>>,
         UNCHANGED <<pc, obj, mem, lote>>,
         \A x \in Ventas : \/ comp'[x] = comp[x]
                           \/ /\ comp[x].estado # "ninguno" /\ FilaBien(comp'[x], x, fiscal, caes)
                              /\ comp'[x].retry = comp[x].retry
  PROVE  IInv'
<1>1. Tipos' /\ Crece
  BY DEF IInv, Tipos, Crece
<1>2. AgentesBien' /\ LoteBien'
  BY <1>1, NadieMueve
<1>3. JobUnico'
  BY DEF IInv, JobUnico
<1>4. ASSUME NEW x \in Ventas, PorLlamar(x)' PROVE PorLlamar(x)
  BY <1>4 DEF PorLlamar, Ocupa
<1>5. \A x \in Ventas : comp[x].estado # "ninguno" => x \in vendidas
  BY SinFilaBien DEF IInv, FilasBien, SinFila, Fila
<1>6. \A d \in Admins : CopiaPDF(d)'
  BY <1>4, CopiasSiguen DEF Quieto
<1>7. FilasBien'
  BY <1>4, <1>5, <1>6 DEF IInv, FilasBien
<1> QED
  BY <1>1, <1>2, <1>3, <1>7 DEF IInv

LEMMA VenceConserva ==
  ASSUME IInv, NEW v \in Ventas, Vence(v)
  PROVE  IInv'
<1> DEFINE g == [comp[v] EXCEPT !.next = "vencido"]
<1>1. /\ comp' = [comp EXCEPT ![v] = g] /\ comp[v].next = "espera"
      /\ UNCHANGED <<fiscal, conTenant, vendidas, cola, dlq, cb, caes, llamadas, reintentos, pisadas, pdfs, caidas, fallas>>
      /\ UNCHANGED <<pc, obj, mem, lote>> /\ admins' = admins
  BY DEF Vence, externas, cuentas, agentes
<1>2. FilaBien(comp[v], v, fiscal, caes) /\ comp \in [Ventas -> Filas] /\ admins \in Nat
  BY DEF IInv, FilasBien, Tipos
<1>3. FilaBien(g, v, fiscal, caes) /\ g.estado = comp[v].estado /\ g.retry = comp[v].retry /\ g.estado # "ninguno"
  BY <1>1, <1>2, VencidaBien
<1> HIDE DEF g
<1>4. comp' \in [Ventas -> Filas] /\ \A x \in Ventas : comp'[x] = comp[x] \/ (x = v /\ comp'[x] = g)
  BY <1>1, <1>2, <1>3 DEF FilaBien
<1> QED
  BY <1>1, <1>2, <1>3, <1>4, FilasCambian

LEMMA CancelarConserva ==
  ASSUME IInv, CancelarPendientes
  PROVE  IInv'
<1>1. /\ UNCHANGED <<fiscal, conTenant, vendidas, cola, dlq, cb, caes, llamadas, reintentos, pisadas, pdfs, caidas, fallas>>
      /\ UNCHANGED <<pc, obj, mem, lote>> /\ admins' = admins + 1 /\ admins \in Nat
  BY DEF CancelarPendientes, Pide, externas, agentes, IInv, Tipos
<1>2. ASSUME NEW x \in Ventas
      PROVE  \/ comp'[x] = comp[x]
             \/ /\ comp[x].estado # "ninguno" /\ FilaBien(comp'[x], x, fiscal, caes)
                /\ comp'[x].retry = comp[x].retry
  <2>1. FilaBien(comp[x], x, fiscal, caes)
    BY DEF IInv, FilasBien
  <2> DEFINE g == [comp[x] EXCEPT !.estado = "error", !.next = "null"]
  <2>2. comp[x].estado = "pendiente" => FilaBien(g, x, fiscal, caes) /\ g.retry = comp[x].retry
    BY <2>1, CanceladaBien
  <2>3. comp'[x] = comp[x] \/ (comp[x].estado = "pendiente" /\ comp'[x] = g)
    BY DEF CancelarPendientes
  <2> HIDE DEF g
  <2> QED
    BY <2>2, <2>3
<1>3. comp' \in [Ventas -> Filas]
  <2>1. \A x \in Ventas : comp'[x] \in Filas
    BY <1>2 DEF IInv, Tipos, FilaBien
  <2>2. comp' = [x \in Ventas |-> comp'[x]]
    BY DEF CancelarPendientes
  <2> QED
    BY <2>1, <2>2
<1> QED
  BY <1>1, <1>2, <1>3, FilasCambian

LEMMA CambiaCBConserva ==
  ASSUME IInv, CambiaCB
  PROVE  IInv'
<1>1. /\ UNCHANGED <<fiscal, conTenant, vendidas, cola, comp, dlq, caes, llamadas>>
      /\ UNCHANGED <<reintentos, pisadas, pdfs, admins, caidas, fallas>> /\ UNCHANGED <<pc, obj, mem, lote>>
      /\ cb' \in {"cerrado", "abierto"}
  BY DEF CambiaCB, cuentas, agentes
<1>2. Tipos' /\ Crece
  BY <1>1 DEF IInv, Tipos, Crece
<1>3. AgentesBien' /\ LoteBien'
  BY <1>1, <1>2, NadieMueve
<1>4. JobUnico' /\ \A x \in Ventas : PorLlamar(x)' <=> PorLlamar(x)
  BY <1>1 DEF IInv, JobUnico, PorLlamar, Ocupa
<1>5. \A d \in Admins : CopiaPDF(d)'
  BY <1>1, <1>4, CopiasSiguen DEF Quieto
<1>6. FilasBien'
  BY <1>1, <1>4, <1>5 DEF IInv, FilasBien
<1> QED
  BY <1>2, <1>3, <1>4, <1>6 DEF IInv

-----------------------------------------------------------------------------
(* The cron and the administrators *)

(* A step of an agent that is no worker: its new copy, what it may write,   *)
(* and what its place and the batch must satisfy.                           *)
LEMMA OtroMueve ==
  ASSUME IInv, NEW a \in Agentes \ Workers, NEW d \in Pasos, NEW v \in Ventas, NEW fila,
         pc' = [pc EXCEPT ![a] = d], obj' = [obj EXCEPT ![a] = v], mem' = [mem EXCEPT ![a] = fila],
         UNCHANGED <<vendidas, cola, cb, fiscal, conTenant>>,
         dlq' \subseteq vendidas, reintentos' \in [Ventas -> Nat], pisadas' \in [Ventas -> Nat], pdfs' \in Nat,
         admins' \in Nat, caidas' \in Nat, fallas' \in Nat,
         caes' \in [Ventas -> 0 .. MaxCAEs], \A x \in Ventas : caes[x] <= caes'[x],
         llamadas' \in [Ventas -> 0 .. MaxLlamadas],
         \A x \in Ventas : llamadas'[x] = llamadas[x] \/ x \in vendidas,
         FilaBien(fila, v, fiscal, caes'),
         NEW x \in vendidas, NEW g, FilaBien(g, x, fiscal, caes'), g.retry <= MaxRetries \/ ~PorLlamar(x)',
         comp' = comp \/ comp' = [comp EXCEPT ![x] = g],
         a \in Admins => AdminBien(a)' /\ CopiaPDF(a)' /\ lote' = lote,
         a = Cron => CronBien' /\ LoteBien'
  PROVE  IInv'
<1>1. Tipos /\ a \in Agentes /\ a \notin Workers /\ fila \in Filas /\ g \in Filas /\ x \in Ventas
  BY DEF IInv, FilaBien, Tipos
<1>2. /\ pc' \in [Agentes -> Pasos] /\ obj' \in [Agentes -> Ventas] /\ mem' \in [Agentes -> Filas]
      /\ pc'[a] = d /\ obj'[a] = v /\ mem'[a] = fila
      /\ \A b \in Agentes \ {a} : Quieto(b)
  BY <1>1, IrMueve
<1>3. Tipos' /\ Crece
  BY <1>1, <1>2 DEF Tipos, Pasos, Crece
<1>4. CronBien' /\ LoteBien'
  <2>1. CASE a = Cron
    BY <2>1
  <2>2. CASE a # Cron
    <3>1. a \in Admins /\ Quieto(Cron)
      BY <1>2, <2>2, Constantes DEF Agentes
    <3> QED
      BY <1>3, <3>1, CronSigue, LoteSigue
  <2> QED
    BY <2>1, <2>2
<1>5. AgentesBien'
  BY <1>1, <1>2, <1>3, <1>4, AgentesSiguen
<1>6. \A y \in Ventas : comp'[y] = comp[y] \/ (y = x /\ comp'[y] = g)
  BY <1>1 DEF Tipos
<1>7. FilasBien' /\ JobUnico'
  BY <1>1, <1>2, <1>3, <1>6, PasoComun
<1> QED
  BY <1>3, <1>4, <1>5, <1>7 DEF IInv

LEMMA BuscarReintentoConserva ==
  ASSUME IInv, NEW a \in Admins, NEW v \in Ventas, BuscarReintento(a, v)
  PROVE  IInv'
<1>1. PICK fila : fila = [comp[v] EXCEPT !.estado = "pendiente", !.retry = 0, !.next = "vencido"]
  OBVIOUS
<1>2. /\ Tipos /\ FilaBien(comp[v], v, fiscal, caes) /\ comp[v].estado \in {"error", "rechazado"}
      /\ pc[a] = "libre" /\ admins' = admins + 1 /\ a \in Agentes \ Workers /\ a # Cron
      /\ UNCHANGED <<vendidas, cola, comp, dlq, cb, fiscal, conTenant, lote>>
      /\ caes' = caes /\ llamadas' = llamadas /\ UNCHANGED <<reintentos, pisadas, pdfs>> /\ caidas' = caidas /\ fallas' = fallas
      /\ pc' = [pc EXCEPT ![a] = "reintentar"] /\ obj' = [obj EXCEPT ![a] = v] /\ mem' = [mem EXCEPT ![a] = fila]
  BY <1>1, Constantes DEF BuscarReintento, Ir, Pide, externas, IInv, FilasBien
<1>3. FilaBien(fila, v, fiscal, caes) /\ fila.estado = "pendiente" /\ fila.retry = 0 /\ fila.next = "vencido"
  BY <1>1, <1>2, ReintentoBien
<1>4. v \in vendidas
  BY <1>2 DEF IInv, FilasBien, SinFila, Fila
<1>5. /\ admins' \in Nat /\ caes' \in [Ventas -> 0 .. MaxCAEs] /\ \A x \in Ventas : caes[x] <= caes'[x]
      /\ llamadas' \in [Ventas -> 0 .. MaxLlamadas] /\ reintentos' \in [Ventas -> Nat]
      /\ pisadas' \in [Ventas -> Nat] /\ pdfs' \in Nat
      /\ caidas' \in Nat /\ fallas' \in Nat /\ dlq' \subseteq vendidas
  BY <1>2 DEF Tipos
<1>6. AdminBien(a)' /\ CopiaPDF(a)'
  BY <1>2, <1>3, <1>4 DEF Tipos, AdminBien, CopiaPDF
<1>7. PICK d \in Pasos : d = "reintentar"
  BY DEF Pasos
<1>8. fila.retry <= MaxRetries /\ FilaBien(fila, v, fiscal, caes')
  BY <1>2, <1>3, Constantes
<1> QED
  BY <1>2, <1>4, <1>5, <1>6, <1>7, <1>8, OtroMueve

LEMMA GuardarReintentoConserva ==
  ASSUME IInv, NEW a \in Admins, GuardarReintento(a)
  PROVE  IInv'
<1>1. PICK g : g = mem[a]
  OBVIOUS
<1>2. PICK v : v = obj[a]
  OBVIOUS
<1>3. /\ Tipos /\ a \in Agentes \ Workers /\ a \in Agentes /\ a # Cron /\ pc[a] = "reintentar" /\ AdminBien(a)
      /\ FilaBien(g, v, fiscal, caes) /\ v \in Ventas
      /\ UNCHANGED <<vendidas, cola, dlq, cb, fiscal, conTenant, lote>>
      /\ caes' = caes /\ llamadas' = llamadas /\ admins' = admins /\ caidas' = caidas /\ fallas' = fallas
      /\ comp' = [comp EXCEPT ![v] = g] /\ reintentos' = [reintentos EXCEPT ![v] = @ + 1]
      /\ pisadas' = pisadas /\ pdfs' = pdfs
      /\ pc' = [pc EXCEPT ![a] = "libre"] /\ obj' = [obj EXCEPT ![a] = v] /\ mem' = [mem EXCEPT ![a] = SinFila]
  BY <1>1, <1>2, Constantes DEF GuardarReintento, Fin, Ir, externas, IInv, AgentesBien, Tipos
<1>4. FilaBien(SinFila, v, fiscal, caes)
  BY <1>3, SinFilaBien DEF Tipos
<1>5. v \in vendidas /\ g.retry <= MaxRetries
  BY <1>1, <1>2, <1>3, Constantes DEF AdminBien
<1>6. /\ admins' \in Nat /\ caes' \in [Ventas -> 0 .. MaxCAEs] /\ \A x \in Ventas : caes[x] <= caes'[x]
      /\ llamadas' \in [Ventas -> 0 .. MaxLlamadas] /\ reintentos' \in [Ventas -> Nat]
      /\ pisadas' \in [Ventas -> Nat] /\ pdfs' \in Nat
      /\ caidas' \in Nat /\ fallas' \in Nat /\ dlq' \subseteq vendidas
  BY <1>3 DEF Tipos
<1>7. AdminBien(a)' /\ CopiaPDF(a)'
  BY <1>3 DEF Tipos, AdminBien, CopiaPDF
<1>8. PICK d \in Pasos : d = "libre"
  BY DEF Pasos
<1> QED
  BY <1>3, <1>4, <1>5, <1>6, <1>7, <1>8, OtroMueve

LEMMA LeerFilaConserva ==
  ASSUME IInv, NEW a \in Admins, NEW v \in Ventas, LeerFila(a, v)
  PROVE  IInv'
<1>1. PICK fila : fila = comp[v]
  OBVIOUS
<1>2. /\ Tipos /\ FilaBien(fila, v, fiscal, caes) /\ fila.estado # "ninguno"
      /\ PorLlamar(v) => fila.retry <= MaxRetries
      /\ pc[a] = "libre" /\ pdfs' = pdfs + 1 /\ a \in Agentes \ Workers /\ a # Cron
      /\ UNCHANGED <<vendidas, cola, comp, dlq, cb, fiscal, conTenant, lote>>
      /\ caes' = caes /\ llamadas' = llamadas /\ UNCHANGED <<reintentos, pisadas, admins, caidas, fallas>>
      /\ pc' = [pc EXCEPT ![a] = "renderizar"] /\ obj' = [obj EXCEPT ![a] = v] /\ mem' = [mem EXCEPT ![a] = fila]
  BY <1>1, Constantes DEF LeerFila, Existe, Ir, externas, IInv, FilasBien
<1>3. v \in vendidas
  BY <1>1, <1>2 DEF IInv, FilasBien, SinFila, Fila
<1>4. /\ admins' \in Nat /\ caes' \in [Ventas -> 0 .. MaxCAEs] /\ \A x \in Ventas : caes[x] <= caes'[x]
      /\ llamadas' \in [Ventas -> 0 .. MaxLlamadas] /\ reintentos' \in [Ventas -> Nat]
      /\ pisadas' \in [Ventas -> Nat] /\ pdfs' \in Nat
      /\ caidas' \in Nat /\ fallas' \in Nat /\ dlq' \subseteq vendidas
  BY <1>2 DEF Tipos
<1>5. \A w \in Workers : pc'[w] = pc[w] /\ obj'[w] = obj[w]
  BY <1>2 DEF Tipos
<1>6. PorLlamar(v)' => PorLlamar(v)
  BY <1>2, <1>5 DEF PorLlamar, Ocupa
<1>7. AdminBien(a)' /\ CopiaPDF(a)'
  BY <1>2, <1>3, <1>6 DEF Tipos, AdminBien, CopiaPDF
<1>8. PICK d \in Pasos : d = "renderizar"
  BY DEF Pasos
<1>9. FilaBien(fila, v, fiscal, caes') /\ (fila.retry <= MaxRetries \/ ~PorLlamar(v)')
  BY <1>2, <1>6
<1> QED
  BY <1>2, <1>3, <1>4, <1>7, <1>8, <1>9, OtroMueve

LEMMA GuardarPDFConserva ==
  ASSUME IInv, NEW a \in Admins, GuardarPDF(a)
  PROVE  IInv'
<1>1. PICK g : g = mem[a]
  OBVIOUS
<1>2. PICK v : v = obj[a]
  OBVIOUS
<1>3. /\ Tipos /\ a \in Agentes \ Workers /\ a \in Agentes /\ a # Cron /\ pc[a] = "renderizar" /\ CopiaPDF(a)
      /\ FilaBien(g, v, fiscal, caes) /\ v \in Ventas
      /\ UNCHANGED <<vendidas, cola, dlq, cb, fiscal, conTenant, lote>>
      /\ caes' = caes /\ llamadas' = llamadas /\ UNCHANGED <<reintentos, pdfs, admins, caidas, fallas>>
      /\ comp' = comp \/ comp' = [comp EXCEPT ![v] = g]
      /\ pisadas' = [pisadas EXCEPT ![v] = IF comp' = comp THEN @ ELSE @ + 1]
      /\ pc' = [pc EXCEPT ![a] = "libre"] /\ obj' = [obj EXCEPT ![a] = v] /\ mem' = [mem EXCEPT ![a] = SinFila]
  BY <1>1, <1>2, Constantes DEF GuardarPDF, Fin, Ir, externas, IInv, AgentesBien, FilasBien, Tipos
<1>4. FilaBien(SinFila, v, fiscal, caes)
  BY <1>3, SinFilaBien DEF Tipos
<1>5. \A w \in Workers : pc'[w] = pc[w] /\ obj'[w] = obj[w]
  BY <1>3 DEF Tipos
<1>6. PorLlamar(v)' => PorLlamar(v)
  BY <1>3, <1>5 DEF PorLlamar, Ocupa
<1>7. v \in vendidas /\ (g.retry <= MaxRetries \/ ~PorLlamar(v)')
  BY <1>1, <1>2, <1>3, <1>6 DEF CopiaPDF
<1>8. /\ admins' \in Nat /\ caes' \in [Ventas -> 0 .. MaxCAEs] /\ \A x \in Ventas : caes[x] <= caes'[x]
      /\ llamadas' \in [Ventas -> 0 .. MaxLlamadas] /\ reintentos' \in [Ventas -> Nat]
      /\ pisadas' \in [Ventas -> Nat] /\ pdfs' \in Nat
      /\ caidas' \in Nat /\ fallas' \in Nat /\ dlq' \subseteq vendidas
  BY <1>3 DEF Tipos
<1>9. AdminBien(a)' /\ CopiaPDF(a)'
  BY <1>3 DEF Tipos, AdminBien, CopiaPDF
<1>10. PICK d \in Pasos : d = "libre"
  BY DEF Pasos
<1> QED
  BY <1>3, <1>4, <1>7, <1>8, <1>9, <1>10, OtroMueve

LEMMA AdminConserva ==
  ASSUME IInv, NEW a \in Admins, PasoAdmin(a)
  PROVE  IInv'
BY BuscarReintentoConserva, GuardarReintentoConserva, LeerFilaConserva, GuardarPDFConserva
   DEF PasoAdmin, DescargarPDF, RegenerarPDF, EnviarEmailComprobante

(* The cron lists, stops or ends: no call and no write. *)
LEMMA CronMueve ==
  ASSUME IInv, NEW d \in {"libre", "lote"}, NEW fila, fila = SinFila \/ fila = mem[Cron],
         pc' = [pc EXCEPT ![Cron] = d], obj' = [obj EXCEPT ![Cron] = obj[Cron]], mem' = [mem EXCEPT ![Cron] = fila],
         UNCHANGED <<vendidas, cola, comp, dlq, cb, fiscal, conTenant, caes, llamadas,
                     reintentos, pisadas, pdfs, admins, caidas, fallas>>,
         LoteBien', CronBien'
  PROVE  IInv'
<1>1. PICK v \in Ventas : v = obj[Cron]
  BY Constantes DEF IInv, Tipos
<1>2. FilaBien(SinFila, v, fiscal, caes) /\ FilaBien(mem[Cron], v, fiscal, caes) /\ Cron \in Agentes
  <2>0. v \in fiscal => caes[v] \in Nat
    BY <1>1 DEF IInv, Tipos
  <2>1. FilaBien(SinFila, v, fiscal, caes)
    BY <2>0, SinFilaBien
  <2>2. FilaBien(mem[Cron], v, fiscal, caes)
    BY <1>1, Constantes DEF IInv, AgentesBien
  <2> QED
    BY <2>1, <2>2, Constantes
<1>3. FilaBien(fila, v, fiscal', caes')
  <2>1. FilaBien(fila, v, fiscal, caes)
    BY <1>2
  <2> QED
    BY <2>1
<1>4. /\ pc' \in [Agentes -> Pasos] /\ obj' \in [Agentes -> Ventas] /\ mem' \in [Agentes -> Filas]
      /\ pc'[Cron] = d /\ obj'[Cron] = v /\ mem'[Cron] = fila
      /\ \A b \in Agentes \ {Cron} : Quieto(b)
  BY <1>1, <1>2, <1>3, IrMueve DEF IInv, Pasos, FilaBien
<1>5. Tipos' /\ Crece
  <2>1. Tipos
    BY DEF IInv
  <2>2. Tipos'
    BY <1>4, <2>1 DEF Tipos, Pasos
  <2>3. Crece
    BY <2>1 DEF Tipos, Crece
  <2> QED
    BY <2>2, <2>3
<1>7. AgentesBien'
  BY <1>2, <1>3, <1>4, <1>5, Constantes, AgentesSiguen
<1>8. FilasBien' /\ JobUnico'
  BY <1>2, <1>4, <1>5, Constantes, PasoComun
<1> QED
  BY <1>5, <1>7, <1>8 DEF IInv

LEMMA ListarConserva ==
  ASSUME IInv, ListarPendientes
  PROVE  IInv'
<1>1. PICK L \in SUBSET Vencidas : lote' = [v \in L |-> comp[v]]
  BY DEF ListarPendientes
<1>2. /\ UNCHANGED <<vendidas, cola, comp, dlq, cb, fiscal, conTenant>>
      /\ caes' = caes /\ llamadas' = llamadas /\ UNCHANGED <<reintentos, pisadas, pdfs>> /\ admins' = admins
      /\ caidas' = caidas /\ fallas' = fallas
      /\ pc' = [pc EXCEPT ![Cron] = "lote"] /\ obj' = obj /\ mem' = mem
  BY DEF ListarPendientes, externas, cuentas
<1>3. obj' = [obj EXCEPT ![Cron] = obj[Cron]] /\ mem' = [mem EXCEPT ![Cron] = mem[Cron]]
  BY <1>2 DEF IInv, Tipos
<1>4. ASSUME NEW v \in L
      PROVE  v \in vendidas /\ FilaBien(comp[v], v, fiscal, caes) /\ comp[v].estado = "pendiente"
  BY DEF Vencidas, IInv, FilasBien, SinFila, Fila
<1>5. LoteBien'
  BY <1>1, <1>2, <1>4 DEF LoteBien
<1>6. PICK d \in {"libre", "lote"} : d = "lote"
  OBVIOUS
<1>7. PICK fila : fila = mem[Cron]
  OBVIOUS
<1>8. CronBien'
  BY <1>2, Constantes DEF IInv, Tipos, CronBien
<1> QED
  BY <1>2, <1>3, <1>5, <1>6, <1>7, <1>8, CronMueve

LEMMA DetenerConserva ==
  ASSUME IInv, DetenerLote
  PROVE  IInv'
<1>1. /\ UNCHANGED <<vendidas, cola, comp, dlq, cb, fiscal, conTenant>>
      /\ caes' = caes /\ llamadas' = llamadas /\ UNCHANGED <<reintentos, pisadas, pdfs>> /\ admins' = admins
      /\ caidas' = caidas /\ fallas' = fallas /\ DOMAIN lote' = {}
      /\ pc' = [pc EXCEPT ![Cron] = "libre"] /\ obj' = [obj EXCEPT ![Cron] = obj[Cron]]
      /\ mem' = [mem EXCEPT ![Cron] = SinFila]
  BY DEF DetenerLote, externas, cuentas, Fin, Ir
<1>2. LoteBien'
  BY <1>1 DEF LoteBien
<1>3. PICK d \in {"libre", "lote"} : d = "libre"
  OBVIOUS
<1>4. CronBien'
  BY <1>1, Constantes DEF IInv, Tipos, CronBien
<1> QED
  BY <1>1, <1>2, <1>3, <1>4, CronMueve

LEMMA ReintentarConserva ==
  ASSUME IInv, ReintentarFila
  PROVE  IInv'
<1>1. PICK v \in DOMAIN lote, r \in Resultados :
        LET f == ResultadoCron(lote[v], v, r)
        IN /\ Facturar(v, r) /\ Ir(Cron, "guardar", v, f)
           /\ dlq' = IF f.estado = "error" /\ r # "validacion" THEN dlq \cup {v} ELSE dlq
           /\ lote' = Restrict(lote, DOMAIN lote \ {v})
  BY DEF ReintentarFila
<1>2. PICK fila : fila = ResultadoCron(lote[v], v, r)
  OBVIOUS
<1>3. /\ Tipos /\ v \in vendidas /\ v \in Ventas /\ FilaBien(lote[v], v, fiscal, caes) /\ lote[v].estado = "pendiente"
  BY DEF IInv, LoteBien, Tipos
<1>4. /\ FilaBien(fila, v, fiscal, caes') /\ ConTurno(fila) /\ fila.estado # "ninguno" /\ fila.retry <= MaxRetries
  BY <1>1, <1>2, <1>3, ResultadoCronBien
<1>5. /\ caes' \in [Ventas -> 0 .. MaxCAEs] /\ \A x \in Ventas : caes[x] <= caes'[x]
      /\ llamadas' \in [Ventas -> 0 .. MaxLlamadas]
      /\ \A x \in Ventas : llamadas'[x] = llamadas[x] \/ x = v
      /\ fiscal' = fiscal /\ conTenant' = conTenant /\ cb' = cb
  BY <1>1, <1>3, FacturarCrece
<1>6. /\ pc' = [pc EXCEPT ![Cron] = "guardar"] /\ obj' = [obj EXCEPT ![Cron] = v] /\ mem' = [mem EXCEPT ![Cron] = fila]
      /\ dlq' \in {dlq, dlq \cup {v}}
      /\ DOMAIN lote' = DOMAIN lote \ {v} /\ \A x \in DOMAIN lote' : lote'[x] = lote[x]
      /\ UNCHANGED <<vendidas, cola, comp>>
      /\ UNCHANGED <<reintentos, pisadas, pdfs>> /\ admins' = admins /\ caidas' = caidas /\ fallas' = fallas
  BY <1>1, <1>2 DEF ReintentarFila, Ir, Restrict, cuentas
<1>7. /\ pc' \in [Agentes -> Pasos] /\ obj' \in [Agentes -> Ventas] /\ mem' \in [Agentes -> Filas]
      /\ pc'[Cron] = "guardar" /\ obj'[Cron] = v /\ mem'[Cron] = fila
  BY <1>3, <1>4, <1>6, Constantes DEF Tipos, Pasos, FilaBien
<1>8. Tipos' /\ Crece
  BY <1>3, <1>5, <1>6, <1>7 DEF Tipos, Pasos, Crece
<1>9. CronBien' /\ LoteBien'
  BY <1>3, <1>4, <1>6, <1>7, <1>8, LoteSigue DEF CronBien
<1>10. PICK d \in Pasos : d = "guardar"
  BY DEF Pasos
<1>11. /\ dlq' \subseteq vendidas /\ reintentos' \in [Ventas -> Nat] /\ pisadas' \in [Ventas -> Nat] /\ pdfs' \in Nat
       /\ admins' \in Nat /\ caidas' \in Nat /\ fallas' \in Nat
  BY <1>3, <1>6 DEF Tipos
<1>12. Cron \in Agentes \ Workers /\ Cron \notin Admins
  BY Constantes
<1> QED
  BY <1>3, <1>4, <1>5, <1>6, <1>9, <1>10, <1>11, <1>12, OtroMueve

LEMMA GuardarFilaConserva ==
  ASSUME IInv, GuardarFila
  PROVE  IInv'
<1>1. PICK g : g = mem[Cron]
  OBVIOUS
<1>2. PICK v : v = obj[Cron]
  OBVIOUS
<1>3. PICK d \in {"libre", "lote"} : d = IF DOMAIN lote = {} THEN "libre" ELSE "lote"
  OBVIOUS
<1>4. /\ Tipos /\ CronBien /\ FilaBien(g, v, fiscal, caes) /\ v \in Ventas /\ pc[Cron] = "guardar"
      /\ Cron \in Agentes /\ Cron \in Agentes \ Workers /\ Cron \notin Admins
      /\ UNCHANGED <<vendidas, cola, cb, fiscal, conTenant>> /\ dlq' = dlq /\ lote' = lote
      /\ caes' = caes /\ llamadas' = llamadas
      /\ comp' = comp \/ comp' = [comp EXCEPT ![v] = g]
      /\ pc' = [pc EXCEPT ![Cron] = d] /\ obj' = [obj EXCEPT ![Cron] = v] /\ mem' = [mem EXCEPT ![Cron] = SinFila]
      /\ UNCHANGED <<reintentos, pisadas, pdfs>> /\ admins' = admins /\ caidas' = caidas /\ fallas' \in {fallas, fallas + 1}
  BY <1>1, <1>2, <1>3, Constantes
     DEF GuardarFila, Escribe, Ir, externas, cuentas, IInv, AgentesBien, Tipos
<1>5. FilaBien(SinFila, v, fiscal, caes)
  BY <1>4, SinFilaBien DEF Tipos
<1>6. v \in vendidas /\ g.retry <= MaxRetries
  BY <1>1, <1>2, <1>4 DEF CronBien
<1>7. /\ admins' \in Nat /\ caes' \in [Ventas -> 0 .. MaxCAEs] /\ \A x \in Ventas : caes[x] <= caes'[x]
      /\ llamadas' \in [Ventas -> 0 .. MaxLlamadas] /\ reintentos' \in [Ventas -> Nat]
      /\ pisadas' \in [Ventas -> Nat] /\ pdfs' \in Nat
      /\ caidas' \in Nat /\ fallas' \in Nat /\ dlq' \subseteq vendidas
  BY <1>4 DEF Tipos
<1>8. pc'[Cron] = d /\ (d = "libre" => DOMAIN lote' = {}) /\ d \in Pasos
  BY <1>3, <1>4 DEF Tipos, Pasos
<1>9. CronBien'
  BY <1>8 DEF CronBien
<1>10. LoteBien'
  BY <1>4 DEF IInv, LoteBien
<1> QED
  BY <1>4, <1>5, <1>6, <1>7, <1>8, <1>9, <1>10, OtroMueve

(* A restart forgets every copy. *)
LEMMA CaidaConserva ==
  ASSUME IInv, Caida
  PROVE  IInv'
<1>1. /\ UNCHANGED <<vendidas, cola, comp, dlq, cb, fiscal, conTenant, caes, llamadas>>
      /\ UNCHANGED <<reintentos, pisadas, pdfs, admins, fallas, obj>> /\ caidas' = caidas + 1
      /\ pc' = [a \in Agentes |-> "libre"] /\ mem' = [a \in Agentes |-> SinFila] /\ DOMAIN lote' = {}
  BY DEF Caida, externas
<1>2. ASSUME NEW a \in Agentes PROVE FilaBien(SinFila, obj[a], fiscal, caes) /\ SinFila \in Filas
  BY SinFilaBien DEF IInv, Tipos, FilaBien
<1>3. Tipos'
  BY <1>1, <1>2 DEF IInv, Tipos
<1>4. \A a \in Agentes : pc'[a] = "libre" /\ mem'[a] = SinFila
  BY <1>1
<1>5. AgentesBien' /\ LoteBien' /\ JobUnico'
  BY <1>1, <1>2, <1>4, Constantes DEF AgentesBien, WorkerBien, AdminBien, CronBien, LoteBien, JobUnico
<1>6. ASSUME NEW x \in Ventas, PorLlamar(x)' PROVE PorLlamar(x)
  BY <1>1, <1>4, <1>6, Constantes DEF PorLlamar, Ocupa
<1>7. FilasBien'
  BY <1>1, <1>4, <1>6, Constantes DEF IInv, FilasBien, CopiaPDF
<1> QED
  BY <1>3, <1>5, <1>7 DEF IInv

LEMMA QuietoConserva ==
  ASSUME IInv, UNCHANGED vars
  PROVE  IInv'
<1>1. /\ UNCHANGED <<fiscal, conTenant, vendidas, cola, dlq, cb, caes, llamadas, reintentos, pisadas, pdfs, caidas, fallas>>
      /\ UNCHANGED <<pc, obj, mem, lote>> /\ admins' = admins /\ comp' = comp
  BY DEF vars, externas, cuentas, agentes
<1>2. comp' \in [Ventas -> Filas] /\ admins' \in Nat
  BY <1>1 DEF IInv, Tipos
<1> QED
  BY <1>1, <1>2, FilasCambian

LEMMA InicioBien ==
  ASSUME Init
  PROVE  IInv
<1>1. \E v : v \in Ventas
  BY FacturacionAssumption
<1>2. (CHOOSE v \in Ventas : TRUE) \in Ventas
  BY <1>1
<1>3. ASSUME NEW v \in Ventas PROVE FilaBien(SinFila, v, fiscal, caes) /\ SinFila \in Filas /\ SinFila.retry = 0
  BY SinFilaBien DEF Init, FilaBien
<1>4. Tipos
  BY <1>2, <1>3, FacturacionAssumption DEF Init, Tipos
<1>5. FilasBien
  BY <1>3, Constantes DEF Init, FilasBien, CopiaPDF
<1>6. \A a \in Agentes : FilaBien(mem[a], obj[a], fiscal, caes) /\ pc[a] = "libre"
  BY <1>2, <1>3 DEF Init
<1>7. AgentesBien /\ LoteBien /\ JobUnico
  BY <1>6, Constantes DEF Init, AgentesBien, WorkerBien, AdminBien, CronBien, LoteBien, JobUnico
<1> QED
  BY <1>4, <1>5, <1>7 DEF IInv

LEMMA PasoConserva ==
  ASSUME IInv, [Next]_vars
  PROVE  IInv'
<1>1. ASSUME NEW w \in Workers, PasoWorker(w) PROVE IInv'
  BY <1>1, TomarConserva, BuscarConserva, CrearConserva, EmitirTicketConserva, LlamarAFIPConserva,
     GuardarConserva, GenerarPDFConserva DEF PasoWorker
<1>2. ASSUME PasoCron \/ DetenerLote PROVE IInv'
  BY <1>2, ListarConserva, ReintentarConserva, GuardarFilaConserva, DetenerConserva DEF PasoCron
<1> QED
  BY <1>1, <1>2, RegistrarVentaConserva, VenceConserva, AdminConserva, CancelarConserva,
     CambiaCBConserva, CaidaConserva, QuietoConserva DEF Next

(* The inductive invariant holds of facturacion_worker.go, retry_cron.go    *)
(* and facturacion_service.go running together, whatever their number.      *)
THEOREM Invariance == Spec => []IInv
<1>1. Init => IInv
  BY InicioBien
<1>2. IInv /\ [Next]_vars => IInv'
  BY PasoConserva
<1> QED
  BY <1>1, <1>2, PTL DEF Spec

(* Workers, cron and administrators save whole rows from stale copies       *)
(* (comprobanteRepo.Update at facturacion_worker.go:347, retry_cron.go:219  *)
(* and facturacion_service.go:116), and still a factura is emitido exactly  *)
(* when it carries a CAE that AFIP issued for it, and every row stays       *)
(* inside the CHECKs of its table.                                          *)
THEOREM EstadoYCAEJuntos == Spec => []FilasFieles
<1>1. IInv => FilasFieles
  <2> SUFFICES ASSUME IInv PROVE FilasFieles
    OBVIOUS
  <2>1. TypeOK
    BY DEF IInv, Tipos, TypeOK, LoteBien, FilaBien
  <2>2. EmitidoConCAE
    BY DEF IInv, Tipos, FilasBien, FilaBien, EmitidoConCAE
  <2> QED
    BY <2>1, <2>2 DEF FilasFieles
<1> QED
  BY <1>1, Invariance, PTL

-----------------------------------------------------------------------------
(* A pending row keeps its turn *)

Decide == {"emitir", "guardar"}

(* What a step does to the turn of v: the row it leaves has one, or a       *)
(* worker decides it now, or something was lost, or nothing has changed.    *)
GuardaTurno(v) ==
  \/ ConTurno(comp'[v])
  \/ \E w \in Workers : obj'[w] = v /\ pc'[w] \in Decide
  \/ caidas' + fallas' + pisadas'[v] > 0
  \/ /\ comp'[v] = comp[v]
     /\ caidas' = caidas /\ fallas' = fallas /\ pisadas'[v] = pisadas[v]
     /\ \A w \in Workers : obj[w] = v /\ pc[w] \in Decide => obj'[w] = v /\ pc'[w] \in Decide

LEMMA TurnoSigue ==
  ASSUME PendienteTieneTurno, \A v \in Ventas : GuardaTurno(v)
  PROVE  PendienteTieneTurno'
BY DEF PendienteTieneTurno, GuardaTurno, ConTurno, Decide

(* Workers: only Guardar leaves the steps that decide. *)
LEMMA WorkerGuardaTurno ==
  ASSUME IInv, NEW w \in Workers, PasoWorker(w), NEW v \in Ventas
  PROVE  GuardaTurno(v)
<1>1. Tipos /\ w \in Agentes /\ WorkerBien(w) /\ Workers \subseteq Agentes
  BY Constantes DEF IInv, AgentesBien
<1>2. CASE Tomar(w)
  BY <1>1, <1>2 DEF Tomar, Ir, cuentas, Tipos, GuardaTurno, Decide
<1>3. CASE Buscar(w)
  BY <1>1, <1>3 DEF Buscar, Ir, Fin, cuentas, Tipos, GuardaTurno, Decide
<1>4. CASE Crear(w)
  <2>1. CASE fallas' = fallas /\ Escribe(obj[w], Fila("pendiente", "null")) /\ Ir(w, "emitir", obj[w], comp'[obj[w]])
    BY <1>1, <1>4, <2>1 DEF Crear, Escribe, Ir, Tipos, GuardaTurno, Decide
  <2>2. CASE fallas' # fallas /\ Escribe(obj[w], Fila("pendiente", "null"))
    BY <1>1, <2>2 DEF Escribe, Tipos, GuardaTurno
  <2>3. CASE Fin(w) /\ UNCHANGED <<comp, cuentas>>
    BY <1>1, <1>4, <2>3 DEF Crear, Ir, Fin, cuentas, Tipos, GuardaTurno, Decide
  <2> QED
    BY <1>4, <2>1, <2>2, <2>3 DEF Crear
<1>5. CASE EmitirTicket(w)
  BY <1>1, <1>5 DEF EmitirTicket, Ir, cuentas, Tipos, GuardaTurno, Decide
<1>6. CASE LlamarAFIP(w)
  BY <1>1, <1>6 DEF LlamarAFIP, Ir, cuentas, Tipos, GuardaTurno, Decide
<1>7. CASE Guardar(w)
  <2>1. CASE fallas' # fallas
    BY <1>1, <1>7, <2>1 DEF Guardar, Escribe, Tipos, GuardaTurno
  <2>2. CASE comp' = [comp EXCEPT ![obj[w]] = mem[w]] /\ fallas' = fallas
    <3>1. CASE v = obj[w]
      BY <1>1, <1>7, <2>2, <3>1 DEF Guardar, Tipos, GuardaTurno, WorkerBien
    <3>2. CASE v # obj[w]
      BY <1>1, <1>7, <2>2, <3>2 DEF Guardar, Escribe, Ir, Tipos, GuardaTurno, Decide
    <3> QED
      BY <3>1, <3>2
  <2> QED
    BY <1>1, <1>7, <2>1, <2>2 DEF Guardar, Escribe, Tipos
<1>8. CASE GenerarPDF(w)
  <2>1. CASE v = obj[w] /\ comp' = [comp EXCEPT ![obj[w]] = mem[w]]
    BY <1>1, <1>8, <2>1 DEF GenerarPDF, Tipos, GuardaTurno, WorkerBien
  <2>2. CASE ~(v = obj[w] /\ comp' = [comp EXCEPT ![obj[w]] = mem[w]])
    <3>1. comp'[v] = comp[v]
      BY <1>1, <1>8, <2>2 DEF GenerarPDF, Tipos
    <3> QED
      BY <1>1, <1>8, <3>1 DEF GenerarPDF, Fin, Ir, cuentas, Tipos, GuardaTurno, Decide
  <2> QED
    BY <2>1, <2>2
<1> QED
  BY <1>2, <1>3, <1>4, <1>5, <1>6, <1>7, <1>8 DEF PasoWorker

(* A request moves no other agent, no queue and no count of AFIP. *)
LEMMA AdminMueve ==
  ASSUME IInv, NEW a \in Admins, PasoAdmin(a)
  PROVE  /\ \A b \in Agentes \ {a} : Quieto(b)
         /\ UNCHANGED <<vendidas, cola, externas, caidas, fallas, lote>>
<1>1. Tipos /\ a \in Agentes
  BY Constantes DEF IInv
<1> QED
  BY <1>1 DEF PasoAdmin, BuscarReintento, GuardarReintento, DescargarPDF, RegenerarPDF, EnviarEmailComprobante,
     LeerFila, GuardarPDF, Ir, Fin, Tipos, Quieto

(* Steps of the others do not move a worker. *)
LEMMA QuietoGuardaTurno ==
  ASSUME NEW v, \A w \in Workers : pc'[w] = pc[w] /\ obj'[w] = obj[w],
         comp'[v] = comp[v], caidas' = caidas, fallas' = fallas, pisadas'[v] = pisadas[v]
  PROVE  GuardaTurno(v)
BY DEF GuardaTurno

LEMMA CronGuardaTurno ==
  ASSUME IInv, PasoCron \/ DetenerLote, NEW v \in Ventas
  PROVE  GuardaTurno(v)
<1>1. Tipos /\ CronBien /\ Cron \notin Workers /\ Workers \subseteq Agentes /\ Cron \in Agentes
  BY Constantes DEF IInv, AgentesBien
<1>2. \A w \in Workers : pc'[w] = pc[w] /\ obj'[w] = obj[w]
  BY <1>1 DEF PasoCron, ListarPendientes, ReintentarFila, GuardarFila, DetenerLote, Ir, Fin, Tipos
<1>3. CASE ListarPendientes \/ ReintentarFila \/ DetenerLote
  BY <1>2, <1>3, QuietoGuardaTurno DEF ListarPendientes, ReintentarFila, DetenerLote, cuentas
<1>4. CASE GuardarFila
  <2>1. CASE comp' = comp /\ fallas' = fallas
    BY <1>2, <1>4, <2>1, QuietoGuardaTurno DEF GuardarFila, Escribe, cuentas
  <2>2. CASE fallas' # fallas
    BY <1>1, <1>4, <2>2 DEF GuardarFila, Escribe, cuentas, Tipos, GuardaTurno
  <2>3. CASE comp' = [comp EXCEPT ![obj[Cron]] = mem[Cron]] /\ fallas' = fallas
    <3>1. CASE v = obj[Cron]
      BY <1>1, <1>4, <2>3, <3>1 DEF GuardarFila, Tipos, GuardaTurno, CronBien
    <3>2. CASE v # obj[Cron]
      BY <1>1, <1>2, <1>4, <2>3, <3>2, QuietoGuardaTurno DEF GuardarFila, Escribe, cuentas, Tipos
    <3> QED
      BY <3>1, <3>2
  <2> QED
    BY <1>4, <2>1, <2>2, <2>3 DEF GuardarFila, Escribe, cuentas
<1> QED
  BY <1>3, <1>4 DEF PasoCron

LEMMA AdminGuardaTurno ==
  ASSUME IInv, NEW a \in Admins, PasoAdmin(a), NEW v \in Ventas
  PROVE  GuardaTurno(v)
<1>1. Tipos /\ AdminBien(a) /\ a \notin Workers /\ Workers \subseteq Agentes /\ a \in Agentes
  BY Constantes DEF IInv, AgentesBien
<1>2. \A w \in Workers : pc'[w] = pc[w] /\ obj'[w] = obj[w]
  BY <1>1, AdminMueve DEF Quieto
<1>3. CASE \E x \in Ventas : BuscarReintento(a, x) \/ LeerFila(a, x)
  BY <1>2, <1>3, QuietoGuardaTurno DEF BuscarReintento, LeerFila
<1>4. CASE GuardarReintento(a)
  <2>1. CASE v = obj[a]
    BY <1>1, <1>4, <2>1 DEF GuardarReintento, Tipos, GuardaTurno, AdminBien, ConTurno
  <2>2. CASE v # obj[a]
    BY <1>1, <1>2, <1>4, <2>2, QuietoGuardaTurno DEF GuardarReintento, Tipos
  <2> QED
    BY <2>1, <2>2
<1>5. CASE GuardarPDF(a)
  <2>1. caidas' = caidas /\ fallas' = fallas
    BY <1>5 DEF GuardarPDF
  <2>2. CASE v = obj[a] /\ comp' # comp
    <3>1. pisadas'[v] = pisadas[v] + 1 /\ pisadas[v] \in Nat /\ caidas \in Nat /\ fallas \in Nat
      BY <1>1, <1>5, <2>2 DEF GuardarPDF, Tipos
    <3> QED
      BY <2>1, <3>1 DEF GuardaTurno
  <2>3. CASE ~(v = obj[a] /\ comp' # comp)
    <3>1. comp'[v] = comp[v] /\ pisadas'[v] = pisadas[v]
      BY <1>1, <1>5, <2>3 DEF GuardarPDF, Tipos
    <3> QED
      BY <1>2, <2>1, <3>1, QuietoGuardaTurno
  <2> QED
    BY <2>2, <2>3
<1> QED
  BY <1>3, <1>4, <1>5 DEF PasoAdmin, DescargarPDF, RegenerarPDF, EnviarEmailComprobante

LEMMA EntornoGuardaTurno ==
  ASSUME IInv, NEW v \in Ventas,
         \/ \E x \in Ventas : RegistrarVenta(x) \/ Vence(x)
         \/ CancelarPendientes \/ CambiaCB \/ Caida \/ UNCHANGED vars
  PROVE  GuardaTurno(v)
<1>1. comp \in [Ventas -> Filas] /\ pisadas \in [Ventas -> Nat] /\ caidas \in Nat /\ fallas \in Nat
  BY DEF IInv, Tipos
<1>2. CASE \E x \in Ventas : RegistrarVenta(x) \/ Vence(x)
  <2>1. PICK x \in Ventas : RegistrarVenta(x) \/ Vence(x)
    BY <1>2
  <2>2. /\ UNCHANGED <<pc, obj, pisadas>> /\ caidas' = caidas /\ fallas' = fallas
        /\ comp'[v] = comp[v] \/ comp'[v].next \in {"espera", "vencido"}
    BY <1>1, <2>1 DEF RegistrarVenta, Vence, cuentas, agentes, Fila, Filas
  <2> QED
    BY <2>2 DEF GuardaTurno, ConTurno
<1>3. CASE CancelarPendientes
  <2>1. /\ UNCHANGED <<pc, obj, pisadas>> /\ caidas' = caidas /\ fallas' = fallas
        /\ comp'[v] = comp[v] \/ comp'[v].estado = "error"
    BY <1>1, <1>3 DEF CancelarPendientes, agentes, Filas
  <2> QED
    BY <2>1 DEF GuardaTurno, ConTurno
<1>4. CASE CambiaCB \/ UNCHANGED vars
  BY <1>4, QuietoGuardaTurno DEF CambiaCB, vars, cuentas, agentes
<1>5. CASE Caida
  BY <1>1, <1>5 DEF Caida, GuardaTurno
<1> QED
  BY <1>2, <1>3, <1>4, <1>5

(* A row that is pending with next_retry_at NULL is listed by nobody        *)
(* (ListPendingRetries of retry_cron.go asks for next_retry_at <= now), so  *)
(* a worker must be about to decide it.  Workers, cron and administrators   *)
(* overwrite each other's rows, but none of their copies takes the turn     *)
(* away: only a restart, a refused write, or the save of a PDF's path that  *)
(* puts an older copy of the row back (handler/inventario.go:231, 406 and   *)
(* 524) can.                                                                *)
THEOREM PendienteConservaTurno == Spec => []PendienteTieneTurno
<1>1. Init => PendienteTieneTurno
  BY DEF Init, PendienteTieneTurno, SinFila, Fila
<1>2. IInv /\ PendienteTieneTurno /\ [Next]_vars => PendienteTieneTurno'
  <2> SUFFICES ASSUME IInv, PendienteTieneTurno, [Next]_vars PROVE PendienteTieneTurno'
    OBVIOUS
  <2>1. ASSUME NEW v \in Ventas PROVE GuardaTurno(v)
    BY WorkerGuardaTurno, CronGuardaTurno, AdminGuardaTurno, EntornoGuardaTurno DEF Next
  <2> QED
    BY <2>1, TurnoSigue
<1> QED
  BY <1>1, <1>2, Invariance, PTL DEF Spec

-----------------------------------------------------------------------------
(* AFIP is called boundedly often *)

Mayor(m, n) == IF m >= n THEN m ELSE n

(* The calls that a copy still allows the cron: a row that nobody has       *)
(* created yet may be created, a decided one is not tried again.            *)
Potencia(fila) ==
  IF fila.estado \in {"ninguno", "pendiente"} THEN MaxRetries - fila.retry ELSE 0

(* ... and the table together with the copies of the cron.  While the cron  *)
(* holds a result, the row's own count is one behind.                       *)
Pot(v) ==
  IF pc[Cron] = "guardar" /\ obj[Cron] = v THEN Mayor(Potencia(comp[v]) - 1, Potencia(mem[Cron]))
  ELSE IF v \in DOMAIN lote THEN Mayor(Potencia(comp[v]), Potencia(lote[v]))
  ELSE Potencia(comp[v])

(* What the job of v may still add: its own call, and with each of the two  *)
(* saves of its copy the counts that the cron has saved meanwhile.          *)
Trabajo(v) ==
  IF PorLlamar(v) THEN 2 * MaxRetries
  ELSE IF \E w \in Workers : Ocupa(w, v, {"guardar"}) THEN 2 * MaxRetries - 1
  ELSE IF \E w \in Workers : Ocupa(w, v, {"pdf"}) THEN MaxRetries - 1
  ELSE 0

(* The times that somebody has put an old count back from outside. *)
Vueltas(v) == reintentos[v] + pisadas[v]

Tope(v) == MaxRetries * (3 + Vueltas(v)) + caidas + fallas

CopiasContadas ==
  \A w \in Workers : pc[w] \in {"guardar", "pdf"} => Potencia(mem[w]) <= MaxRetries - 1

Presupuesto == conTenant => \A v \in Ventas : llamadas[v] + Pot(v) + Trabajo(v) <= Tope(v)

LEMMA PotenciaAcotada ==
  ASSUME NEW fila, NEW v, NEW f, NEW c, FilaBien(fila, v, f, c)
  PROVE  Potencia(fila) \in 0 .. MaxRetries
<1>1. fila.retry \in Nat /\ (fila.estado = "pendiente" => fila.retry < MaxRetries)
  BY DEF FilaBien, Filas
<1>2. fila.estado = "ninguno" => fila.retry = 0
  BY DEF FilaBien, SinFila, Fila
<1> QED
  BY <1>1, <1>2, Constantes DEF Potencia

LEMMA PotAcotado ==
  ASSUME IInv, NEW v \in Ventas
  PROVE  /\ Pot(v) \in 0 .. MaxRetries
         /\ Potencia(comp[v]) \in 0 .. MaxRetries /\ Potencia(comp[v]) <= Pot(v) + 1
         /\ ~(pc[Cron] = "guardar" /\ obj[Cron] = v) => Potencia(comp[v]) <= Pot(v)
<1>1. Potencia(comp[v]) \in 0 .. MaxRetries
  BY PotenciaAcotada DEF IInv, FilasBien
<1>2. Potencia(mem[Cron]) \in 0 .. MaxRetries
  BY PotenciaAcotada, Constantes DEF IInv, AgentesBien
<1>3. v \in DOMAIN lote => Potencia(lote[v]) \in 0 .. MaxRetries
  BY PotenciaAcotada DEF IInv, LoteBien
<1> QED
  BY <1>1, <1>2, <1>3, Constantes DEF Pot, Mayor

(* While the cron stays where it is, only the row itself matters. *)
LEMMA PotEscrito ==
  ASSUME IInv, IInv', Quieto(Cron), lote' = lote, NEW v \in Ventas
  PROVE  /\ Pot(v)' <= Mayor(Pot(v), Potencia(comp'[v]))
         /\ Potencia(comp'[v]) <= Potencia(comp[v]) => Pot(v)' <= Pot(v)
<1>1. Potencia(comp[v]) \in 0 .. MaxRetries /\ Potencia(comp'[v]) \in 0 .. MaxRetries
  BY PotenciaAcotada DEF IInv, FilasBien
<1>2. Potencia(mem[Cron]) \in 0 .. MaxRetries
  BY PotenciaAcotada, Constantes DEF IInv, AgentesBien
<1>3. v \in DOMAIN lote => Potencia(lote[v]) \in 0 .. MaxRetries
  BY PotenciaAcotada DEF IInv, LoteBien
<1>4. Pot(v)' = IF pc[Cron] = "guardar" /\ obj[Cron] = v THEN Mayor(Potencia(comp'[v]) - 1, Potencia(mem[Cron]))
                ELSE IF v \in DOMAIN lote THEN Mayor(Potencia(comp'[v]), Potencia(lote[v]))
                ELSE Potencia(comp'[v])
  BY DEF Pot, Quieto, Potencia
<1> QED
  BY <1>1, <1>2, <1>3, <1>4, Constantes DEF Pot, Mayor

LEMMA TrabajoBaja ==
  ASSUME NEW v, PorLlamar(v)' => PorLlamar(v),
         \A w \in Workers : Ocupa(w, v, {"guardar"})' => PorLlamar(v) \/ Ocupa(w, v, {"guardar"}),
         \A w \in Workers : Ocupa(w, v, {"pdf"})' => PorLlamar(v) \/ Ocupa(w, v, {"guardar", "pdf"})
  PROVE  Trabajo(v)' <= Trabajo(v)
<1>1. MaxRetries \in Nat \ {0}
  BY Constantes
<1> QED
  BY <1>1 DEF Trabajo, Ocupa

LEMMA TrabajoQuieto ==
  ASSUME NEW v, vendidas' = vendidas, cola' = cola, \A w \in Workers : pc'[w] = pc[w] /\ obj'[w] = obj[w]
  PROVE  Trabajo(v)' = Trabajo(v)
BY DEF Trabajo, PorLlamar, Ocupa

LEMMA TopeSube ==
  ASSUME NEW m \in Nat, NEW r \in Nat
  PROVE  m * (3 + (r + 1)) = m * (3 + r) + m
OBVIOUS

Gasto(v) == llamadas[v] + Pot(v) + Trabajo(v)

(* A step pays for what it adds. *)
Paga(v) ==
  /\ conTenant' = conTenant
  /\ \/ Vueltas(v)' = Vueltas(v) /\ Gasto(v)' + caidas + fallas <= Gasto(v) + caidas' + fallas'
     \/ /\ Vueltas(v)' = Vueltas(v) + 1 /\ Gasto(v)' <= Gasto(v) + MaxRetries
        /\ caidas' = caidas /\ fallas' = fallas

LEMMA TrabajoEntero ==
  ASSUME NEW v
  PROVE  Trabajo(v) \in 0 .. 2 * MaxRetries /\ Trabajo(v)' \in 0 .. 2 * MaxRetries
BY Constantes DEF Trabajo

LEMMA PresupuestoSigue ==
  ASSUME IInv, IInv', Presupuesto, \A v \in Ventas : conTenant => Paga(v), conTenant' = conTenant
  PROVE  Presupuesto'
<1> SUFFICES ASSUME conTenant, NEW v \in Ventas PROVE Gasto(v)' <= Tope(v)'
  BY DEF Presupuesto, Gasto
<1>1. Gasto(v) <= Tope(v) /\ Paga(v)
  BY DEF Presupuesto, Gasto
<1>2. /\ Vueltas(v) \in Nat /\ Vueltas(v)' \in Nat /\ caidas \in Nat /\ fallas \in Nat
      /\ caidas' \in Nat /\ fallas' \in Nat /\ llamadas[v] \in Nat /\ llamadas'[v] \in Nat
  BY DEF IInv, Tipos, Vueltas
<1>3. Gasto(v) \in Int
  BY <1>2, PotAcotado, TrabajoEntero DEF Gasto
<1>4. Gasto(v)' \in Int
  <2>1. Pot(v)' \in 0 .. MaxRetries
    <3>1. Potencia(comp[v])' \in 0 .. MaxRetries
      BY PotenciaAcotada DEF IInv, FilasBien
    <3>2. Potencia(mem[Cron])' \in 0 .. MaxRetries
      BY PotenciaAcotada, Constantes DEF IInv, AgentesBien
    <3>3. v \in DOMAIN lote' => Potencia(lote[v])' \in 0 .. MaxRetries
      BY PotenciaAcotada DEF IInv, LoteBien
    <3> QED
      BY <3>1, <3>2, <3>3, Constantes DEF Pot, Mayor
  <2> QED
    BY <1>2, <2>1, TrabajoEntero DEF Gasto
<1>5. PICK B : B = MaxRetries * (3 + Vueltas(v))
  OBVIOUS
<1>6. PICK C : C = MaxRetries * (3 + Vueltas(v)')
  OBVIOUS
<1>7. B \in Nat /\ C \in Nat /\ Tope(v) = B + caidas + fallas /\ Tope(v)' = C + caidas' + fallas'
  BY <1>2, <1>5, <1>6, Constantes DEF Tope
<1>8. Vueltas(v)' = Vueltas(v) => C = B
  BY <1>5, <1>6
<1>9. Vueltas(v)' = Vueltas(v) + 1 => C = B + MaxRetries
  <2>1. MaxRetries \in Nat
    BY Constantes
  <2>2. MaxRetries * (3 + (Vueltas(v) + 1)) = MaxRetries * (3 + Vueltas(v)) + MaxRetries
    BY <1>2, <2>1, TopeSube
  <2> QED
    BY <1>5, <1>6, <2>2
<1> QED
  BY <1>1, <1>2, <1>3, <1>4, <1>7, <1>8, <1>9, Constantes DEF Paga

Valor(p) ==
  IF p \in Antes THEN 2 * MaxRetries
  ELSE IF p = "guardar" THEN 2 * MaxRetries - 1
  ELSE IF p = "pdf" THEN MaxRetries - 1
  ELSE 0

(* The job of a sale is in one goroutine: its place says what it may add.   *)
LEMMA ValorDelJob ==
  ASSUME IInv, NEW w \in Workers, pc[w] # "libre", obj'[w] = obj[w],
         pc'[w] \in {"libre", "guardar", "pdf"} \cup Antes,
         \A u \in Workers \ {w} : Quieto(u), vendidas' = vendidas, cola' = cola
  PROVE  /\ Trabajo(obj[w]) = Valor(pc[w]) /\ Trabajo(obj[w])' = Valor(pc'[w])
         /\ \A x : x # obj[w] => Trabajo(x)' = Trabajo(x)
<1>1. /\ obj[w] \notin cola /\ obj[w] \in vendidas
      /\ \A u \in Workers \ {w} : obj[u] = obj[w] => pc[u] = "libre" /\ pc'[u] = "libre"
      /\ \A u \in Workers \ {w} : obj'[u] = obj[u] /\ pc'[u] = pc[u]
      /\ pc[w] \in {"libre", "guardar", "pdf"} \cup Antes
  BY DEF IInv, JobUnico, AgentesBien, WorkerBien, Quieto, Antes
<1>2. \A p \in SUBSET {"buscar", "crear", "emitir", "guardar", "pdf"} :
        /\ (\E u \in Workers : Ocupa(u, obj[w], p)) <=> pc[w] \in p
        /\ (\E u \in Workers : obj'[u] = obj[w] /\ pc'[u] \in p) <=> pc'[w] \in p
  BY <1>1 DEF Ocupa
<1>3. Trabajo(obj[w]) = Valor(pc[w])
  <2>1. PorLlamar(obj[w]) <=> pc[w] \in Antes
    BY <1>1, <1>2 DEF PorLlamar, Antes
  <2> QED
    BY <1>1, <1>2, <2>1 DEF Trabajo, Valor
<1>4. Trabajo(obj[w])' = Valor(pc'[w])
  <2>1. PorLlamar(obj[w])' <=> pc'[w] \in Antes
    BY <1>1, <1>2 DEF PorLlamar, Ocupa, Antes
  <2> QED
    BY <1>1, <1>2, <2>1 DEF Trabajo, Valor, Ocupa
<1>5. ASSUME NEW x, x # obj[w] PROVE Trabajo(x)' = Trabajo(x)
  <2>1. \A p : \A u \in Workers : Ocupa(u, x, p) <=> obj'[u] = x /\ pc'[u] \in p
    BY <1>1, <1>5 DEF Ocupa
  <2>2. PorLlamar(x)' <=> PorLlamar(x)
    BY <2>1 DEF PorLlamar, Ocupa
  <2> QED
    BY <2>1, <2>2 DEF Trabajo, Ocupa
<1> QED
  BY <1>3, <1>4, <1>5

(* A step of a worker on its job: it may call once, and write its copy. *)
LEMMA JobPaga ==
  ASSUME IInv, IInv', NEW w \in Workers, pc[w] # "libre", NEW d \in {"libre", "guardar", "pdf"} \cup Antes,
         pc'[w] = d, obj'[w] = obj[w], \A b \in Agentes \ {w} : Quieto(b),
         UNCHANGED <<vendidas, cola, lote, conTenant, reintentos, pisadas, pdfs, caidas>>,
         \A x \in Ventas \ {obj[w]} : comp'[x] = comp[x] /\ llamadas'[x] = llamadas[x],
         \/ /\ llamadas'[obj[w]] = llamadas[obj[w]] /\ Potencia(comp'[obj[w]]) <= Potencia(comp[obj[w]])
            /\ Valor(d) <= Valor(pc[w]) /\ fallas' >= fallas
         \/ /\ llamadas'[obj[w]] <= llamadas[obj[w]] + 1 /\ comp'[obj[w]] = comp[obj[w]]
            /\ Valor(d) + 1 <= Valor(pc[w]) /\ fallas' = fallas
         \/ /\ llamadas'[obj[w]] = llamadas[obj[w]] /\ fallas' = fallas
            /\ Valor(d) + Potencia(comp'[obj[w]]) <= Valor(pc[w]),
         NEW x \in Ventas
  PROVE  Paga(x)
<1>1. /\ \A u \in Workers \ {w} : Quieto(u)
      /\ Quieto(Cron)
  BY Constantes
<1>2. /\ Trabajo(obj[w]) = Valor(pc[w]) /\ Trabajo(obj[w])' = Valor(d)
      /\ \A y : y # obj[w] => Trabajo(y)' = Trabajo(y)
  BY <1>1, ValorDelJob
<1>3. /\ llamadas[x] \in Nat /\ llamadas'[x] \in Nat /\ caidas \in Nat /\ fallas \in Nat /\ fallas' \in Nat
  BY DEF IInv, Tipos
<1>4. Pot(x) \in 0 .. MaxRetries /\ Potencia(comp[x]) \in 0 .. MaxRetries
  BY PotAcotado
<1>5. Potencia(comp'[x]) \in 0 .. MaxRetries
  BY PotenciaAcotada DEF IInv, FilasBien
<1>6. /\ Pot(x)' <= Mayor(Pot(x), Potencia(comp'[x]))
      /\ Potencia(comp'[x]) <= Potencia(comp[x]) => Pot(x)' <= Pot(x)
  BY <1>1, PotEscrito
<1>7. Pot(x)' \in Int
  <2>1. Potencia(mem[Cron])' \in 0 .. MaxRetries
    BY PotenciaAcotada, Constantes DEF IInv, AgentesBien
  <2>2. x \in DOMAIN lote' => Potencia(lote[x])' \in 0 .. MaxRetries
    BY PotenciaAcotada DEF IInv, LoteBien
  <2> QED
    BY <1>5, <2>1, <2>2, Constantes DEF Pot, Mayor
<1>8. Trabajo(x) \in Int /\ Trabajo(x)' \in Int
  BY TrabajoEntero, Constantes
<1>0. Vueltas(x)' = Vueltas(x)
  BY DEF Vueltas
<1>9. CASE x # obj[w]
  <2>1. comp'[x] = comp[x] /\ llamadas'[x] = llamadas[x] /\ Trabajo(x)' = Trabajo(x)
    BY <1>2, <1>9
  <2>2. Pot(x)' <= Pot(x)
    BY <1>4, <1>6, <2>1
  <2>3. fallas' >= fallas
    BY <1>3
  <2> QED
    BY <1>3, <1>4, <1>7, <1>8, <1>0, <2>1, <2>2, <2>3 DEF Paga, Gasto
<1>10. CASE x = obj[w]
  <2>1. Trabajo(x) = Valor(pc[w]) /\ Trabajo(x)' = Valor(d)
    BY <1>2, <1>10
  <2>2. CASE /\ llamadas'[x] = llamadas[x] /\ Potencia(comp'[x]) <= Potencia(comp[x])
             /\ Valor(d) <= Valor(pc[w]) /\ fallas' >= fallas
    BY <1>3, <1>4, <1>6, <1>7, <1>8, <1>0, <2>1, <2>2 DEF Paga, Gasto
  <2>3. CASE /\ llamadas'[x] <= llamadas[x] + 1 /\ comp'[x] = comp[x]
             /\ Valor(d) + 1 <= Valor(pc[w]) /\ fallas' = fallas
    BY <1>3, <1>4, <1>6, <1>7, <1>8, <1>0, <2>1, <2>3 DEF Paga, Gasto
  <2>4. CASE /\ llamadas'[x] = llamadas[x] /\ fallas' = fallas
             /\ Valor(d) + Potencia(comp'[x]) <= Valor(pc[w])
    <3>1. Pot(x)' <= Pot(x) + Potencia(comp'[x])
      BY <1>4, <1>5, <1>6, <1>7 DEF Mayor
    <3> QED
      BY <1>3, <1>4, <1>5, <1>7, <1>8, <1>0, <2>1, <2>4, <3>1 DEF Paga, Gasto
  <2> QED
    BY <1>10, <2>2, <2>3, <2>4
<1> QED
  BY <1>9, <1>10

LEMMA ValorEntero ==
  /\ MaxRetries \in Nat /\ MaxRetries >= 1
  /\ \A p : Valor(p) \in 0 .. 2 * MaxRetries
  /\ Valor("libre") = 0 /\ Valor("pdf") = MaxRetries - 1 /\ Valor("guardar") = 2 * MaxRetries - 1
  /\ Valor("buscar") = 2 * MaxRetries /\ Valor("crear") = 2 * MaxRetries /\ Valor("emitir") = 2 * MaxRetries
BY Constantes DEF Valor, Antes

LEMMA WorkerPaga ==
  ASSUME IInv, IInv', CopiasContadas, NEW w \in Workers, PasoWorker(w), NEW x \in Ventas
  PROVE  Paga(x)
<1> DEFINE v == obj[w]
<1>1. /\ Tipos /\ Tipos' /\ w \in Agentes /\ v \in Ventas /\ w # Cron /\ Workers \subseteq Agentes /\ Cron \in Agentes
      /\ FilaBien(mem[w], v, fiscal, caes) /\ Potencia(comp[v]) \in 0 .. MaxRetries
      /\ Potencia(mem[w]) \in 0 .. MaxRetries
  BY Constantes, PotenciaAcotada DEF IInv, AgentesBien, FilasBien, Tipos
<1>2. CASE Tomar(w)
  <2>1. PICK y \in cola : cola' = cola \ {y} /\ Ir(w, "buscar", y, SinFila)
    BY <1>2 DEF Tomar
  <2>2. /\ UNCHANGED <<vendidas, comp, lote, conTenant, reintentos, pisadas, pdfs, caidas, fallas, llamadas>>
        /\ pc'[w] = "buscar" /\ obj'[w] = y /\ Quieto(Cron)
        /\ \A u \in Workers \ {w} : pc'[u] = pc[u] /\ obj'[u] = obj[u]
    BY <1>1, <1>2, <2>1 DEF Tomar, Ir, externas, cuentas, Tipos, Quieto
  <2>3. Pot(x)' <= Pot(x) /\ Pot(x) \in Int /\ Trabajo(x) \in Int /\ Trabajo(x)' \in Int
    BY <2>2, PotEscrito, PotAcotado, TrabajoEntero, Constantes
  <2>4. Pot(x)' \in Int
    BY <2>2, <2>3 DEF Pot, Quieto, Potencia
  <2>5. Trabajo(x)' <= Trabajo(x)
    <3>1. PorLlamar(x)' => PorLlamar(x)
      BY <2>1, <2>2 DEF PorLlamar, Ocupa
    <3>2. \A u \in Workers : /\ Ocupa(u, x, {"guardar"})' => Ocupa(u, x, {"guardar"})
                             /\ Ocupa(u, x, {"pdf"})' => Ocupa(u, x, {"guardar", "pdf"})
      BY <2>2 DEF Ocupa
    <3> QED
      BY <3>1, <3>2, TrabajoBaja
  <2>6. llamadas[x] \in Nat /\ caidas \in Nat /\ fallas \in Nat /\ Vueltas(x)' = Vueltas(x)
    BY <1>1, <2>2 DEF Tipos, Vueltas
  <2> QED
    BY <2>2, <2>3, <2>4, <2>5, <2>6 DEF Paga, Gasto
<1>3. CASE Buscar(w)
  <2>1. /\ pc[w] = "buscar" /\ pc'[w] \in {"libre", "crear", "emitir"} /\ obj'[w] = obj[w]
        /\ \A b \in Agentes \ {w} : Quieto(b)
        /\ UNCHANGED <<vendidas, cola, lote, conTenant, reintentos, pisadas, pdfs, caidas>>
        /\ comp' = comp /\ llamadas' = llamadas /\ fallas' = fallas
    BY <1>1, <1>3 DEF Buscar, Ir, Fin, externas, cuentas, Tipos, Quieto
  <2>2. Valor(pc'[w]) <= Valor(pc[w]) /\ fallas' >= fallas /\ Potencia(comp'[v]) <= Potencia(comp[v])
    BY <1>1, <2>1, ValorEntero DEF Tipos
  <2> QED
    BY <2>1, <2>2, JobPaga DEF Antes
<1>4. CASE Crear(w)
  <2>1. /\ pc[w] = "crear" /\ pc'[w] \in {"libre", "emitir"} /\ obj'[w] = obj[w]
        /\ \A b \in Agentes \ {w} : Quieto(b)
        /\ UNCHANGED <<vendidas, cola, lote, conTenant, reintentos, pisadas, pdfs, caidas>>
        /\ llamadas' = llamadas /\ fallas' >= fallas
        /\ \A y \in Ventas \ {v} : comp'[y] = comp[y]
        /\ comp'[v] = comp[v] \/ (comp'[v] = Fila("pendiente", "null") /\ comp[v].estado = "ninguno")
    BY <1>1, <1>4 DEF Crear, Escribe, Existe, Ir, Fin, externas, cuentas, Tipos, Quieto
  <2>2. comp[v].estado = "ninguno" => comp[v] = SinFila
    BY <1>1 DEF IInv, FilasBien, FilaBien
  <2>3. Potencia(comp'[v]) <= Potencia(comp[v])
    BY <1>1, <2>1, <2>2, Constantes DEF Potencia, SinFila, Fila
  <2>4. Valor(pc'[w]) <= Valor(pc[w])
    BY <2>1, ValorEntero
  <2> QED
    BY <2>1, <2>3, <2>4, JobPaga DEF Antes
<1>5. CASE EmitirTicket(w)
  <2>1. /\ pc[w] = "emitir" /\ pc'[w] = "guardar" /\ obj'[w] = obj[w]
        /\ \A b \in Agentes \ {w} : Quieto(b)
        /\ UNCHANGED <<vendidas, cola, lote, conTenant, reintentos, pisadas, pdfs, caidas>>
        /\ comp' = comp /\ llamadas' = llamadas /\ fallas' = fallas
    BY <1>1, <1>5 DEF EmitirTicket, Ir, externas, cuentas, Tipos, Quieto
  <2>2. Valor(pc'[w]) <= Valor(pc[w]) /\ fallas' >= fallas /\ Potencia(comp'[v]) <= Potencia(comp[v])
    BY <1>1, <2>1, ValorEntero DEF Tipos
  <2> QED
    BY <2>1, <2>2, JobPaga DEF Antes
<1>6. CASE LlamarAFIP(w)
  <2>1. PICK r \in Resultados : Facturar(v, r) /\ Ir(w, "guardar", v, ResultadoWorker(mem[w], v, r))
    BY <1>6 DEF LlamarAFIP
  <2>2. /\ llamadas'[v] <= llamadas[v] + 1 /\ \A y \in Ventas \ {v} : llamadas'[y] = llamadas[y]
        /\ conTenant' = conTenant
    BY <1>1, <2>1, FacturarCrece
  <2>3. /\ pc[w] = "emitir" /\ pc'[w] = "guardar" /\ obj'[w] = obj[w]
        /\ \A b \in Agentes \ {w} : Quieto(b)
        /\ UNCHANGED <<vendidas, cola, lote, reintentos, pisadas, pdfs, caidas>> /\ comp' = comp /\ fallas' = fallas
    BY <1>1, <1>6, <2>1 DEF LlamarAFIP, Ir, cuentas, Tipos, Quieto
  <2>4. Valor(pc'[w]) + 1 <= Valor(pc[w])
    BY <2>3, ValorEntero
  <2> QED
    BY <2>2, <2>3, <2>4, JobPaga DEF Antes
<1>7. CASE Guardar(w)
  <2>1. /\ pc[w] = "guardar" /\ pc'[w] = "pdf" /\ obj'[w] = obj[w]
        /\ \A b \in Agentes \ {w} : Quieto(b)
        /\ UNCHANGED <<vendidas, cola, lote, conTenant, reintentos, pisadas, pdfs, caidas>> /\ llamadas' = llamadas
        /\ \A y \in Ventas \ {v} : comp'[y] = comp[y]
        /\ (comp'[v] = mem[w] /\ fallas' = fallas) \/ (comp'[v] = comp[v] /\ fallas' >= fallas)
    BY <1>1, <1>7 DEF Guardar, Escribe, Ir, externas, Tipos, Quieto
  <2>2. Valor(pc'[w]) + MaxRetries <= Valor(pc[w]) /\ Valor(pc'[w]) \in Nat /\ Valor(pc[w]) \in Nat
    BY <2>1, ValorEntero
  <2>3. CASE comp'[v] = comp[v] /\ fallas' >= fallas
    <3>1. Potencia(comp'[v]) <= Potencia(comp[v]) /\ Valor(pc'[w]) <= Valor(pc[w])
      BY <1>1, <2>2, <2>3, ValorEntero
    <3> QED
      BY <2>1, <2>3, <3>1, JobPaga DEF Antes
  <2>4. CASE comp'[v] = mem[w] /\ fallas' = fallas
    <3>1. Valor(pc'[w]) + Potencia(comp'[v]) <= Valor(pc[w])
      BY <1>1, <2>2, <2>4, ValorEntero
    <3> QED
      BY <2>1, <2>4, <3>1, JobPaga DEF Antes
  <2> QED
    BY <2>1, <2>3, <2>4
<1>8. CASE GenerarPDF(w)
  <2>1. /\ pc[w] = "pdf" /\ pc'[w] = "libre" /\ obj'[w] = obj[w]
        /\ \A b \in Agentes \ {w} : Quieto(b)
        /\ UNCHANGED <<vendidas, cola, lote, conTenant, reintentos, pisadas, pdfs, caidas>> /\ llamadas' = llamadas
        /\ fallas' = fallas
        /\ \A y \in Ventas \ {v} : comp'[y] = comp[y]
        /\ comp'[v] = mem[w] \/ comp'[v] = comp[v]
    BY <1>1, <1>8 DEF GenerarPDF, Fin, Ir, externas, cuentas, Tipos, Quieto
  <2>2. Valor(pc'[w]) + (MaxRetries - 1) <= Valor(pc[w]) /\ Valor(pc'[w]) \in Nat /\ Valor(pc[w]) \in Nat
    BY <2>1, ValorEntero
  <2>3. CASE comp'[v] = comp[v]
    <3>1. Potencia(comp'[v]) <= Potencia(comp[v]) /\ Valor(pc'[w]) <= Valor(pc[w]) /\ fallas' >= fallas
      BY <1>1, <2>1, <2>2, <2>3, ValorEntero DEF Tipos
    <3> QED
      BY <2>1, <2>3, <3>1, JobPaga DEF Antes
  <2>4. CASE comp'[v] = mem[w]
    <3>1. Potencia(mem[w]) <= MaxRetries - 1
      BY <2>1 DEF CopiasContadas
    <3>2. Valor(pc'[w]) + Potencia(comp'[v]) <= Valor(pc[w])
      BY <1>1, <2>2, <2>4, <3>1, ValorEntero
    <3> QED
      BY <2>1, <2>4, <3>2, JobPaga DEF Antes
  <2> QED
    BY <2>1, <2>3, <2>4
<1> QED
  BY <1>2, <1>3, <1>4, <1>5, <1>6, <1>7, <1>8 DEF PasoWorker

LEMMA SumaUno ==
  ASSUME NEW g \in Int, NEW h \in Int, NEW c \in Nat, NEW f \in Nat, NEW d \in Nat, NEW e \in Nat,
         g <= h + 1, d + e = c + f + 1
  PROVE  g + c + f <= h + d + e
OBVIOUS

(* Where workers do not move, the balance is that of the rows. *)
LEMMA OtrosPagan ==
  ASSUME IInv, IInv', NEW x \in Ventas, Trabajo(x)' <= Trabajo(x),
         conTenant' = conTenant, Vueltas(x)' = Vueltas(x),
         \/ /\ llamadas'[x] = llamadas[x] /\ Pot(x)' <= Pot(x) /\ caidas' >= caidas /\ fallas' >= fallas
         \/ llamadas'[x] <= llamadas[x] + 1 /\ Pot(x)' + 1 <= Pot(x) /\ caidas' = caidas /\ fallas' = fallas
         \/ /\ llamadas'[x] = llamadas[x] /\ Pot(x)' <= Pot(x) + 1
            /\ caidas' + fallas' = caidas + fallas + 1,
         Pot(x)' \in Int
  PROVE  Paga(x)
<1>1. /\ llamadas[x] \in Nat /\ llamadas'[x] \in Nat /\ caidas \in Nat /\ fallas \in Nat
      /\ caidas' \in Nat /\ fallas' \in Nat
  BY DEF IInv, Tipos
<1>2. Pot(x) \in Int /\ Trabajo(x) \in Int /\ Trabajo(x)' \in Int
  BY PotAcotado, TrabajoEntero, Constantes
<1>3. CASE llamadas'[x] = llamadas[x] /\ Pot(x)' <= Pot(x) /\ caidas' >= caidas /\ fallas' >= fallas
  BY <1>1, <1>2, <1>3 DEF Paga, Gasto
<1>4. CASE llamadas'[x] <= llamadas[x] + 1 /\ Pot(x)' + 1 <= Pot(x) /\ caidas' = caidas /\ fallas' = fallas
  BY <1>1, <1>2, <1>4 DEF Paga, Gasto
<1>5. CASE llamadas'[x] = llamadas[x] /\ Pot(x)' <= Pot(x) + 1 /\ caidas' + fallas' = caidas + fallas + 1
  <2>1. Gasto(x)' <= Gasto(x) + 1
    BY <1>1, <1>2, <1>5 DEF Gasto
  <2>2. Gasto(x) \in Int /\ Gasto(x)' \in Int
    BY <1>1, <1>2 DEF Gasto
  <2>3. Gasto(x)' + caidas + fallas <= Gasto(x) + caidas' + fallas'
    BY <1>1, <1>5, <2>1, <2>2, SumaUno
  <2> QED
    BY <2>3 DEF Paga
<1> QED
  BY <1>3, <1>4, <1>5

LEMMA PotDespues ==
  ASSUME IInv', NEW x \in Ventas
  PROVE  Pot(x)' \in 0 .. MaxRetries /\ Potencia(comp'[x]) \in 0 .. MaxRetries
<1>1. Potencia(comp[x])' \in 0 .. MaxRetries
  BY PotenciaAcotada DEF IInv, FilasBien
<1>2. Potencia(mem[Cron])' \in 0 .. MaxRetries
  BY PotenciaAcotada, Constantes DEF IInv, AgentesBien
<1>3. x \in DOMAIN lote' => Potencia(lote[x])' \in 0 .. MaxRetries
  BY PotenciaAcotada DEF IInv, LoteBien
<1> QED
  BY <1>1, <1>2, <1>3, Constantes DEF Pot, Mayor, Potencia

LEMMA CronPaga ==
  ASSUME IInv, IInv', conTenant, PasoCron \/ DetenerLote, NEW x \in Ventas
  PROVE  Paga(x)
<1>1. /\ Tipos /\ CronBien /\ Cron \notin Workers /\ Workers \subseteq Agentes /\ Cron \in Agentes
      /\ MaxRetries \in Nat
  BY Constantes DEF IInv, AgentesBien
<1>2. /\ \A w \in Workers : pc'[w] = pc[w] /\ obj'[w] = obj[w]
      /\ vendidas' = vendidas /\ cola' = cola /\ conTenant' = conTenant /\ Vueltas(x)' = Vueltas(x)
      /\ caidas' = caidas
  BY <1>1 DEF PasoCron, ListarPendientes, ReintentarFila, GuardarFila, DetenerLote, Ir, Fin, Tipos,
              externas, cuentas, Escribe, Facturar, Vueltas
<1>3. Trabajo(x)' <= Trabajo(x)
  BY <1>1, <1>2, TrabajoQuieto, TrabajoEntero
<1>4. Pot(x) \in 0 .. MaxRetries /\ Potencia(comp[x]) \in 0 .. MaxRetries
  BY PotAcotado
<1>5. Pot(x)' \in 0 .. MaxRetries /\ Potencia(comp'[x]) \in 0 .. MaxRetries
  BY PotDespues
<1>6. Potencia(mem[Cron]) \in 0 .. MaxRetries /\ (x \in DOMAIN lote => Potencia(lote[x]) \in 0 .. MaxRetries)
  BY <1>1, PotenciaAcotada DEF IInv, AgentesBien, LoteBien
<1>7. caidas \in Nat /\ fallas \in Nat
  BY <1>1 DEF Tipos
<1>8. CASE ListarPendientes
  <2>1. /\ Pot(x) = Potencia(comp[x]) /\ comp' = comp /\ llamadas' = llamadas /\ fallas' = fallas
        /\ pc'[Cron] = "lote" /\ \A y \in DOMAIN lote' : lote'[y] = comp[y]
    BY <1>1, <1>8 DEF ListarPendientes, CronBien, Pot, externas, cuentas, Tipos
  <2>2. Pot(x)' = Potencia(comp[x])
    BY <1>4, <2>1 DEF Pot, Mayor, Potencia
  <2> QED
    BY <1>2, <1>3, <1>4, <1>7, <2>1, <2>2, OtrosPagan
<1>9. CASE DetenerLote
  <2>1. /\ comp' = comp /\ llamadas' = llamadas /\ fallas' = fallas /\ pc[Cron] = "lote"
        /\ pc'[Cron] = "libre" /\ DOMAIN lote' = {}
    BY <1>1, <1>9 DEF DetenerLote, Fin, Ir, externas, cuentas, Tipos
  <2>2. Pot(x)' = Potencia(comp[x]) /\ Potencia(comp[x]) <= Pot(x)
    BY <1>4, <1>6, <2>1 DEF Pot, Mayor, Potencia
  <2> QED
    BY <1>2, <1>3, <1>4, <1>5, <1>7, <2>1, <2>2, OtrosPagan
<1>10. CASE ReintentarFila
  <2>1. PICK v \in DOMAIN lote, r \in Resultados :
          /\ Facturar(v, r) /\ Ir(Cron, "guardar", v, ResultadoCron(lote[v], v, r))
          /\ lote' = Restrict(lote, DOMAIN lote \ {v})
    BY <1>10 DEF ReintentarFila
  <2>2. PICK fila : fila = ResultadoCron(lote[v], v, r)
    OBVIOUS
  <2>3. v \in Ventas /\ FilaBien(lote[v], v, fiscal, caes) /\ lote[v].estado = "pendiente"
    BY <1>1 DEF IInv, LoteBien, Tipos
  <2>4. FilaBien(fila, v, fiscal, caes') /\ fila.estado # "ninguno"
        /\ (fila.estado = "pendiente" => fila.retry = lote[v].retry + 1)
    BY <1>1, <2>1, <2>2, <2>3, ResultadoCronBien
  <2>5. lote[v].retry \in Nat /\ lote[v].retry < MaxRetries
    BY <2>3 DEF FilaBien, Filas
  <2>6. Potencia(fila) + 1 <= Potencia(lote[v]) /\ Potencia(lote[v]) \in 0 .. MaxRetries
        /\ Potencia(fila) \in 0 .. MaxRetries
    BY <1>1, <2>3, <2>4, <2>5, PotenciaAcotada DEF Potencia
  <2>7. llamadas'[v] <= llamadas[v] + 1 /\ \A y \in Ventas \ {v} : llamadas'[y] = llamadas[y]
    BY <1>1, <2>1, <2>3, FacturarCrece
  <2>8. /\ pc[Cron] = "lote" /\ pc'[Cron] = "guardar" /\ obj'[Cron] = v /\ mem'[Cron] = fila
        /\ comp' = comp /\ fallas' = fallas
        /\ \A y : y # v => (y \in DOMAIN lote' <=> y \in DOMAIN lote) /\ (y \in DOMAIN lote => lote'[y] = lote[y])
    BY <1>1, <1>10, <2>1, <2>2 DEF ReintentarFila, Ir, cuentas, Tipos, Restrict
  <2>9. CASE x = v
    <3>1. Pot(x) = Mayor(Potencia(comp[x]), Potencia(lote[x]))
      BY <2>8, <2>9 DEF Pot
    <3>2. Pot(x)' = Mayor(Potencia(comp[x]) - 1, Potencia(fila))
      BY <2>8, <2>9 DEF Pot, Potencia
    <3>3. Pot(x)' + 1 <= Pot(x)
      BY <1>4, <2>6, <2>9, <3>1, <3>2 DEF Mayor
    <3> QED
      BY <1>2, <1>3, <1>5, <2>7, <2>8, <2>9, <3>3, OtrosPagan
  <2>10. CASE x # v
    <3>1. Pot(x)' = Pot(x)
      BY <2>8, <2>10 DEF Pot, Potencia
    <3> QED
      BY <1>2, <1>3, <1>4, <1>5, <1>7, <2>7, <2>8, <2>10, <3>1, OtrosPagan
  <2> QED
    BY <2>9, <2>10
<1>11. CASE GuardarFila
  <2>1. /\ pc[Cron] = "guardar" /\ pc'[Cron] \in {"libre", "lote"} /\ lote' = lote /\ llamadas' = llamadas
        /\ obj[Cron] \notin DOMAIN lote
        /\ \A y \in Ventas \ {obj[Cron]} : comp'[y] = comp[y]
        /\ \/ comp'[obj[Cron]] = mem[Cron] /\ fallas' = fallas
           \/ comp' = comp /\ fallas' = fallas + 1
    BY <1>1, <1>11 DEF GuardarFila, Escribe, Ir, externas, Tipos, CronBien
  <2>2. CASE x # obj[Cron]
    <3>1. Pot(x)' = Pot(x)
      BY <2>1, <2>2 DEF Pot, Potencia
    <3>2. fallas' >= fallas
      BY <1>7, <2>1
    <3> QED
      BY <1>2, <1>3, <1>4, <1>5, <1>7, <2>1, <3>1, <3>2, OtrosPagan
  <2>3. CASE x = obj[Cron]
    <3>1. Pot(x)' = Potencia(comp'[x])
      BY <2>1, <2>3 DEF Pot, Potencia
    <3>2. Pot(x) = Mayor(Potencia(comp[x]) - 1, Potencia(mem[Cron]))
      BY <2>1, <2>3 DEF Pot
    <3>3. CASE comp'[x] = mem[Cron] /\ fallas' = fallas
      <4>1. Pot(x)' <= Pot(x)
        BY <1>4, <1>6, <3>1, <3>2, <3>3 DEF Mayor
      <4> QED
        BY <1>2, <1>3, <1>5, <1>7, <2>1, <3>3, <4>1, OtrosPagan
    <3>4. CASE comp' = comp /\ fallas' = fallas + 1
      <4>1. Pot(x)' <= Pot(x) + 1
        BY <1>4, <1>6, <3>1, <3>2, <3>4 DEF Mayor
      <4>2. caidas' + fallas' = caidas + fallas + 1
        BY <1>2, <1>7, <3>4
      <4> QED
        BY <1>2, <1>3, <1>5, <2>1, <4>1, <4>2, OtrosPagan
    <3> QED
      BY <2>1, <2>3, <3>3, <3>4
  <2> QED
    BY <2>2, <2>3
<1> QED
  BY <1>8, <1>9, <1>10, <1>11 DEF PasoCron

LEMMA AdminPaga ==
  ASSUME IInv, IInv', NEW a \in Admins, PasoAdmin(a), NEW x \in Ventas
  PROVE  Paga(x)
<1>1. /\ Tipos /\ a \notin Workers /\ Workers \subseteq Agentes /\ a \in Agentes /\ a # Cron /\ Cron \in Agentes
      /\ MaxRetries \in Nat
  BY Constantes DEF IInv
<1>2. /\ \A w \in Workers : pc'[w] = pc[w] /\ obj'[w] = obj[w]
      /\ vendidas' = vendidas /\ cola' = cola /\ conTenant' = conTenant /\ caidas' = caidas /\ fallas' = fallas
      /\ llamadas' = llamadas /\ lote' = lote /\ Quieto(Cron)
  BY <1>1, AdminMueve DEF externas, Quieto
<1>3. Trabajo(x)' <= Trabajo(x) /\ Trabajo(x) \in Int /\ Trabajo(x)' \in Int
  BY <1>1, <1>2, TrabajoQuieto, TrabajoEntero
<1>4. Pot(x) \in 0 .. MaxRetries /\ Potencia(comp[x]) \in 0 .. MaxRetries
  BY PotAcotado
<1>5. Pot(x)' \in 0 .. MaxRetries /\ Potencia(comp'[x]) \in 0 .. MaxRetries
  BY PotDespues
<1>6. Potencia(comp'[x]) <= Potencia(comp[x]) => Pot(x)' <= Pot(x)
  BY <1>2, PotEscrito
<1>7. caidas \in Nat /\ fallas \in Nat /\ llamadas[x] \in Nat
  BY <1>1 DEF Tipos
<1>8. CASE comp'[x] = comp[x] /\ Vueltas(x)' = Vueltas(x)
  BY <1>2, <1>3, <1>4, <1>5, <1>6, <1>7, <1>8, OtrosPagan
<1>9. CASE Vueltas(x)' = Vueltas(x) + 1
  BY <1>1, <1>2, <1>3, <1>4, <1>5, <1>7, <1>9 DEF Paga, Gasto
<1>10. CASE \E y \in Ventas : BuscarReintento(a, y) \/ LeerFila(a, y)
  <2>1. comp'[x] = comp[x] /\ Vueltas(x)' = Vueltas(x)
    BY <1>10 DEF BuscarReintento, LeerFila, Vueltas
  <2> QED
    BY <1>8, <2>1
<1>11. CASE GuardarReintento(a)
  <2>1. (comp'[x] = comp[x] /\ Vueltas(x)' = Vueltas(x)) \/ Vueltas(x)' = Vueltas(x) + 1
    BY <1>1, <1>11 DEF GuardarReintento, Tipos, Vueltas
  <2> QED
    BY <1>8, <1>9, <2>1
<1>12. CASE GuardarPDF(a)
  <2>1. (comp'[x] = comp[x] /\ Vueltas(x)' = Vueltas(x)) \/ Vueltas(x)' = Vueltas(x) + 1
    BY <1>1, <1>12 DEF GuardarPDF, Tipos, Vueltas
  <2> QED
    BY <1>8, <1>9, <2>1
<1> QED
  BY <1>10, <1>11, <1>12 DEF PasoAdmin, DescargarPDF, RegenerarPDF, EnviarEmailComprobante

LEMMA EntornoPaga ==
  ASSUME IInv, IInv', NEW x \in Ventas,
         \/ \E y \in Ventas : RegistrarVenta(y) \/ Vence(y)
         \/ CancelarPendientes \/ CambiaCB \/ UNCHANGED vars
  PROVE  Paga(x)
<1>1. /\ Tipos /\ MaxRetries \in Nat /\ caidas \in Nat /\ fallas \in Nat
      /\ FilaBien(comp[x], x, fiscal, caes)
  BY Constantes DEF IInv, FilasBien, Tipos
<1>2. /\ UNCHANGED <<pc, obj, mem, lote>> /\ conTenant' = conTenant /\ caidas' = caidas /\ fallas' = fallas
      /\ llamadas' = llamadas /\ Vueltas(x)' = Vueltas(x)
  BY DEF RegistrarVenta, Vence, CancelarPendientes, CambiaCB, vars, externas, cuentas, agentes, Vueltas
<1>3. Potencia(comp'[x]) <= Potencia(comp[x])
  <2>1. Potencia(comp[x]) \in 0 .. MaxRetries
    BY PotAcotado
  <2>2. CASE comp'[x] = comp[x]
    BY <2>1, <2>2
  <2>3. CASE RegistrarVenta(x) /\ comp'[x] # comp[x]
    <3>1. comp'[x] = Fila("pendiente", "espera") /\ comp[x] = SinFila
      BY <1>1, <2>3 DEF RegistrarVenta, Tipos, IInv, FilasBien
    <3> QED
      BY <1>1, <3>1 DEF Potencia, SinFila, Fila
  <2>4. CASE Vence(x)
    <3>1. comp'[x].estado = comp[x].estado /\ comp'[x].retry = comp[x].retry
      BY <1>1, <2>4 DEF Vence, Tipos, Filas
    <3> QED
      BY <2>1, <3>1 DEF Potencia
  <2>5. CASE CancelarPendientes
    <3>1. comp'[x] = comp[x] \/ comp'[x].estado = "error"
      <4>1. x \in DOMAIN comp /\ DOMAIN comp = Ventas /\ comp[x] \in Filas
        BY <1>1 DEF Tipos
      <4>2. comp'[x] = comp[x] \/ comp'[x] = [comp[x] EXCEPT !.estado = "error", !.next = "null"]
        BY <2>5, <4>1 DEF CancelarPendientes
      <4>3. "estado" \in DOMAIN comp[x]
        BY <4>1 DEF Filas
      <4> QED
        BY <4>2, <4>3
    <3> QED
      BY <2>1, <3>1 DEF Potencia
  <2> QED
    BY <1>1, <2>2, <2>3, <2>4, <2>5 DEF RegistrarVenta, Vence, CambiaCB, vars, Tipos
<1>4. Pot(x)' <= Pot(x) /\ Pot(x)' \in Int
  BY <1>1, <1>2, <1>3, PotEscrito, PotDespues DEF Quieto
<1>5. Trabajo(x)' <= Trabajo(x)
  <2>1. PorLlamar(x)' => PorLlamar(x)
    BY <1>2 DEF RegistrarVenta, Vence, CancelarPendientes, CambiaCB, vars, PorLlamar, Ocupa
  <2>2. \A w \in Workers : /\ Ocupa(w, x, {"guardar"})' => Ocupa(w, x, {"guardar"})
                           /\ Ocupa(w, x, {"pdf"})' => Ocupa(w, x, {"guardar", "pdf"})
    BY <1>2 DEF Ocupa
  <2> QED
    BY <2>1, <2>2, TrabajoBaja
<1> QED
  BY <1>1, <1>2, <1>4, <1>5, OtrosPagan

LEMMA CaidaPaga ==
  ASSUME IInv, IInv', NEW x \in Ventas, Caida
  PROVE  Paga(x)
<1>1. /\ UNCHANGED <<vendidas, cola, comp, conTenant, llamadas, fallas, obj>> /\ Vueltas(x)' = Vueltas(x)
      /\ caidas' = caidas + 1 /\ DOMAIN lote' = {}
      /\ \A a \in Agentes : pc'[a] = "libre"
  BY DEF Caida, externas, Vueltas
<1>2. /\ Workers \subseteq Agentes /\ Cron \in Agentes /\ MaxRetries \in Nat /\ caidas \in Nat /\ fallas \in Nat
  BY Constantes DEF IInv, Tipos
<1>3. Trabajo(x)' <= Trabajo(x)
  <2>1. PorLlamar(x)' => PorLlamar(x)
    BY <1>1, <1>2 DEF PorLlamar, Ocupa
  <2>2. \A w \in Workers : ~Ocupa(w, x, {"guardar"})' /\ ~Ocupa(w, x, {"pdf"})'
    BY <1>1, <1>2 DEF Ocupa
  <2> QED
    BY <2>1, <2>2, TrabajoBaja
<1>4. Pot(x)' = Potencia(comp[x])
  BY <1>1, <1>2 DEF Pot, Potencia
<1>5. Potencia(comp[x]) <= Pot(x) + 1 /\ Pot(x)' \in Int
  BY <1>2, PotAcotado, PotDespues
<1>6. caidas' + fallas' = caidas + fallas + 1
  BY <1>1, <1>2
<1> QED
  BY <1>1, <1>3, <1>4, <1>5, <1>6, OtrosPagan

(* What a worker is going to save has counted its call. *)
LEMMA CopiasSiguenContadas ==
  ASSUME IInv, CopiasContadas, [Next]_vars
  PROVE  CopiasContadas'
<1> SUFFICES ASSUME NEW w \in Workers, pc'[w] \in {"guardar", "pdf"}
             PROVE  Potencia(mem'[w]) <= MaxRetries - 1
  BY DEF CopiasContadas, Potencia
<1>1. /\ Tipos /\ w \in Agentes /\ w # Cron /\ w \notin Admins /\ MaxRetries \in Nat \ {0}
      /\ FilaBien(mem[w], obj[w], fiscal, caes) /\ WorkerBien(w) /\ obj[w] \in Ventas
  BY Constantes DEF IInv, AgentesBien, Tipos
<1>2. CASE Quieto(w)
  BY <1>2 DEF Quieto, CopiasContadas
<1>3. CASE PasoWorker(w) /\ ~Quieto(w)
  <2>1. pc[w] \in {"emitir", "guardar"} /\ (EmitirTicket(w) \/ LlamarAFIP(w) \/ Guardar(w))
    BY <1>1, <1>3 DEF PasoWorker, Tomar, Buscar, Crear, EmitirTicket, LlamarAFIP, Guardar, GenerarPDF, Ir, Fin, Tipos
  <2>2. CASE EmitirTicket(w)
    <3>1. mem'[w].estado = "emitido"
      BY <1>1, <2>2 DEF EmitirTicket, Ir, Tipos, FilaBien, Filas
    <3> QED
      BY <1>1, <3>1 DEF Potencia
  <2>3. CASE LlamarAFIP(w)
    <3>1. PICK r \in Resultados : Facturar(obj[w], r) /\ Ir(w, "guardar", obj[w], ResultadoWorker(mem[w], obj[w], r))
      BY <2>3 DEF LlamarAFIP
    <3>2. PICK fila : fila = ResultadoWorker(mem[w], obj[w], r)
      OBVIOUS
    <3>3. pc[w] = "emitir" /\ obj[w] \in fiscal
      BY <2>3 DEF LlamarAFIP
    <3>4. /\ FilaBien(fila, obj[w], fiscal, caes') /\ fila.estado # "ninguno"
          /\ fila.estado = "pendiente" => fila.retry = mem[w].retry + 1
      BY <1>1, <3>1, <3>2, <3>3, ResultadoWorkerBien DEF WorkerBien
    <3>5. mem[w].retry \in Nat /\ mem'[w] = fila
      BY <1>1, <3>1, <3>2 DEF FilaBien, Filas, Ir, Tipos
    <3> QED
      BY <1>1, <3>4, <3>5 DEF Potencia
  <2>4. CASE Guardar(w)
    BY <1>1, <2>4 DEF Guardar, Ir, Tipos, CopiasContadas
  <2> QED
    BY <2>1, <2>2, <2>3, <2>4
<1>4. CASE \E u \in Workers \ {w} : PasoWorker(u)
  <2>1. Quieto(w)
    BY <1>1, <1>4 DEF PasoWorker, Tomar, Buscar, Crear, EmitirTicket, LlamarAFIP, Guardar, GenerarPDF, Ir, Fin, Tipos, Quieto
  <2> QED
    BY <1>2, <2>1
<1>5. CASE PasoCron \/ DetenerLote
  <2>1. Quieto(w)
    BY <1>1, <1>5, Constantes DEF PasoCron, ListarPendientes, ReintentarFila, GuardarFila, DetenerLote, Ir, Fin, Tipos, Quieto
  <2> QED
    BY <1>2, <2>1
<1>6. CASE \E a \in Admins : PasoAdmin(a)
  <2>1. Quieto(w)
    BY <1>1, <1>6, AdminMueve, Constantes
  <2> QED
    BY <1>2, <2>1
<1>7. CASE Caida
  BY <1>1, <1>7 DEF Caida
<1>8. CASE \/ \E v \in Ventas : RegistrarVenta(v) \/ Vence(v)
           \/ CancelarPendientes \/ CambiaCB \/ UNCHANGED vars
  <2>1. Quieto(w)
    BY <1>8 DEF RegistrarVenta, Vence, CancelarPendientes, CambiaCB, vars, agentes, Quieto
  <2> QED
    BY <1>2, <2>1
<1> QED
  BY <1>2, <1>3, <1>4, <1>5, <1>6, <1>7, <1>8 DEF Next

(* facturacion_worker.go:25 bounds the retries of a comprobante by          *)
(* MaxComprobanteRetries, but workers, cron and administrators overwrite    *)
(* each other's counters.  However they interleave, AFIP is called for a    *)
(* sale at most three times that often, once more for every restart and     *)
(* every refused write, and that often again for every manual reset and for *)
(* every save of a PDF's path that puts an older copy of the row back.      *)
THEOREM LlamadasAcotadas == Spec => []IntentosAcotados
<1>1. Init => CopiasContadas /\ Presupuesto
  <2> SUFFICES ASSUME Init PROVE CopiasContadas /\ Presupuesto
    OBVIOUS
  <2>1. CopiasContadas
    BY Constantes DEF Init, CopiasContadas
  <2>2. ASSUME NEW v \in Ventas PROVE Gasto(v) <= Tope(v)
    <3>1. Trabajo(v) = 2 * MaxRetries
      BY DEF Init, Trabajo, PorLlamar
    <3>2. Pot(v) = MaxRetries
      BY Constantes DEF Init, Pot, Potencia, SinFila, Fila
    <3>3. llamadas[v] = 0 /\ Vueltas(v) = 0 /\ caidas = 0 /\ fallas = 0
      BY DEF Init, Vueltas
    <3> QED
      BY <3>1, <3>2, <3>3, Constantes DEF Gasto, Tope
  <2> QED
    BY <2>1, <2>2 DEF Presupuesto, Gasto
<1>2. IInv /\ IInv' /\ CopiasContadas /\ Presupuesto /\ [Next]_vars => CopiasContadas' /\ Presupuesto'
  <2> SUFFICES ASSUME IInv, IInv', CopiasContadas, Presupuesto, [Next]_vars
               PROVE  CopiasContadas' /\ Presupuesto'
    OBVIOUS
  <2>1. ASSUME NEW x \in Ventas, conTenant PROVE Paga(x)
    BY <2>1, WorkerPaga, CronPaga, AdminPaga, EntornoPaga, CaidaPaga DEF Next
  <2>2. conTenant' = conTenant
    BY DEF Next, PasoWorker, PasoCron, RegistrarVenta, Vence, Tomar, Buscar, Crear, EmitirTicket, LlamarAFIP,
           Guardar, GenerarPDF, ListarPendientes, ReintentarFila, GuardarFila, DetenerLote, PasoAdmin,
           GuardarReintento, BuscarReintento, DescargarPDF, RegenerarPDF, EnviarEmailComprobante, LeerFila,
           GuardarPDF, CancelarPendientes, CambiaCB, Caida, Facturar, externas, vars
  <2> QED
    BY <2>1, <2>2, PresupuestoSigue, CopiasSiguenContadas
<1>3. IInv /\ Presupuesto => IntentosAcotados
  <2> SUFFICES ASSUME IInv, Presupuesto, conTenant, NEW v \in Ventas
               PROVE  llamadas[v] <= MaxRetries * (3 + reintentos[v] + pisadas[v]) + caidas + fallas
    BY DEF IntentosAcotados
  <2>1. llamadas[v] + Pot(v) + Trabajo(v) <= Tope(v)
    BY DEF Presupuesto
  <2>2. Pot(v) \in Nat /\ Trabajo(v) \in Nat /\ llamadas[v] \in Nat /\ reintentos[v] \in Nat /\ pisadas[v] \in Nat
        /\ caidas \in Nat /\ fallas \in Nat
    <3>1. Pot(v) \in 0 .. MaxRetries /\ Trabajo(v) \in 0 .. 2 * MaxRetries
      BY PotAcotado, TrabajoEntero
    <3> QED
      BY <3>1, Constantes DEF IInv, Tipos
  <2>3. Tope(v) \in Int
    BY <2>2, Constantes DEF Tope, Vueltas
  <2>4. llamadas[v] <= Tope(v)
    BY <2>1, <2>2, <2>3
  <2>5. 3 + (reintentos[v] + pisadas[v]) = 3 + reintentos[v] + pisadas[v]
    BY <2>2
  <2> QED
    BY <2>4, <2>5 DEF Tope, Vueltas
<1> QED
  BY <1>1, <1>2, <1>3, Invariance, PTL DEF Spec
=============================================================================
